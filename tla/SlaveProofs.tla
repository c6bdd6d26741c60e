---------------------------- MODULE SlaveProofs -----------------------------
(***************************************************************************)
(* What the Slave's state machine guarantees for any set of masters and    *)
(* both answers to the two questions about nb_loop_in_current_state().     *)
(***************************************************************************)
EXTENDS Slave, TLAPS

\* The manager is stopped from the first wakeup of disconnected on, in whichever way the
\* wakeups are counted.
ManagerStopped ==
    (st = "disconnected" /\ mpc # "off" /\ ~(mpc = "handler" /\ first)) => ~rm

\* A first_ka_received that is pending was read in this very wakeup of connecting, or an
\* earlier connecting left it behind.
KeepaliveRead ==
    ("first_ka_received" \in evts /\ mpc # "off" /\ ~(st = "init" /\ mpc = "handler")) =>
        kaLeft \/ (st = "connecting" /\ kaRead /\ mpc \in Checks)

\* The read takes place in a state other than init, and the thread is off while the owner is.
Positions ==
    /\ mpc = "read" => st # "init"
    /\ owner = "stopped" => mpc = "off"

SInv == Positions /\ ManagerStopped /\ KeepaliveRead

-----------------------------------------------------------------------------
(* Type correctness, in parts.                                             *)

Flags ==
    /\ first \in BOOLEAN /\ running \in BOOLEAN
    /\ rm \in BOOLEAN /\ keepalive_mngt \in BOOLEAN /\ ka \in BOOLEAN /\ stray \in BOOLEAN
    /\ open \in BOOLEAN /\ peerGone \in BOOLEAN
    /\ dipThrew \in BOOLEAN /\ kaRead \in BOOLEAN /\ kaLeft \in BOOLEAN
Places ==
    /\ st \in States
    /\ mpc \in {"off", "handler", "read"} \cup Checks
    /\ mpc = "check2" => st # "init"
    /\ mpc = "check3" => st \in {"connecting", "connected"}
    /\ owner \in {"stopped", "started", "joining"}
Data ==
    /\ evts \subseteq Events
    /\ master_id \in Masters \cup {NoMaster}
    /\ lastHip \in Masters \cup {NoMaster}

LEMMA FlagsStep == ASSUME TypeOK, [Next]_vars PROVE Flags'
  <1> USE SlaveAssumption DEF TypeOK, Flags, machine, timers, history
  <1>1. CASE ThreadExit \/ HandlerInit \/ HandlerDisconnected \/ HandlerLater \/ ReadNothing
    <2>1. CASE ThreadExit
      BY <2>1 DEF ThreadExit, StopManager
    <2>2. CASE HandlerInit
      BY <2>2 DEF HandlerInit, StopManager
    <2>3. CASE HandlerDisconnected
      BY <2>3 DEF HandlerDisconnected, StopManager
    <2>4. CASE HandlerLater
      BY <2>4 DEF HandlerLater, StopManager
    <2>5. CASE ReadNothing
      BY <2>5 DEF ReadNothing, StopManager
    <2> QED
      BY <1>1, <2>1, <2>2, <2>3, <2>4, <2>5
  <1>2. CASE EnterConnecting \/ EnterConnectingThrows
    BY <1>2 DEF EnterConnecting, EnterConnectingThrows, StartKeepalive, Kept, Throw
  <1>3. CASE ReadKaConnecting \/ ReadConnected \/ ReadThrows
    <2>1. CASE ReadKaConnecting
      BY <2>1 DEF ReadKaConnecting, KeepaliveTimer, Throw
    <2>2. CASE ReadConnected
      BY <2>2 DEF ReadConnected, KeepaliveTimer, Throw
    <2>3. CASE ReadThrows
      BY <2>3 DEF ReadThrows, KeepaliveTimer, Throw
    <2> QED
      BY <1>3, <2>1, <2>2, <2>3
  <1>4. CASE \E m \in Masters : ReadHipDisconnected(m) \/ ReadHipConnected(m)
    BY <1>4 DEF ReadHipDisconnected, ReadHipConnected, StopKeepalive, StopManager
  <1>5. \A s, c : Goto(s, c) => first' \in BOOLEAN
    BY DEF Goto
  <1>6. CASE CheckTrue \/ CheckHipReceived
    BY <1>5, <1>6 DEF CheckTrue, CheckHipReceived, Stay
  <1>7. CASE CheckTransportClosed \/ CheckKaTimeout \/ CheckConnected
    <2>1. CASE CheckTransportClosed
      BY <1>5, <2>1 DEF CheckTransportClosed, Stay, Pass
    <2>2. CASE CheckKaTimeout
      BY <1>5, <2>2 DEF CheckKaTimeout, Stay, Pass
    <2>3. CASE CheckConnected
      BY <1>5, <2>3 DEF CheckConnected, Stay, Pass
    <2> QED
      BY <1>7, <2>1, <2>2, <2>3
  <1>8. CASE Start
    BY <1>8 DEF Start
  <1>9. CASE Join \/ TransportAccept \/ PeerDies
    <2>1. CASE Join
      BY <2>1 DEF Join, StopManager
    <2>2. CASE TransportAccept
      BY <2>2 DEF TransportAccept, StopManager
    <2>3. CASE PeerDies
      BY <2>3 DEF PeerDies, StopManager
    <2> QED
      BY <1>9, <2>1, <2>2, <2>3
  <1>10. CASE KaTimeout \/ Stop \/ TransportClose
    <2>1. CASE KaTimeout
      BY <2>1 DEF KaTimeout
    <2>2. CASE Stop
      BY <2>2 DEF Stop
    <2>3. CASE TransportClose
      BY <2>3 DEF TransportClose
    <2> QED
      BY <1>10, <2>1, <2>2, <2>3
  <1>11. CASE UNCHANGED vars
    BY <1>11 DEF vars
  <1> QED
    BY <1>1, <1>2, <1>3, <1>4, <1>6, <1>7, <1>8, <1>9, <1>10, <1>11 DEF Next, SlaveThread

LEMMA PlacesStep == ASSUME TypeOK, [Next]_vars PROVE Places'
  <1> USE DEF TypeOK, Places, States, Checks, machine, timers, history
  <1>1. CASE ThreadExit \/ HandlerInit \/ CheckTrue \/ HandlerDisconnected \/ HandlerLater
             \/ ReadNothing
    BY <1>1 DEF ThreadExit, HandlerInit, CheckTrue, HandlerDisconnected, HandlerLater, ReadNothing,
                Goto
  <1>2. CASE EnterConnecting \/ EnterConnectingThrows
    BY <1>2 DEF EnterConnecting, EnterConnectingThrows, Throw
  <1>3. CASE ReadKaConnecting \/ ReadConnected \/ ReadThrows
    BY <1>3 DEF ReadKaConnecting, ReadConnected, ReadThrows, Throw
  <1>4. CASE \E m \in Masters : ReadHipDisconnected(m) \/ ReadHipConnected(m)
    BY <1>4 DEF ReadHipDisconnected, ReadHipConnected
  <1>5. CASE CheckTransportClosed \/ CheckHipReceived \/ CheckKaTimeout \/ CheckConnected
    BY <1>5 DEF CheckTransportClosed, CheckHipReceived, CheckKaTimeout, CheckConnected, Goto,
                Stay, Pass
  <1>6. CASE \/ KaTimeout \/ Start \/ Stop \/ Join \/ TransportClose \/ TransportAccept
             \/ PeerDies \/ UNCHANGED vars
    BY <1>6 DEF KaTimeout, Start, Stop, Join, TransportClose, TransportAccept, PeerDies, vars
  <1> QED
    BY <1>1, <1>2, <1>3, <1>4, <1>5, <1>6 DEF Next, SlaveThread

LEMMA DataStep == ASSUME TypeOK, [Next]_vars PROVE Data'
  <1> USE DEF TypeOK, Data, Events, machine, history
  <1>1. CASE ThreadExit \/ HandlerInit \/ CheckTrue \/ HandlerDisconnected \/ HandlerLater
             \/ ReadNothing
    BY <1>1 DEF ThreadExit, HandlerInit, CheckTrue, HandlerDisconnected, HandlerLater, ReadNothing,
                Goto
  <1>2. CASE EnterConnecting \/ EnterConnectingThrows
    BY <1>2 DEF EnterConnecting, EnterConnectingThrows
  <1>3. CASE ReadKaConnecting \/ ReadConnected \/ ReadThrows
    BY <1>3 DEF ReadKaConnecting, ReadConnected, ReadThrows
  <1>4. CASE \E m \in Masters : ReadHipDisconnected(m) \/ ReadHipConnected(m)
    BY <1>4 DEF ReadHipDisconnected, ReadHipConnected, SetMasterId
  <1>5. CASE CheckTransportClosed \/ CheckHipReceived \/ CheckKaTimeout \/ CheckConnected
    BY <1>5 DEF CheckTransportClosed, CheckHipReceived, CheckKaTimeout, CheckConnected, Goto,
                Stay, Pass
  <1>6. CASE \/ KaTimeout \/ Start \/ Stop \/ Join \/ TransportClose \/ TransportAccept
             \/ PeerDies \/ UNCHANGED vars
    BY <1>6 DEF KaTimeout, Start, Stop, Join, TransportClose, TransportAccept, PeerDies, TimeoutCb,
                vars
  <1> QED
    BY <1>1, <1>2, <1>3, <1>4, <1>5, <1>6 DEF Next, SlaveThread

\* The fields of the Slave and the positions of the threads keep their types, and each state
\* is left only after its own checks.
THEOREM SlaveTypeCorrect == Spec => []TypeOK
  <1>1. Init => TypeOK
    BY DEF Init, TypeOK, States, Events, Checks
  <1>2. TypeOK /\ [Next]_vars => TypeOK'
    BY FlagsStep, PlacesStep, DataStep DEF TypeOK, Flags, Places, Data
  <1> QED
    BY <1>1, <1>2, PTL DEF Spec

-----------------------------------------------------------------------------
\* The invariant behind the Slave's properties: what a pending event and the manager's thread
\* say about the state, in every interleaving of the Slave's thread with the timer's callback,
\* the transport and the owner.
LEMMA SInvStep == ASSUME TypeOK, SInv, [Next]_vars PROVE SInv'
  <1> USE DEF TypeOK, SInv, Positions, ManagerStopped, KeepaliveRead, machine, timers, history,
              Checks
  <1>1. CASE ThreadExit \/ HandlerInit \/ CheckTrue
    BY <1>1 DEF ThreadExit, HandlerInit, CheckTrue, Goto
  <1>2. CASE HandlerDisconnected \/ HandlerLater \/ ReadNothing
    BY <1>2 DEF HandlerDisconnected, HandlerLater, ReadNothing, StopManager
  <1>3. CASE EnterConnecting \/ EnterConnectingThrows
    BY <1>3 DEF EnterConnecting, EnterConnectingThrows, Throw
  <1>4. CASE ReadKaConnecting \/ ReadConnected \/ ReadThrows
    BY <1>4 DEF ReadKaConnecting, ReadConnected, ReadThrows, Throw
  <1>5. CASE \E m \in Masters : ReadHipDisconnected(m) \/ ReadHipConnected(m)
    BY <1>5 DEF ReadHipDisconnected, ReadHipConnected
  <1>6. CASE CheckTransportClosed
    BY <1>6 DEF CheckTransportClosed, Goto, Pass
  <1>7. CASE CheckHipReceived
    BY <1>7 DEF CheckHipReceived, Goto, Stay
  <1>8. CASE CheckKaTimeout \/ CheckConnected
    BY <1>8 DEF CheckKaTimeout, CheckConnected, Goto, Stay, Pass
  <1>9. CASE \/ KaTimeout \/ Start \/ Stop \/ Join \/ TransportClose \/ TransportAccept
             \/ PeerDies \/ UNCHANGED vars
    BY <1>9 DEF KaTimeout, Start, Stop, Join, TransportClose, TransportAccept, PeerDies,
                StopManager, TimeoutCb, vars
  <1> QED
    BY <1>1, <1>2, <1>3, <1>4, <1>5, <1>6, <1>7, <1>8, <1>9 DEF Next, SlaveThread

THEOREM SInvHolds == Spec => []SInv
  <1>1. Init => SInv
    BY DEF Init, SInv, Positions, ManagerStopped, KeepaliveRead
  <1> QED
    BY <1>1, SInvStep, SlaveTypeCorrect, PTL DEF Spec

-----------------------------------------------------------------------------
\* A session that is watched stays watched: only the callback stops the timer without a
\* successor, and it leaves its event; a master that starts over leaves hip_received.
LEMMA WatchedStep == ASSUME TypeOK, SInv, SessionWatched, [Next]_vars PROVE SessionWatched'
  <1> USE DEF TypeOK, SInv, Positions, SessionWatched, InSession, machine, timers, history, Checks
  <1>1. CASE ThreadExit \/ HandlerInit \/ CheckTrue
    BY <1>1 DEF ThreadExit, HandlerInit, CheckTrue, Goto
  <1>2. CASE HandlerDisconnected \/ HandlerLater \/ ReadNothing
    BY <1>2 DEF HandlerDisconnected, HandlerLater, ReadNothing
  <1>3. CASE EnterConnecting \/ EnterConnectingThrows
    BY <1>3 DEF EnterConnecting, EnterConnectingThrows, StartKeepalive, Throw
  <1>4. CASE ReadKaConnecting \/ ReadConnected \/ ReadThrows
    BY <1>4 DEF ReadKaConnecting, ReadConnected, ReadThrows, KeepaliveTimer, Throw
  <1>5. CASE \E m \in Masters : ReadHipDisconnected(m) \/ ReadHipConnected(m)
    BY <1>5 DEF ReadHipDisconnected, ReadHipConnected
  <1>6. CASE CheckTransportClosed \/ CheckKaTimeout
    BY <1>6 DEF CheckTransportClosed, CheckKaTimeout, Goto, Pass
  <1>7. CASE CheckHipReceived
    BY <1>7 DEF CheckHipReceived, Goto, Stay
  <1>8. CASE CheckConnected
    BY <1>8 DEF CheckConnected, Goto, Stay
  <1>9. CASE \/ KaTimeout \/ Start \/ Stop \/ Join \/ TransportClose \/ TransportAccept
             \/ PeerDies \/ UNCHANGED vars
    BY <1>9 DEF KaTimeout, Start, Stop, Join, TransportClose, TransportAccept, PeerDies,
                StopManager, TimeoutCb, vars
  <1> QED
    BY <1>1, <1>2, <1>3, <1>4, <1>5, <1>6, <1>7, <1>8, <1>9 DEF Next, SlaveThread

\* The keep-alive timer watches every session and nothing else.
THEOREM TimerFollowsSessionHolds == Spec => []TimerFollowsSession
  <1>1. Init => SessionWatched
    BY DEF Init, SessionWatched, InSession
  <1>2. SInv => NoTimerWhileDisconnected
    BY DEF SInv, ManagerStopped, NoTimerWhileDisconnected
  <1> QED
    BY <1>1, <1>2, WatchedStep, SlaveTypeCorrect, SInvHolds, PTL DEF Spec, TimerFollowsSession

\* The identification shown is empty or the one of the last HIP, in whichever state the HIP
\* was taken.
THEOREM IdentityIsLatestHolds == Spec => []IdentityIsLatest
  <1>1. Init => IdentityIsLatest
    BY DEF Init, IdentityIsLatest
  <1>2. ASSUME IdentityIsLatest, [Next]_vars PROVE IdentityIsLatest'
    <2> USE DEF IdentityIsLatest, history
    <2>1. CASE \E m \in Masters : ReadHipDisconnected(m) \/ ReadHipConnected(m)
      BY <2>1 DEF ReadHipDisconnected, ReadHipConnected, SetMasterId
    <2>2. CASE HandlerInit
      BY <2>2 DEF HandlerInit
    <2>3. CASE UNCHANGED <<master_id, lastHip>>
      BY <1>2, <2>3
    <2> QED
      BY <1>2, <2>1, <2>2, <2>3 DEF Next, SlaveThread, ThreadExit, CheckTrue,
         HandlerDisconnected, EnterConnecting, EnterConnectingThrows, HandlerLater, ReadNothing,
         ReadKaConnecting, ReadConnected, ReadThrows, CheckTransportClosed, CheckHipReceived,
         CheckKaTimeout, CheckConnected, KaTimeout, Start, Stop, Join, TransportClose,
         TransportAccept, PeerDies, vars
  <1> QED
    BY <1>1, <1>2, PTL DEF Spec

\* Connected is entered by a keep-alive of this handshake or of one that left it behind, and
\* by nothing else: no step but check_connected takes connecting to connected.
THEOREM ConnectedByKeepaliveHolds == Spec => ConnectedByKeepalive
  <1> DEFINE Connects == st = "connecting" /\ st' = "connected"
  <1>1. ASSUME SInv, [Next]_vars PROVE Connects => kaRead \/ kaLeft
    <2> SUFFICES ASSUME Connects PROVE kaRead \/ kaLeft
      OBVIOUS
    <2>1. CheckConnected
      BY <1>1 DEF Next, SlaveThread, ThreadExit, HandlerInit, CheckTrue, HandlerDisconnected,
         EnterConnecting, EnterConnectingThrows, HandlerLater, ReadNothing, ReadHipDisconnected,
         ReadHipConnected, ReadKaConnecting, ReadConnected, ReadThrows, CheckTransportClosed,
         CheckHipReceived, CheckKaTimeout, KaTimeout, Start, Stop, Join, TransportClose,
         TransportAccept, PeerDies, Goto, Stay, Pass, Throw, machine, vars
    <2>2. mpc = "check3" /\ "first_ka_received" \in evts
      BY <2>1 DEF CheckConnected, Stay
    <2> QED
      BY <1>1, <2>2 DEF SInv, KeepaliveRead
  <1>2. SInv /\ [Next]_vars => [Connects => kaRead \/ kaLeft]_vars
    BY <1>1
  <1> QED
    BY <1>2, SInvHolds, PTL DEF Spec, ConnectedByKeepalive
=============================================================================
