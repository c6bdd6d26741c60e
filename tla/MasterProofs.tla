---------------------------- MODULE MasterProofs ----------------------------
(***************************************************************************)
(* What the Master's state machine guarantees for any number of users, any *)
(* number of attempts, and whether or not a wakeup that throws is counted. *)
(***************************************************************************)
EXTENDS Master, TLAPS

\* The handler of the state has not begun yet: what it sets up need not be there.
Entering == mpc = "off" \/ (mpc = "handler" /\ first)

\* Where the Master thread can be in each state, and where it is while the owner sleeps.
Positions ==
    /\ mpc = "wait" => st = "disconnected"
    /\ mpc = "hip" => st = "connecting"
    /\ mpc \in {"read", "check2", "check3"} => st \in {"connecting", "connected"}
    /\ owner = "stopped" => mpc = "off"

\* The manager runs from the first wakeup of connecting to the first one of disconnected.
ManagerRuns ==
    /\ (st = "disconnected" /\ ~Entering) => rm = "off"
    /\ (st = "connected" /\ mpc # "off") \/ (st = "connecting" /\ ~Entering) => rm # "off"

\* A dip_received that is pending during an attempt is that attempt's own, so it is an answer
\* to it that takes the Master to connected.
DipIsOwn ==
    /\ (st = "connecting" /\ ~Entering /\ "dip_received" \in evts) => gotDip /\ slave_id
    /\ st = "connected" => gotDip /\ slave_id

\* What errc_ holds was thrown in the present state, and what a transition reports ended the
\* state it left.
ErrorsOwn ==
    /\ errc \in {"none", "thrown"}
    /\ errc # "none" => threw
    /\ threw => \/ st \in {"connecting", "connected"}
                \/ mpc = "off" \/ (st = "init" /\ mpc = "handler")
    /\ told # "none" => mpc = "handler" /\ first /\ st # "init"
    /\ told = "dip_timeout" => st = "disconnected" /\ connection_attempts >= MaxAttempts
    /\ told = "ka_timeout" => st = "disconnected" /\ gotDip
    /\ told = "transport" => st = "disconnected" /\ ~open

\* The first wakeup of an attempt always sends.
FirstSends == (mpc = "hip" /\ first) => connection_attempts = 0

MInv == Positions /\ ManagerRuns /\ DipIsOwn /\ ErrorsOwn /\ FirstSends

-----------------------------------------------------------------------------
\* What the other threads leave alone: the state machine, the Master thread's position, the
\* identification and the attempt are changed by the Master thread and by start() only.
Others == RmThread \/ Stop \/ Join \/ TransportClose \/ \E u \in Users : User(u)

\* A step of the manager's thread, of the application or of the transport: no answer to an
\* attempt is invented or lost by it.
LEMMA OthersStep ==
    ASSUME Others
    PROVE  /\ UNCHANGED <<machine, mpc, slave_id, connection_attempts, gotDip, hipThrew, reports>>
           /\ "dip_received" \in evts' <=> "dip_received" \in evts
           /\ "dip_timeout" \in evts => "dip_timeout" \in evts'
           /\ rm' = rm \/ (rm = "on" /\ rm' = "dead") \/ (mpc = "off" /\ rm' = "off")
           /\ open' => open
           /\ owner' = "stopped" => mpc = "off" \/ owner = "stopped"
  <1>1. CASE RmThread
    BY <1>1 DEF RmThread, DipTimeout, StrayDipTimeout, KaTimeout, KaRearm, RmDies, TimeoutCb,
                machine, history, timers
  <1>2. CASE Stop \/ Join \/ TransportClose
    BY <1>2 DEF Stop, Join, TransportClose, history, machine
  <1>3. ASSUME NEW u \in Users, User(u)
        PROVE  /\ UNCHANGED <<machine, mpc, slave_id, connection_attempts, rm, open, owner>>
               /\ UNCHANGED <<gotDip, hipThrew, reports>>
               /\ "dip_received" \in evts' <=> "dip_received" \in evts
               /\ "dip_timeout" \in evts => "dip_timeout" \in evts'
    BY <1>3 DEF User, CallAsyncConnect, CallAsyncDisconnect, CallConnect, InConnect, Notify,
                AttemptWait, AttemptErase, Verdict, Return, history, machine
  <1> QED
    BY <1>1, <1>2, <1>3 DEF Others

-----------------------------------------------------------------------------
\* TypeOK in parts: the Boolean fields, and those that name a place or an error.
Flags ==
    /\ first \in BOOLEAN /\ slave_id \in BOOLEAN /\ running \in BOOLEAN /\ open \in BOOLEAN
    /\ dip \in BOOLEAN /\ stray \in BOOLEAN /\ kaMngt \in BOOLEAN /\ kaTimer \in BOOLEAN
    /\ gotDip \in BOOLEAN /\ kaExpired \in BOOLEAN /\ hipThrew \in BOOLEAN /\ threw \in BOOLEAN
Places ==
    /\ st \in States
    /\ errc \in Errors /\ told \in Errors
    /\ rm \in {"off", "on", "dead"}
    /\ mpc \in {"off", "handler", "wait", "hip", "read"} \cup Checks
    /\ owner \in {"stopped", "started", "joining"}

LEMMA FlagsStep == ASSUME TypeOK, [Next]_vars PROVE Flags'
  <1> USE DEF TypeOK, Flags, machine, timers, history, reports
  <1>1. CASE ThreadExit \/ HandlerInit \/ CheckTrue \/ HandlerDisconnected \/ EventWait
             \/ CheckConnectionRequested
    <2>1. CASE ThreadExit
      BY <2>1 DEF ThreadExit
    <2>2. CASE HandlerInit
      BY <2>2 DEF HandlerInit
    <2>3. CASE CheckTrue
      BY <2>3 DEF CheckTrue, Goto, Stay
    <2>4. CASE HandlerDisconnected
      BY <2>4 DEF HandlerDisconnected
    <2>5. CASE EventWait
      BY <2>5 DEF EventWait
    <2>6. CASE CheckConnectionRequested
      BY <2>6 DEF CheckConnectionRequested, Goto, Stay
    <2> QED
      BY <1>1, <2>1, <2>2, <2>3, <2>4, <2>5, <2>6
  <1>2. CASE EnterConnecting \/ HandlerConnecting \/ NoHip \/ ReadNothing \/ ReadDip
    <2>1. CASE EnterConnecting
      BY <2>1 DEF EnterConnecting
    <2>2. CASE HandlerConnecting
      BY <2>2 DEF HandlerConnecting
    <2>3. CASE NoHip
      BY <2>3 DEF NoHip
    <2>4. CASE ReadNothing
      BY <2>4 DEF ReadNothing
    <2>5. CASE ReadDip
      BY <2>5 DEF ReadDip, SetSlaveId
    <2> QED
      BY <1>2, <2>1, <2>2, <2>3, <2>4, <2>5
  <1>3. CASE SendHip \/ SendHipThrows
    BY <1>3 DEF SendHip, SendHipThrows, Throw
  <1>4. CASE CheckTransportClosed \/ CheckDipTimeout \/ CheckConnected \/ CheckKaTimeout
             \/ CheckDisconnected
    <2>1. CASE CheckTransportClosed
      BY <2>1 DEF CheckTransportClosed, Goto, Stay
    <2>2. CASE CheckDipTimeout
      BY <2>2 DEF CheckDipTimeout, Goto, Stay
    <2>3. CASE CheckConnected
      BY <2>3 DEF CheckConnected, Goto, Stay
    <2>4. CASE CheckKaTimeout
      BY <2>4 DEF CheckKaTimeout, Goto, Stay
    <2>5. CASE CheckDisconnected
      BY <2>5 DEF CheckDisconnected, Goto, Stay
    <2> QED
      BY <1>4, <2>1, <2>2, <2>3, <2>4, <2>5
  <1>5. CASE EnterConnected \/ HandlerConnected \/ ReadKaAck \/ ReadBadAck
    <2>1. CASE EnterConnected
      BY <2>1 DEF EnterConnected, Throw
    <2>2. CASE HandlerConnected
      BY <2>2 DEF HandlerConnected
    <2>3. CASE ReadKaAck
      BY <2>3 DEF ReadKaAck
    <2>4. CASE ReadBadAck
      BY <2>4 DEF ReadBadAck, Throw
    <2> QED
      BY <1>5, <2>1, <2>2, <2>3, <2>4
  <1>6. CASE RmThread
    <2>1. CASE DipTimeout
      BY <2>1 DEF DipTimeout
    <2>2. CASE StrayDipTimeout
      BY <2>2 DEF StrayDipTimeout
    <2>3. CASE KaTimeout
      BY <2>3 DEF KaTimeout
    <2>4. CASE KaRearm
      BY <2>4 DEF KaRearm
    <2>5. CASE RmDies
      BY <2>5 DEF RmDies
    <2> QED
      BY <1>6, <2>1, <2>2, <2>3, <2>4, <2>5 DEF RmThread
  <1>7. CASE Start \/ Stop \/ Join \/ TransportClose \/ UNCHANGED vars
    <2>1. CASE Start
      BY <2>1 DEF Start
    <2>2. CASE Stop
      BY <2>2 DEF Stop
    <2>3. CASE Join
      BY <2>3 DEF Join
    <2>4. CASE TransportClose
      BY <2>4 DEF TransportClose
    <2>5. CASE UNCHANGED vars
      BY <2>5 DEF vars
    <2> QED
      BY <1>7, <2>1, <2>2, <2>3, <2>4, <2>5
  <1>8. CASE \E u \in Users : User(u)
    BY <1>8 DEF User, CallAsyncConnect, CallAsyncDisconnect, CallConnect, InConnect, Notify,
                AttemptWait, AttemptErase, Verdict, Return
  <1> QED
    BY <1>1, <1>2, <1>3, <1>4, <1>5, <1>6, <1>7, <1>8 DEF Next, MasterThread

LEMMA PlacesStep == ASSUME TypeOK, [Next]_vars PROVE Places'
  <1> USE DEF TypeOK, Places, States, Errors, Checks, machine, timers, history, reports
  <1>1. CASE ThreadExit \/ HandlerInit \/ CheckTrue \/ HandlerDisconnected \/ EventWait
             \/ CheckConnectionRequested
    BY <1>1 DEF ThreadExit, HandlerInit, CheckTrue, HandlerDisconnected, EventWait,
                CheckConnectionRequested, Goto, Stay
  <1>2. CASE EnterConnecting \/ HandlerConnecting \/ NoHip \/ ReadNothing \/ ReadDip \/ SendHip
             \/ SendHipThrows
    BY <1>2 DEF EnterConnecting, HandlerConnecting, NoHip, ReadNothing, ReadDip, SetSlaveId,
                SendHip, SendHipThrows, Throw
  <1>3. CASE CheckTransportClosed \/ CheckDipTimeout \/ CheckConnected \/ CheckKaTimeout
             \/ CheckDisconnected
    BY <1>3 DEF CheckTransportClosed, CheckDipTimeout, CheckConnected, CheckKaTimeout,
                CheckDisconnected, Goto, Stay
  <1>4. CASE EnterConnected \/ HandlerConnected \/ ReadKaAck \/ ReadBadAck
    BY <1>4 DEF EnterConnected, HandlerConnected, ReadKaAck, ReadBadAck, Throw
  <1>5. CASE RmThread
    BY <1>5 DEF RmThread, DipTimeout, StrayDipTimeout, KaTimeout, KaRearm, RmDies
  <1>6. CASE Start \/ Stop \/ Join \/ TransportClose \/ UNCHANGED vars
    BY <1>6 DEF Start, Stop, Join, TransportClose, vars
  <1>7. CASE \E u \in Users : User(u)
    BY <1>7 DEF User, CallAsyncConnect, CallAsyncDisconnect, CallConnect, InConnect, Notify,
                AttemptWait, AttemptErase, Verdict, Return
  <1> QED
    BY <1>1, <1>2, <1>3, <1>4, <1>5, <1>6, <1>7 DEF Next, MasterThread

\* No event but those of the code is ever notified.
LEMMA EventsStep == ASSUME TypeOK, [Next]_vars PROVE evts' \subseteq Events
  <1> USE DEF TypeOK, Events, machine
  <1>1. CASE ThreadExit \/ HandlerInit \/ CheckTrue \/ HandlerDisconnected \/ EventWait
             \/ CheckConnectionRequested
    BY <1>1 DEF ThreadExit, HandlerInit, CheckTrue, HandlerDisconnected, EventWait,
                CheckConnectionRequested, Goto
  <1>2. CASE EnterConnecting \/ HandlerConnecting \/ NoHip \/ ReadNothing \/ ReadDip \/ SendHip
             \/ SendHipThrows
    BY <1>2 DEF EnterConnecting, HandlerConnecting, NoHip, ReadNothing, ReadDip, SendHip,
                SendHipThrows, CountAttempt
  <1>3. CASE CheckTransportClosed \/ CheckDipTimeout \/ CheckConnected \/ CheckKaTimeout
             \/ CheckDisconnected
    BY <1>3 DEF CheckTransportClosed, CheckDipTimeout, CheckConnected, CheckKaTimeout,
                CheckDisconnected, Goto
  <1>4. CASE EnterConnected \/ HandlerConnected \/ ReadKaAck \/ ReadBadAck \/ RmThread
    BY <1>4 DEF EnterConnected, HandlerConnected, ReadKaAck, ReadBadAck, RmThread, DipTimeout,
                StrayDipTimeout, KaTimeout, KaRearm, RmDies, TimeoutCb
  <1>5. CASE Start \/ Stop \/ Join \/ TransportClose \/ UNCHANGED vars
    BY <1>5 DEF Start, Stop, Join, TransportClose, vars
  <1>6. CASE \E u \in Users : User(u)
    BY <1>6 DEF User, CallAsyncConnect, CallAsyncDisconnect, CallConnect, InConnect, Notify,
                AttemptWait, AttemptErase, Verdict, Return
  <1> QED
    BY <1>1, <1>2, <1>3, <1>4, <1>5, <1>6 DEF Next, MasterThread

\* The calls in progress and the number of attempts.
LEMMA CountsStep ==
    ASSUME TypeOK, [Next]_vars
    PROVE  upc' \in [Users -> Calls] /\ connection_attempts' \in 0 .. AttemptCap
  <1>1. connection_attempts \in 0 .. AttemptCap /\ upc \in [Users -> Calls]
    BY DEF TypeOK
  <1>2. CASE SendHip \/ SendHipThrows
    BY <1>1, <1>2, MasterAssumption DEF SendHip, SendHipThrows, CountAttempt
  <1>3. CASE EnterConnecting
    BY <1>1, <1>3, MasterAssumption DEF EnterConnecting
  <1>4. CASE \E u \in Users : User(u)
    BY <1>1, <1>4 DEF User, CallAsyncConnect, CallAsyncDisconnect, CallConnect, InConnect, Notify,
                      AttemptWait, AttemptErase, Verdict, Return, Move, Calls
  <1>5. CASE /\ ~SendHip /\ ~SendHipThrows /\ ~EnterConnecting
             /\ MasterThread
    BY <1>1, <1>5 DEF MasterThread, ThreadExit, HandlerInit, CheckTrue, HandlerDisconnected,
         EventWait, CheckConnectionRequested, HandlerConnecting, NoHip, ReadNothing, ReadDip,
         CheckTransportClosed, CheckDipTimeout, CheckConnected, EnterConnected, HandlerConnected,
         ReadKaAck, ReadBadAck, CheckKaTimeout, CheckDisconnected
  <1>6. CASE RmThread \/ Start \/ Stop \/ Join \/ TransportClose \/ UNCHANGED vars
    BY <1>1, <1>6 DEF RmThread, DipTimeout, StrayDipTimeout, KaTimeout, KaRearm, RmDies, Start,
                      Stop, Join, TransportClose, vars
  <1> QED
    BY <1>2, <1>3, <1>4, <1>5, <1>6 DEF Next

\* The fields of the Master and the positions of the threads keep their types.
THEOREM MasterTypeCorrect == Spec => []TypeOK
  <1>1. Init => TypeOK
    <2>1. Init => connection_attempts \in 0 .. AttemptCap
      BY MasterAssumption DEF Init
    <2>2. Init => upc \in [Users -> Calls] /\ evts \subseteq Events /\ Flags /\ Places
      BY DEF Init, Calls, Flags, Places, States, Errors
    <2> QED
      BY <2>1, <2>2 DEF TypeOK, Flags, Places
  <1>2. TypeOK /\ [Next]_vars => TypeOK'
    BY FlagsStep, PlacesStep, EventsStep, CountsStep DEF TypeOK, Flags, Places
  <1> QED
    BY <1>1, <1>2, PTL DEF Spec

\* Every step that the Master thread takes in a handler of init or disconnected, or that is
\* not the thread's, keeps MInv; the session's own steps are in SessionStep.
LEMMA QuietStep ==
    ASSUME TypeOK, MInv,
           \/ ThreadExit \/ HandlerInit \/ CheckTrue \/ HandlerDisconnected \/ EventWait
           \/ CheckConnectionRequested \/ Start \/ Others \/ UNCHANGED vars
    PROVE  MInv'
  <1> USE DEF MInv, Positions, ManagerRuns, DipIsOwn, ErrorsOwn, FirstSends, Entering
  <1>1. CASE ThreadExit \/ EventWait
    BY <1>1 DEF ThreadExit, EventWait, machine, history, reports
  <1>2. CASE HandlerInit
    BY <1>2 DEF HandlerInit, machine, history, reports
  <1>3. CASE CheckTrue
    BY <1>3 DEF CheckTrue, Goto, history, reports
  <1>4. CASE HandlerDisconnected
    BY <1>4 DEF HandlerDisconnected, machine, history, TypeOK
  <1>5. CASE CheckConnectionRequested
    BY <1>5 DEF CheckConnectionRequested, Goto, Stay, history, reports
  <1>6. CASE Start
    BY <1>6 DEF Start, history, reports
  <1>7. CASE Others
    BY <1>7, OthersStep DEF machine, reports
  <1>8. CASE UNCHANGED vars
    BY <1>8 DEF vars, machine, history, reports
  <1> QED
    BY <1>1, <1>2, <1>3, <1>4, <1>5, <1>6, <1>7, <1>8

\* A wakeup whose checks all say stay keeps MInv.
LEMMA StayStep ==
    ASSUME TypeOK, MInv, Stay, mpc = "check3",
           UNCHANGED <<evts, slave_id, connection_attempts, running, rm, timers, open, owner, upc>>
    PROVE  MInv'
  <1>1. /\ mpc' = "handler" /\ first' = FALSE
        /\ UNCHANGED <<st, errc, threw, told, gotDip>>
    BY DEF Stay, history, reports
  <1>2. told = "none" /\ st \in {"connecting", "connected"}
    BY DEF MInv, ErrorsOwn, Positions
  <1> QED
    BY <1>1, <1>2 DEF MInv, Positions, ManagerRuns, DipIsOwn, ErrorsOwn, FirstSends, Entering

\* The steps of the Master thread in connecting and connected keep MInv.
LEMMA SessionStep ==
    ASSUME TypeOK, MInv,
           \/ EnterConnecting \/ HandlerConnecting \/ SendHip \/ SendHipThrows \/ NoHip
           \/ ReadNothing \/ ReadDip \/ CheckTransportClosed \/ CheckDipTimeout \/ CheckConnected
           \/ EnterConnected \/ HandlerConnected \/ ReadKaAck \/ ReadBadAck \/ CheckKaTimeout
           \/ CheckDisconnected
    PROVE  MInv'
  <1> USE DEF MInv, Positions, ManagerRuns, DipIsOwn, ErrorsOwn, FirstSends, Entering
  <1>1. CASE EnterConnecting
    BY <1>1 DEF EnterConnecting, machine
  <1>2. CASE HandlerConnecting \/ NoHip \/ ReadNothing
    BY <1>2 DEF HandlerConnecting, NoHip, ReadNothing, machine, history, reports
  <1>3. CASE SendHip \/ SendHipThrows
    <2>1. "dip_received" \in evts' <=> "dip_received" \in evts
      BY <1>3 DEF SendHip, SendHipThrows, CountAttempt
    <2> QED
      BY <1>3, <2>1 DEF SendHip, SendHipThrows, Throw, machine, history, reports
  <1>4. CASE ReadDip
    BY <1>4 DEF ReadDip, SetSlaveId, machine, reports
  <1>5. CASE CheckTransportClosed \/ CheckDipTimeout \/ CheckConnected
    <2>1. CASE CheckTransportClosed
      BY <2>1 DEF CheckTransportClosed, Goto, machine, history, reports
    <2>2. CASE CheckDipTimeout
      BY <2>2 DEF CheckDipTimeout, Goto, machine, history, reports
    <2>3. CASE CheckConnected
      <3>1. CASE "dip_received" \in evts
        BY <2>3, <3>1 DEF CheckConnected, Goto, history, reports
      <3>2. CASE "dip_received" \notin evts
        BY <2>3, <3>2, StayStep DEF CheckConnected
      <3> QED
        BY <3>1, <3>2
    <2> QED
      BY <1>5, <2>1, <2>2, <2>3
  <1>6. CASE EnterConnected \/ HandlerConnected \/ ReadKaAck \/ ReadBadAck
    <2>1. CASE EnterConnected
      <3>1. CASE mpc' = "read"
        BY <2>1, <3>1 DEF EnterConnected, Throw, machine, history, reports
      <3>2. CASE mpc' # "read"
        <4>1. /\ st = "connected" /\ mpc = "handler" /\ mpc' = "handler" /\ st' = st
              /\ \/ errc' = "thrown" /\ threw' = TRUE
                 \/ UNCHANGED <<errc, threw>>
              /\ told' = "none"
          BY <2>1, <3>2 DEF EnterConnected, Throw
        <4>2. UNCHANGED <<evts, slave_id, connection_attempts, rm, owner, gotDip>>
          BY <2>1 DEF EnterConnected
        <4> QED
          BY <4>1, <4>2
      <3> QED
        BY <3>1, <3>2
    <2>2. CASE ReadBadAck
      BY <2>2 DEF ReadBadAck, Throw, machine, history, reports
    <2>3. CASE HandlerConnected \/ ReadKaAck
      BY <2>3 DEF HandlerConnected, ReadKaAck, machine, history, reports
    <2> QED
      BY <1>6, <2>1, <2>2, <2>3
  <1>7. CASE CheckKaTimeout \/ CheckDisconnected
    <2>1. CASE CheckKaTimeout
      BY <2>1 DEF CheckKaTimeout, Goto, machine, history, reports
    <2>2. CASE CheckDisconnected
      <3>1. CASE "disconnection_requested" \in evts
        BY <2>2, <3>1 DEF CheckDisconnected, Goto, history, reports
      <3>2. CASE "disconnection_requested" \notin evts
        BY <2>2, <3>2, StayStep DEF CheckDisconnected
      <3> QED
        BY <3>1, <3>2
    <2> QED
      BY <1>7, <2>1, <2>2
  <1> QED
    BY <1>1, <1>2, <1>3, <1>4, <1>5, <1>6, <1>7

\* The inductive invariant behind StateMeaning.
THEOREM MInvHolds == Spec => []MInv
  <1>1. Init => MInv
    BY DEF Init, MInv, Positions, ManagerRuns, DipIsOwn, ErrorsOwn, FirstSends
  <1>2. TypeOK /\ MInv /\ [Next]_vars => MInv'
    BY QuietStep, SessionStep DEF Next, MasterThread, Others
  <1> QED
    BY <1>1, <1>2, MasterTypeCorrect, PTL DEF Spec

\* What the states of the Master stand for: connected is a device that identified itself in
\* this attempt and a manager that runs; disconnected waits with the manager stopped; a timeout
\* or an error of the transport is reported with the end it caused, and no error twice.
THEOREM StateMeaningHolds == Spec => []StateMeaning
  <1>1. TypeOK /\ MInv => StateMeaning
    BY DEF StateMeaning, MInv, ConnectedHasDip, ManagerFollowsState, ErrorHasCause, Positions,
           ManagerRuns, DipIsOwn, ErrorsOwn, Entering, Checks
  <1> QED
    BY <1>1, MasterTypeCorrect, MInvHolds, PTL

-----------------------------------------------------------------------------
\* An attempt that is watched stays watched: a timer is given up only for its event or for
\* the answer, and an event is consumed only by leaving connecting or by the next attempt,
\* which arms a timer of its own.
THEOREM AttemptWatchedHolds == Spec => []AttemptWatched
  <1> DEFINE Watched == \/ dip \/ stray
                        \/ evts \cap {"dip_timeout", "dip_received"} # {}
                        \/ ~open \/ rm = "dead"
             Passed == /\ st = "connecting"
                       /\ \/ mpc \in {"read"} \cup Checks
                          \/ mpc \in {"handler", "hip"} /\ ~first
  <1> USE DEF AttemptWatched, Checks
  <1>1. Init => AttemptWatched
    BY DEF Init
  <1>2. ASSUME TypeOK, MInv, AttemptWatched, [Next]_vars PROVE AttemptWatched'
    <2> USE DEF machine, timers, history, reports
    <2>1. CASE ThreadExit \/ HandlerInit \/ CheckTrue \/ HandlerDisconnected \/ EventWait
               \/ CheckConnectionRequested
      BY <1>2, <2>1 DEF ThreadExit, HandlerInit, CheckTrue, HandlerDisconnected, EventWait,
                        CheckConnectionRequested, Goto, Stay, MInv, Positions
    <2>2. CASE EnterConnecting \/ HandlerConnecting
      BY <1>2, <2>2 DEF EnterConnecting, HandlerConnecting
    <2>3. CASE SendHip \/ SendHipThrows
      BY <2>3 DEF SendHip, SendHipThrows, Throw
    <2>4. CASE NoHip
      BY <1>2, <2>4 DEF NoHip, AttemptDue, MInv, FirstSends, TypeOK
    <2>5. CASE ReadNothing \/ ReadDip
      BY <1>2, <2>5 DEF ReadNothing, ReadDip
    <2>6. CASE CheckTransportClosed \/ CheckDipTimeout
      BY <1>2, <2>6 DEF CheckTransportClosed, CheckDipTimeout, Goto
    <2>7. CASE CheckConnected
      BY <1>2, <2>7 DEF CheckConnected, Goto, Stay
    <2>8. CASE EnterConnected \/ HandlerConnected \/ ReadKaAck \/ ReadBadAck \/ CheckKaTimeout
               \/ CheckDisconnected
      BY <2>8 DEF EnterConnected, HandlerConnected, ReadKaAck, ReadBadAck, CheckKaTimeout,
                  CheckDisconnected, Goto, Stay, Throw
    <2>9. CASE Others
      <3> SUFFICES ASSUME Passed, Watched PROVE Watched'
        BY <1>2, <2>9, OthersStep
      <3>1. mpc # "off"
        OBVIOUS
      <3>2. CASE DipTimeout \/ StrayDipTimeout
        BY <3>2 DEF DipTimeout, StrayDipTimeout, TimeoutCb
      <3>3. CASE ~DipTimeout /\ ~StrayDipTimeout
        <4>1. UNCHANGED <<dip, stray>>
          BY <2>9, <3>3 DEF Others, RmThread, KaTimeout, KaRearm, RmDies, Stop, Join,
               TransportClose, User, CallAsyncConnect, CallAsyncDisconnect, CallConnect,
               InConnect, Notify, AttemptWait, AttemptErase, Verdict, Return
        <4> QED
          BY <1>2, <2>9, <3>1, <4>1, OthersStep DEF TypeOK
      <3> QED
        BY <3>2, <3>3
    <2>10. CASE Start \/ UNCHANGED vars
      BY <1>2, <2>10 DEF Start, vars
    <2> QED
      BY <1>2, <2>1, <2>2, <2>3, <2>4, <2>5, <2>6, <2>7, <2>8, <2>9, <2>10
         DEF Next, MasterThread, Others
  <1> QED
    BY <1>1, <1>2, MasterTypeCorrect, MInvHolds, PTL DEF Spec
=============================================================================
