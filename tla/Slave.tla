------------------------------- MODULE Slave --------------------------------
(***************************************************************************)
(* appli::Slave with slave::RequestManager (slave.h, slave.cpp,            *)
(* slave_request.h, slave_request.cpp): the device's side of a session.    *)
(*                                                                         *)
(* The Slave thread runs the state machine and makes every call of its     *)
(* request manager; the manager's own thread only runs ka_timeout_cb.  As  *)
(* in Master, the peer is arbitrary (a read gives any packet or nothing),  *)
(* timers are untimed, and the transport closes at any time; here it also  *)
(* opens again by itself, as tcp::Server does with the next connection.    *)
(* Identifications are abstracted to the master they name.  errc_ is no    *)
(* variable: check_transport_closed overwrites it in every wakeup, and     *)
(* nothing but the report to the application depends on it.                *)
(***************************************************************************)
EXTENDS Naturals

CONSTANTS
    Masters,        \* hosts that may identify themselves
    NoMaster,       \* the empty Identification
    ThrowCounts,    \* does a wakeup() that throws count in nb_loop_in_current_state()?
    SelfCounts      \* does disconnected -> disconnected keep nb_loop_in_current_state()?

ASSUME SlaveAssumption ==
    /\ NoMaster \notin Masters
    /\ ThrowCounts \in BOOLEAN
    /\ SelfCounts \in BOOLEAN

VARIABLES
    \* fields of Slave and its statemachine_
    st, first,          \* curr_state(), nb_loop_in_current_state() == 1
    evts,               \* the events pending in evt_mngr_
    master_id,
    running,            \* Thread::is_running()
    \* request_manager_ and transport_
    rm,                 \* is its thread running?
    keepalive_mngt,
    ka,                 \* is the timer keepalive_id_ names armed?
    stray,              \* is an older timer, or a callback collected before its erase, to come?
    open,
    peerGone,           \* the peer stopped sending without closing the connection
    \* where the threads are
    mpc,                \* the Slave thread
    owner,              \* the thread that calls start() and stop()
    \* history
    lastHip,            \* the master of the last identification that was taken
    dipThrew,           \* send_dip threw in this connecting: no timer was armed
    kaRead,             \* a keep-alive was taken since connecting was entered
    kaLeft              \* first_ka_received was left behind by a connecting that ended

machine == <<st, first>>
timers  == <<rm, keepalive_mngt, ka, stray>>
history == <<lastHip, dipThrew, kaRead, kaLeft>>
vars    == <<machine, evts, master_id, running, timers, open, peerGone, mpc, owner, history>>

Events == {"hip_received", "first_ka_received", "ka_timeout"}
States == {"init", "disconnected", "connecting", "connected"}
Checks == {"check1", "check2", "check3"}

Init ==
    /\ st = "init" /\ first = TRUE
    /\ evts = {}
    /\ master_id = NoMaster
    /\ running = FALSE
    /\ rm = FALSE /\ keepalive_mngt = FALSE /\ ka = FALSE /\ stray = FALSE
    /\ open = FALSE /\ peerGone = FALSE
    /\ mpc = "off" /\ owner = "stopped"
    /\ lastHip = NoMaster
    /\ dipThrew = FALSE /\ kaRead = FALSE /\ kaLeft = FALSE

-----------------------------------------------------------------------------
(* The ends of Statemachine::wakeup.                                       *)

Goto(s, consumed) ==
    /\ st' = s
    /\ first' = (s # st \/ ~SelfCounts)
    /\ evts' = evts \ consumed
    /\ mpc' = "handler"

Stay ==
    /\ first' = FALSE
    /\ mpc' = "handler"
    /\ UNCHANGED <<st, evts>>

Throw ==
    /\ first' = (first /\ ~ThrowCounts)
    /\ mpc' = "handler"
    /\ UNCHANGED st

\* This check says stay: the next one is evaluated.
Pass(k) == mpc' = k /\ UNCHANGED <<machine, evts>>

-----------------------------------------------------------------------------
(* The Slave thread.                                                       *)

ThreadExit ==
    /\ mpc = "handler" /\ ~running
    /\ mpc' = "off"
    /\ UNCHANGED <<machine, evts, master_id, running, timers, open, peerGone, owner, history>>

HandlerInit ==
    /\ mpc = "handler" /\ running /\ st = "init"
    /\ evts' = {}
    /\ master_id' = NoMaster
    /\ kaLeft' = FALSE
    /\ mpc' = "check1"
    /\ UNCHANGED <<machine, running, timers, open, peerGone, owner, lastHip, dipThrew, kaRead>>

CheckTrue ==
    /\ mpc = "check1" /\ st = "init"
    /\ Goto("disconnected", {})
    /\ UNCHANGED <<master_id, running, timers, open, peerGone, owner, history>>

\* RequestManager::stop() joins the manager's thread, if it runs.
StopManager == rm' = FALSE

StopKeepalive == keepalive_mngt' = FALSE /\ ka' = FALSE

HandlerDisconnected ==
    /\ mpc = "handler" /\ running /\ st = "disconnected"
    /\ IF first THEN StopManager ELSE UNCHANGED rm
    /\ mpc' = "read"
    /\ UNCHANGED <<machine, evts, master_id, running, keepalive_mngt, ka, stray, open,
                   peerGone, owner, history>>

\* RequestManager::start(): what is set stays so if the manager runs already; otherwise the
\* queue is cleared and keepalive_mngt_ reset before the thread starts.
Kept(x) == rm /\ x

\* start_keepalive_management: keepalive_id_ forgets a timer armed before.
StartKeepalive ==
    /\ keepalive_mngt' = TRUE /\ ka' = TRUE
    /\ stray' = Kept(stray \/ ka)

\* The first wakeup in connecting: the manager is started, the identification sent and the
\* keep-alive timer armed ...
EnterConnecting ==
    /\ mpc = "handler" /\ running /\ st = "connecting" /\ first
    /\ rm' = TRUE
    /\ StartKeepalive
    /\ kaRead' = FALSE /\ dipThrew' = FALSE
    /\ mpc' = "read"
    /\ UNCHANGED <<machine, evts, master_id, running, open, peerGone, owner, lastHip, kaLeft>>

\* ... unless the write of send_dip throws: the transport closed since is_open(), or it stays
\* open (the USB device's queue is full, its transfer cannot be submitted).
EnterConnectingThrows ==
    /\ mpc = "handler" /\ running /\ st = "connecting" /\ first
    /\ open /\ open' \in BOOLEAN
    /\ rm' = TRUE
    /\ keepalive_mngt' = Kept(keepalive_mngt) /\ ka' = Kept(ka) /\ stray' = Kept(stray)
    /\ kaRead' = FALSE /\ dipThrew' = TRUE
    /\ Throw
    /\ UNCHANGED <<evts, master_id, running, peerGone, owner, lastHip, kaLeft>>

HandlerLater ==
    /\ mpc = "handler" /\ running
    /\ st = "connected" \/ (st = "connecting" /\ ~first)
    /\ mpc' = "read"
    /\ UNCHANGED <<machine, evts, master_id, running, timers, open, peerGone, owner, history>>

\* The read times out, or gives a packet that is only logged: a HIP in connecting is one.
ReadNothing ==
    /\ mpc = "read"
    /\ mpc' = "check1"
    /\ UNCHANGED <<machine, evts, master_id, running, timers, open, peerGone, owner, history>>

\* An identification packet has all four blocks (make_hip), so nothing of an earlier
\* identification is left.
SetMasterId(m) == master_id' = m

ReadHipDisconnected(m) ==
    /\ mpc = "read" /\ st = "disconnected" /\ ~peerGone
    /\ SetMasterId(m) /\ lastHip' = m
    /\ evts' = evts \cup {"hip_received"}
    /\ mpc' = "check1"
    /\ UNCHANGED <<machine, running, timers, open, peerGone, owner, dipThrew, kaRead, kaLeft>>

MUT_ReadHipConnected(m) ==
    /\ mpc = "read" /\ st = "connected" /\ ~peerGone
    /\ lastHip' = m
    /\ rm' = FALSE /\ keepalive_mngt' = FALSE /\ ka' = FALSE
    /\ evts' = evts \cup {"hip_received"}
    /\ mpc' = "check1"
    /\ UNCHANGED <<machine, master_id, running, stray, open, peerGone, owner, dipThrew,
                   kaRead, kaLeft>>

\* A master that starts over: its identification is dropped, the manager stopped.
ReadHipConnected(m) ==
    /\ mpc = "read" /\ st = "connected" /\ ~peerGone
    /\ master_id' = NoMaster /\ lastHip' = m
    /\ StopKeepalive /\ StopManager
    /\ evts' = evts \cup {"hip_received"}
    /\ mpc' = "check1"
    /\ UNCHANGED <<machine, running, stray, open, peerGone, owner, dipThrew, kaRead, kaLeft>>

MUT_KeepaliveTimer ==
    /\ ka' = (ka /\ ~keepalive_mngt)
    /\ stray' \in {stray, stray \/ (ka /\ keepalive_mngt)}

\* RequestManager::keepalive: the timer is replaced; its callback may already be collected.
KeepaliveTimer ==
    /\ ka' = (ka \/ keepalive_mngt)
    /\ stray' \in {stray, stray \/ (ka /\ keepalive_mngt)}

ReadKaConnecting ==
    /\ mpc = "read" /\ st = "connecting" /\ ~peerGone
    /\ KeepaliveTimer
    /\ evts' = evts \cup {"first_ka_received"}
    /\ kaRead' = TRUE
    /\ mpc' = "check1"
    /\ UNCHANGED <<machine, master_id, running, rm, keepalive_mngt, open, peerGone, owner,
                   lastHip, dipThrew, kaLeft>>

\* A keep-alive, or a command (which counts as one, is acknowledged and executed).
ReadConnected ==
    /\ mpc = "read" /\ st = "connected" /\ ~peerGone
    /\ KeepaliveTimer
    /\ mpc' = "check1"
    /\ UNCHANGED <<machine, evts, master_id, running, rm, keepalive_mngt, open, peerGone, owner,
                   history>>

\* An acknowledgement throws after the timer was replaced: its write as above, or a command has
\* no block.  The checks of this wakeup are skipped.
ReadThrows ==
    /\ mpc = "read" /\ st \in {"connecting", "connected"} /\ ~peerGone
    /\ KeepaliveTimer
    /\ open /\ open' \in BOOLEAN
    /\ Throw
    /\ UNCHANGED <<evts, master_id, running, rm, keepalive_mngt, peerGone, owner, history>>

CheckTransportClosed ==
    /\ mpc = "check1" /\ st # "init"
    /\ \/ /\ ~open /\ Goto("disconnected", {})
          /\ kaLeft' = (kaLeft \/ (st = "connecting" /\ "first_ka_received" \in evts))
       \/ open /\ Pass("check2") /\ UNCHANGED kaLeft
    /\ UNCHANGED <<master_id, running, timers, open, peerGone, owner, lastHip, dipThrew, kaRead>>

MUT_CheckHipReceived ==
    /\ <<st, mpc>> \in {<<"disconnected", "check2">>, <<"connected", "check3">>}
    /\ IF "hip_received" \in evts /\ st = "disconnected" THEN Goto("connecting", {"hip_received"}) ELSE Stay
    /\ UNCHANGED <<master_id, running, timers, open, peerGone, owner, history>>

CheckHipReceived ==
    /\ <<st, mpc>> \in {<<"disconnected", "check2">>, <<"connected", "check3">>}
    /\ IF "hip_received" \in evts THEN Goto("connecting", {"hip_received"}) ELSE Stay
    /\ UNCHANGED <<master_id, running, timers, open, peerGone, owner, history>>

CheckKaTimeout ==
    /\ mpc = "check2" /\ st \in {"connecting", "connected"}
    /\ IF "ka_timeout" \in evts
       THEN /\ Goto("disconnected", {"ka_timeout"})
            /\ kaLeft' = (kaLeft \/ (st = "connecting" /\ "first_ka_received" \in evts))
       ELSE Pass("check3") /\ UNCHANGED kaLeft
    /\ UNCHANGED <<master_id, running, timers, open, peerGone, owner, lastHip, dipThrew, kaRead>>

MUT_CheckConnected ==
    /\ mpc = "check3" /\ st = "connecting"
    /\ IF "first_ka_received" \in evts
       THEN Goto("connected", {}) /\ kaLeft' = FALSE
       ELSE Stay /\ UNCHANGED kaLeft
    /\ UNCHANGED <<master_id, running, timers, open, peerGone, owner, lastHip, dipThrew, kaRead>>

CheckConnected ==
    /\ mpc = "check3" /\ st = "connecting"
    /\ IF "first_ka_received" \in evts
       THEN Goto("connected", {"first_ka_received"}) /\ kaLeft' = FALSE
       ELSE Stay /\ UNCHANGED kaLeft
    /\ UNCHANGED <<master_id, running, timers, open, peerGone, owner, lastHip, dipThrew, kaRead>>

SlaveThread ==
    \/ ThreadExit \/ HandlerInit \/ CheckTrue \/ HandlerDisconnected
    \/ EnterConnecting \/ EnterConnectingThrows \/ HandlerLater
    \/ ReadNothing \/ ReadKaConnecting \/ ReadConnected \/ ReadThrows
    \/ \E m \in Masters : ReadHipDisconnected(m) \/ ReadHipConnected(m)
    \/ CheckTransportClosed \/ CheckHipReceived \/ CheckKaTimeout \/ CheckConnected

-----------------------------------------------------------------------------
(* The other threads.                                                      *)

TimeoutCb == evts' = evts \cup {"ka_timeout"}

\* ka_timeout_cb, of the timer keepalive_id_ names or of an older one.
KaTimeout ==
    /\ rm /\ (ka \/ stray)
    /\ \/ ka /\ ka' = FALSE /\ UNCHANGED stray
       \/ stray /\ stray' = FALSE /\ UNCHANGED ka
    /\ TimeoutCb
    /\ UNCHANGED <<machine, master_id, running, rm, keepalive_mngt, open, peerGone, mpc, owner,
                   lastHip, dipThrew, kaRead, kaLeft>>

\* start(): the transport listens; it is open once a connection is accepted.
Start ==
    /\ owner = "stopped"
    /\ running' = TRUE
    /\ st' = "init" /\ first' = TRUE
    /\ mpc' = "handler"
    /\ owner' = "started"
    /\ UNCHANGED <<evts, master_id, timers, open, peerGone, history>>

Stop ==
    /\ owner = "started" /\ ~(st = "init" /\ mpc = "handler")
    /\ running' = FALSE
    /\ owner' = "joining"
    /\ UNCHANGED <<machine, evts, master_id, timers, open, peerGone, mpc, history>>

Join ==
    /\ owner = "joining" /\ mpc = "off"
    /\ StopManager
    /\ open' = FALSE /\ peerGone' = FALSE
    /\ owner' = "stopped"
    /\ UNCHANGED <<machine, evts, master_id, running, keepalive_mngt, ka, stray, mpc,
                   history>>

TransportClose ==
    /\ open /\ open' = FALSE
    /\ peerGone' = FALSE
    /\ UNCHANGED <<machine, evts, master_id, running, timers, mpc, owner, history>>

TransportAccept ==
    /\ ~open /\ owner # "stopped" /\ open' = TRUE
    /\ peerGone' = FALSE
    /\ UNCHANGED <<machine, evts, master_id, running, timers, mpc, owner, history>>

\* The host crashes or is unplugged; nothing tells the transport.
PeerDies ==
    /\ open /\ ~peerGone
    /\ peerGone' = TRUE
    /\ UNCHANGED <<machine, evts, master_id, running, timers, open, mpc, owner, history>>

Next == \/ SlaveThread \/ KaTimeout \/ Start \/ Stop \/ Join
        \/ TransportClose \/ TransportAccept \/ PeerDies

Spec == Init /\ [][Next]_vars

\* Both threads are scheduled, and an armed timer that is not replaced expires.
FairSpec == Spec /\ WF_vars(SlaveThread) /\ WF_vars(KaTimeout)

-----------------------------------------------------------------------------
(* Properties.                                                             *)

\* The values the fields and the threads' positions can have: each state has its own checks.
TypeOK ==
    /\ st \in States /\ first \in BOOLEAN
    /\ evts \subseteq Events
    /\ master_id \in Masters \cup {NoMaster}
    /\ running \in BOOLEAN
    /\ rm \in BOOLEAN /\ keepalive_mngt \in BOOLEAN /\ ka \in BOOLEAN /\ stray \in BOOLEAN
    /\ open \in BOOLEAN /\ peerGone \in BOOLEAN
    /\ mpc \in {"off", "handler", "read"} \cup Checks
    /\ mpc = "check2" => st # "init"
    /\ mpc = "check3" => st \in {"connecting", "connected"}
    /\ owner \in {"stopped", "started", "joining"}
    /\ lastHip \in Masters \cup {NoMaster}
    /\ dipThrew \in BOOLEAN /\ kaRead \in BOOLEAN /\ kaLeft \in BOOLEAN

InSession == st = "connected" \/ (st = "connecting" /\ (mpc \in {"read"} \cup Checks \/ ~first))

\* A session is never left unwatched: in connecting (past its first handler) and in connected
\* the keep-alive timer runs, or its timeout is pending, or the master starts over, except
\* where send_dip threw.  Without this a silent master would hold the device for ever.
SessionWatched ==
    (InSession /\ mpc # "off") =>
        \/ ka /\ rm
        \/ evts \cap {"ka_timeout", "hip_received"} # {}
        \/ dipThrew

\* No timer of an old session can fire while the device waits for a HIP: the manager's thread
\* is stopped before the first read in disconnected.
NoTimerWhileDisconnected == (st = "disconnected" /\ mpc = "read") => ~rm

\* The keep-alive timer watches a session and nothing else.
TimerFollowsSession == TypeOK /\ SessionWatched /\ NoTimerWhileDisconnected

\* The identification a device shows is never that of an earlier master: it is empty or the
\* one of the last HIP that was taken, in whichever state it was taken.
IdentityIsLatest == master_id \in {NoMaster, lastHip}

\* A device becomes connected by a keep-alive read in this handshake, or by one that an
\* earlier handshake read and left behind when it ended in the same wakeup; the event of a
\* handshake that succeeded never counts twice.
ConnectedByKeepalive ==
    [][st = "connecting" /\ st' = "connected" => kaRead \/ kaLeft]_vars

\* A master that dies silently is noticed: the device goes back to disconnected.
DeadPeerNoticed ==
    (peerGone /\ st \in {"connecting", "connected"} /\ ~dipThrew)
        ~> (st = "disconnected" \/ ~peerGone \/ ~running \/ dipThrew)

\* A master that starts over while the device is connected gets an answer: the device enters
\* connecting, which sends the identification, unless the connection is lost first.
HipHonoured ==
    (st = "connected" /\ "hip_received" \in evts /\ running) ~> (st = "connecting" \/ ~running \/ ~open)
=============================================================================
