------------------------------ MODULE Master --------------------------------
(***************************************************************************)
(* appli::Master (master.h, master.cpp): the host's side of a session, a   *)
(* state machine run by the Master thread, driven by the events that the   *)
(* application's threads, the request manager's thread and the Master      *)
(* thread itself put into evt_mngr_.                                       *)
(*                                                                         *)
(* A step is what one thread does between two accesses to evt_mngr_, the   *)
(* state, the manager or the transport that another thread can meet.  The  *)
(* peer is arbitrary: a read gives any packet or nothing, at any time, so  *)
(* the read queue (and clear_queues, which empties it) is not a variable.  *)
(* Timers are untimed: one that is armed may fire at any moment while the  *)
(* manager's thread runs.  MasterRequest has the manager in detail.        *)
(***************************************************************************)
EXTENDS Naturals

CONSTANTS
    Users,          \* threads of the application that use the Master
    MaxAttempts,    \* max_connection_attempts, 3 in the code
    AttemptCap,     \* where connection_attempts_ stops counting (bound)
    ThrowCounts     \* does a wakeup() that throws count in nb_loop_in_current_state()?

ASSUME MasterAssumption ==
    /\ MaxAttempts \in Nat \ {0}
    /\ AttemptCap \in Nat /\ AttemptCap > MaxAttempts
    /\ ThrowCounts \in BOOLEAN

VARIABLES
    \* fields of Master and its statemachine_
    st, first,          \* curr_state(), nb_loop_in_current_state() == 1
    evts,               \* the events pending in evt_mngr_
    errc,
    slave_id,           \* does slave_id_ hold an identification?
    connection_attempts,
    running,            \* Thread::is_running()
    \* request_manager_ and transport_
    rm,                 \* its thread: off, on, or dead of an exception
    dip,                \* is the timer dip_id_ names armed?
    stray,              \* is an older identification timer armed?
    kaMngt, kaTimer,    \* keepalive_mngt_; is a keep-alive timer armed?
    open,
    \* where the threads are
    mpc,                \* the Master thread
    owner,              \* the thread that calls start() and stop()
    upc,                \* per user: the next step of its call
    \* history
    gotDip,             \* an identification was read since connecting was entered
    kaExpired,          \* a keep-alive timed out since connecting was entered
    hipThrew,           \* the last HIP of this attempt threw and left the transport open
    threw,              \* a wakeup threw an hdcp_error since the last transition
    told                \* the error status_cb_ was given in a transition, until the next wakeup

machine == <<st, first, errc>>
timers  == <<dip, stray, kaMngt, kaTimer>>
reports == <<threw, told>>
history == <<gotDip, kaExpired, hipThrew, reports>>
vars    == <<machine, evts, slave_id, connection_attempts, running, rm, timers, open, mpc,
             owner, upc, history>>

Events == {"connection_requested", "disconnection_requested", "dip_received", "dip_timeout",
           "ka_timeout", "stop", "connection_attempt"}
States == {"init", "disconnected", "connecting", "connected"}
Errors == {"none", "dip_timeout", "ka_timeout", "transport", "thrown"}
Checks == {"check1", "check2", "check3"}
Calls  == {"idle", "async_connect", "async_disconnect", "notify", "wait", "erase", "verdict",
           "ok", "connection_failed"}
Waiting == {"notify", "wait", "erase", "verdict"}

Init ==
    /\ st = "init" /\ first = TRUE
    /\ evts = {}
    /\ errc = "none"
    /\ slave_id = FALSE
    /\ connection_attempts = 0
    /\ running = FALSE
    /\ rm = "off"
    /\ dip = FALSE /\ stray = FALSE /\ kaMngt = FALSE /\ kaTimer = FALSE
    /\ open = FALSE
    /\ mpc = "off" /\ owner = "stopped"
    /\ upc = [u \in Users |-> "idle"]
    /\ gotDip = FALSE /\ kaExpired = FALSE /\ hipThrew = FALSE
    /\ threw = FALSE /\ told = "none"

-----------------------------------------------------------------------------
(* The ends of Statemachine::wakeup: a check says goto_next_state, every   *)
(* check says stay, or the handler throws and run() catches it.            *)

MUT_GotoQuiet(s, e, consumed) ==
    /\ st' = s /\ first' = TRUE
    /\ told' = e /\ errc' = "none" /\ threw' = FALSE
    /\ evts' = (evts \ consumed) \cup (IF s = "connected" THEN {"connection_attempt"} ELSE {})
    /\ mpc' = "handler"
    /\ UNCHANGED <<gotDip, kaExpired, hipThrew>>

MUT_GotoKeepsError(s, e, consumed) ==
    /\ st' = s /\ first' = TRUE
    /\ told' = e /\ errc' = e /\ threw' = FALSE
    /\ evts' = (evts \ consumed) \cup (IF st = "connecting" THEN {"connection_attempt"} ELSE {})
    /\ mpc' = "handler"
    /\ UNCHANGED <<gotDip, kaExpired, hipThrew>>

\* The transition handler reports e, what errc_ holds by then, forgets it and wakes a
\* synchronous connect.
Goto(s, e, consumed) ==
    /\ st' = s /\ first' = TRUE
    /\ told' = e /\ errc' = "none" /\ threw' = FALSE
    /\ evts' = (evts \ consumed) \cup (IF st = "connecting" THEN {"connection_attempt"} ELSE {})
    /\ mpc' = "handler"
    /\ UNCHANGED <<gotDip, kaExpired, hipThrew>>

Stay ==
    /\ first' = FALSE
    /\ mpc' = "handler"
    /\ UNCHANGED <<st, errc, history>>

\* run() keeps the code of an hdcp_error, and only logs any other exception.
Throw ==
    /\ \/ errc' = "thrown" /\ threw' = TRUE
       \/ UNCHANGED <<errc, threw>>
    /\ first' = (first /\ ~ThrowCounts)
    /\ mpc' = "handler"
    /\ told' = "none"
    /\ UNCHANGED st

-----------------------------------------------------------------------------
(* The Master thread.                                                      *)

ThreadExit ==
    /\ mpc = "handler" /\ ~running
    /\ mpc' = "off"
    /\ told' = "none"
    /\ UNCHANGED <<machine, evts, slave_id, connection_attempts, running, rm, timers, open,
                   owner, upc, gotDip, kaExpired, hipThrew, threw>>

HandlerInit ==
    /\ mpc = "handler" /\ running /\ st = "init"
    /\ errc' = "none" /\ threw' = FALSE
    /\ evts' = {}
    /\ mpc' = "check1"
    /\ UNCHANGED <<st, first, slave_id, connection_attempts, running, rm, timers, open,
                   owner, upc, gotDip, kaExpired, hipThrew, told>>

CheckTrue ==
    /\ mpc = "check1" /\ st = "init"
    /\ Goto("disconnected", errc, {})
    /\ UNCHANGED <<slave_id, connection_attempts, running, rm, timers, open, owner, upc>>

\* RequestManager::stop() joins the manager's thread: no timer fires after it.
HandlerDisconnected ==
    /\ mpc = "handler" /\ running /\ st = "disconnected"
    /\ slave_id' = (slave_id /\ ~first)
    /\ rm' = IF first THEN "off" ELSE rm
    /\ mpc' = "wait"
    /\ told' = "none"
    /\ UNCHANGED <<machine, evts, connection_attempts, running, timers, open, owner, upc,
                   gotDip, kaExpired, hipThrew, threw>>

EventWait ==
    /\ mpc = "wait" /\ evts # {}
    /\ mpc' = "check1"
    /\ UNCHANGED <<machine, evts, slave_id, connection_attempts, running, rm, timers, open,
                   owner, upc, history>>

CheckConnectionRequested ==
    /\ mpc = "check1" /\ st = "disconnected"
    /\ IF "connection_requested" \in evts
       THEN Goto("connecting", errc, {"connection_requested"})
       ELSE Stay /\ UNCHANGED evts
    /\ UNCHANGED <<slave_id, connection_attempts, running, rm, timers, open, owner, upc>>

MUT_EnterConnecting ==
    /\ mpc = "handler" /\ running /\ st = "connecting" /\ first
    /\ IF rm = "off"
       THEN /\ rm' = "on"
            /\ dip' = FALSE /\ stray' = FALSE /\ kaMngt' = FALSE /\ kaTimer' = FALSE
       ELSE UNCHANGED <<rm, timers>>
    /\ connection_attempts' = 0
    /\ gotDip' = FALSE
    /\ kaExpired' = FALSE /\ hipThrew' = FALSE /\ told' = "none"
    /\ mpc' = "hip"
    /\ UNCHANGED <<machine, evts, slave_id, running, open, owner, upc, threw>>

\* The first wakeup in connecting: start() clears the manager's queue.
EnterConnecting ==
    /\ mpc = "handler" /\ running /\ st = "connecting" /\ first
    /\ IF rm = "off"
       THEN /\ rm' = "on"
            /\ dip' = FALSE /\ stray' = FALSE /\ kaMngt' = FALSE /\ kaTimer' = FALSE
       ELSE UNCHANGED <<rm, timers>>
    /\ evts' = evts \ {"dip_received"}
    /\ connection_attempts' = 0
    /\ gotDip' = FALSE
    /\ kaExpired' = FALSE /\ hipThrew' = FALSE /\ told' = "none"
    /\ mpc' = "hip"
    /\ UNCHANGED <<machine, slave_id, running, open, owner, upc, threw>>

HandlerConnecting ==
    /\ mpc = "handler" /\ running /\ st = "connecting" /\ ~first
    /\ mpc' = "hip"
    /\ UNCHANGED <<machine, evts, slave_id, connection_attempts, running, rm, timers, open,
                   owner, upc, history>>

AttemptDue == connection_attempts = 0 \/ "dip_timeout" \in evts

\* A further attempt consumes dip_timeout; the first one does not look at it.
CountAttempt ==
    /\ connection_attempts' =
         IF connection_attempts = AttemptCap THEN AttemptCap ELSE connection_attempts + 1
    /\ evts' = IF connection_attempts = 0 THEN evts ELSE evts \ {"dip_timeout"}

MUT_SendHip ==
    /\ mpc = "hip" /\ AttemptDue
    /\ CountAttempt
    /\ dip' = (connection_attempts = 0)
    /\ stray' = (stray \/ dip)
    /\ hipThrew' = FALSE
    /\ mpc' = "read"
    /\ UNCHANGED <<machine, slave_id, running, rm, kaMngt, kaTimer, open, owner, upc, gotDip,
                   kaExpired, reports>>

\* send_hip writes if the transport is open and arms the timer; dip_id_ forgets the one
\* armed before.
SendHip ==
    /\ mpc = "hip" /\ AttemptDue
    /\ CountAttempt
    /\ dip' = TRUE
    /\ stray' = (stray \/ dip)
    /\ hipThrew' = FALSE
    /\ mpc' = "read"
    /\ UNCHANGED <<machine, slave_id, running, rm, kaMngt, kaTimer, open, owner, upc, gotDip,
                   kaExpired, reports>>

\* write() throws, and no timer is armed: the transport closed since is_open(), or it stays
\* open (the USB device's queue is full, its transfer cannot be submitted).
SendHipThrows ==
    /\ mpc = "hip" /\ AttemptDue /\ open
    /\ CountAttempt
    /\ open' \in BOOLEAN
    /\ hipThrew' = open'
    /\ Throw
    /\ UNCHANGED <<slave_id, running, rm, timers, owner, upc, gotDip, kaExpired>>

NoHip ==
    /\ mpc = "hip" /\ ~AttemptDue
    /\ mpc' = "read"
    /\ UNCHANGED <<machine, evts, slave_id, connection_attempts, running, rm, timers, open,
                   owner, upc, history>>

\* The read times out, or gives a packet that is only logged.
ReadNothing ==
    /\ mpc = "read"
    /\ mpc' = "check1"
    /\ UNCHANGED <<machine, evts, slave_id, connection_attempts, running, rm, timers, open,
                   owner, upc, history>>

SetSlaveId == slave_id' = TRUE

\* ack_dip erases the timer of the last attempt; its callback may already be collected.
ReadDip ==
    /\ mpc = "read" /\ st = "connecting"
    /\ SetSlaveId
    /\ gotDip' = TRUE
    /\ dip' = FALSE
    /\ stray' \in {stray, stray \/ dip}
    /\ evts' = evts \cup {"dip_received"}
    /\ mpc' = "check1"
    /\ UNCHANGED <<machine, connection_attempts, running, rm, kaMngt, kaTimer, open, owner, upc,
                   kaExpired, hipThrew, reports>>

CheckTransportClosed ==
    /\ mpc = "check1" /\ st \in {"connecting", "connected"}
    /\ \/ ~open /\ Goto("disconnected", "transport", {})
       \/ open /\ mpc' = "check2" /\ UNCHANGED <<machine, evts, history>>
    /\ UNCHANGED <<slave_id, connection_attempts, running, rm, timers, open, owner, upc>>

CheckDipTimeout ==
    /\ mpc = "check2" /\ st = "connecting"
    /\ IF "dip_timeout" \in evts /\ connection_attempts >= MaxAttempts
       THEN Goto("disconnected", "dip_timeout", {"dip_timeout"})
       ELSE mpc' = "check3" /\ UNCHANGED <<machine, evts, history>>
    /\ UNCHANGED <<slave_id, connection_attempts, running, rm, timers, open, owner, upc>>

CheckConnected ==
    /\ mpc = "check3" /\ st = "connecting"
    /\ IF "dip_received" \in evts
       THEN Goto("connected", errc, {"dip_received"})
       ELSE Stay /\ UNCHANGED evts
    /\ UNCHANGED <<slave_id, connection_attempts, running, rm, timers, open, owner, upc>>

\* The first wakeup in connected starts the keep-alive; its write may throw as above, before
\* the keep-alive timer is armed.
EnterConnected ==
    /\ mpc = "handler" /\ running /\ st = "connected" /\ first
    /\ kaMngt' = TRUE
    /\ \/ /\ kaTimer' = TRUE
          /\ mpc' = "read"
          /\ told' = "none"
          /\ UNCHANGED <<machine, open, threw>>
       \/ /\ open
          /\ open' \in BOOLEAN
          /\ Throw
          /\ UNCHANGED kaTimer
    /\ UNCHANGED <<evts, slave_id, connection_attempts, running, rm, dip, stray, owner, upc,
                   gotDip, kaExpired, hipThrew>>

HandlerConnected ==
    /\ mpc = "handler" /\ running /\ st = "connected" /\ ~first
    /\ mpc' = "read"
    /\ UNCHANGED <<machine, evts, slave_id, connection_attempts, running, rm, timers, open,
                   owner, upc, history>>

\* ack_keepalive.
ReadKaAck ==
    /\ mpc = "read" /\ st = "connected"
    /\ kaTimer' = FALSE
    /\ mpc' = "check1"
    /\ UNCHANGED <<machine, evts, slave_id, connection_attempts, running, rm, dip, stray, kaMngt,
                   open, owner, upc, history>>

\* ack_command throws for an acknowledgement that names no pending request: the checks of
\* this wakeup are skipped.
ReadBadAck ==
    /\ mpc = "read" /\ st = "connected"
    /\ Throw
    /\ UNCHANGED <<evts, slave_id, connection_attempts, running, rm, timers, open, owner, upc,
                   gotDip, kaExpired, hipThrew>>

CheckKaTimeout ==
    /\ mpc = "check2" /\ st = "connected"
    /\ IF "ka_timeout" \in evts
       THEN Goto("disconnected", "ka_timeout", {"ka_timeout"})
       ELSE mpc' = "check3" /\ UNCHANGED <<machine, evts, history>>
    /\ UNCHANGED <<slave_id, connection_attempts, running, rm, timers, open, owner, upc>>

MUT_CheckDisconnected ==
    /\ mpc = "check3" /\ st = "connected"
    /\ Stay /\ evts' = evts \ {"disconnection_requested"}
    /\ UNCHANGED <<slave_id, connection_attempts, running, rm, timers, open, owner, upc>>

CheckDisconnected ==
    /\ mpc = "check3" /\ st = "connected"
    /\ IF "disconnection_requested" \in evts
       THEN Goto("disconnected", errc, {"disconnection_requested"})
       ELSE Stay /\ UNCHANGED evts
    /\ UNCHANGED <<slave_id, connection_attempts, running, rm, timers, open, owner, upc>>

MasterThread ==
    \/ ThreadExit \/ HandlerInit \/ CheckTrue
    \/ HandlerDisconnected \/ EventWait \/ CheckConnectionRequested
    \/ EnterConnecting \/ HandlerConnecting \/ SendHip \/ SendHipThrows \/ NoHip
    \/ ReadNothing \/ ReadDip \/ CheckTransportClosed \/ CheckDipTimeout \/ CheckConnected
    \/ EnterConnected \/ HandlerConnected \/ ReadKaAck \/ ReadBadAck \/ CheckKaTimeout
    \/ CheckDisconnected

-----------------------------------------------------------------------------
(* The request manager's thread: timeout_cb, and what MasterRequest says   *)
(* can happen to the timers.                                               *)

TimeoutCb(e) == evts' = evts \cup {e}

\* The timer of the last attempt fires.
DipTimeout ==
    /\ rm = "on" /\ dip
    /\ dip' = FALSE
    /\ TimeoutCb("dip_timeout")
    /\ UNCHANGED <<machine, slave_id, connection_attempts, running, rm, stray, kaMngt, kaTimer,
                   open, mpc, owner, upc, history>>

\* One of the older timers fires; there may be more.
StrayDipTimeout ==
    /\ rm = "on" /\ stray
    /\ stray' \in BOOLEAN
    /\ TimeoutCb("dip_timeout")
    /\ UNCHANGED <<machine, slave_id, connection_attempts, running, rm, dip, kaMngt, kaTimer,
                   open, mpc, owner, upc, history>>

KaTimeout ==
    /\ rm = "on" /\ kaTimer
    /\ kaTimer' \in BOOLEAN
    /\ kaExpired' = TRUE
    /\ TimeoutCb("ka_timeout")
    /\ UNCHANGED <<machine, slave_id, connection_attempts, running, rm, dip, stray, kaMngt, open,
                   mpc, owner, upc, gotDip, hipThrew, reports>>

\* The management timer sends the next keep-alive and arms its timeout.
KaRearm ==
    /\ rm = "on" /\ kaMngt /\ ~kaTimer
    /\ kaTimer' = TRUE
    /\ UNCHANGED <<machine, evts, slave_id, connection_attempts, running, rm, dip, stray, kaMngt,
                   open, mpc, owner, upc, history>>

\* A callback throws: nothing fires any more until the manager is started again.
RmDies ==
    /\ rm = "on"
    /\ rm' = "dead"
    /\ UNCHANGED <<machine, evts, slave_id, connection_attempts, running, timers, open, mpc,
                   owner, upc, history>>

RmThread == DipTimeout \/ StrayDipTimeout \/ KaTimeout \/ KaRearm \/ RmDies

-----------------------------------------------------------------------------
(* The owner: start() and stop().  The other users: async_connect,         *)
(* async_disconnect and connect.                                           *)

\* transport_->start() may leave the transport open or not.
Start ==
    /\ owner = "stopped"
    /\ running' = TRUE
    /\ st' = "init" /\ first' = TRUE
    /\ open' \in BOOLEAN
    /\ mpc' = "handler"
    /\ owner' = "started"
    /\ told' = "none"
    /\ UNCHANGED <<errc, evts, slave_id, connection_attempts, rm, timers, upc, gotDip, kaExpired,
                   hipThrew, threw>>

MUT_Stop ==
    /\ owner = "started" /\ ~(st = "init" /\ mpc = "handler")
    /\ running' = FALSE
    /\ owner' = "joining"
    /\ UNCHANGED <<machine, evts, slave_id, connection_attempts, rm, timers, open, mpc, upc,
                   history>>

\* start() returns when the init handler has called notify_running(), so stop() comes later.
Stop ==
    /\ owner = "started" /\ ~(st = "init" /\ mpc = "handler")
    /\ running' = FALSE
    /\ evts' = evts \cup {"stop"}
    /\ owner' = "joining"
    /\ UNCHANGED <<machine, slave_id, connection_attempts, rm, timers, open, mpc, upc, history>>

Join ==
    /\ owner = "joining" /\ mpc = "off"
    /\ rm' = "off"
    /\ open' = FALSE
    /\ owner' = "stopped"
    /\ UNCHANGED <<machine, evts, slave_id, connection_attempts, running, timers, mpc, upc,
                   history>>

TransportClose ==
    /\ open
    /\ open' = FALSE
    /\ UNCHANGED <<machine, evts, slave_id, connection_attempts, running, rm, timers, mpc, owner,
                   upc, history>>

Move(u, from, to) == upc[u] = from /\ upc' = [upc EXCEPT ![u] = to]

\* A call looks at state() first and acts on it later.
CallAsyncConnect(u) ==
    /\ st # "connected"
    /\ Move(u, "idle", "async_connect")
    /\ UNCHANGED <<machine, evts, slave_id, connection_attempts, running, rm, timers, open, mpc,
                   owner, history>>

CallAsyncDisconnect(u) ==
    /\ st # "disconnected"
    /\ Move(u, "idle", "async_disconnect")
    /\ UNCHANGED <<machine, evts, slave_id, connection_attempts, running, rm, timers, open, mpc,
                   owner, history>>

CallConnect(u) ==
    /\ IF st = "connected" THEN Move(u, "idle", "ok") ELSE Move(u, "idle", "notify")
    /\ UNCHANGED <<machine, evts, slave_id, connection_attempts, running, rm, timers, open, mpc,
                   owner, history>>

Notify(u) ==
    /\ \/ Move(u, "async_connect", "idle") /\ evts' = evts \cup {"connection_requested"}
       \/ Move(u, "async_disconnect", "idle") /\ evts' = evts \cup {"disconnection_requested"}
       \/ Move(u, "notify", "wait") /\ evts' = evts \cup {"connection_requested"}
    /\ UNCHANGED <<machine, slave_id, connection_attempts, running, rm, timers, open, mpc, owner,
                   history>>

AttemptWait(u) ==
    /\ "connection_attempt" \in evts
    /\ Move(u, "wait", "erase")
    /\ UNCHANGED <<machine, evts, slave_id, connection_attempts, running, rm, timers, open, mpc,
                   owner, history>>

AttemptErase(u) ==
    /\ Move(u, "erase", "verdict")
    /\ evts' = evts \ {"connection_attempt"}
    /\ UNCHANGED <<machine, slave_id, connection_attempts, running, rm, timers, open, mpc, owner,
                   history>>

Verdict(u) ==
    /\ Move(u, "verdict", IF st = "connected" THEN "ok" ELSE "connection_failed")
    /\ UNCHANGED <<machine, evts, slave_id, connection_attempts, running, rm, timers, open, mpc,
                   owner, history>>

Return(u) ==
    /\ Move(u, "ok", "idle") \/ Move(u, "connection_failed", "idle")
    /\ UNCHANGED <<machine, evts, slave_id, connection_attempts, running, rm, timers, open, mpc,
                   owner, history>>

InConnect(u) == Notify(u) \/ AttemptWait(u) \/ AttemptErase(u) \/ Verdict(u)

User(u) == CallAsyncConnect(u) \/ CallAsyncDisconnect(u) \/ CallConnect(u) \/ InConnect(u)
           \/ Return(u)

Next == MasterThread \/ RmThread \/ Start \/ Stop \/ Join \/ TransportClose
        \/ \E u \in Users : User(u)

Spec == Init /\ [][Next]_vars

\* The threads are scheduled and a call that has begun goes on.  The Master thread spends its
\* time in read(): a timer that is armed again and again fires there some day, and so does a
\* read that gives no wrong acknowledgement.
FairSpec ==
    /\ Spec
    /\ WF_vars(MasterThread) /\ SF_vars(ReadNothing)
    /\ SF_vars(DipTimeout /\ mpc = "read")
    /\ WF_vars(Join)
    /\ \A u \in Users : WF_vars(InConnect(u))

-----------------------------------------------------------------------------
(* Properties.                                                             *)

\* The values the fields and the threads' positions can have.
TypeOK ==
    /\ st \in States /\ first \in BOOLEAN
    /\ evts \subseteq Events
    /\ errc \in Errors
    /\ slave_id \in BOOLEAN
    /\ connection_attempts \in 0 .. AttemptCap
    /\ running \in BOOLEAN
    /\ rm \in {"off", "on", "dead"}
    /\ dip \in BOOLEAN /\ stray \in BOOLEAN /\ kaMngt \in BOOLEAN /\ kaTimer \in BOOLEAN
    /\ open \in BOOLEAN
    /\ mpc \in {"off", "handler", "wait", "hip", "read"} \cup Checks
    /\ owner \in {"stopped", "started", "joining"}
    /\ upc \in [Users -> Calls]
    /\ gotDip \in BOOLEAN /\ kaExpired \in BOOLEAN /\ hipThrew \in BOOLEAN
    /\ threw \in BOOLEAN /\ told \in Errors

\* A Master is connected only to a device that identified itself after this attempt began,
\* and knows its identification: a dip_received left behind by an attempt that lost its
\* transport does not connect the next one (handler_state_connecting, check_connected).
ConnectedHasDip == st = "connected" => gotDip /\ slave_id

\* The manager's thread runs in every wakeup of connected, and never while the Master waits
\* in disconnected: no timer of an old session can fire there.
ManagerFollowsState ==
    /\ mpc = "wait" => rm = "off"
    /\ (st = "connected" /\ mpc # "off") => rm # "off"

\* What status_cb_ is told.  A timeout or an error of the transport is told when it is what
\* ended the attempt or the session; the code of an exception is told once, with the transition
\* after it, whatever causes that one (connected included): what errc_ still holds is of a
\* wakeup since, and nothing of an earlier session (the transition handler's reset).
ErrorHasCause ==
    /\ told = "dip_timeout" => st = "disconnected" /\ connection_attempts >= MaxAttempts
    /\ told = "ka_timeout" => st = "disconnected" /\ gotDip
    /\ told = "transport" => st = "disconnected" /\ ~open
    /\ errc # "none" => threw
    /\ threw /\ mpc \notin {"off", "handler"} => st \in {"connecting", "connected"}

\* What the states of the Master stand for, whatever events earlier attempts and sessions have
\* left behind: connected means an identified device and a running manager, disconnected a
\* manager that is stopped, and an error that is told one that ended the attempt or the session.
StateMeaning == TypeOK /\ ConnectedHasDip /\ ManagerFollowsState /\ ErrorHasCause

\* An attempt is never left unwatched: once the handler has passed send_hip, an
\* identification timer is armed or its event pending, or the answer is there, or the
\* transport is closed, or the manager's thread died, or the write of the last HIP threw and
\* left the transport open.  Without this, connecting never ends.
AttemptWatched ==
    (st = "connecting" /\ (mpc \in {"read"} \cup Checks \/ (mpc \in {"handler", "hip"} /\ ~first))) =>
        \/ dip \/ stray
        \/ evts \cap {"dip_timeout", "dip_received"} # {}
        \/ ~open \/ rm = "dead" \/ hipThrew

EndsWithKaTimeout ==
    /\ st = "connected" /\ st' = "disconnected"
    /\ "ka_timeout" \in evts \ evts'

\* As the message of the error code says: a session ends with "keepalive timeout" only when a
\* keep-alive of that session timed out.
KaTimeoutIsOwn ==
    [][EndsWithKaTimeout => kaExpired]_vars

\* stop() returns: the Master thread leaves its loop wherever it is, and the event stop wakes
\* it when it waits in disconnected.
StopReturns == owner = "joining" ~> owner = "stopped"

\* The write of the HIP threw: no timer is armed, and nothing else ends the attempt.
Stuck == st = "connecting" /\ hipThrew /\ open

\* A synchronous connect() whose request reached a Master that has started (init clears the
\* events) returns or throws, unless the Master is stopped under it, or the manager's thread
\* died and can report no timeout, or the write of a HIP threw on a transport that stays open.
ConnectReturns ==
    \A u \in Users :
        \/ <>[]Stuck
        \/ (upc[u] = "wait" /\ "connection_requested" \in evts /\ running /\ st # "init")
              ~> (upc[u] # "wait" \/ ~running \/ rm = "dead")

\* A request to disconnect that is pending in connected ends the session.
DisconnectHonoured ==
    (st = "connected" /\ running /\ "disconnection_requested" \in evts) ~> (st # "connected" \/ ~running)
=============================================================================
