--------------------------- MODULE MasterRequest ----------------------------
(***************************************************************************)
(* master::RequestManager (master_request.h, master_request.cpp): the      *)
(* commands a host has in flight, their retries, and the keep-alive.       *)
(*                                                                         *)
(* Three kinds of threads share it:                                        *)
(*   - callers, one per command, inside Master::send_command;              *)
(*   - the Master thread, which starts and stops the manager, starts the   *)
(*     keep-alive management and hands over the acknowledgements it reads; *)
(*   - the manager's own thread, which runs the timeout callbacks.         *)
(* A step is what one thread does between two points where another thread  *)
(* can see or change what it works on.  requests_mutex_ is held by the     *)
(* manager's thread exactly while rm is in RetryStates.                    *)
(*                                                                         *)
(* The identification timer (send_hip, ack_dip, dip_timeout_cb) belongs to *)
(* the handshake and is modelled in Master.                                *)
(***************************************************************************)
EXTENDS TimeoutQueue, FiniteSets

CONSTANTS
    Cmds,          \* one element per call of send_command; also the id of its timer
    Slots,         \* the ids the management and keep-alive timers can have (bound)
    IdReserve,     \* ids a tick leaves for the callbacks and the calls it meets (bound)
    NoTimer,       \* an id that is no timer's
    IdMod,         \* 2^16 in the code: the range of Packet::Id
    MaxRetry,      \* max_retry_, 3 in the code
    CmdTimeout,    \* command_timeout_ / time_base_ms, 10 ticks in the code
    KaInterval,    \* keepalive_interval / time_base_ms, 10 ticks
    KaTimeout      \* keepalive_timeout / time_base_ms, 30 ticks

ASSUME RequestAssumption ==
    /\ Cmds \cap Slots = {}
    /\ NoTimer \notin Cmds \cup Slots
    /\ IdMod \in Nat \ {0}
    /\ MaxRetry \in Nat
    /\ CmdTimeout \in Nat \ {0}
    /\ KaInterval \in Nat \ {0}
    /\ KaTimeout \in Nat \ {0}

VARIABLES
    \* fields of RequestManager
    timers,             \* timeout_queue_
    requests,           \* requests_: the commands that are in the set
    pid, retry,         \* per command: Request::get_command_id(), Request::retry_
    packet_id,
    keepalive_mngt, keepalive_mngt_id, ka_ids,
    running,            \* Thread::is_running()
    \* where the threads are
    caller,             \* per command: the next step of its send_command
    app,                \* the Master thread
    rm,                 \* the manager's thread
    hand,               \* the id a thread has added and not yet put into ka_ids_
    \* the transport
    open,               \* Transport::is_open()
    \* history
    writes,             \* per command: how often it was written to the transport
    calls,              \* per command: how often its callback was called
    failed,             \* commands whose callback was told timeout
    untimed,            \* commands whose timer another call removed
    forgotten           \* keep-alive timers that line 94 dropped from ka_ids_

reqVars  == <<requests, pid, retry>>
kaVars   == <<keepalive_mngt, keepalive_mngt_id, ka_ids, hand>>
history  == <<writes, calls, failed, untimed, forgotten>>
vars     == <<timers, reqVars, kaVars, packet_id, running, caller, app, rm, open, history>>

Kinds        == {"none", "cmd", "mngt", "ka"}
CallerStates == {"idle", "timer", "reset", "readd", "write", "insert", "done", "threw"}
InCall       == {"timer", "reset", "readd", "write", "insert"}
RetryStates  == {"retry_erase", "retry_add"}
RmStates     == {"off", "sleep", "run", "ka_add", "ka_push", "dead"} \cup RetryStates
Connected    == {"conn", "ska_mngt", "ska_write", "ska_timer", "ska_push", "live"}
AppStates    == {"down", "clear", "up", "join"} \cup Connected
Threads      == {"app", "rm"}
TimerIds     == Cmds \cup Slots

MUT_period == [k \in Kinds |-> IF k = "mngt" THEN KaInterval ELSE 0]

period == [k \in Kinds |-> CASE k = "cmd"  -> CmdTimeout
                             [] k = "mngt" -> KaInterval
                             [] OTHER      -> 0]

\* An id nobody refers to any more may be given out again: the code takes ids from a
\* counter and only ever compares them for equality.
FreeIds ==
    {id \in Slots : /\ timers[id] = NoCell
                    /\ id # keepalive_mngt_id
                    /\ id \notin ka_ids
                    /\ \A t \in Threads : hand[t] # id}

NewId == CHOOSE id \in FreeIds : TRUE

MUT_NextPacketId == packet_id + 1
NextPacketId == (packet_id + 1) % IdMod

\* requests_mutex_ is free, or is this thread's own.
MutexFree == rm \notin RetryStates

Init ==
    /\ timers = EmptyQueue(TimerIds)
    /\ requests = {}
    /\ pid = [c \in Cmds |-> 0]
    /\ retry = [c \in Cmds |-> 0]
    /\ packet_id = 0
    /\ keepalive_mngt = FALSE
    /\ keepalive_mngt_id \in Cmds \cup {NoTimer}    \* no constructor initializes it
    /\ ka_ids = {}
    /\ running = FALSE
    /\ caller = [c \in Cmds |-> "idle"]
    /\ app = "down"
    /\ rm = "off"
    /\ hand = [t \in Threads |-> NoTimer]
    /\ open = TRUE
    /\ writes = [c \in Cmds |-> 0]
    /\ calls = [c \in Cmds |-> 0]
    /\ failed = {}
    /\ untimed = {}
    /\ forgotten = {}

-----------------------------------------------------------------------------
(* send_command, called by Master::send_command in a caller's thread.      *)

\* Master::send_command found state() = connected; the call is on its way.
SendCommand(c) ==
    /\ caller[c] = "idle" /\ app \in Connected
    /\ caller' = [caller EXCEPT ![c] = "timer"]
    /\ UNCHANGED <<timers, reqVars, kaVars, packet_id, running, app, rm, open, history>>

AddCmdTimer(c) ==
    /\ caller[c] = "timer"
    /\ timers' = Add(timers, c, "cmd", CmdTimeout)
    /\ caller' = [caller EXCEPT ![c] = "reset"]
    /\ UNCHANGED <<reqVars, kaVars, packet_id, running, app, rm, open, history>>

\* In the first session the flag can be on before keepalive_mngt_id_ has a value: the erase
\* then takes whatever timer has that id.
EraseMngt(c) ==
    /\ caller[c] = "reset"
    /\ IF keepalive_mngt
       THEN /\ timers' = Erase(timers, keepalive_mngt_id)
            /\ untimed' = untimed \cup ({keepalive_mngt_id} \cap Cmds)
            /\ caller' = [caller EXCEPT ![c] = "readd"]
       ELSE /\ caller' = [caller EXCEPT ![c] = "write"]
            /\ UNCHANGED <<timers, untimed>>
    /\ UNCHANGED <<reqVars, kaVars, packet_id, running, app, rm, open, writes, calls, failed,
                   forgotten>>

MUT_ReaddMngt(c) ==
    /\ caller[c] = "readd"
    /\ caller' = [caller EXCEPT ![c] = "write"]
    /\ UNCHANGED <<timers, reqVars, kaVars, packet_id, running, app, rm, open, history>>

ReaddMngt(c) ==
    /\ caller[c] = "readd" /\ FreeIds # {}
    /\ timers' = Add(timers, NewId, "mngt", KaInterval)
    /\ keepalive_mngt_id' = NewId
    /\ caller' = [caller EXCEPT ![c] = "write"]
    /\ UNCHANGED <<reqVars, keepalive_mngt, ka_ids, hand, packet_id, running, app, rm, open,
                   history>>

\* make_command throws when the data of the command does not fit a packet (any command may
\* be such a one), write when the transport is closed; neither takes the timer back.
WriteCmd(c) ==
    /\ caller[c] = "write"
    /\ packet_id' = NextPacketId
    /\ \/ /\ open
          /\ pid' = [pid EXCEPT ![c] = NextPacketId]
          /\ writes' = [writes EXCEPT ![c] = @ + 1]
          /\ caller' = [caller EXCEPT ![c] = "insert"]
       \/ /\ caller' = [caller EXCEPT ![c] = "threw"]
          /\ UNCHANGED <<pid, writes>>
    /\ UNCHANGED <<timers, requests, retry, kaVars, running, app, rm, open, calls, failed,
                   untimed, forgotten>>

MUT_Insert(c) ==
    /\ caller[c] = "insert" /\ MutexFree
    /\ requests' = requests \cup {c}
    /\ caller' = [caller EXCEPT ![c] = "done"]
    /\ UNCHANGED <<timers, pid, retry, kaVars, packet_id, running, app, rm, open, history>>

\* The index by_command of the set is unique.
Overrun(c) == \E d \in requests : pid[d] = pid[c]

Insert(c) ==
    /\ caller[c] = "insert" /\ MutexFree
    /\ IF ~Overrun(c)
       THEN /\ requests' = requests \cup {c}
            /\ caller' = [caller EXCEPT ![c] = "done"]
       ELSE /\ caller' = [caller EXCEPT ![c] = "threw"]
            /\ UNCHANGED requests
    /\ UNCHANGED <<timers, pid, retry, kaVars, packet_id, running, app, rm, open, history>>

Caller(c) == \/ SendCommand(c) \/ AddCmdTimer(c) \/ EraseMngt(c) \/ ReaddMngt(c)
             \/ WriteCmd(c) \/ Insert(c)

-----------------------------------------------------------------------------
(* The Master thread.                                                      *)

\* start(): clear() empties the set under the mutex ...
StartClear ==
    /\ app = "down" /\ ~running
    /\ requests' = {}
    /\ app' = "clear"
    /\ UNCHANGED <<timers, pid, retry, kaVars, packet_id, running, caller, rm, open, history>>

\* ... then the queue and the packet id; the manager's thread starts.  ka_ids_ is not
\* cleared, but its ids are of no timer any more and erasing them does nothing: ka_ids
\* holds the ids of ka_ids_ whose timer or callback is still to come.
StartThread ==
    /\ app = "clear"
    /\ timers' = EmptyQueue(TimerIds)
    /\ ka_ids' = {}
    /\ packet_id' = 0
    /\ keepalive_mngt' = FALSE
    /\ running' = TRUE
    /\ rm' = "sleep"
    /\ app' = "up"
    /\ untimed' = untimed \cup {c \in Cmds : Live(timers, c, "cmd")}
    /\ forgotten' = {}
    /\ UNCHANGED <<reqVars, keepalive_mngt_id, hand, caller, open, writes, calls, failed>>

\* The identification packet took an id, the device answered it and the Master goes to
\* connected (check_connected).
EnterConnected ==
    /\ app = "up"
    /\ packet_id' = NextPacketId
    /\ app' = "conn"
    /\ UNCHANGED <<timers, reqVars, kaVars, running, caller, rm, open, history>>

\* start_keepalive_management
StartKaFlag ==
    /\ app = "conn"
    /\ keepalive_mngt' = TRUE
    /\ app' = "ska_mngt"
    /\ UNCHANGED <<timers, reqVars, keepalive_mngt_id, ka_ids, hand, packet_id, running, caller,
                   rm, open, history>>

StartKaMngt ==
    /\ app = "ska_mngt" /\ FreeIds # {}
    /\ timers' = Add(timers, NewId, "mngt", KaInterval)
    /\ keepalive_mngt_id' = NewId
    /\ app' = "ska_write"
    /\ UNCHANGED <<reqVars, keepalive_mngt, ka_ids, hand, packet_id, running, caller, rm, open,
                   history>>

\* A keep-alive is written if the transport is open.  A write throws when the transport closes
\* between is_open() and write(), and also while it stays open (the USB device's queue is full,
\* its transfer cannot be submitted): the rest of start_keepalive_management is skipped.
StartKaWrite ==
    /\ app = "ska_write"
    /\ \/ /\ app' = "ska_timer"
          /\ packet_id' = IF open THEN NextPacketId ELSE packet_id
          /\ UNCHANGED open
       \/ /\ open
          /\ app' = "live"
          /\ packet_id' = NextPacketId
          /\ open' \in BOOLEAN
    /\ UNCHANGED <<timers, reqVars, kaVars, running, caller, rm, history>>

StartKaTimer ==
    /\ app = "ska_timer" /\ FreeIds # {}
    /\ timers' = Add(timers, NewId, "ka", KaTimeout)
    /\ hand' = [hand EXCEPT !["app"] = NewId]
    /\ app' = "ska_push"
    /\ UNCHANGED <<reqVars, keepalive_mngt, keepalive_mngt_id, ka_ids, packet_id, running,
                   caller, rm, open, history>>

StartKaPush ==
    /\ app = "ska_push"
    /\ ka_ids' = {id \in {hand["app"]} : timers[id] # NoCell}
    /\ forgotten' = forgotten \cup ka_ids
    /\ hand' = [hand EXCEPT !["app"] = NoTimer]
    /\ app' = "live"
    /\ UNCHANGED <<timers, reqVars, keepalive_mngt, keepalive_mngt_id, packet_id, running,
                   caller, rm, open, writes, calls, failed, untimed>>

MUT_AckLeavesRequest(c) ==
    /\ app = "live" /\ MutexFree
    /\ c \in requests
    /\ calls' = [calls EXCEPT ![c] = @ + 1]
    /\ timers' = Erase(timers, c)
    /\ UNCHANGED <<requests, pid, retry, kaVars, packet_id, running, caller, app, rm, open,
                   writes, failed, untimed, forgotten>>

MUT_AckLeavesTimer(c) ==
    /\ app = "live" /\ MutexFree
    /\ c \in requests
    /\ calls' = [calls EXCEPT ![c] = @ + 1]
    /\ requests' = requests \ {c}
    /\ UNCHANGED <<timers, pid, retry, kaVars, packet_id, running, caller, app, rm, open,
                   writes, failed, untimed, forgotten>>

\* ack_command, under requests_mutex_: the callback, then the timer, then the set.  (An
\* acknowledgement of anything else throws and changes nothing here.)
AckCommand(c) ==
    /\ app = "live" /\ MutexFree
    /\ c \in requests
    /\ calls' = [calls EXCEPT ![c] = @ + 1]
    /\ timers' = Erase(timers, c)
    /\ requests' = requests \ {c}
    /\ UNCHANGED <<pid, retry, kaVars, packet_id, running, caller, app, rm, open, writes,
                   failed, untimed, forgotten>>

AckKeepalive ==
    /\ app = "live" /\ ka_ids # {}
    /\ timers' = EraseAll(timers, ka_ids)
    /\ ka_ids' = {}
    /\ UNCHANGED <<reqVars, keepalive_mngt, keepalive_mngt_id, hand, packet_id, running, caller,
                   app, rm, open, history>>

\* stop(), on entering disconnected: from connecting or from connected.
Stop ==
    /\ app \in {"up", "live"}
    /\ running' = FALSE
    /\ app' = "join"
    /\ UNCHANGED <<timers, reqVars, kaVars, packet_id, caller, rm, open, history>>

Join ==
    /\ app = "join" /\ rm \in {"off", "dead"}
    /\ app' = "down"
    /\ UNCHANGED <<timers, reqVars, kaVars, packet_id, running, caller, rm, open, history>>

App == \/ StartClear \/ StartThread \/ EnterConnected \/ StartKaFlag \/ StartKaMngt
       \/ StartKaWrite \/ StartKaTimer \/ StartKaPush \/ AckKeepalive \/ Stop \/ Join
       \/ \E c \in Cmds : AckCommand(c)

-----------------------------------------------------------------------------
(* The manager's thread: run() and the callbacks.                          *)

RunOnce ==
    /\ rm = "sleep" /\ running
    /\ Cardinality(FreeIds) >= IdReserve
    /\ timers' = Collect(timers, period)
    /\ rm' = "run"
    /\ UNCHANGED <<reqVars, kaVars, packet_id, running, caller, app, open, history>>

RunOnceDone ==
    /\ rm = "run" /\ NothingDue(timers)
    /\ rm' = "sleep"
    /\ UNCHANGED <<timers, reqVars, kaVars, packet_id, running, caller, app, open, history>>

ThreadExit ==
    /\ rm = "sleep" /\ ~running
    /\ rm' = "off"
    /\ UNCHANGED <<timers, reqVars, kaVars, packet_id, running, caller, app, open, history>>

\* cmd_timeout_cb of a timer whose request is not in the set: run() has no handler for
\* the exception, so the thread ends with it.
CmdTimeoutOrphan(c) ==
    /\ rm = "run" /\ timers[c].due = "cmd"
    /\ c \notin requests
    /\ timers' = DropDue(timers)
    /\ rm' = "dead"
    /\ UNCHANGED <<reqVars, kaVars, packet_id, running, caller, app, open, history>>

MUT_CmdTimeoutRetry(c) ==
    /\ rm = "run" /\ timers[c].due = "cmd"
    /\ c \in requests /\ retry[c] <= MaxRetry
    /\ retry' = [retry EXCEPT ![c] = @ + 1]
    /\ timers' = TakeDue(timers, c)
    /\ writes' = IF open THEN [writes EXCEPT ![c] = @ + 1] ELSE writes
    /\ rm' = IF keepalive_mngt THEN "retry_erase" ELSE "run"
    /\ UNCHANGED <<requests, pid, kaVars, packet_id, running, caller, app, open, calls, failed,
                   untimed, forgotten>>

\* cmd_timeout_cb with retries left.  The command is written again if the transport is
\* open; requests_mutex_ is kept while the keep-alive management is reset.  When the
\* write throws, with the transport closed since or still open, the thread ends as above.
CmdTimeoutRetry(c) ==
    /\ rm = "run" /\ timers[c].due = "cmd"
    /\ c \in requests /\ retry[c] < MaxRetry
    /\ retry' = [retry EXCEPT ![c] = @ + 1]
    /\ \/ /\ timers' = TakeDue(timers, c)
          /\ writes' = IF open THEN [writes EXCEPT ![c] = @ + 1] ELSE writes
          /\ rm' = IF keepalive_mngt THEN "retry_erase" ELSE "run"
          /\ UNCHANGED open
       \/ /\ open
          /\ open' \in BOOLEAN
          /\ timers' = DropDue(timers)
          /\ rm' = "dead"
          /\ UNCHANGED writes
    /\ UNCHANGED <<requests, pid, kaVars, packet_id, running, caller, app, calls, failed,
                   untimed, forgotten>>

RetryEraseMngt ==
    /\ rm = "retry_erase"
    /\ timers' = Erase(timers, keepalive_mngt_id)
    /\ untimed' = untimed \cup ({keepalive_mngt_id} \cap Cmds)
    /\ rm' = "retry_add"
    /\ UNCHANGED <<reqVars, kaVars, packet_id, running, caller, app, open, writes, calls,
                   failed, forgotten>>

RetryReaddMngt ==
    /\ rm = "retry_add" /\ FreeIds # {}
    /\ timers' = Add(timers, NewId, "mngt", KaInterval)
    /\ keepalive_mngt_id' = NewId
    /\ rm' = "run"
    /\ UNCHANGED <<reqVars, keepalive_mngt, ka_ids, hand, packet_id, running, caller, app, open,
                   history>>

\* cmd_timeout_cb with no retry left.
CmdTimeoutFail(c) ==
    /\ rm = "run" /\ timers[c].due = "cmd"
    /\ c \in requests /\ retry[c] >= MaxRetry
    /\ calls' = [calls EXCEPT ![c] = @ + 1]
    /\ failed' = failed \cup {c}
    /\ timers' = TakeDue(Erase(timers, c), c)
    /\ requests' = requests \ {c}
    /\ UNCHANGED <<pid, retry, kaVars, packet_id, running, caller, app, rm, open, writes,
                   untimed, forgotten>>

\* ka_mngt_timeout_cb: write a keep-alive (same outcomes as above) ...
KaMngtTimeout(id) ==
    /\ rm = "run" /\ timers[id].due = "mngt"
    /\ \/ /\ timers' = TakeDue(timers, id)
          /\ rm' = "ka_add"
          /\ packet_id' = IF open THEN NextPacketId ELSE packet_id
          /\ UNCHANGED open
       \/ /\ open
          /\ open' \in BOOLEAN
          /\ packet_id' = NextPacketId
          /\ timers' = DropDue(timers)
          /\ rm' = "dead"
    /\ UNCHANGED <<reqVars, kaVars, running, caller, app, history>>

\* ... arm its timeout ...
KaMngtAdd ==
    /\ rm = "ka_add" /\ FreeIds # {}
    /\ timers' = Add(timers, NewId, "ka", KaTimeout)
    /\ hand' = [hand EXCEPT !["rm"] = NewId]
    /\ rm' = "ka_push"
    /\ UNCHANGED <<reqVars, keepalive_mngt, keepalive_mngt_id, ka_ids, packet_id, running,
                   caller, app, open, history>>

MUT_KaMngtPush ==
    /\ rm = "ka_push"
    /\ hand' = [hand EXCEPT !["rm"] = NoTimer]
    /\ rm' = "run"
    /\ UNCHANGED <<timers, reqVars, keepalive_mngt, keepalive_mngt_id, ka_ids, packet_id,
                   running, caller, app, open, history>>

\* ... and remember its id.
KaMngtPush ==
    /\ rm = "ka_push"
    /\ ka_ids' = ka_ids \cup {hand["rm"]}
    /\ hand' = [hand EXCEPT !["rm"] = NoTimer]
    /\ rm' = "run"
    /\ UNCHANGED <<timers, reqVars, keepalive_mngt, keepalive_mngt_id, packet_id, running,
                   caller, app, open, history>>

\* ka_timeout_cb: the Master is told (its event is in module Master).  The id stays in
\* ka_ids_ but is of no timer any more.
KaTimeoutCb(id) ==
    /\ rm = "run" /\ timers[id].due = "ka"
    /\ timers' = TakeDue(timers, id)
    /\ ka_ids' = ka_ids \ {id}
    /\ forgotten' = forgotten \ {id}
    /\ UNCHANGED <<reqVars, keepalive_mngt, keepalive_mngt_id, hand, packet_id, running, caller,
                   app, rm, open, writes, calls, failed, untimed>>

Rm == \/ RunOnce \/ RunOnceDone \/ ThreadExit
      \/ RetryEraseMngt \/ RetryReaddMngt \/ KaMngtAdd \/ KaMngtPush
      \/ \E id \in Slots : KaMngtTimeout(id) \/ KaTimeoutCb(id)
      \/ \E c \in Cmds : CmdTimeoutOrphan(c) \/ CmdTimeoutRetry(c) \/ CmdTimeoutFail(c)

-----------------------------------------------------------------------------
(* The transport closes at any time and is opened again by a restart.      *)

TransportClose ==
    /\ open
    /\ open' = FALSE
    /\ UNCHANGED <<timers, reqVars, kaVars, packet_id, running, caller, app, rm, history>>

TransportOpen ==
    /\ ~open /\ app = "down"
    /\ open' = TRUE
    /\ UNCHANGED <<timers, reqVars, kaVars, packet_id, running, caller, app, rm, history>>

Next == App \/ Rm \/ TransportClose \/ TransportOpen \/ \E c \in Cmds : Caller(c)

Spec == Init /\ [][Next]_vars

\* The thread of the manager is scheduled: its loop ticks, and its callbacks are called.
FairSpec == Spec /\ WF_vars(Rm)

-----------------------------------------------------------------------------
(* Properties.                                                             *)

\* The values the fields and the threads' positions can have; packet ids stay within 16 bits.
TypeOK ==
    /\ timers \in [TimerIds -> [kind : Kinds, left : Nat, due : Kinds]]
    /\ requests \subseteq Cmds
    /\ pid \in [Cmds -> 0 .. IdMod - 1]
    /\ retry \in [Cmds -> 0 .. MaxRetry]
    /\ packet_id \in 0 .. IdMod - 1
    /\ keepalive_mngt \in BOOLEAN
    /\ keepalive_mngt_id \in TimerIds \cup {NoTimer}
    /\ ka_ids \subseteq Slots
    /\ running \in BOOLEAN
    /\ caller \in [Cmds -> CallerStates]
    /\ app \in AppStates
    /\ rm \in RmStates
    /\ hand \in [Threads -> Slots \cup {NoTimer}]
    /\ app = "ska_push" => hand["app"] \in Slots
    /\ rm = "ka_push" => hand["rm"] \in Slots
    /\ open \in BOOLEAN
    /\ writes \in [Cmds -> Nat]
    /\ calls \in [Cmds -> Nat]
    /\ failed \subseteq Cmds
    /\ untimed \subseteq Cmds
    /\ forgotten \subseteq Slots

\* The callback of a command is called at most once, whatever order its acknowledgements,
\* its timeouts and the restarts of the manager come in (ack_command, cmd_timeout_cb).
CallbackOnce == \A c \in Cmds : calls[c] <= 1

\* A command is transmitted at most 1 + max_retry_ times, and its callback reports a timeout
\* only when all the retries were used up (cmd_timeout_cb).
RetryBudget ==
    \A c \in Cmds : /\ writes[c] <= MaxRetry + 1
                    /\ c \in failed => retry[c] = MaxRetry

\* Once its callback was called a command is never transmitted again: a timeout that was
\* already collected when ack_command ran does not find the request any more.
QuietAfterCallback ==
    [][\A c \in Cmds : calls[c] > 0 => writes'[c] = writes[c]]_vars

\* A pending request has its timer in the queue, so it will be retried or reported: only
\* one whose timer a clear() or the uninitialized keepalive_mngt_id_ took is left without.
PendingHasTimer == \A c \in requests \ untimed : Live(timers, c, "cmd")

\* The call or the set accounts for the timer of this command.
Accounted(c) == c \in requests \/ caller[c] \in InCall \cup {"threw"}

\* While the manager runs, cmd_timeout_cb misses its request, and ends the thread, for three
\* reasons only: its send_command has not inserted the request yet, its send_command threw after
\* add_repeating, or the callback was collected before ack_command erased its timer.
CmdTimerOwned ==
    running => \A c \in Cmds :
        /\ Live(timers, c, "cmd") => Accounted(c)
        /\ timers[c].due = "cmd" => Accounted(c) \/ (calls[c] > 0 /\ ~EraseReachesBatch)

\* While the keep-alive management is on, a keep-alive is always scheduled, except between
\* the erase and the add of a thread that is just resetting it (send_command,
\* cmd_timeout_cb): two resets at the same time never leave the queue without one.
KeepaliveScheduled ==
    (keepalive_mngt /\ app \notin {"ska_mngt", "clear"}) =>
        \/ \E id \in Slots : Live(timers, id, "mngt")
        \/ \E c \in Cmds : caller[c] = "readd"
        \/ rm = "retry_add"

\* A keep-alive timeout in the queue can be cancelled by the next acknowledgement: its id is
\* in ka_ids_, or about to be put there, or was dropped by the clear of line 94.
KaTimersTracked ==
    \A id \in Slots : Live(timers, id, "ka") =>
        id \in ka_ids \cup {hand[t] : t \in Threads} \cup forgotten

\* Two pending requests never have the same packet id, however far packet_id_ has wrapped: an
\* acknowledgement names one request (send_command's request_overrun check).
AckUnambiguous == \A c, d \in requests : pid[c] = pid[d] => c = d

\* A request that is in the set is resolved: acknowledged, reported as a timeout or dropped
\* with its session, unless the manager's thread died or its timer was taken.
PendingResolved ==
    \A c \in Cmds : c \in requests ~> (c \notin requests \/ c \in untimed \/ rm = "dead" \/ ~running)

-----------------------------------------------------------------------------
(* The promise to the application.                                         *)

\* Where each command is in its life.
phase ==
    [c \in Cmds |-> IF calls[c] > 0 THEN IF c \in failed THEN "timeout" ELSE "answered"
                    ELSE IF c \in requests THEN "pending"
                    ELSE IF caller[c] = "threw" THEN "refused"
                    ELSE IF caller[c] = "done" THEN "dropped" ELSE "new"]

Life == INSTANCE CommandLife WITH tries <- retry, sent <- writes

\* The manager implements CommandLife: whatever the order of sends, acknowledgements, timeouts
\* and restarts, every command ends once and in one of the ways the caller is told of.
KeepsPromise == Life!Spec
=============================================================================
