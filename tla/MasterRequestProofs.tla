------------------------ MODULE MasterRequestProofs -------------------------
(***************************************************************************)
(* What master::RequestManager guarantees for any number of commands, any  *)
(* retry budget, any timing constants and both answers to                  *)
(* EraseReachesBatch.                                                      *)
(***************************************************************************)
EXTENDS MasterRequest, TLAPS

Cell  == [kind : Kinds, left : Nat, due : Kinds]
Queue == [TimerIds -> Cell]

-----------------------------------------------------------------------------
(* The timeout queue.                                                      *)

\* The interval of each kind of timer; 0 is a timer that fires once.
LEMMA PeriodValues ==
    /\ period \in [Kinds -> Nat]
    /\ period["cmd"] > 0 /\ period["mngt"] > 0 /\ period["ka"] = 0 /\ period["none"] = 0
  BY RequestAssumption DEF period, Kinds

\* No operation of the queue leaves its type.
LEMMA QueueTypes ==
    ASSUME NEW q \in Queue
    PROVE  /\ EmptyQueue(TimerIds) \in Queue
           /\ \A id \in TimerIds, k \in Kinds, d \in Nat : Add(q, id, k, d) \in Queue
           /\ \A ids : EraseAll(q, ids) \in Queue
           /\ Collect(q, period) \in Queue
           /\ \A id \in TimerIds : TakeDue(q, id) \in Queue
           /\ DropDue(q) \in Queue
  <1>1. NoCell \in Cell
    BY DEF NoCell, Cell, Kinds
  <1>2. EmptyQueue(TimerIds) \in Queue
    BY <1>1 DEF EmptyQueue, Queue
  <1>3. \A id \in TimerIds, k \in Kinds, d \in Nat : Add(q, id, k, d) \in Queue
    BY DEF Add, Queue, Cell, Kinds
  <1>4. \A ids : EraseAll(q, ids) \in Queue
    BY DEF EraseAll, Queue, Cell, Kinds
  <1>5. \A cell \in Cell : Aged(cell, period) \in Cell
    BY <1>1, PeriodValues DEF Aged, Cell, Kinds
  <1>6. Collect(q, period) \in Queue
    BY <1>5 DEF Collect, Queue
  <1>7. \A id \in TimerIds : TakeDue(q, id) \in Queue
    BY DEF TakeDue, Queue, Cell, Kinds
  <1>8. DropDue(q) \in Queue
    BY DEF DropDue, Queue, Cell, Kinds
  <1> QED
    BY <1>2, <1>3, <1>4, <1>6, <1>7, <1>8

\* What each operation does to the timers in the queue.
LEMMA QueueKinds ==
    ASSUME NEW q \in Queue, NEW x \in TimerIds
    PROVE  /\ EmptyQueue(TimerIds)[x].kind = "none"
           /\ \A id \in TimerIds, k \in Kinds, d \in Nat :
                 Add(q, id, k, d)[x].kind = IF x = id THEN k ELSE q[x].kind
           /\ \A ids : EraseAll(q, ids)[x].kind = IF x \in ids THEN "none" ELSE q[x].kind
           /\ Collect(q, period)[x].kind =
                 IF q[x].kind = "ka" /\ q[x].left = 0 THEN "none" ELSE q[x].kind
           /\ \A id \in TimerIds : TakeDue(q, id)[x].kind = q[x].kind
           /\ DropDue(q)[x].kind = q[x].kind
  <1>1. EmptyQueue(TimerIds)[x].kind = "none"
    BY DEF EmptyQueue, NoCell
  <1>2. \A id \in TimerIds, k \in Kinds, d \in Nat :
            Add(q, id, k, d)[x].kind = IF x = id THEN k ELSE q[x].kind
    BY DEF Add, Queue, Cell
  <1>3. \A ids : EraseAll(q, ids)[x].kind = IF x \in ids THEN "none" ELSE q[x].kind
    BY DEF EraseAll, Queue, Cell
  <1>4. \A cell \in Cell : Aged(cell, period).kind =
            IF cell.kind = "ka" /\ cell.left = 0 THEN "none" ELSE cell.kind
    BY PeriodValues DEF Aged, Cell, Kinds, NoCell
  <1>5. Collect(q, period)[x] = Aged(q[x], period) /\ q[x] \in Cell
    BY DEF Collect, Queue
  <1>6. \A id \in TimerIds : TakeDue(q, id)[x].kind = q[x].kind
    BY DEF TakeDue, Queue, Cell
  <1>7. DropDue(q)[x].kind = q[x].kind
    BY DEF DropDue, Queue, Cell
  <1> QED
    BY <1>1, <1>2, <1>3, <1>4, <1>5, <1>6, <1>7

\* A fresh id is a free one.
LEMMA NewIdFree == FreeIds # {} => NewId \in FreeIds
  BY DEF NewId

-----------------------------------------------------------------------------
(* Type correctness.                                                       *)

USE DEF reqVars, kaVars, history

\* One step of a caller keeps the types.
LEMMA CallerType == ASSUME TypeOK, NEW c \in Cmds, Caller(c) PROVE TypeOK'
  <1> USE DEF TypeOK, CallerStates, TimerIds
  <1>1. timers \in Queue
    BY DEF Queue, Cell
  <1>2. CASE SendCommand(c)
    BY <1>2 DEF SendCommand
  <1>3. CASE AddCmdTimer(c)
    <2>1. timers' \in Queue
      BY <1>1, <1>3, QueueTypes, RequestAssumption DEF AddCmdTimer, Kinds
    <2> QED
      BY <1>3, <2>1 DEF AddCmdTimer, Queue, Cell
  <1>4. CASE EraseMngt(c)
    <2>1. timers' \in Queue
      <3>1. Erase(timers, keepalive_mngt_id) \in Queue
        BY <1>1, QueueTypes DEF Erase
      <3> QED
        BY <1>1, <1>4, <3>1 DEF EraseMngt
    <2>2. untimed' \subseteq Cmds
      <3>1. {keepalive_mngt_id} \cap Cmds \subseteq Cmds
        OBVIOUS
      <3> QED
        BY <1>4, <3>1 DEF EraseMngt
    <2>3. caller' \in [Cmds -> CallerStates]
      BY <1>4 DEF EraseMngt
    <2> QED
      BY <1>4, <2>1, <2>2, <2>3 DEF EraseMngt, Queue, Cell
  <1>5. CASE ReaddMngt(c)
    <2>1. NewId \in Slots
      BY <1>5, NewIdFree DEF ReaddMngt, FreeIds
    <2>2. timers' \in Queue
      BY <1>1, <1>5, <2>1, QueueTypes, RequestAssumption DEF ReaddMngt, Kinds
    <2> QED
      BY <1>5, <2>1, <2>2 DEF ReaddMngt, Queue, Cell
  <1>6. CASE WriteCmd(c)
    <2>1. NextPacketId \in 0 .. IdMod - 1
      BY RequestAssumption DEF NextPacketId
    <2>2. packet_id' \in 0 .. IdMod - 1 /\ pid' \in [Cmds -> 0 .. IdMod - 1]
      BY <1>6, <2>1 DEF WriteCmd
    <2>3. writes' \in [Cmds -> Nat]
      BY <1>6 DEF WriteCmd
    <2>4. caller' \in [Cmds -> CallerStates]
      BY <1>6 DEF WriteCmd
    <2> QED
      BY <1>6, <2>2, <2>3, <2>4 DEF WriteCmd
  <1>7. CASE Insert(c)
    BY <1>7 DEF Insert
  <1> QED
    BY <1>2, <1>3, <1>4, <1>5, <1>6, <1>7 DEF Caller

\* One step of the Master thread keeps the types.
LEMMA AppType == ASSUME TypeOK, App PROVE TypeOK'
  <1> USE DEF TypeOK, AppStates, Connected, TimerIds
  <1>1. timers \in Queue
    BY DEF Queue, Cell
  <1>2. NextPacketId \in 0 .. IdMod - 1
    BY RequestAssumption DEF NextPacketId
  <1>3. FreeIds # {} => NewId \in Slots
    BY NewIdFree DEF FreeIds
  <1>4. CASE StartClear
    BY <1>4 DEF StartClear
  <1>5. CASE StartThread
    <2>1. timers' \in Queue
      BY <1>1, <1>5, QueueTypes DEF StartThread
    <2>2. untimed' \subseteq Cmds
      BY <1>5 DEF StartThread
    <2>3. packet_id' \in 0 .. IdMod - 1
      BY <1>5, RequestAssumption DEF StartThread
    <2> QED
      BY <1>5, <2>1, <2>2, <2>3 DEF StartThread, Queue, Cell, RmStates
  <1>6. CASE EnterConnected
    BY <1>2, <1>6 DEF EnterConnected
  <1>7. CASE StartKaFlag
    BY <1>7 DEF StartKaFlag
  <1>8. CASE StartKaMngt
    <2>1. timers' \in Queue
      BY <1>1, <1>3, <1>8, QueueTypes, RequestAssumption DEF StartKaMngt, Kinds
    <2> QED
      BY <1>3, <1>8, <2>1 DEF StartKaMngt, Queue, Cell
  <1>9. CASE StartKaWrite
    BY <1>2, <1>9 DEF StartKaWrite
  <1>10. CASE StartKaTimer
    <2>1. timers' \in Queue
      BY <1>1, <1>3, <1>10, QueueTypes, RequestAssumption DEF StartKaTimer, Kinds
    <2> QED
      BY <1>3, <1>10, <2>1 DEF StartKaTimer, Queue, Cell, Threads
  <1>11. CASE StartKaPush
    <2>1. ka_ids' \subseteq Slots
      BY <1>11 DEF StartKaPush
    <2>2. hand' \in [Threads -> Slots \cup {NoTimer}]
      BY <1>11 DEF StartKaPush
    <2> QED
      BY <1>11, <2>1, <2>2 DEF StartKaPush
  <1>12. CASE AckKeepalive
    <2>1. timers' \in Queue
      BY <1>1, <1>12, QueueTypes DEF AckKeepalive
    <2> QED
      BY <1>12, <2>1 DEF AckKeepalive, Queue, Cell
  <1>13. CASE Stop
    BY <1>13 DEF Stop
  <1>14. CASE Join
    BY <1>14 DEF Join
  <1>15. CASE \E c \in Cmds : AckCommand(c)
    <2>1. PICK c \in Cmds : AckCommand(c)
      BY <1>15
    <2>2. timers' \in Queue
      BY <1>1, <2>1, QueueTypes DEF AckCommand, Erase
    <2>3. calls' \in [Cmds -> Nat] /\ requests' \subseteq Cmds
      BY <2>1 DEF AckCommand
    <2> QED
      BY <2>1, <2>2, <2>3 DEF AckCommand, Queue, Cell
  <1> QED
    BY <1>4, <1>5, <1>6, <1>7, <1>8, <1>9, <1>10, <1>11, <1>12, <1>13, <1>14, <1>15 DEF App

\* One step of the manager's thread keeps the types.
LEMMA RmType == ASSUME TypeOK, Rm PROVE TypeOK'
  <1> USE DEF TypeOK, RmStates, RetryStates, TimerIds
  <1>1. timers \in Queue
    BY DEF Queue, Cell
  <1>2. NextPacketId \in 0 .. IdMod - 1
    BY RequestAssumption DEF NextPacketId
  <1>3. FreeIds # {} => NewId \in Slots
    BY NewIdFree DEF FreeIds
  <1>4. CASE RunOnce
    <2>1. timers' \in Queue
      BY <1>1, <1>4, QueueTypes DEF RunOnce
    <2> QED
      BY <1>4, <2>1 DEF RunOnce, Queue, Cell
  <1>5. CASE RunOnceDone
    BY <1>5 DEF RunOnceDone
  <1>6. CASE ThreadExit
    BY <1>6 DEF ThreadExit
  <1>7. CASE RetryEraseMngt
    <2>1. timers' \in Queue
      BY <1>1, <1>7, QueueTypes DEF RetryEraseMngt, Erase
    <2>2. untimed' \subseteq Cmds
      BY <1>7 DEF RetryEraseMngt
    <2> QED
      BY <1>7, <2>1, <2>2 DEF RetryEraseMngt, Queue, Cell
  <1>8. CASE RetryReaddMngt
    <2>1. timers' \in Queue
      BY <1>1, <1>3, <1>8, QueueTypes, RequestAssumption DEF RetryReaddMngt, Kinds
    <2> QED
      BY <1>3, <1>8, <2>1 DEF RetryReaddMngt, Queue, Cell
  <1>9. CASE KaMngtAdd
    <2>1. timers' \in Queue
      BY <1>1, <1>3, <1>9, QueueTypes, RequestAssumption DEF KaMngtAdd, Kinds
    <2> QED
      BY <1>3, <1>9, <2>1 DEF KaMngtAdd, Queue, Cell, Threads
  <1>10. CASE KaMngtPush
    BY <1>10 DEF KaMngtPush, Threads
  <1>11. CASE \E id \in Slots : KaMngtTimeout(id) \/ KaTimeoutCb(id)
    <2>1. PICK id \in Slots : KaMngtTimeout(id) \/ KaTimeoutCb(id)
      BY <1>11
    <2>0. TakeDue(timers, id) \in Queue /\ DropDue(timers) \in Queue
      BY <1>1, QueueTypes
    <2>2. timers' \in Queue
      BY <2>0, <2>1 DEF KaMngtTimeout, KaTimeoutCb
    <2>3. CASE KaMngtTimeout(id)
      <3>1. packet_id' \in 0 .. IdMod - 1
        BY <1>2, <2>3 DEF KaMngtTimeout
      <3> QED
        BY <2>2, <2>3, <3>1 DEF KaMngtTimeout, Queue, Cell
    <2>4. CASE KaTimeoutCb(id)
      BY <2>2, <2>4 DEF KaTimeoutCb, Queue, Cell
    <2> QED
      BY <2>1, <2>3, <2>4
  <1>12. CASE \E c \in Cmds : CmdTimeoutOrphan(c) \/ CmdTimeoutRetry(c) \/ CmdTimeoutFail(c)
    <2>1. PICK c \in Cmds : CmdTimeoutOrphan(c) \/ CmdTimeoutRetry(c) \/ CmdTimeoutFail(c)
      BY <1>12
    <2>2. CASE CmdTimeoutOrphan(c)
      <3>1. timers' \in Queue
        BY <1>1, <2>2, QueueTypes DEF CmdTimeoutOrphan
      <3> QED
        BY <2>2, <3>1 DEF CmdTimeoutOrphan, Queue, Cell
    <2>3. CASE CmdTimeoutRetry(c)
      <3>1. timers' \in Queue
        BY <1>1, <2>3, QueueTypes DEF CmdTimeoutRetry
      <3>2. retry' \in [Cmds -> 0 .. MaxRetry]
        BY <2>3, RequestAssumption DEF CmdTimeoutRetry
      <3>3. writes' \in [Cmds -> Nat]
        BY <2>3 DEF CmdTimeoutRetry
      <3>4. rm' \in RmStates /\ rm' # "ka_push" /\ open' \in BOOLEAN
        BY <2>3 DEF CmdTimeoutRetry
      <3> QED
        BY <2>3, <3>1, <3>2, <3>3, <3>4 DEF CmdTimeoutRetry, Queue, Cell
    <2>4. CASE CmdTimeoutFail(c)
      <3>1. timers' \in Queue
        <4>1. Erase(timers, c) \in Queue
          BY <1>1, QueueTypes DEF Erase
        <4> QED
          BY <2>4, <4>1, QueueTypes DEF CmdTimeoutFail
      <3>2. calls' \in [Cmds -> Nat] /\ requests' \subseteq Cmds /\ failed' \subseteq Cmds
        BY <2>4 DEF CmdTimeoutFail
      <3> QED
        BY <2>4, <3>1, <3>2 DEF CmdTimeoutFail, Queue, Cell
    <2> QED
      BY <2>1, <2>2, <2>3, <2>4
  <1> QED
    BY <1>4, <1>5, <1>6, <1>7, <1>8, <1>9, <1>10, <1>11, <1>12 DEF Rm

LEMMA InitType == Init => TypeOK
  <1> SUFFICES ASSUME Init PROVE TypeOK
    OBVIOUS
  <1> USE DEF Init, TypeOK
  <1>1. timers \in [TimerIds -> [kind : Kinds, left : Nat, due : Kinds]]
    BY DEF EmptyQueue, NoCell, Kinds
  <1>2. packet_id \in 0 .. IdMod - 1 /\ pid \in [Cmds -> 0 .. IdMod - 1]
    BY RequestAssumption
  <1>3. retry \in [Cmds -> 0 .. MaxRetry]
    BY RequestAssumption
  <1> QED
    BY <1>1, <1>2, <1>3 DEF TimerIds, CallerStates, AppStates, RmStates, Threads

LEMMA NextType == TypeOK /\ [Next]_vars => TypeOK'
  <1> SUFFICES ASSUME TypeOK, [Next]_vars PROVE TypeOK'
    OBVIOUS
  <1>1. CASE App
    BY <1>1, AppType
  <1>2. CASE Rm
    BY <1>2, RmType
  <1>3. CASE \E c \in Cmds : Caller(c)
    BY <1>3, CallerType
  <1>4. CASE TransportClose \/ TransportOpen
    BY <1>4 DEF TransportClose, TransportOpen, TypeOK
  <1>5. CASE UNCHANGED vars
    BY <1>5 DEF vars, TypeOK
  <1> QED
    BY <1>1, <1>2, <1>3, <1>4, <1>5 DEF Next

\* The fields of the manager stay within their types whatever the threads do: in particular
\* packet ids within 16 bits and retry counts within max_retry_.
THEOREM TypeCorrect == Spec => []TypeOK
  BY InitType, NextType, PTL DEF Spec

-----------------------------------------------------------------------------
(* The life of a command.  CallbackOnce is not inductive: that a request   *)
(* in the set has not been called back, and is put there only once, is     *)
(* what keeps a second callback away.                                      *)

Unwritten == {"idle", "timer", "reset", "readd", "write"}

LifeInv ==
    \A c \in Cmds :
        /\ c \in requests => caller[c] = "done" /\ calls[c] = 0
        /\ calls[c] > 0 => caller[c] = "done"
        /\ calls[c] <= 1
        /\ caller[c] \in Unwritten => writes[c] = 0
        /\ caller[c] = "insert" => writes[c] = 1
        /\ writes[c] <= retry[c] + 1
        /\ c \in failed => retry[c] = MaxRetry /\ calls[c] > 0

lifeVars == <<requests, caller, calls, writes, retry, failed>>

\* The steps that touch neither the set nor the callers.
LEMMA LifeUntouched ==
    ASSUME \/ StartThread \/ EnterConnected \/ StartKaFlag \/ StartKaMngt \/ StartKaWrite
           \/ StartKaTimer \/ StartKaPush \/ AckKeepalive \/ Stop \/ Join
           \/ RunOnce \/ RunOnceDone \/ ThreadExit \/ RetryEraseMngt \/ RetryReaddMngt
           \/ KaMngtAdd \/ KaMngtPush
           \/ \E id \in Slots : KaMngtTimeout(id) \/ KaTimeoutCb(id)
           \/ \E c \in Cmds : CmdTimeoutOrphan(c)
           \/ TransportClose \/ TransportOpen \/ UNCHANGED vars
    PROVE  UNCHANGED lifeVars
  BY DEF StartThread, EnterConnected, StartKaFlag, StartKaMngt, StartKaWrite, StartKaTimer,
         StartKaPush, AckKeepalive, Stop, Join, RunOnce, RunOnceDone, ThreadExit, RetryEraseMngt,
         RetryReaddMngt, KaMngtAdd, KaMngtPush, KaMngtTimeout, KaTimeoutCb, CmdTimeoutOrphan,
         TransportClose, TransportOpen, vars, lifeVars

LEMMA LifeStep == ASSUME TypeOK, LifeInv, [Next]_vars PROVE LifeInv'
  <1> USE DEF TypeOK, LifeInv, Unwritten
  <1>1. CASE \E c \in Cmds : Caller(c)
    <2>1. PICK c \in Cmds : Caller(c)
      BY <1>1
    <2>2. CASE SendCommand(c)
      BY <2>2 DEF SendCommand
    <2>3. CASE AddCmdTimer(c)
      BY <2>3 DEF AddCmdTimer
    <2>4. CASE EraseMngt(c)
      BY <2>4 DEF EraseMngt
    <2>5. CASE ReaddMngt(c)
      BY <2>5 DEF ReaddMngt
    <2>6. CASE WriteCmd(c)
      BY <2>6 DEF WriteCmd
    <2>7. CASE Insert(c)
      BY <2>7 DEF Insert
    <2> QED
      BY <2>1, <2>2, <2>3, <2>4, <2>5, <2>6, <2>7 DEF Caller
  <1>2. CASE StartClear
    BY <1>2 DEF StartClear
  <1>3. ASSUME NEW c \in Cmds, AckCommand(c) PROVE LifeInv'
    <2>1. caller[c] = "done" /\ calls[c] = 0
      BY <1>3 DEF AckCommand
    <2>2. /\ requests' = requests \ {c} /\ calls' = [calls EXCEPT ![c] = 1]
          /\ UNCHANGED <<caller, writes, retry, failed>>
      BY <1>3, <2>1 DEF AckCommand
    <2> QED
      BY <2>1, <2>2
  <1>4. ASSUME NEW c \in Cmds, CmdTimeoutRetry(c) PROVE LifeInv'
    <2>1. retry[c] < MaxRetry /\ c \in requests /\ caller[c] = "done"
      BY <1>4 DEF CmdTimeoutRetry
    <2>2. /\ retry' = [retry EXCEPT ![c] = @ + 1]
          /\ writes' \in {writes, [writes EXCEPT ![c] = @ + 1]}
          /\ UNCHANGED <<requests, caller, calls, failed>>
      BY <1>4 DEF CmdTimeoutRetry
    <2>3. c \notin failed
      BY <2>1, RequestAssumption
    <2> QED
      BY <2>1, <2>2, <2>3, RequestAssumption
  <1>5. ASSUME NEW c \in Cmds, CmdTimeoutFail(c) PROVE LifeInv'
    <2>0. c \in requests /\ retry[c] >= MaxRetry /\ retry[c] \in 0 .. MaxRetry
      BY <1>5 DEF CmdTimeoutFail
    <2>1. retry[c] = MaxRetry /\ caller[c] = "done" /\ calls[c] = 0
      BY <2>0, RequestAssumption
    <2>2. /\ requests' = requests \ {c} /\ calls' = [calls EXCEPT ![c] = 1]
          /\ failed' = failed \cup {c}
          /\ UNCHANGED <<caller, writes, retry>>
      BY <1>5, <2>1 DEF CmdTimeoutFail
    <2> QED
      BY <2>1, <2>2
  <1>6. CASE UNCHANGED lifeVars
    BY <1>6 DEF lifeVars
  <1> QED
    BY <1>1, <1>2, <1>3, <1>4, <1>5, <1>6, LifeUntouched DEF Next, App, Rm

LEMMA LifeInit == Init => LifeInv
  BY RequestAssumption DEF Init, LifeInv

LEMMA LifeHolds == Spec => []LifeInv
  BY TypeCorrect, LifeInit, LifeStep, PTL DEF Spec

\* The callback of a command is called at most once: ack_command and cmd_timeout_cb take the
\* request out of the set under the mutex under which they call it.
THEOREM CallbackOnceHolds == Spec => []CallbackOnce
  <1>1. LifeInv => CallbackOnce
    BY DEF LifeInv, CallbackOnce
  <1> QED
    BY <1>1, LifeHolds, PTL

\* No command is transmitted more than 1 + max_retry_ times, and none is reported as timed out
\* before its retries are used up.
THEOREM RetryBudgetHolds == Spec => []RetryBudget
  <1>1. TypeOK /\ LifeInv => RetryBudget
    BY RequestAssumption DEF TypeOK, LifeInv, RetryBudget
  <1> QED
    BY <1>1, TypeCorrect, LifeHolds, PTL

\* A command that was called back is never transmitted again: only a request in the set is.
THEOREM QuietAfterCallbackHolds == Spec => QuietAfterCallback
  <1>1. ASSUME TypeOK, LifeInv, [Next]_vars, NEW c \in Cmds, calls[c] > 0
        PROVE  writes'[c] = writes[c]
    <2> USE DEF TypeOK, LifeInv
    <2>1. caller[c] = "done" /\ c \notin requests
      BY <1>1
    <2>2. CASE \E d \in Cmds : Caller(d)
      BY <1>1, <2>1, <2>2 DEF Caller, SendCommand, AddCmdTimer, EraseMngt, ReaddMngt, WriteCmd,
                              Insert
    <2>3. CASE StartClear \/ \E d \in Cmds : AckCommand(d) \/ CmdTimeoutFail(d)
      BY <2>3 DEF StartClear, AckCommand, CmdTimeoutFail
    <2>4. CASE \E d \in Cmds : CmdTimeoutRetry(d)
      BY <1>1, <2>1, <2>4 DEF CmdTimeoutRetry
    <2>5. CASE UNCHANGED lifeVars
      BY <2>5 DEF lifeVars
    <2> QED
      BY <1>1, <2>2, <2>3, <2>4, <2>5, LifeUntouched DEF Next, App, Rm
  <1>2. TypeOK /\ LifeInv /\ [Next]_vars =>
            [\A c \in Cmds : calls[c] > 0 => writes'[c] = writes[c]]_vars
    BY <1>1
  <1> QED
    BY <1>2, TypeCorrect, LifeHolds, PTL DEF Spec, QuietAfterCallback

\* A callback ends the life of its command and of no other.
LEMMA PhaseEnds ==
    ASSUME NEW c \in Cmds, c \in requests, calls \in [Cmds -> Nat], calls[c] = 0,
           calls' = [calls EXCEPT ![c] = 1], requests' = requests \ {c},
           failed' \in {failed, failed \cup {c}}, UNCHANGED caller
    PROVE  /\ phase[c] = "pending"
           /\ c \in failed' => phase' = [phase EXCEPT ![c] = "timeout"]
           /\ c \notin failed' => phase' = [phase EXCEPT ![c] = "answered"]
  <1>1. phase[c] = "pending"
    BY DEF phase
  <1>2. \A d \in Cmds \ {c} : phase'[d] = phase[d]
    BY DEF phase
  <1>3. phase'[c] = IF c \in failed' THEN "timeout" ELSE "answered"
    BY DEF phase
  <1>4. phase = [d \in Cmds |-> phase[d]] /\ phase' = [d \in Cmds |-> phase'[d]]
    BY DEF phase
  <1> QED
    BY <1>1, <1>2, <1>3, <1>4

\* The manager implements CommandLife, the promise of send_command: every step of a thread is
\* a step in the life of one command, the end of a session, or changes nothing of it.
THEOREM KeepsPromiseHolds == Spec => KeepsPromise
  <1> USE DEF Life!Next, Life!Transmit, Life!Refuse, Life!Accept, Life!Answer, Life!GiveUp,
              Life!Retry, Life!EndSession, Life!Becomes
  <1> DEFINE mapped == <<phase, retry, writes>>
  <1>1. Init => Life!Init
    BY DEF Init, Life!Init, phase
  <1>2. ASSUME TypeOK, LifeInv, [Next]_vars PROVE [Life!Next]_mapped
    <2> USE <1>2 DEF TypeOK, LifeInv
    <2>1. ASSUME NEW c \in Cmds, Caller(c) PROVE [Life!Next]_mapped
      <3> USE DEF phase
      <3>1. CASE SendCommand(c) \/ AddCmdTimer(c) \/ EraseMngt(c) \/ ReaddMngt(c)
        <4>1. UNCHANGED <<requests, calls, failed, retry, writes>>
          BY <3>1 DEF SendCommand, AddCmdTimer, EraseMngt, ReaddMngt
        <4>2. /\ caller[c] \notin {"threw", "done"} /\ caller'[c] \notin {"threw", "done"}
              /\ \A d \in Cmds \ {c} : caller'[d] = caller[d]
          BY <3>1 DEF SendCommand, AddCmdTimer, EraseMngt, ReaddMngt
        <4>3. phase' = phase
          BY <4>1, <4>2
        <4> QED
          BY <4>1, <4>3
      <3>2. CASE WriteCmd(c)
        <4>1. /\ phase[c] = "new" /\ writes[c] = 0
              /\ UNCHANGED <<requests, calls, failed, retry>>
          BY <3>2 DEF WriteCmd, Unwritten
        <4>2. CASE caller'[c] = "insert"
          <5>1. /\ writes' = [writes EXCEPT ![c] = 1] /\ caller' = [caller EXCEPT ![c] = "insert"]
            BY <3>2, <4>1, <4>2 DEF WriteCmd
          <5>2. phase' = phase
            BY <4>1, <5>1
          <5> QED
            BY <4>1, <5>1, <5>2
        <4>3. CASE caller'[c] # "insert"
          <5>1. writes' = writes /\ caller' = [caller EXCEPT ![c] = "threw"]
            BY <3>2, <4>3 DEF WriteCmd
          <5>2. phase' = [phase EXCEPT ![c] = "refused"]
            BY <4>1, <5>1
          <5> QED
            BY <4>1, <5>1, <5>2
        <4> QED
          BY <4>2, <4>3
      <3>3. CASE Insert(c)
        <4>1. /\ phase[c] = "new" /\ writes[c] = 1 /\ calls[c] = 0
              /\ UNCHANGED <<calls, failed, retry, writes>>
          BY <3>3 DEF Insert
        <4>2. CASE Overrun(c)
          <5>1. UNCHANGED requests /\ caller' = [caller EXCEPT ![c] = "threw"]
            BY <3>3, <4>2 DEF Insert
          <5>2. phase' = [phase EXCEPT ![c] = "refused"]
            BY <4>1, <5>1
          <5> QED
            BY <4>1, <5>2
        <4>3. CASE ~Overrun(c)
          <5>1. requests' = requests \cup {c} /\ caller' = [caller EXCEPT ![c] = "done"]
            BY <3>3, <4>3 DEF Insert
          <5>2. phase' = [phase EXCEPT ![c] = "pending"]
            BY <4>1, <5>1
          <5> QED
            BY <4>1, <5>2
        <4> QED
          BY <4>2, <4>3
      <3> QED
        BY <2>1, <3>1, <3>2, <3>3 DEF Caller
    <2>2. CASE StartClear
      <3>1. requests' = {} /\ UNCHANGED <<caller, calls, failed, retry, writes>>
        BY <2>2 DEF StartClear
      <3>2. phase' = [c \in Cmds |-> IF phase[c] = "pending" THEN "dropped" ELSE phase[c]]
        BY <3>1 DEF phase
      <3> QED
        BY <3>1, <3>2
    <2>3. ASSUME NEW c \in Cmds, AckCommand(c) PROVE [Life!Next]_mapped
      <3>1. c \in requests /\ calls[c] = 0 /\ c \notin failed
        BY <2>3 DEF AckCommand
      <3>2. /\ requests' = requests \ {c} /\ calls' = [calls EXCEPT ![c] = 1]
            /\ UNCHANGED <<caller, failed, retry, writes>>
        BY <2>3, <3>1 DEF AckCommand
      <3>3. phase[c] = "pending" /\ phase' = [phase EXCEPT ![c] = "answered"]
        BY <3>1, <3>2, PhaseEnds DEF TypeOK
      <3>4. Life!Answer(c)
        BY <3>2, <3>3
      <3> QED
        BY <3>4
    <2>4. ASSUME NEW c \in Cmds, CmdTimeoutRetry(c) PROVE [Life!Next]_mapped
      <3>1. /\ c \in requests /\ calls[c] = 0 /\ retry[c] < MaxRetry
            /\ retry' = [retry EXCEPT ![c] = @ + 1]
            /\ writes' \in {writes, [writes EXCEPT ![c] = @ + 1]}
            /\ UNCHANGED <<requests, caller, calls, failed>>
        BY <2>4 DEF CmdTimeoutRetry
      <3>2. phase[c] = "pending" /\ phase' = phase
        BY <3>1 DEF phase
      <3> QED
        BY <3>1, <3>2
    <2>5. ASSUME NEW c \in Cmds, CmdTimeoutFail(c) PROVE [Life!Next]_mapped
      <3>1. c \in requests /\ retry[c] >= MaxRetry /\ retry[c] \in 0 .. MaxRetry /\ calls[c] = 0
        BY <2>5 DEF CmdTimeoutFail
      <3>2. retry[c] = MaxRetry
        BY SMTT(20), <3>1, RequestAssumption
      <3>3. /\ requests' = requests \ {c} /\ calls' = [calls EXCEPT ![c] = 1]
            /\ failed' = failed \cup {c}
            /\ UNCHANGED <<caller, retry, writes>>
        BY <2>5, <3>1 DEF CmdTimeoutFail
      <3>4. phase[c] = "pending" /\ phase' = [phase EXCEPT ![c] = "timeout"]
        BY <3>1, <3>3, PhaseEnds DEF TypeOK
      <3> QED
        BY <3>2, <3>3, <3>4
    <2>6. CASE UNCHANGED lifeVars
      BY <2>6 DEF lifeVars, phase
    <2> QED
      BY <2>1, <2>2, <2>3, <2>4, <2>5, <2>6, LifeUntouched DEF Next, App, Rm
  <1> QED
    BY <1>1, <1>2, TypeCorrect, LifeHolds, PTL DEF Spec, KeepsPromise, Life!Spec

\* Two pending requests never share a packet id, so an acknowledgement names one of them.
THEOREM AckUnambiguousHolds == Spec => []AckUnambiguous
  <1>1. Init => AckUnambiguous
    BY DEF Init, AckUnambiguous
  <1>2. ASSUME TypeOK, LifeInv, AckUnambiguous, [Next]_vars PROVE AckUnambiguous'
    <2> USE DEF TypeOK, LifeInv, AckUnambiguous
    <2>1. ASSUME NEW c \in Cmds, WriteCmd(c) PROVE AckUnambiguous'
      <3>1. c \notin requests /\ requests' = requests
        BY <1>2, <2>1 DEF WriteCmd
      <3>2. \A d \in requests : pid'[d] = pid[d]
        BY <1>2, <2>1, <3>1 DEF WriteCmd
      <3> QED
        BY <1>2, <3>1, <3>2
    <2>2. ASSUME NEW c \in Cmds, Insert(c) PROVE AckUnambiguous'
      BY <1>2, <2>2 DEF Insert, Overrun
    <2>3. ASSUME StartClear \/ \E c \in Cmds : AckCommand(c) \/ CmdTimeoutFail(c)
          PROVE  AckUnambiguous'
      BY <1>2, <2>3 DEF StartClear, AckCommand, CmdTimeoutFail
    <2>4. CASE UNCHANGED <<requests, pid>>
      BY <1>2, <2>4
    <2>5. ASSUME NEW c \in Cmds,
                 SendCommand(c) \/ AddCmdTimer(c) \/ EraseMngt(c) \/ ReaddMngt(c)
                   \/ CmdTimeoutOrphan(c) \/ CmdTimeoutRetry(c)
          PROVE  UNCHANGED <<requests, pid>>
      BY <2>5 DEF SendCommand, AddCmdTimer, EraseMngt, ReaddMngt, CmdTimeoutOrphan,
                  CmdTimeoutRetry
    <2>6. ASSUME \/ StartThread \/ EnterConnected \/ StartKaFlag \/ StartKaMngt \/ StartKaWrite
                 \/ StartKaTimer \/ StartKaPush \/ AckKeepalive \/ Stop \/ Join
                 \/ RunOnce \/ RunOnceDone \/ ThreadExit \/ RetryEraseMngt \/ RetryReaddMngt
                 \/ KaMngtAdd \/ KaMngtPush
                 \/ \E id \in Slots : KaMngtTimeout(id) \/ KaTimeoutCb(id)
                 \/ TransportClose \/ TransportOpen \/ UNCHANGED vars
          PROVE  UNCHANGED <<requests, pid>>
      BY <2>6 DEF StartThread, EnterConnected, StartKaFlag, StartKaMngt, StartKaWrite,
                  StartKaTimer, StartKaPush, AckKeepalive, Stop, Join, RunOnce, RunOnceDone,
                  ThreadExit, RetryEraseMngt, RetryReaddMngt, KaMngtAdd, KaMngtPush,
                  KaMngtTimeout, KaTimeoutCb, TransportClose, TransportOpen, vars
    <2> QED
      BY <1>2, <2>1, <2>2, <2>3, <2>4, <2>5, <2>6 DEF Next, App, Rm, Caller
  <1> QED
    BY <1>1, <1>2, TypeCorrect, LifeHolds, PTL DEF Spec

-----------------------------------------------------------------------------
(* The timers of the commands.  From the moment send_command has added the *)
(* timer until the request is resolved the timer is in the queue.          *)

HasTimer == {"reset", "readd", "write", "insert"}

TimerInv ==
    \A c \in Cmds \ untimed :
        c \in requests \/ caller[c] \in HasTimer => timers[c].kind = "cmd"

\* Only ack_command, the last cmd_timeout_cb, clear() and an erase through an uninitialized
\* keepalive_mngt_id_ take the timer of a command out of the queue.
LEMMA CmdTimerKept ==
    ASSUME TypeOK, [Next]_vars, NEW c \in Cmds, timers[c].kind = "cmd",
           ~AckCommand(c), ~CmdTimeoutFail(c)
    PROVE  timers'[c].kind = "cmd" \/ c \in untimed'
  <1> USE DEF TypeOK, TimerIds
  <1>1. timers \in Queue /\ c \in TimerIds
    BY DEF Queue, Cell
  <1>2. FreeIds # {} => NewId \in Slots /\ NewId # c
    BY NewIdFree, RequestAssumption DEF FreeIds
  <1>3. \A id : Erase(timers, id) \in Queue
    BY <1>1, QueueTypes DEF Erase
  <1>4. \A id : id # c => Erase(timers, id)[c].kind = "cmd"
    BY <1>1, QueueKinds DEF Erase
  <1>5. ASSUME NEW d \in Cmds, AddCmdTimer(d) PROVE timers'[c].kind = "cmd"
    BY <1>1, <1>5, QueueKinds, RequestAssumption DEF AddCmdTimer, Kinds
  <1>6. ASSUME NEW d \in Cmds, AckCommand(d) PROVE timers'[c].kind = "cmd"
    BY <1>4, <1>6 DEF AckCommand
  <1>7. ASSUME NEW d \in Cmds, CmdTimeoutFail(d) PROVE timers'[c].kind = "cmd"
    <2> d # c
      BY <1>7
    <2>1. Erase(timers, d) \in Queue /\ Erase(timers, d)[c].kind = "cmd"
      BY <1>3, <1>4
    <2>2. \A q \in Queue : q[c].kind = "cmd" => TakeDue(q, d)[c].kind = "cmd"
      BY <1>1 DEF TakeDue, Queue, Cell
    <2>3. TakeDue(Erase(timers, d), d)[c].kind = "cmd"
      BY <2>1, <2>2
    <2> QED
      BY <1>7, <2>3 DEF CmdTimeoutFail
  <1>8. ASSUME NEW d \in Cmds, EraseMngt(d) PROVE timers'[c].kind = "cmd" \/ c \in untimed'
    BY <1>4, <1>8 DEF EraseMngt
  <1>9. ASSUME RetryEraseMngt PROVE timers'[c].kind = "cmd" \/ c \in untimed'
    BY <1>4, <1>9 DEF RetryEraseMngt
  <1>10. ASSUME \/ \E d \in Cmds : ReaddMngt(d)
                \/ StartKaMngt \/ StartKaTimer \/ RetryReaddMngt \/ KaMngtAdd
         PROVE  timers'[c].kind = "cmd"
    <2>1. ASSUME FreeIds # {}
          PROVE  /\ Add(timers, NewId, "mngt", KaInterval)[c].kind = "cmd"
                 /\ Add(timers, NewId, "ka", KaTimeout)[c].kind = "cmd"
      BY <1>1, <1>2, <2>1, QueueKinds, RequestAssumption DEF Kinds
    <2> QED
      BY <1>10, <2>1 DEF ReaddMngt, StartKaMngt, StartKaTimer, RetryReaddMngt, KaMngtAdd
  <1>11. ASSUME AckKeepalive PROVE timers'[c].kind = "cmd"
    <2>1. c \notin ka_ids
      BY RequestAssumption
    <2> QED
      BY <1>1, <1>11, <2>1, QueueKinds DEF AckKeepalive
  <1>12. ASSUME RunOnce PROVE timers'[c].kind = "cmd"
    BY <1>1, <1>12, QueueKinds DEF RunOnce
  <1>13. ASSUME \/ \E id \in Slots : KaMngtTimeout(id) \/ KaTimeoutCb(id)
                \/ \E d \in Cmds : CmdTimeoutOrphan(d) \/ CmdTimeoutRetry(d)
         PROVE  timers'[c].kind = "cmd"
    <2>1. \A id \in TimerIds : TakeDue(timers, id)[c].kind = "cmd"
      BY <1>1 DEF TakeDue, Queue, Cell
    <2>2. DropDue(timers)[c].kind = "cmd"
      BY <1>1 DEF DropDue, Queue, Cell
    <2> QED
      BY <1>13, <2>1, <2>2 DEF KaMngtTimeout, KaTimeoutCb, CmdTimeoutOrphan, CmdTimeoutRetry
  <1>14. ASSUME StartThread PROVE c \in untimed'
    BY <1>14 DEF StartThread, Live
  <1>15. ASSUME \/ \E d \in Cmds : SendCommand(d) \/ WriteCmd(d) \/ Insert(d)
                \/ StartClear \/ EnterConnected \/ StartKaFlag \/ StartKaWrite \/ StartKaPush
                \/ Stop \/ Join \/ RunOnceDone \/ ThreadExit \/ KaMngtPush
                \/ TransportClose \/ TransportOpen \/ UNCHANGED vars
         PROVE  timers'[c].kind = "cmd"
    BY <1>15 DEF SendCommand, WriteCmd, Insert, StartClear, EnterConnected, StartKaFlag,
                 StartKaWrite, StartKaPush, Stop, Join, RunOnceDone, ThreadExit, KaMngtPush,
                 TransportClose, TransportOpen, vars
  <1> QED
    BY <1>5, <1>6, <1>7, <1>8, <1>9, <1>10, <1>11, <1>12, <1>13, <1>14, <1>15
       DEF Next, App, Rm, Caller

\* From add_repeating to the callback the timer of a command is in the queue.
LEMMA TimerStep ==
    TypeOK /\ LifeInv /\ TimerInv /\ [Next]_vars => TimerInv'
  <1> SUFFICES ASSUME TypeOK, LifeInv, TimerInv, [Next]_vars,
                      NEW c \in Cmds, c \notin untimed',
                      c \in requests' \/ caller'[c] \in HasTimer
               PROVE  timers'[c].kind = "cmd"
    BY DEF TimerInv
  <1> USE DEF TypeOK, LifeInv
  <1>1. timers \in Queue /\ c \in TimerIds
    BY DEF Queue, Cell, TimerIds
  <1>2. CASE AddCmdTimer(c)
    BY <1>1, <1>2, QueueKinds, RequestAssumption DEF AddCmdTimer, Kinds
  <1>3. ASSUME AckCommand(c) \/ CmdTimeoutFail(c) PROVE FALSE
    BY <1>3 DEF AckCommand, CmdTimeoutFail, HasTimer
  <1>4. ASSUME ~AddCmdTimer(c)
        PROVE  c \notin untimed /\ (c \in requests \/ caller[c] \in HasTimer)
    <2>1. CASE \E d \in Cmds : Caller(d)
      BY <1>4, <2>1 DEF Caller, SendCommand, AddCmdTimer, EraseMngt, ReaddMngt, WriteCmd, Insert,
                        HasTimer, CallerStates, history
    <2>2. CASE StartClear \/ \E d \in Cmds : AckCommand(d) \/ CmdTimeoutFail(d)
      BY <2>2 DEF StartClear, AckCommand, CmdTimeoutFail, history
    <2>3. CASE StartThread
      BY <2>3 DEF StartThread, reqVars
    <2>4. CASE \E d \in Cmds : CmdTimeoutRetry(d) \/ CmdTimeoutOrphan(d)
      BY <2>4 DEF CmdTimeoutRetry, CmdTimeoutOrphan, reqVars, history
    <2>5. CASE \/ EnterConnected \/ StartKaFlag \/ StartKaMngt \/ StartKaWrite
               \/ StartKaTimer \/ StartKaPush \/ AckKeepalive \/ Stop \/ Join
               \/ RunOnce \/ RunOnceDone \/ ThreadExit \/ RetryEraseMngt \/ RetryReaddMngt
               \/ KaMngtAdd \/ KaMngtPush
               \/ \E id \in Slots : KaMngtTimeout(id) \/ KaTimeoutCb(id)
               \/ TransportClose \/ TransportOpen \/ UNCHANGED vars
      BY <2>5 DEF EnterConnected, StartKaFlag, StartKaMngt, StartKaWrite, StartKaTimer,
                  StartKaPush, AckKeepalive, Stop, Join, RunOnce, RunOnceDone, ThreadExit,
                  RetryEraseMngt, RetryReaddMngt, KaMngtAdd, KaMngtPush, KaMngtTimeout,
                  KaTimeoutCb, TransportClose, TransportOpen, vars, reqVars, history
    <2> QED
      BY <2>1, <2>2, <2>3, <2>4, <2>5 DEF Next, App, Rm
  <1> QED
    BY <1>2, <1>3, <1>4, CmdTimerKept DEF TimerInv

\* A pending request has its timer: it will be retried, acknowledged or reported.
THEOREM PendingHasTimerHolds == Spec => []PendingHasTimer
  <1>1. Init => TimerInv
    BY DEF Init, TimerInv, HasTimer
  <1>2. TypeOK /\ TimerInv => PendingHasTimer
    BY DEF TypeOK, TimerInv, PendingHasTimer, Live, TimerIds
  <1> QED
    BY <1>1, <1>2, TimerStep, TypeCorrect, LifeHolds, PTL DEF Spec

\* Only send_command puts the timer of a command into the queue, and it is gone once the
\* command was acknowledged, reported or cleared.
LEMMA CmdTimerNew ==
    ASSUME TypeOK, [Next]_vars, NEW c \in Cmds, timers'[c].kind = "cmd", ~AddCmdTimer(c)
    PROVE  timers[c].kind = "cmd" /\ ~StartThread /\ ~AckCommand(c) /\ ~CmdTimeoutFail(c)
  <1> USE DEF TypeOK, TimerIds
  <1>1. timers \in Queue /\ c \in TimerIds
    BY DEF Queue, Cell
  <1>2. FreeIds # {} => NewId \in Slots /\ NewId # c
    BY NewIdFree, RequestAssumption DEF FreeIds
  <1>3. \A id : Erase(timers, id) \in Queue
    BY <1>1, QueueTypes DEF Erase
  <1>4. \A id : Erase(timers, id)[c].kind = "cmd" => timers[c].kind = "cmd" /\ id # c
    BY <1>1, QueueKinds DEF Erase
  <1>5. ASSUME NEW d \in Cmds, AddCmdTimer(d) PROVE timers[c].kind = "cmd"
    <2>1. d # c
      BY <1>5
    <2>2. Add(timers, d, "cmd", CmdTimeout)[c].kind = timers[c].kind
      BY <1>1, <2>1 DEF Add, Queue, Cell
    <2> QED
      BY <1>5, <2>2 DEF AddCmdTimer
  <1>6. ASSUME NEW d \in Cmds, AckCommand(d) PROVE timers[c].kind = "cmd" /\ d # c
    BY <1>4, <1>6 DEF AckCommand
  <1>7. ASSUME NEW d \in Cmds, CmdTimeoutFail(d) PROVE timers[c].kind = "cmd" /\ d # c
    <2>1. \A q \in Queue : TakeDue(q, d)[c].kind = q[c].kind
      BY <1>1 DEF TakeDue, Queue, Cell
    <2>2. Erase(timers, d)[c].kind = "cmd"
      BY <1>3, <1>7, <2>1 DEF CmdTimeoutFail
    <2> QED
      BY <1>4, <2>2
  <1>8. ASSUME RetryEraseMngt \/ \E d \in Cmds : EraseMngt(d) PROVE timers[c].kind = "cmd"
    BY <1>4, <1>8 DEF EraseMngt, RetryEraseMngt
  <1>9. ASSUME \/ \E d \in Cmds : ReaddMngt(d)
               \/ StartKaMngt \/ StartKaTimer \/ RetryReaddMngt \/ KaMngtAdd
        PROVE  timers[c].kind = "cmd"
    <2>1. ASSUME FreeIds # {}
          PROVE  /\ Add(timers, NewId, "mngt", KaInterval)[c].kind = timers[c].kind
                 /\ Add(timers, NewId, "ka", KaTimeout)[c].kind = timers[c].kind
      BY <1>1, <1>2, <2>1 DEF Add, Queue, Cell
    <2> QED
      BY <1>9, <2>1 DEF ReaddMngt, StartKaMngt, StartKaTimer, RetryReaddMngt, KaMngtAdd
  <1>10. ASSUME AckKeepalive PROVE timers[c].kind = "cmd"
    BY <1>1, <1>10, QueueKinds DEF AckKeepalive
  <1>11. ASSUME RunOnce PROVE timers[c].kind = "cmd"
    BY <1>1, <1>11, QueueKinds DEF RunOnce
  <1>12. ASSUME \/ \E id \in Slots : KaMngtTimeout(id) \/ KaTimeoutCb(id)
                \/ \E d \in Cmds : CmdTimeoutOrphan(d) \/ CmdTimeoutRetry(d)
         PROVE  timers[c].kind = "cmd"
    <2>1. /\ \A id \in TimerIds : TakeDue(timers, id)[c].kind = timers[c].kind
          /\ DropDue(timers)[c].kind = timers[c].kind
      BY <1>1, QueueKinds
    <2> QED
      BY <1>12, <2>1 DEF KaMngtTimeout, KaTimeoutCb, CmdTimeoutOrphan, CmdTimeoutRetry
  <1>13. ~StartThread
    <2>1. EmptyQueue(TimerIds)[c].kind = "none"
      BY <1>1, QueueKinds
    <2> QED
      BY <2>1 DEF StartThread
  <1>14. ASSUME \/ \E d \in Cmds : SendCommand(d) \/ WriteCmd(d) \/ Insert(d)
                \/ StartClear \/ EnterConnected \/ StartKaFlag \/ StartKaWrite \/ StartKaPush
                \/ Stop \/ Join \/ RunOnceDone \/ ThreadExit \/ KaMngtPush
                \/ TransportClose \/ TransportOpen \/ UNCHANGED vars
         PROVE  timers[c].kind = "cmd"
    BY <1>14 DEF SendCommand, WriteCmd, Insert, StartClear, EnterConnected, StartKaFlag,
                 StartKaWrite, StartKaPush, Stop, Join, RunOnceDone, ThreadExit, KaMngtPush,
                 TransportClose, TransportOpen, vars
  <1>15. timers[c].kind = "cmd"
    BY <1>5, <1>6, <1>7, <1>8, <1>9, <1>10, <1>11, <1>12, <1>13, <1>14
       DEF Next, App, Rm, Caller
  <1> QED
    BY <1>6, <1>7, <1>13, <1>15

\* What each operation of the queue does to a callback that is collected.
LEMMA QueueDues ==
    ASSUME NEW q \in Queue, NEW x \in TimerIds
    PROVE  /\ EmptyQueue(TimerIds)[x].due = "none"
           /\ \A id \in TimerIds, k \in Kinds, d \in Nat :
                 Add(q, id, k, d)[x].due = IF x = id THEN "none" ELSE q[x].due
           /\ \A ids : EraseAll(q, ids)[x].due =
                 IF x \in ids /\ EraseReachesBatch THEN "none" ELSE q[x].due
           /\ Collect(q, period)[x].due = "cmd" => q[x].kind = "cmd"
           /\ \A id \in TimerIds : TakeDue(q, id)[x].due = IF x = id THEN "none" ELSE q[x].due
           /\ DropDue(q)[x].due = "none"
  <1> USE DEF Queue, Cell
  <1>1. EmptyQueue(TimerIds)[x].due = "none"
    BY DEF EmptyQueue, NoCell
  <1>2. \A id \in TimerIds, k \in Kinds, d \in Nat :
            Add(q, id, k, d)[x].due = IF x = id THEN "none" ELSE q[x].due
    BY DEF Add
  <1>3. \A ids : EraseAll(q, ids)[x].due =
            IF x \in ids /\ EraseReachesBatch THEN "none" ELSE q[x].due
    BY DEF EraseAll
  <1>4. \A cell \in Cell : Aged(cell, period).due = "cmd" => cell.kind = "cmd"
    BY DEF Aged, Kinds, NoCell
  <1>5. Collect(q, period)[x].due = "cmd" => q[x].kind = "cmd"
    BY <1>4 DEF Collect
  <1>6. \A id \in TimerIds : TakeDue(q, id)[x].due = IF x = id THEN "none" ELSE q[x].due
    BY DEF TakeDue
  <1>7. DropDue(q)[x].due = "none"
    BY DEF DropDue
  <1> QED
    BY <1>1, <1>2, <1>3, <1>5, <1>6, <1>7

\* A callback of a command is collected by run_once from its timer; one that stays collected
\* was not called, and no erase reached it.
LEMMA CmdDueNew ==
    ASSUME TypeOK, [Next]_vars, NEW c \in Cmds, timers'[c].due = "cmd"
    PROVE  /\ timers[c].due = "cmd" \/ timers[c].kind = "cmd"
           /\ ~StartThread /\ ~CmdTimeoutFail(c)
           /\ AckCommand(c) => ~EraseReachesBatch
  <1> USE DEF TypeOK, TimerIds
  <1>1. timers \in Queue /\ c \in TimerIds
    BY DEF Queue, Cell
  <1>2. FreeIds # {} => NewId \in Slots /\ NewId # c
    BY NewIdFree, RequestAssumption DEF FreeIds
  <1>3. \A id : /\ Erase(timers, id) \in Queue
                /\ Erase(timers, id)[c].due =
                      IF c = id /\ EraseReachesBatch THEN "none" ELSE timers[c].due
    <2>1. \A ids : /\ EraseAll(timers, ids) \in Queue
                    /\ EraseAll(timers, ids)[c].due =
                          IF c \in ids /\ EraseReachesBatch THEN "none" ELSE timers[c].due
      <3>1. \A ids : EraseAll(timers, ids) \in Queue
        BY <1>1, QueueTypes
      <3>2. \A ids : EraseAll(timers, ids)[c].due =
                        IF c \in ids /\ EraseReachesBatch THEN "none" ELSE timers[c].due
        BY <1>1, QueueDues
      <3> QED
        BY <3>1, <3>2
    <2> QED
      BY <2>1 DEF Erase
  <1>4. \A ids : EraseAll(timers, ids)[c].due \in {timers[c].due, "none"}
    BY <1>1 DEF EraseAll, Queue, Cell
  <1>5. \A id \in TimerIds : TakeDue(timers, id)[c].due \in {timers[c].due, "none"}
    BY <1>1 DEF TakeDue, Queue, Cell
  <1>6. DropDue(timers)[c].due = "none" /\ EmptyQueue(TimerIds)[c].due = "none"
    BY <1>1 DEF DropDue, EmptyQueue, NoCell, Queue, Cell
  <1>7. ~StartThread
    BY <1>6 DEF StartThread
  <1>8. ASSUME AckCommand(c) PROVE ~EraseReachesBatch
    BY <1>3, <1>8 DEF AckCommand
  <1>9. ASSUME NEW d \in Cmds, CmdTimeoutFail(d) PROVE timers[c].due = "cmd" /\ d # c
    <2>1. \A q \in Queue : TakeDue(q, d)[c].due = IF c = d THEN "none" ELSE q[c].due
      BY <1>1 DEF TakeDue, Queue, Cell
    <2>2. d # c /\ Erase(timers, d)[c].due = "cmd"
      BY <1>3, <1>9, <2>1 DEF CmdTimeoutFail
    <2> QED
      BY <1>3, <2>2
  <1>10. ASSUME NEW d \in Cmds, AddCmdTimer(d) PROVE timers[c].due = "cmd"
    <2>1. Add(timers, d, "cmd", CmdTimeout)[c].due \in {timers[c].due, "none"}
      BY <1>1 DEF Add, Queue, Cell
    <2> QED
      BY <1>10, <2>1 DEF AddCmdTimer
  <1>11. ASSUME NEW d \in Cmds, AckCommand(d) PROVE timers[c].due = "cmd"
    BY <1>3, <1>11 DEF AckCommand
  <1>12. ASSUME RetryEraseMngt \/ \E d \in Cmds : EraseMngt(d) PROVE timers[c].due = "cmd"
    BY <1>3, <1>12 DEF EraseMngt, RetryEraseMngt
  <1>13. ASSUME \/ \E d \in Cmds : ReaddMngt(d)
                \/ StartKaMngt \/ StartKaTimer \/ RetryReaddMngt \/ KaMngtAdd
         PROVE  timers[c].due = "cmd"
    <2>1. ASSUME FreeIds # {}
          PROVE  /\ Add(timers, NewId, "mngt", KaInterval)[c].due = timers[c].due
                 /\ Add(timers, NewId, "ka", KaTimeout)[c].due = timers[c].due
      BY <1>1, <1>2, <2>1 DEF Add, Queue, Cell
    <2> QED
      BY <1>13, <2>1 DEF ReaddMngt, StartKaMngt, StartKaTimer, RetryReaddMngt, KaMngtAdd
  <1>14. ASSUME AckKeepalive PROVE timers[c].due = "cmd"
    BY <1>4, <1>14 DEF AckKeepalive
  <1>15. ASSUME RunOnce PROVE timers[c].kind = "cmd"
    BY <1>1, <1>15, QueueDues DEF RunOnce
  <1>16. ASSUME \/ \E id \in Slots : KaMngtTimeout(id) \/ KaTimeoutCb(id)
                \/ \E d \in Cmds : CmdTimeoutOrphan(d) \/ CmdTimeoutRetry(d)
         PROVE  timers[c].due = "cmd"
    BY <1>5, <1>6, <1>16 DEF KaMngtTimeout, KaTimeoutCb, CmdTimeoutOrphan, CmdTimeoutRetry
  <1>17. ASSUME \/ \E d \in Cmds : SendCommand(d) \/ WriteCmd(d) \/ Insert(d)
                \/ StartClear \/ EnterConnected \/ StartKaFlag \/ StartKaWrite \/ StartKaPush
                \/ Stop \/ Join \/ RunOnceDone \/ ThreadExit \/ KaMngtPush
                \/ TransportClose \/ TransportOpen \/ UNCHANGED vars
         PROVE  timers[c].due = "cmd"
    BY <1>17 DEF SendCommand, WriteCmd, Insert, StartClear, EnterConnected, StartKaFlag,
                 StartKaWrite, StartKaPush, Stop, Join, RunOnceDone, ThreadExit, KaMngtPush,
                 TransportClose, TransportOpen, vars
  <1>18. timers[c].due = "cmd" \/ timers[c].kind = "cmd"
    BY <1>7, <1>9, <1>10, <1>11, <1>12, <1>13, <1>14, <1>15, <1>16, <1>17
       DEF Next, App, Rm, Caller
  <1> QED
    BY <1>7, <1>8, <1>9, <1>18

\* Only start() makes the manager run, and a running manager is not started.
LEMMA StaysRunning ==
    ASSUME [Next]_vars, running', ~StartThread PROVE running /\ ~StartClear
  <1>1. CASE \E d \in Cmds : Caller(d)
    BY <1>1 DEF StartClear, Caller, SendCommand, AddCmdTimer, EraseMngt, ReaddMngt, WriteCmd,
                Insert
  <1>2. CASE App
    BY <1>2 DEF App, StartClear, EnterConnected, StartKaFlag, StartKaMngt, StartKaWrite,
                StartKaTimer, StartKaPush, AckCommand, AckKeepalive, Stop, Join
  <1>3. CASE Rm
    BY <1>3 DEF Rm, StartClear, RunOnce, RunOnceDone, ThreadExit, RetryEraseMngt,
                RetryReaddMngt, KaMngtAdd, KaMngtPush, KaMngtTimeout, KaTimeoutCb,
                CmdTimeoutFail, CmdTimeoutRetry, CmdTimeoutOrphan
  <1>4. CASE TransportClose \/ TransportOpen \/ UNCHANGED vars
    BY <1>4 DEF StartClear, TransportClose, TransportOpen, vars
  <1> QED
    BY <1>1, <1>2, <1>3, <1>4 DEF Next

\* What accounts for a timer goes away only with start(), its acknowledgement or its failure.
LEMMA AccountedKept ==
    ASSUME TypeOK, [Next]_vars, NEW c \in Cmds, Accounted(c),
           ~StartClear, ~AckCommand(c), ~CmdTimeoutFail(c)
    PROVE  Accounted(c)'
  <1> USE DEF TypeOK, Accounted
  <1>1. CASE \E d \in Cmds : Caller(d)
    <2>1. PICK d \in Cmds : Caller(d)
      BY <1>1
    <2>2. CASE d # c
      <3>1. requests \subseteq requests' /\ caller'[c] = caller[c]
        BY <2>1, <2>2 DEF Caller, SendCommand, AddCmdTimer, EraseMngt, ReaddMngt, WriteCmd,
                          Insert, reqVars
      <3> QED
        BY <3>1
    <2>3. CASE d = c
      BY <2>1, <2>3 DEF Caller, SendCommand, AddCmdTimer, EraseMngt, ReaddMngt, WriteCmd, Insert,
                        InCall, reqVars
    <2> QED
      BY <2>2, <2>3
  <1>2. CASE \E d \in Cmds : AckCommand(d) \/ CmdTimeoutFail(d)
    BY <1>2 DEF AckCommand, CmdTimeoutFail
  <1>3. CASE \E d \in Cmds : CmdTimeoutRetry(d) \/ CmdTimeoutOrphan(d)
    <2>1. requests' = requests /\ caller' = caller
      BY <1>3 DEF CmdTimeoutRetry, CmdTimeoutOrphan, reqVars
    <2> QED
      BY <2>1
  <1>4. CASE \/ StartThread \/ EnterConnected \/ StartKaFlag \/ StartKaMngt \/ StartKaWrite
             \/ StartKaTimer \/ StartKaPush \/ AckKeepalive \/ Stop \/ Join
             \/ RunOnce \/ RunOnceDone \/ ThreadExit \/ RetryEraseMngt \/ RetryReaddMngt
             \/ KaMngtAdd \/ KaMngtPush
             \/ \E id \in Slots : KaMngtTimeout(id) \/ KaTimeoutCb(id)
             \/ TransportClose \/ TransportOpen \/ UNCHANGED vars
    BY <1>4 DEF StartThread, EnterConnected, StartKaFlag, StartKaMngt, StartKaWrite,
                StartKaTimer, StartKaPush, AckKeepalive, Stop, Join, RunOnce, RunOnceDone,
                ThreadExit, RetryEraseMngt, RetryReaddMngt, KaMngtAdd, KaMngtPush, KaMngtTimeout,
                KaTimeoutCb, TransportClose, TransportOpen, vars, reqVars
  <1> QED
    BY <1>1, <1>2, <1>3, <1>4 DEF Next, App, Rm

\* A callback that was called stays called.
LEMMA CalledStays ==
    ASSUME TypeOK, [Next]_vars, NEW c \in Cmds
    PROVE  /\ calls[c] > 0 => calls'[c] > 0
           /\ AckCommand(c) => calls'[c] > 0
  <1> USE DEF TypeOK
  <1>1. CASE \E d \in Cmds : AckCommand(d) \/ CmdTimeoutFail(d)
    BY <1>1 DEF AckCommand, CmdTimeoutFail
  <1>2. CASE \/ StartClear \/ \E d \in Cmds : Caller(d) \/ CmdTimeoutRetry(d)
             \/ UNCHANGED lifeVars
    BY <1>2 DEF StartClear, Caller, SendCommand, AddCmdTimer, EraseMngt, ReaddMngt, WriteCmd,
                Insert, CmdTimeoutRetry, lifeVars, AckCommand
  <1> QED
    BY <1>1, <1>2, LifeUntouched DEF Next, App, Rm

\* While the manager runs, cmd_timeout_cb misses its request only for a send_command that has
\* not inserted it yet or threw, or for a callback that ack_command came too late to withdraw.
THEOREM CmdTimerOwnedHolds == Spec => []CmdTimerOwned
  <1>1. Init => CmdTimerOwned
    BY DEF Init, CmdTimerOwned, Live, EmptyQueue, NoCell, TimerIds
  <1>2. TypeOK /\ CmdTimerOwned /\ [Next]_vars => CmdTimerOwned'
    <2> SUFFICES ASSUME TypeOK, CmdTimerOwned, [Next]_vars, running', NEW c \in Cmds
                 PROVE  /\ timers'[c].kind = "cmd" => Accounted(c)'
                        /\ timers'[c].due = "cmd" =>
                              Accounted(c)' \/ (calls'[c] > 0 /\ ~EraseReachesBatch)
      BY DEF CmdTimerOwned, Live
    <2>1. ASSUME timers'[c].kind = "cmd", ~AddCmdTimer(c) PROVE Accounted(c)'
      <3>1. timers[c].kind = "cmd" /\ ~StartThread /\ ~AckCommand(c) /\ ~CmdTimeoutFail(c)
        BY <2>1, CmdTimerNew
      <3>2. running /\ ~StartClear
        BY <3>1, StaysRunning
      <3>3. Accounted(c)
        BY <3>1, <3>2 DEF CmdTimerOwned, Live, TypeOK, TimerIds
      <3> QED
        BY <3>1, <3>2, <3>3, AccountedKept
    <2>2. ASSUME AddCmdTimer(c) PROVE Accounted(c)'
      BY <2>2 DEF AddCmdTimer, Accounted, InCall, TypeOK
    <2>3. ASSUME timers'[c].due = "cmd"
          PROVE  Accounted(c)' \/ (calls'[c] > 0 /\ ~EraseReachesBatch)
      <3>1. /\ timers[c].due = "cmd" \/ timers[c].kind = "cmd"
            /\ ~StartThread /\ ~CmdTimeoutFail(c)
            /\ AckCommand(c) => ~EraseReachesBatch
        BY <2>3, CmdDueNew
      <3>2. running /\ ~StartClear
        BY <3>1, StaysRunning
      <3>3. Accounted(c) \/ (calls[c] > 0 /\ ~EraseReachesBatch)
        BY <3>1, <3>2 DEF CmdTimerOwned, Live, TypeOK, TimerIds
      <3>4. /\ calls[c] > 0 => calls'[c] > 0
            /\ AckCommand(c) => calls'[c] > 0
        BY CalledStays
      <3>5. Accounted(c) /\ ~AckCommand(c) => Accounted(c)'
        BY <3>1, <3>2, AccountedKept
      <3> QED
        BY <3>1, <3>3, <3>4, <3>5
    <2> QED
      BY <2>1, <2>2, <2>3
  <1> QED
    BY <1>1, <1>2, TypeCorrect, PTL DEF Spec

-----------------------------------------------------------------------------
(* The keep-alive timers.  A thread holds an id in its hand only between   *)
(* adding the timer and pushing the id, a keep-alive timer is collected    *)
(* only once, and no id in ka_ids_ is that of a management timer.          *)

DueOnce(q) == \A id \in Slots : q[id].due = "ka" => q[id].kind # "ka"

HandInv ==
    /\ hand["app"] # NoTimer => app = "ska_push"
    /\ hand["rm"] # NoTimer => rm = "ka_push"
    /\ app \in {"down", "clear"} => rm \in {"off", "dead"}

\* The ids ack_keepalive erases now or later.
KaIds == ka_ids \cup {hand["app"], hand["rm"]}

KaInv ==
    /\ DueOnce(timers)
    /\ HandInv
    /\ \A id \in Slots : id \in KaIds => timers[id].kind # "mngt"

\* A keep-alive timer fires once: no operation of the queue leaves it both collected and in
\* the queue.
LEMMA QueueDueOnce ==
    ASSUME NEW q \in Queue, DueOnce(q)
    PROVE  /\ DueOnce(EmptyQueue(TimerIds))
           /\ \A id \in TimerIds, k \in Kinds, d \in Nat : DueOnce(Add(q, id, k, d))
           /\ \A ids : DueOnce(EraseAll(q, ids))
           /\ DueOnce(Collect(q, period))
           /\ \A id \in TimerIds : DueOnce(TakeDue(q, id))
           /\ DueOnce(DropDue(q))
  <1> USE DEF DueOnce, Queue, Cell, TimerIds
  <1>1. DueOnce(EmptyQueue(TimerIds))
    BY DEF EmptyQueue, NoCell
  <1>2. \A id \in TimerIds, k \in Kinds, d \in Nat : DueOnce(Add(q, id, k, d))
    BY DEF Add
  <1>3. \A ids : DueOnce(EraseAll(q, ids))
    BY DEF EraseAll
  <1>4. \A cell \in Cell : Aged(cell, period).due = "ka" => Aged(cell, period).kind # "ka"
    BY PeriodValues DEF Aged, Kinds, NoCell
  <1>5. DueOnce(Collect(q, period))
    BY <1>4 DEF Collect
  <1>6. \A id \in TimerIds : DueOnce(TakeDue(q, id))
    BY DEF TakeDue
  <1>7. DueOnce(DropDue(q))
    BY DEF DropDue
  <1> QED
    BY <1>1, <1>2, <1>3, <1>5, <1>6, <1>7

\* Every step keeps DueOnce.
LEMMA DueOnceStep ==
    ASSUME TypeOK, DueOnce(timers), [Next]_vars
    PROVE  DueOnce(timers)'
  <1> USE DEF TypeOK
  <1>1. timers \in Queue /\ Cmds \subseteq TimerIds /\ Slots \subseteq TimerIds
    BY DEF Queue, Cell, TimerIds
  <1>2. FreeIds # {} => NewId \in TimerIds
    BY <1>1, NewIdFree DEF FreeIds
  <1>3. DueOnce(EmptyQueue(TimerIds)) /\ DueOnce(Collect(timers, period)) /\ DueOnce(DropDue(timers))
    BY <1>1, QueueDueOnce
  <1>4. \A id \in TimerIds :
            /\ DueOnce(Add(timers, id, "cmd", CmdTimeout))
            /\ DueOnce(Add(timers, id, "mngt", KaInterval))
            /\ DueOnce(Add(timers, id, "ka", KaTimeout))
            /\ DueOnce(TakeDue(timers, id))
    BY <1>1, QueueDueOnce, RequestAssumption DEF Kinds
  <1>5. /\ \A ids : DueOnce(EraseAll(timers, ids)) /\ EraseAll(timers, ids) \in Queue
        /\ \A id : DueOnce(Erase(timers, id)) /\ Erase(timers, id) \in Queue
    BY <1>1, QueueDueOnce, QueueTypes DEF Erase
  <1>6. \A id \in Cmds : DueOnce(TakeDue(Erase(timers, id), id))
    <2> TAKE id \in Cmds
    <2> DEFINE q == Erase(timers, id)
    <2>1. q \in Queue /\ DueOnce(q)
      BY <1>5
    <2> HIDE DEF q
    <2> QED
      BY <1>1, <2>1, QueueDueOnce DEF q
  <1>7. DueOnce(timers)' = DueOnce(timers')
    BY DEF DueOnce
  <1>8. CASE \E c \in Cmds : Caller(c)
    BY <1>1, <1>2, <1>4, <1>5, <1>8, <1>7
       DEF Caller, SendCommand, AddCmdTimer, EraseMngt, ReaddMngt, WriteCmd, Insert
  <1>9. CASE App
    BY <1>1, <1>2, <1>3, <1>4, <1>5, <1>7, <1>9
       DEF App, StartClear, StartThread, EnterConnected, StartKaFlag, StartKaMngt, StartKaWrite,
           StartKaTimer, StartKaPush, AckKeepalive, Stop, Join, AckCommand
  <1>10. CASE Rm
    BY <1>1, <1>2, <1>3, <1>4, <1>5, <1>6, <1>7, <1>10
       DEF Rm, RunOnce, RunOnceDone, ThreadExit, RetryEraseMngt, RetryReaddMngt, KaMngtAdd,
           KaMngtPush, KaMngtTimeout, KaTimeoutCb, CmdTimeoutOrphan, CmdTimeoutRetry, CmdTimeoutFail
  <1>11. CASE TransportClose \/ TransportOpen \/ UNCHANGED vars
    BY <1>11 DEF TransportClose, TransportOpen, vars, DueOnce
  <1> QED
    BY <1>8, <1>9, <1>10, <1>11 DEF Next

\* How one step changes the timer of a management or keep-alive id: nothing, or it takes the
\* timer out, or it gives the id, which nobody refers to, to a new timer.
TakesOut(id) ==
    \/ StartThread \/ RetryEraseMngt
    \/ AckKeepalive /\ id \in ka_ids
    \/ RunOnce /\ timers[id].kind = "ka"
    \/ \E c \in Cmds : EraseMngt(c) /\ keepalive_mngt

PutsKa(id) ==
    \/ StartKaTimer /\ hand'["app"] = id
    \/ KaMngtAdd /\ hand'["rm"] = id

SlotChange(id) ==
    \/ timers'[id].kind = timers[id].kind
    \/ timers'[id].kind = "none" /\ TakesOut(id)
    \/ /\ timers[id].kind = "none" /\ id \notin KaIds
       /\ \/ timers'[id].kind = "mngt"
          \/ timers'[id].kind = "ka" /\ PutsKa(id)

\* Every step changes a management or keep-alive timer in one of these ways.
LEMMA SlotKind == ASSUME TypeOK, [Next]_vars, NEW id \in Slots PROVE SlotChange(id)
  <1> USE DEF TypeOK, TimerIds
  <1>1. timers \in Queue /\ id \in TimerIds
    BY DEF Queue, Cell
  <1>2. FreeIds # {} => NewId \in Slots /\ (NewId = id => timers[id].kind = "none" /\ id \notin KaIds)
    BY NewIdFree, RequestAssumption DEF FreeIds, KaIds, NoCell, Threads
  <1>3. \A x : Erase(timers, x)[id].kind = IF x = id THEN "none" ELSE timers[id].kind
    BY <1>1, QueueKinds DEF Erase
  <1>4. ASSUME NEW c \in Cmds, AddCmdTimer(c) PROVE timers'[id].kind = timers[id].kind
    <2>1. c # id
      BY RequestAssumption
    <2>2. Add(timers, c, "cmd", CmdTimeout)[id].kind = timers[id].kind
      BY <1>1, <2>1 DEF Add, Queue, Cell
    <2> QED
      BY <1>4, <2>2 DEF AddCmdTimer
  <1>5. ASSUME NEW c \in Cmds, AckCommand(c) PROVE timers'[id].kind = timers[id].kind
    <2>1. c # id
      BY RequestAssumption
    <2> QED
      BY <1>3, <1>5, <2>1 DEF AckCommand
  <1>6. ASSUME NEW c \in Cmds, CmdTimeoutFail(c) PROVE timers'[id].kind = timers[id].kind
    <2>1. c # id /\ c \in TimerIds
      BY RequestAssumption
    <2>2. TakeDue(Erase(timers, c), c)[id].kind = Erase(timers, c)[id].kind
      <3>1. Erase(timers, c) \in Queue
        BY <1>1, QueueTypes DEF Erase
      <3> QED
        BY <1>1, <2>1, <3>1 DEF TakeDue, Queue, Cell
    <2> QED
      BY <1>3, <1>6, <2>1, <2>2 DEF CmdTimeoutFail
  <1>7. ASSUME NEW c \in Cmds, EraseMngt(c)
        PROVE  SlotChange(id)
    <2>1. timers'[id].kind = timers[id].kind \/ (timers'[id].kind = "none" /\ keepalive_mngt)
      BY <1>3, <1>7 DEF EraseMngt
    <2> QED
      BY <1>7, <2>1 DEF SlotChange, TakesOut
  <1>8. ASSUME RetryEraseMngt
        PROVE  SlotChange(id)
    <2>1. timers'[id].kind = timers[id].kind \/ timers'[id].kind = "none"
      BY <1>3, <1>8 DEF RetryEraseMngt
    <2> QED
      BY <1>8, <2>1 DEF SlotChange, TakesOut
  <1>9. ASSUME StartKaMngt \/ RetryReaddMngt \/ \E c \in Cmds : ReaddMngt(c)
        PROVE  SlotChange(id)
    <2>1. FreeIds # {} /\ timers' = Add(timers, NewId, "mngt", KaInterval)
      BY <1>9 DEF StartKaMngt, RetryReaddMngt, ReaddMngt
    <2>2. timers'[id].kind = timers[id].kind \/ (NewId = id /\ timers'[id].kind = "mngt")
      BY <1>1, <1>2, <2>1 DEF Add, Queue, Cell
    <2> QED
      BY <1>2, <2>1, <2>2 DEF SlotChange
  <1>10. ASSUME StartKaTimer \/ KaMngtAdd
         PROVE  SlotChange(id)
    <2>1. FreeIds # {} /\ timers' = Add(timers, NewId, "ka", KaTimeout)
      BY <1>10 DEF StartKaTimer, KaMngtAdd
    <2>2. timers'[id].kind = timers[id].kind \/ (NewId = id /\ timers'[id].kind = "ka")
      BY <1>1, <1>2, <2>1 DEF Add, Queue, Cell
    <2>3. PutsKa(NewId)
      BY <1>10 DEF StartKaTimer, KaMngtAdd, Threads, PutsKa
    <2> QED
      BY <1>2, <2>1, <2>2, <2>3 DEF SlotChange
  <1>11. ASSUME AckKeepalive
         PROVE  SlotChange(id)
    <2>1. timers'[id].kind = timers[id].kind \/ (id \in ka_ids /\ timers'[id].kind = "none")
      BY <1>1, <1>11, QueueKinds DEF AckKeepalive
    <2> QED
      BY <1>11, <2>1 DEF SlotChange, TakesOut
  <1>12. ASSUME RunOnce
         PROVE  SlotChange(id)
    <2>1. \/ timers'[id].kind = timers[id].kind
          \/ timers[id].kind = "ka" /\ timers'[id].kind = "none"
      BY <1>1, <1>12, QueueKinds DEF RunOnce
    <2> QED
      BY <1>12, <2>1 DEF SlotChange, TakesOut
  <1>13. ASSUME \/ \E x \in Slots : KaMngtTimeout(x) \/ KaTimeoutCb(x)
                \/ \E d \in Cmds : CmdTimeoutOrphan(d) \/ CmdTimeoutRetry(d)
         PROVE  timers'[id].kind = timers[id].kind
    <2>1. /\ \A x \in TimerIds : TakeDue(timers, x)[id].kind = timers[id].kind
          /\ DropDue(timers)[id].kind = timers[id].kind
      BY <1>1, QueueKinds
    <2> QED
      BY <1>13, <2>1 DEF KaMngtTimeout, KaTimeoutCb, CmdTimeoutOrphan, CmdTimeoutRetry
  <1>14. ASSUME StartThread PROVE SlotChange(id)
    <2>1. EmptyQueue(TimerIds)[id].kind = "none"
      BY <1>1, QueueKinds
    <2> QED
      BY <1>14, <2>1 DEF StartThread, SlotChange, TakesOut
  <1>15. ASSUME \/ \E d \in Cmds : SendCommand(d) \/ WriteCmd(d) \/ Insert(d)
                \/ StartClear \/ EnterConnected \/ StartKaFlag \/ StartKaWrite \/ StartKaPush
                \/ Stop \/ Join \/ RunOnceDone \/ ThreadExit \/ KaMngtPush
                \/ TransportClose \/ TransportOpen \/ UNCHANGED vars
         PROVE  timers'[id].kind = timers[id].kind
    BY <1>15 DEF SendCommand, WriteCmd, Insert, StartClear, EnterConnected, StartKaFlag,
                 StartKaWrite, StartKaPush, Stop, Join, RunOnceDone, ThreadExit, KaMngtPush,
                 TransportClose, TransportOpen, vars
  <1>16. timers'[id].kind = timers[id].kind => SlotChange(id)
    BY DEF SlotChange
  <1> QED
    BY <1>4, <1>5, <1>6, <1>7, <1>8, <1>9, <1>10, <1>11, <1>12, <1>13, <1>14, <1>15, <1>16
       DEF Next, App, Rm, Caller

\* A thread holds an id only where it is about to push it, and no manager thread runs while
\* the Master thread is down.
LEMMA HandStep == ASSUME TypeOK, HandInv, [Next]_vars PROVE HandInv'
  <1> USE DEF TypeOK, HandInv, Threads
  <1>1. CASE \E c \in Cmds : Caller(c)
    BY <1>1 DEF Caller, SendCommand, AddCmdTimer, EraseMngt, ReaddMngt, WriteCmd, Insert
  <1>2. CASE StartKaTimer \/ StartKaPush
    BY <1>2 DEF StartKaTimer, StartKaPush
  <1>3. CASE KaMngtAdd \/ KaMngtPush
    BY <1>3 DEF KaMngtAdd, KaMngtPush
  <1>4. CASE \/ StartClear \/ StartThread \/ EnterConnected \/ StartKaFlag \/ StartKaMngt
             \/ StartKaWrite \/ AckKeepalive \/ Stop \/ Join \/ \E c \in Cmds : AckCommand(c)
    BY <1>4 DEF StartClear, StartThread, EnterConnected, StartKaFlag, StartKaMngt, StartKaWrite,
                AckKeepalive, Stop, Join, AckCommand, Connected
  <1>5. CASE \/ RunOnce \/ RunOnceDone \/ ThreadExit \/ RetryEraseMngt \/ RetryReaddMngt
             \/ \E id \in Slots : KaMngtTimeout(id) \/ KaTimeoutCb(id)
             \/ \E c \in Cmds : CmdTimeoutOrphan(c) \/ CmdTimeoutRetry(c) \/ CmdTimeoutFail(c)
    BY <1>5 DEF RunOnce, RunOnceDone, ThreadExit, RetryEraseMngt, RetryReaddMngt, KaMngtTimeout,
                KaTimeoutCb, CmdTimeoutOrphan, CmdTimeoutRetry, CmdTimeoutFail
  <1>6. CASE TransportClose \/ TransportOpen \/ UNCHANGED vars
    BY <1>6 DEF TransportClose, TransportOpen, vars
  <1> QED
    BY <1>1, <1>2, <1>3, <1>4, <1>5, <1>6 DEF Next, App, Rm

\* Only a keep-alive timer that was just added comes into ka_ids_ or into a hand.
LEMMA KaIdsGrow ==
    ASSUME TypeOK, [Next]_vars, NEW id \in Slots, id \in KaIds', id \notin KaIds
    PROVE  timers'[id].kind = "ka"
  <1> USE DEF TypeOK, KaIds, Threads
  <1>1. CASE \E c \in Cmds : Caller(c)
    BY <1>1 DEF Caller, SendCommand, AddCmdTimer, EraseMngt, ReaddMngt, WriteCmd, Insert
  <1>2. CASE StartKaTimer \/ KaMngtAdd
    <2>1. FreeIds # {} /\ id = NewId
      BY <1>2, RequestAssumption DEF StartKaTimer, KaMngtAdd
    <2>2. timers' = Add(timers, id, "ka", KaTimeout) /\ id \in DOMAIN timers
      BY <1>2, <2>1 DEF StartKaTimer, KaMngtAdd, TimerIds
    <2> QED
      BY <2>2 DEF Add
  <1>3. CASE StartKaPush \/ KaMngtPush
    BY <1>3, RequestAssumption DEF StartKaPush, KaMngtPush
  <1>4. CASE \/ StartClear \/ StartThread \/ EnterConnected \/ StartKaFlag \/ StartKaMngt
             \/ StartKaWrite \/ AckKeepalive \/ Stop \/ Join \/ \E c \in Cmds : AckCommand(c)
    BY <1>4 DEF StartClear, StartThread, EnterConnected, StartKaFlag, StartKaMngt, StartKaWrite,
                AckKeepalive, Stop, Join, AckCommand
  <1>5. CASE \/ RunOnce \/ RunOnceDone \/ ThreadExit \/ RetryEraseMngt \/ RetryReaddMngt
             \/ \E x \in Slots : KaMngtTimeout(x) \/ KaTimeoutCb(x)
             \/ \E c \in Cmds : CmdTimeoutOrphan(c) \/ CmdTimeoutRetry(c) \/ CmdTimeoutFail(c)
    BY <1>5 DEF RunOnce, RunOnceDone, ThreadExit, RetryEraseMngt, RetryReaddMngt, KaMngtTimeout,
                KaTimeoutCb, CmdTimeoutOrphan, CmdTimeoutRetry, CmdTimeoutFail
  <1>6. CASE TransportClose \/ TransportOpen \/ UNCHANGED vars
    BY <1>6 DEF TransportClose, TransportOpen, vars
  <1> QED
    BY <1>1, <1>2, <1>3, <1>4, <1>5, <1>6 DEF Next, App, Rm

LEMMA KaInvHolds == Spec => []KaInv
  <1>1. Init => KaInv
    BY RequestAssumption DEF Init, KaInv, DueOnce, HandInv, KaIds, EmptyQueue, NoCell, TimerIds,
                             Threads
  <1>2. ASSUME TypeOK, KaInv, [Next]_vars PROVE KaInv'
    <2>1. DueOnce(timers)' /\ HandInv'
      BY <1>2, DueOnceStep, HandStep DEF KaInv
    <2>2. ASSUME NEW id \in Slots, id \in KaIds' PROVE timers'[id].kind # "mngt"
      <3>1. CASE id \in KaIds
        <4>1. timers[id].kind # "mngt"
          BY <1>2, <3>1 DEF KaInv
        <4>2. SlotChange(id)
          BY <1>2, SlotKind
        <4> QED
          BY <3>1, <4>1, <4>2 DEF SlotChange
      <3> QED
        BY <1>2, <2>2, <3>1, KaIdsGrow
    <2> QED
      BY <2>1, <2>2 DEF KaInv
  <1> QED
    BY <1>1, <1>2, TypeCorrect, PTL DEF Spec

\* Every keep-alive timeout in the queue can still be cancelled by an acknowledgement, except
\* the ones that the clear of start_keepalive_management dropped.
THEOREM KaTimersTrackedHolds == Spec => []KaTimersTracked
  <1>1. Init => KaTimersTracked
    BY DEF Init, KaTimersTracked, Live, EmptyQueue, NoCell, TimerIds
  <1>2. ASSUME TypeOK, KaInv, KaTimersTracked, [Next]_vars PROVE KaTimersTracked'
    <2> SUFFICES ASSUME NEW id \in Slots, timers'[id].kind = "ka"
                 PROVE  id \in (KaIds \cup forgotten)'
      BY DEF KaTimersTracked, Live, KaIds, Threads
    <2> USE DEF TypeOK, KaIds, Threads
    <2>1. SlotChange(id)
      BY <1>2, SlotKind
    <2>2. CASE PutsKa(id)
      BY <2>2 DEF PutsKa
    <2> SUFFICES ASSUME timers[id].kind = "ka", ~PutsKa(id)
                 PROVE  id \in (KaIds \cup forgotten)'
      BY <2>1, <2>2 DEF SlotChange
    <2>3. id \in KaIds \cup forgotten
      BY <1>2 DEF KaTimersTracked, Live, TimerIds
    <2>4. CASE \E c \in Cmds : Caller(c)
      BY <2>3, <2>4 DEF Caller, SendCommand, AddCmdTimer, EraseMngt, ReaddMngt, WriteCmd, Insert
    <2>5. CASE StartKaTimer \/ KaMngtAdd
      BY <1>2, <2>3, <2>5, RequestAssumption DEF StartKaTimer, KaMngtAdd, KaInv, HandInv
    <2>6. CASE StartKaPush
      BY <1>2, <2>3, <2>6 DEF StartKaPush, NoCell
    <2>7. CASE KaMngtPush
      BY <1>2, <2>3, <2>7 DEF KaMngtPush
    <2>8. CASE AckKeepalive
      <3>1. timers \in Queue /\ id \in TimerIds
        BY <1>2 DEF Queue, Cell, TimerIds
      <3>2. id \notin ka_ids
        BY <2>8, <3>1, QueueKinds DEF AckKeepalive
      <3> QED
        BY <2>3, <2>8, <3>2 DEF AckKeepalive
    <2>9. ~StartThread
      <3>1. EmptyQueue(TimerIds)[id].kind = "none"
        BY DEF EmptyQueue, NoCell, TimerIds
      <3> QED
        BY <3>1 DEF StartThread
    <2>10. CASE \E x \in Slots : KaTimeoutCb(x)
      <3> PICK x \in Slots : KaTimeoutCb(x)
        BY <2>10
      <3>1. timers[x].due = "ka"
        BY DEF KaTimeoutCb
      <3>2. x # id
        BY <1>2, <3>1 DEF KaInv, DueOnce
      <3> QED
        BY <2>3, <3>2 DEF KaTimeoutCb
    <2>11. CASE \/ StartClear \/ EnterConnected \/ StartKaFlag \/ StartKaMngt
                \/ StartKaWrite \/ Stop \/ Join \/ \E c \in Cmds : AckCommand(c)
      BY <2>3, <2>11 DEF StartClear, EnterConnected, StartKaFlag, StartKaMngt, StartKaWrite, Stop,
                         Join, AckCommand
    <2>12. CASE \/ RunOnce \/ RunOnceDone \/ ThreadExit \/ RetryEraseMngt \/ RetryReaddMngt
                \/ \E x \in Slots : KaMngtTimeout(x)
                \/ \E c \in Cmds : CmdTimeoutOrphan(c) \/ CmdTimeoutRetry(c) \/ CmdTimeoutFail(c)
      BY <2>3, <2>12 DEF RunOnce, RunOnceDone, ThreadExit, RetryEraseMngt, RetryReaddMngt,
                         KaMngtTimeout, CmdTimeoutOrphan, CmdTimeoutRetry, CmdTimeoutFail
    <2>13. CASE TransportClose \/ TransportOpen \/ UNCHANGED vars
      BY <2>3, <2>13 DEF TransportClose, TransportOpen, vars
    <2> QED
      BY <1>2, <2>4, <2>5, <2>6, <2>7, <2>8, <2>9, <2>10, <2>11, <2>12, <2>13 DEF Next, App, Rm
  <1> QED
    BY <1>1, <1>2, TypeCorrect, KaInvHolds, PTL DEF Spec

\* However the resets of the keep-alive by send_command and cmd_timeout_cb interleave, the
\* management timer is in the queue or a thread is about to add it.
THEOREM KeepaliveScheduledHolds == Spec => []KeepaliveScheduled
  <1> DEFINE Resetting == rm = "retry_add" \/ \E c \in Cmds : caller[c] = "readd"
             On == keepalive_mngt /\ app \notin {"ska_mngt", "clear"}
             Scheduled == \E id \in Slots : timers[id].kind = "mngt"
  <1>1. Init => KeepaliveScheduled
    BY DEF Init, KeepaliveScheduled
  <1>2. ASSUME TypeOK, KaInv, KeepaliveScheduled, [Next]_vars, On' PROVE (Resetting \/ Scheduled)'
    <2> USE DEF TypeOK
    <2>1. ASSUME FreeIds # {}, timers' = Add(timers, NewId, "mngt", KaInterval)
          PROVE  Scheduled'
      <3>1. NewId \in Slots /\ NewId \in DOMAIN timers
        BY <1>2, <2>1, NewIdFree DEF FreeIds, TimerIds
      <3>2. timers'[NewId].kind = "mngt"
        BY <2>1, <3>1 DEF Add
      <3> QED
        BY <3>1, <3>2
    <2>2. CASE StartKaMngt \/ RetryReaddMngt \/ \E c \in Cmds : ReaddMngt(c)
      BY <2>1, <2>2 DEF StartKaMngt, RetryReaddMngt, ReaddMngt
    <2>3. CASE RetryEraseMngt \/ \E c \in Cmds : EraseMngt(c) /\ keepalive_mngt
      BY <1>2, <2>3 DEF RetryEraseMngt, EraseMngt
    <2> DEFINE Other == /\ ~StartKaMngt /\ ~RetryReaddMngt /\ ~RetryEraseMngt
                        /\ \A c \in Cmds : ~ReaddMngt(c) /\ ~(EraseMngt(c) /\ keepalive_mngt)
    <2> SUFFICES ASSUME Other PROVE (Resetting \/ Scheduled)'
      BY <2>2, <2>3
    <2>4. ~StartThread
      BY <1>2 DEF StartThread
    <2>5. On /\ (Resetting => Resetting')
      <3>1. CASE \E c \in Cmds : Caller(c)
        BY <1>2, <3>1 DEF Caller, SendCommand, AddCmdTimer, EraseMngt, WriteCmd, Insert
      <3>2. CASE \/ StartClear \/ EnterConnected \/ StartKaFlag \/ StartKaWrite \/ StartKaTimer
                 \/ StartKaPush \/ AckKeepalive \/ Stop \/ Join \/ \E c \in Cmds : AckCommand(c)
        BY <1>2, <3>2 DEF StartClear, EnterConnected, StartKaFlag, StartKaWrite, StartKaTimer,
                          StartKaPush, AckKeepalive, Stop, Join, AckCommand, Connected
      <3>3. CASE \/ RunOnce \/ RunOnceDone \/ ThreadExit \/ KaMngtAdd \/ KaMngtPush
                 \/ \E x \in Slots : KaMngtTimeout(x) \/ KaTimeoutCb(x)
                 \/ \E c \in Cmds : CmdTimeoutOrphan(c) \/ CmdTimeoutRetry(c) \/ CmdTimeoutFail(c)
        BY <1>2, <3>3 DEF RunOnce, RunOnceDone, ThreadExit, KaMngtAdd, KaMngtPush, KaMngtTimeout,
                          KaTimeoutCb, CmdTimeoutOrphan, CmdTimeoutRetry, CmdTimeoutFail
      <3>4. CASE TransportClose \/ TransportOpen \/ UNCHANGED vars
        BY <1>2, <3>4 DEF TransportClose, TransportOpen, vars
      <3> QED
        BY <1>2, <2>4, <3>1, <3>2, <3>3, <3>4 DEF Next, App, Rm
    <2>6. Resetting \/ Scheduled
      BY <1>2, <2>5 DEF KeepaliveScheduled, Live
    <2>7. ASSUME NEW id \in Slots, timers[id].kind = "mngt" PROVE timers'[id].kind = "mngt"
      <3>1. SlotChange(id)
        BY <1>2, SlotKind
      <3>2. id \notin ka_ids
        BY <1>2, <2>7 DEF KaInv, KaIds
      <3>3. ~TakesOut(id)
        BY <2>4, <2>7, <3>2 DEF TakesOut
      <3> QED
        BY <2>7, <3>1, <3>3 DEF SlotChange
    <2> QED
      BY <2>5, <2>6, <2>7
  <1>3. ASSUME TypeOK, KaInv, KeepaliveScheduled, [Next]_vars PROVE KeepaliveScheduled'
    <2>1. TypeOK'
      BY <1>3, NextType
    <2> QED
      BY <1>2, <1>3, <2>1 DEF KeepaliveScheduled, Live, TypeOK, TimerIds
  <1> QED
    BY <1>1, <1>3, TypeCorrect, KaInvHolds, PTL DEF Spec
=============================================================================
