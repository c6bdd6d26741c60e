-------------------------- MODULE UsbDeviceProofs ---------------------------
(***************************************************************************)
(* The proofs about UsbDevice: what the code remembers of its transfers,   *)
(* what stop() leaves behind, and the order in which packets leave.        *)
(***************************************************************************)
EXTENDS UsbDevice, FiniteSetTheorems, TLAPS

-----------------------------------------------------------------------------
(* The inductive invariant.                                                *)

\* The types, but for the bound of the queue.  A write() that has begun has packets left.
Flags ==
    /\ owner \in {"idle", "starting", "up"} \cup Stopping
    /\ nth \in 1 .. 4 /\ target \in Transfers /\ starts \in 0 .. MaxStarts
    /\ ev \in {"off", "start", "run", "exit", "close", "ended"}
    /\ eptr \in {"none", "packet", "fatal"}
    /\ {running, open, plugged, in_progress, cleared, lost, late, failed} \subseteq BOOLEAN
    /\ curr \in {"r1", "r2"} /\ prev \in {"r1", "r2"}
    /\ tr \in [Transfers -> {"idle", "fly", "done", "cancelled", "error"}]
    /\ cancelling \subseteq Transfers /\ cancelled \subseteq Transfers

Data ==
    /\ packet \in {NoPacket} \cup (Writers \X (1 .. MaxPackets))
    /\ queue \in [Writers -> Seq(1 .. MaxPackets)]
    /\ caller \in [Writers -> {"out", "in"}]
    /\ count \in [Writers -> 0 .. MaxPackets] /\ out \in [Writers -> 0 .. MaxPackets]
    /\ \A w \in Writers : caller[w] = "in" => count[w] < MaxPackets

\* The places of the write queue that are taken.
Places == UNION {{w} \X DOMAIN queue[w] : w \in Writers}
Bound  == IsFiniteSet(Places) /\ Cardinality(Places) <= QueueMax

AllIdle == \A t \in Transfers : tr[t] = "idle"

\* What the positions of the owner and of the event thread say of each other and of the flags.
Positions ==
    /\ owner = "idle" => ev = "off"
    /\ owner \in {"idle", "join"} => (running => ~plugged)
    /\ owner \in {"check", "close"} => ~running
    /\ ~running => owner \in {"idle", "check", "close", "join"}
    /\ ev = "start" => owner = "starting"
    /\ owner = "starting" => /\ ev \in {"start", "ended"} /\ ~cleared /\ ~in_progress
                             /\ open /\ curr # prev /\ AllIdle
    /\ (ev \in {"ended", "off"} /\ owner # "starting") => ~open
    /\ ev # "run" => eptr = "none"
    /\ eptr = "fatal" => failed
    /\ ev \in {"exit", "close"} => failed \/ ~running
    /\ owner \in {"take", "cancel", "wait"} => nth <= 3
    /\ (owner \in {"flag", "check", "close"} \/ (owner = "join" /\ ~running)) => nth = 4

\* What libusb has: nothing of a closed device, and only transfers in flight are being cancelled.
Transferring ==
    /\ (crash = "no" /\ ~open) => AllIdle
    /\ \A t \in cancelling : tr[t] = "fly"
    /\ owner = "up" => cancelling = {} /\ \A t \in Transfers : tr[t] # "cancelled"

\* While nothing failed and nobody stops the device, one of the two reads is at libusb.
ReadInv ==
    (owner = "up" /\ ~failed) =>
        ev = "run" /\ tr[curr] # "idle" /\ curr # prev /\ tr[prev] = "idle"

\* How far cancel_transfers() has come.  A transfer it waits for is being cancelled, and nobody
\* submits it again before it goes on.
Progress ==
    /\ tr[prev] = "idle" /\ (open => curr # prev)
    /\ nth > 1 => tr["w"] = "idle"
    /\ nth > 2 => tr[curr] = "idle"
    /\ owner \in {"cancel", "wait"} => target = Pointer(nth)
    /\ owner = "wait" => /\ target \in cancelled => tr[target] = "idle"
                         /\ tr[target] # "done" /\ (tr[target] = "fly" => target \in cancelling)
                         /\ target = "w" => in_progress

\* It comes so far when nothing failed, or was submitted or completed behind it.
StopInv == (owner \in Stopping /\ ~failed /\ ~late) => Progress

\* Why the device is closed while somebody may still use it, and why both names of the reads may
\* be those of one transfer.
Causes ==
    /\ ~open => failed \/ ~running
    /\ (ev \in {"run", "exit", "close"} /\ ~open) => ~running /\ owner = "join"
    /\ (open /\ ~failed) => curr # prev

\* The write transfer and the queue behind it.
WriteInv ==
    /\ tr["w"] # "idle" => in_progress
    /\ (owner = "up" /\ ~failed /\ in_progress) => tr["w"] # "idle"
    /\ \A w \in Writers : caller[w] = "in" => cleared
    /\ (cleared /\ ~in_progress) => \A w \in Writers : queue[w] = <<>>

\* The packets of each writer: the one at libusb, then those of its queue, in order.
Order ==
    /\ \A w \in Writers : \A i, j \in DOMAIN queue[w] : i < j => queue[w][i] < queue[w][j]
    /\ \A w \in Writers : \A i \in DOMAIN queue[w] : queue[w][i] <= count[w]
    /\ tr["w"] = "fly" =>
          /\ packet \in Writers \X (1 .. MaxPackets)
          /\ packet[2] <= count[packet[1]]
          /\ \A i \in DOMAIN queue[packet[1]] : packet[2] < queue[packet[1]][i]

UInv == /\ Flags /\ Data /\ Bound /\ Positions /\ Transferring /\ ReadInv /\ StopInv /\ Causes
        /\ CrashHasCause /\ WriteInv /\ Order

-----------------------------------------------------------------------------
(* The types are kept.                                                     *)

\* One step, or none.
LEMMA Steps ==
    ASSUME [Next]_vars
    PROVE  \/ crash = "no" /\ (Event \/ Stop \/ Start \/ StopCalled \/ Unplug \/ ClearQueues)
           \/ crash = "no" /\ \E t \in Transfers : Complete(t)
           \/ crash = "no" /\ \E w \in Writers : WriteCalled(w) \/ WriteLocked(w)
           \/ UNCHANGED vars
BY DEF Next

\* The oldest packet of a producer, and those behind it.
LEMMA HeadAndTail ==
    ASSUME NEW S, NEW q \in Seq(S), q # <<>>
    PROVE  /\ Head(q) \in S /\ Tail(q) \in Seq(S)
           /\ DOMAIN q = 1 .. Len(q) /\ Len(q) \in Nat \ {0} /\ Head(q) = q[1]
           /\ DOMAIN Tail(q) = 1 .. Len(q) - 1
           /\ \A i \in DOMAIN Tail(q) : i + 1 \in DOMAIN q /\ Tail(q)[i] = q[i + 1]
OBVIOUS

LEMMA FlagsStep ==
    ASSUME Flags, Positions, [Next]_vars
    PROVE  Flags'
<1> USE DEF Flags, Transfers, Stopping
<1>1. CASE RunBegins \/ EventsReturn \/ EvCloseCheck \/ EvClose
  <2>1. CASE RunBegins
    BY <2>1 DEF RunBegins, readVars, writeVars, history
  <2>2. CASE EventsReturn
    BY <2>2 DEF EventsReturn, ownerVars, readVars, libusb, writeVars, history
  <2>3. CASE EvCloseCheck
    BY <2>3 DEF EvCloseCheck, ownerVars, readVars, libusb, writeVars, history
  <2>4. CASE EvClose
    BY <2>4 DEF EvClose, CloseBody, ownerVars, readVars, libusb, writeVars, history
  <2> QED
    BY <1>1, <2>1, <2>2, <2>3, <2>4
<1>2. CASE WriteCompleted
  <2>1. /\ UNCHANGED <<owner, starts, nth, target, running, ev, open, curr, prev, cancelling, cancelled, plugged, cleared>>
        /\ in_progress' \in {in_progress, FALSE}
        /\ eptr' \in {eptr, "fatal"} /\ lost' \in BOOLEAN /\ failed' \in BOOLEAN
    BY <1>2 DEF WriteCompleted, Throws, PutOnHold, ownerVars, readVars
  <2>2. late' \in BOOLEAN
    BY <1>2 DEF WriteCompleted, Submitted, Passed
  <2>3. tr' \in [Transfers -> {"idle", "fly", "done", "cancelled", "error"}]
    BY <1>2 DEF WriteCompleted, Submitted
  <2>4. in_progress' \in BOOLEAN /\ eptr' \in {"none", "packet", "fatal"}
    BY <2>1
  <2> QED
    BY <2>1, <2>2, <2>3, <2>4
<1>3. CASE ReadCompleted
  <2>1. /\ UNCHANGED <<owner, starts, nth, target, running, ev, open, cancelling, cancelled, plugged>>
        /\ UNCHANGED <<in_progress, cleared>>
        /\ curr' = prev /\ prev' \in {prev, curr}
        /\ eptr' \in {eptr, "packet", "fatal"} /\ lost' \in BOOLEAN /\ failed' \in BOOLEAN
    BY <1>3 DEF ReadCompleted, Throws, SwappedOut, ownerVars, writeVars
  <2>2. late' \in BOOLEAN
    BY <1>3 DEF ReadCompleted, Submitted, Passed
  <2>3. tr' \in [Transfers -> {"idle", "fly", "done", "cancelled", "error"}]
    BY <1>3 DEF ReadCompleted, Submitted
  <2>4. curr' \in {"r1", "r2"} /\ prev' \in {"r1", "r2"} /\ eptr' \in {"none", "packet", "fatal"}
    BY <2>1
  <2> QED
    BY <2>1, <2>2, <2>3, <2>4
<1>4. CASE \E t \in Transfers : TransferCancelled(t) \/ TransferFailed(t)
  <2>1. PICK t \in Transfers : TransferCancelled(t) \/ TransferFailed(t)
    BY <1>4
  <2>2. Notified(t) \in Transfers
    BY DEF Notified
  <2>3. CASE TransferCancelled(t)
    <3>1. /\ UNCHANGED <<owner, starts, nth, target, running, ev, eptr, open, curr, prev, cancelling>>
          /\ UNCHANGED <<plugged, in_progress, cleared, lost, late, failed>>
          /\ cancelled' = cancelled \cup {Notified(t)}
      BY <2>3 DEF TransferCancelled, ownerVars, readVars, writeVars, history
    <3>2. tr' \in [Transfers -> {"idle", "fly", "done", "cancelled", "error"}]
      BY <2>3 DEF TransferCancelled
    <3>3. cancelled' \subseteq Transfers
      BY <2>2, <3>1
    <3> QED
      BY <3>1, <3>2, <3>3
  <2>4. CASE TransferFailed(t)
    BY <2>4 DEF TransferFailed, Throws, ownerVars, readVars, writeVars
  <2> QED
    BY <2>1, <2>3, <2>4
<1>5. CASE Take \/ Cancelled
  <2>1. CASE Take
    <3>1. UNCHANGED <<starts, running, ev, eptr, open, readVars, libusb, writeVars, history>>
      BY <2>1 DEF Take
    <3>2. owner' \in Stopping /\ nth' \in 1 .. 4 /\ target' \in Transfers
      BY <2>1 DEF Take, GoOn, Last, Pointer, Positions
    <3> QED
      BY <3>1, <3>2 DEF readVars, libusb, writeVars, history
  <2>2. CASE Cancelled
    <3>1. UNCHANGED <<target, starts, running, ev, eptr, open, readVars, libusb, writeVars, history>>
      BY <2>2 DEF Cancelled
    <3>2. owner' \in Stopping /\ nth' \in 1 .. 4
      BY <2>2 DEF Cancelled, GoOn, Last, Positions
    <3> QED
      BY <3>1, <3>2 DEF readVars, libusb, writeVars, history
  <2> QED
    BY <1>5, <2>1, <2>2
<1>6. CASE Cancel
  <2>1. /\ UNCHANGED <<target, starts, running, ev, eptr, open, curr, prev, tr, plugged>>
        /\ UNCHANGED <<in_progress, cleared, lost, failed>>
        /\ cancelled' = cancelled \ {target} /\ cancelling' \in {cancelling, cancelling \cup {target}}
    BY <1>6 DEF Cancel, readVars, writeVars
  <2>2. late' \in BOOLEAN
    BY <1>6 DEF Cancel
  <2>3. owner' \in Stopping /\ nth' \in 1 .. 4
    BY <1>6 DEF Cancel, GoOn, Last, Positions
  <2> QED
    BY <2>1, <2>2, <2>3
<1>7. CASE StopFlag \/ StopCloseCheck \/ StopClose \/ Join
  <2>1. CASE StopFlag
    BY <2>1 DEF StopFlag, readVars, libusb, writeVars, history
  <2>2. CASE StopCloseCheck
    BY <2>2 DEF StopCloseCheck, readVars, libusb, writeVars, history
  <2>3. CASE StopClose
    BY <2>3 DEF StopClose, CloseBody, readVars, libusb, writeVars, history
  <2>4. CASE Join
    BY <2>4 DEF Join, readVars, libusb, writeVars, history
  <2> QED
    BY <1>7, <2>1, <2>2, <2>3, <2>4
<1>8. CASE Start
  <2>1. starts' \in 0 .. MaxStarts
    BY <1>8, UsbAssumption DEF Start
  <2> QED
    BY <1>8, <2>1 DEF Start
<1>9. CASE StopCalled \/ Unplug \/ ClearQueues
  <2>1. CASE StopCalled
    BY <2>1 DEF StopCalled, readVars, libusb, writeVars, history
  <2>2. CASE Unplug
    BY <2>2 DEF Unplug, ownerVars, readVars, writeVars, history
  <2>3. CASE ClearQueues
    BY <2>3 DEF ClearQueues, ownerVars, readVars, libusb, history
  <2> QED
    BY <1>9, <2>1, <2>2, <2>3
<1>10. CASE \E t \in Transfers : Complete(t)
  BY <1>10 DEF Complete, ownerVars, readVars, writeVars
<1>11. CASE \E w \in Writers : WriteCalled(w) \/ WriteLocked(w)
  <2>1. PICK w \in Writers : WriteCalled(w) \/ WriteLocked(w)
    BY <1>11
  <2>2. CASE WriteCalled(w)
    BY <2>2 DEF WriteCalled, ownerVars, readVars, libusb, writeVars, history
  <2>3. CASE WriteLocked(w)
    <3>1. /\ UNCHANGED <<owner, starts, nth, target, running, ev, eptr, open, curr, prev>>
          /\ UNCHANGED <<cancelling, cancelled, plugged, cleared, lost, failed>>
      BY <2>3 DEF WriteLocked, ownerVars, readVars
    <3>2. in_progress' \in BOOLEAN /\ late' \in BOOLEAN
      BY <2>3 DEF WriteLocked, Submitted, Passed
    <3>3. tr' \in [Transfers -> {"idle", "fly", "done", "cancelled", "error"}]
      BY <2>3 DEF WriteLocked, Submitted
    <3> QED
      BY <3>1, <3>2, <3>3
  <2> QED
    BY <2>1, <2>2, <2>3
<1>12. CASE UNCHANGED vars
  BY <1>12 DEF vars, ownerVars, readVars, libusb, writeVars, history
<1> QED
  BY <1>1, <1>2, <1>3, <1>4, <1>5, <1>6, <1>7, <1>8, <1>9, <1>10, <1>11, <1>12, Steps
     DEF Event, Callback, Stop

LEMMA DataStep ==
    ASSUME Flags, Data, Positions, WriteInv, Order, [Next]_vars
    PROVE  Data'
<1> USE DEF Data
<1>1. CASE WriteCompleted
  <2>1. CASE UNCHANGED <<packet, queue>>
    BY <1>1, <2>1 DEF WriteCompleted, users
  <2>2. CASE \E w \in Writers : /\ queue[w] # <<>>
                                /\ packet' = <<w, Head(queue[w])>>
                                /\ queue' = Dequeued(w)
    <3>1. PICK w \in Writers : /\ queue[w] # <<>>
                               /\ packet' = <<w, Head(queue[w])>>
                               /\ queue' = [queue EXCEPT ![w] = Tail(@)]
      BY <2>2 DEF Dequeued
    <3>2. Head(queue[w]) \in 1 .. MaxPackets /\ Tail(queue[w]) \in Seq(1 .. MaxPackets)
      BY <3>1, HeadAndTail
    <3>3. queue' \in [Writers -> Seq(1 .. MaxPackets)]
      BY <3>1, <3>2
    <3> QED
      BY <1>1, <3>1, <3>2, <3>3 DEF WriteCompleted, users
  <2> QED
    BY <1>1, <2>1, <2>2 DEF WriteCompleted
<1>2. CASE \E t \in Transfers : Complete(t)
  <2>1. CASE UNCHANGED out
    BY <1>2, <2>1 DEF Complete, writeVars, users
  <2>2. CASE out' = [out EXCEPT ![packet[1]] = packet[2]] /\ tr["w"] = "fly"
    <3>1. packet \in Writers \X (1 .. MaxPackets)
      BY <2>2 DEF Order
    <3>2. out' \in [Writers -> 0 .. MaxPackets]
      BY <2>2, <3>1, UsbAssumption
    <3> QED
      BY <1>2, <3>2 DEF Complete, writeVars, users
  <2> QED
    BY <1>2, <2>1, <2>2 DEF Complete
<1>3. CASE \E w \in Writers : WriteLocked(w)
  <2>1. PICK w \in Writers : WriteLocked(w)
    BY <1>3
  <2>2. caller' \in [Writers -> {"out", "in"}] /\ UNCHANGED out
    BY <2>1 DEF WriteLocked
  <2>3. CASE UNCHANGED <<count, queue, packet>>
    BY <2>1, <2>2, <2>3 DEF WriteLocked
  <2>4. CASE count' = [count EXCEPT ![w] = @ + 1] /\ count[w] < MaxPackets
    <3>1. count' \in [Writers -> 0 .. MaxPackets] /\ count'[w] \in 1 .. MaxPackets
      BY <2>4, UsbAssumption
    <3>5. \A v \in Writers : caller'[v] = "in" => count'[v] < MaxPackets
      BY <2>1, <2>4 DEF WriteLocked
    <3>2. CASE queue' = [queue EXCEPT ![w] = Append(@, count'[w])] /\ UNCHANGED packet
      <4>1. queue' \in [Writers -> Seq(1 .. MaxPackets)]
        BY <3>1, <3>2
      <4> QED
        BY <2>2, <3>1, <3>5, <3>2, <4>1
    <3>3. CASE packet' = <<w, count'[w]>> /\ UNCHANGED queue
      BY <2>2, <3>1, <3>5, <3>3
    <3> QED
      BY <2>1, <2>4, <3>2, <3>3 DEF WriteLocked
  <2>5. count[w] < MaxPackets
    BY <2>1 DEF WriteLocked
  <2>6. \/ UNCHANGED <<count, queue, packet>>
        \/ count' = [count EXCEPT ![w] = @ + 1]
    BY <2>1 DEF WriteLocked
  <2> QED
    BY <2>3, <2>4, <2>5, <2>6
<1>4. CASE \E w \in Writers : WriteCalled(w)
  BY <1>4 DEF WriteCalled, writeVars, history
<1>5. CASE ClearQueues
  <2>1. UNCHANGED <<packet, users, out>>
    BY <1>5 DEF ClearQueues, history
  <2>2. CASE UNCHANGED queue
    BY <2>1, <2>2 DEF users
  <2>3. CASE \E w \in Writers : queue[w] # <<>> /\ queue' = Dequeued(w)
    <3>1. PICK w \in Writers : queue[w] # <<>> /\ queue' = [queue EXCEPT ![w] = Tail(@)]
      BY <2>3 DEF Dequeued
    <3>2. Tail(queue[w]) \in Seq(1 .. MaxPackets)
      BY <3>1, HeadAndTail
    <3>3. queue' \in [Writers -> Seq(1 .. MaxPackets)]
      BY <3>1, <3>2
    <3> QED
      BY <2>1, <3>3 DEF users
  <2> QED
    BY <1>5, <2>2, <2>3 DEF ClearQueues
<1>6. CASE UNCHANGED <<packet, queue, users, out>>
  BY <1>6 DEF users
<1>7. RunBegins \/ EventsReturn \/ EvCloseCheck \/ EvClose \/ ReadCompleted => UNCHANGED <<packet, queue, users, out>>
  BY DEF RunBegins, EventsReturn, EvCloseCheck, EvClose, ReadCompleted, writeVars, history
<1>8. (\E t \in Transfers : TransferCancelled(t) \/ TransferFailed(t)) => UNCHANGED <<packet, queue, users, out>>
  BY DEF TransferCancelled, TransferFailed, writeVars, history
<1>9. Stop \/ Start \/ StopCalled \/ Unplug => UNCHANGED <<packet, queue, users, out>>
  BY DEF Stop, Take, Cancel, Cancelled, StopFlag, StopCloseCheck, StopClose, Join, Start, StopCalled,
         Unplug, writeVars, history
<1>10. UNCHANGED vars => UNCHANGED <<packet, queue, users, out>>
  BY DEF vars, writeVars, history
<1> QED
  BY <1>1, <1>2, <1>3, <1>4, <1>5, <1>6, <1>7, <1>8, <1>9, <1>10, Steps DEF Event, Callback

-----------------------------------------------------------------------------
(* The positions of the threads.                                           *)

\* The callbacks and libusb leave the threads where they are.
LEMMA CallbackStep ==
    ASSUME Flags, Callback
    PROVE  /\ ev = "run" /\ UNCHANGED <<ownerVars, ev, open, plugged, cleared, users, out, crash, cancelling>>
           /\ eptr' \in {eptr, "packet", "fatal"} /\ (eptr' = "fatal" => eptr = "fatal" \/ failed')
           /\ failed => failed'
           /\ late => late'
<1>0. /\ Throws("packet") => eptr' = "packet" /\ (failed => failed')
      /\ Throws("fatal") => eptr' = "fatal" /\ failed'
  BY DEF Throws
<1>1. CASE WriteCompleted
  <2>1. ev = "run" /\ UNCHANGED <<ownerVars, ev, open, plugged, cleared, users, out, crash, cancelling>>
    BY <1>1 DEF WriteCompleted, Called
  <2>2. late => late'
    BY <1>1 DEF WriteCompleted, Submitted, Passed
  <2>3. Throws("fatal") \/ UNCHANGED <<eptr, failed>>
    BY <1>1 DEF WriteCompleted
  <2> QED
    BY <1>0, <2>1, <2>2, <2>3 DEF Flags
<1>2. CASE ReadCompleted
  <2>1. /\ ev = "run" /\ UNCHANGED <<ownerVars, ev, open, plugged, cleared, users, out, crash, cancelling>>
    BY <1>2 DEF ReadCompleted, Called, writeVars
  <2>2. late => late'
    BY <1>2 DEF ReadCompleted, Submitted, Passed
  <2>3. Throws("packet") \/ Throws("fatal") \/ UNCHANGED <<eptr, failed>>
    BY <1>2 DEF ReadCompleted
  <2> QED
    BY <1>0, <2>1, <2>2, <2>3 DEF Flags
<1>3. CASE \E t \in Transfers : TransferCancelled(t) \/ TransferFailed(t)
  <2>1. PICK t \in Transfers : TransferCancelled(t) \/ TransferFailed(t)
    BY <1>3
  <2>2. CASE TransferCancelled(t)
    BY <2>2 DEF TransferCancelled, Called, writeVars, history, Flags
  <2>3. CASE TransferFailed(t)
    BY <2>3 DEF TransferFailed, Called, Throws, writeVars, Flags
  <2> QED
    BY <2>1, <2>2, <2>3
<1> QED
  BY <1>1, <1>2, <1>3 DEF Callback

LEMMA PositionsStep ==
    ASSUME Flags, Positions, WriteInv, [Next]_vars
    PROVE  Positions'
<1> USE DEF Positions, Stopping
<1>1. CASE RunBegins
  BY <1>1 DEF RunBegins, writeVars, readVars, history, AllIdle, Flags
<1>2. CASE EventsReturn
  BY <1>2 DEF EventsReturn, ownerVars, writeVars, readVars, libusb, history, AllIdle, Flags
<1>3. CASE EvCloseCheck \/ EvClose
  BY <1>3 DEF EvCloseCheck, EvClose, CloseBody, ownerVars, writeVars, readVars, libusb, history, AllIdle, Flags
<1>4. CASE Callback
  <2>1. owner # "starting" /\ ev = "run"
    BY <1>4, CallbackStep
  <2> QED
    BY <1>4, <2>1, CallbackStep DEF ownerVars
<1>5. CASE Take \/ Cancelled
  <2>1. /\ UNCHANGED <<running, ev, eptr, open, plugged, cleared, in_progress, curr, prev, tr, failed>>
        /\ owner \in {"take", "wait"} /\ \/ GoOn
                                         \/ owner' = "cancel" /\ UNCHANGED nth
    BY <1>5 DEF Take, Cancelled, readVars, libusb, writeVars, history
  <2>2. CASE GoOn
    BY <2>1, <2>2 DEF GoOn, Last, Flags
  <2>3. CASE owner' = "cancel" /\ UNCHANGED nth
    BY <2>1, <2>3 DEF AllIdle, Flags
  <2> QED
    BY <2>1, <2>2, <2>3
<1>6. CASE Cancel
  <2>1. /\ UNCHANGED <<running, ev, eptr, open, plugged, cleared, in_progress, curr, prev, tr, failed>>
        /\ owner = "cancel" /\ \/ GoOn
                               \/ owner' = "wait" /\ UNCHANGED nth
                               \/ owner' = "join" /\ ~plugged /\ UNCHANGED nth
    BY <1>6 DEF Cancel, readVars, writeVars
  <2>2. CASE GoOn
    BY <2>1, <2>2 DEF GoOn, Last, Flags
  <2>3. CASE owner' = "wait" \/ (owner' = "join" /\ ~plugged)
    BY <2>1, <2>3 DEF GoOn, Flags
  <2> QED
    BY <2>1, <2>2, <2>3
<1>7. CASE StopFlag
  BY <1>7 DEF StopFlag, readVars, libusb, writeVars, history, Flags
<1>8. CASE StopCloseCheck
  BY <1>8 DEF StopCloseCheck, readVars, libusb, writeVars, history, Flags
<1>9. CASE StopClose
  BY <1>9 DEF StopClose, CloseBody, readVars, libusb, writeVars, history, Flags
<1>10. CASE Join
  BY <1>10 DEF Join, readVars, libusb, writeVars, history, Flags
<1>11. CASE Start
  BY <1>11 DEF Start, AllIdle, Flags
<1>12. CASE StopCalled
  BY <1>12 DEF StopCalled, readVars, libusb, writeVars, history, Flags
<1>13. CASE Unplug
  BY <1>13 DEF Unplug, ownerVars, readVars, writeVars, history, AllIdle, Flags
<1>14. CASE ClearQueues
  BY <1>14 DEF ClearQueues, ownerVars, readVars, libusb, history, AllIdle, Flags
<1>15. CASE \E t \in Transfers : Complete(t)
  <2>1. PICK t \in Transfers : Complete(t)
    BY <1>15
  <2>2. /\ UNCHANGED <<ownerVars, ev, eptr, open, curr, prev, plugged, cleared, in_progress>>
        /\ tr[t] = "fly" /\ (failed => failed')
    BY <2>1 DEF Complete, readVars, writeVars
  <2>3. owner # "starting"
    BY <2>1, <2>2 DEF AllIdle
  <2> QED
    BY <2>2, <2>3 DEF ownerVars
<1>16. CASE \E w \in Writers : WriteCalled(w) \/ WriteLocked(w)
  <2>1. PICK w \in Writers : WriteCalled(w) \/ WriteLocked(w)
    BY <1>16
  <2>2. /\ UNCHANGED <<ownerVars, ev, eptr, open, curr, prev, plugged, cleared, failed>>
        /\ cleared
    BY <2>1 DEF WriteCalled, WriteLocked, readVars, libusb, writeVars, history, WriteInv
  <2>3. owner # "starting"
    BY <2>2
  <2> QED
    BY <2>2, <2>3 DEF ownerVars
<1>17. CASE UNCHANGED vars
  BY <1>17 DEF vars, ownerVars, readVars, libusb, writeVars, history, AllIdle
<1> QED
  BY <1>1, <1>2, <1>3, <1>4, <1>5, <1>6, <1>7, <1>8, <1>9, <1>10, <1>11, <1>12, <1>13, <1>14, <1>15,
     <1>16, <1>17, Steps DEF Event, Stop

-----------------------------------------------------------------------------
(* The transfers.                                                          *)

\* What the steps do to the transfers: one is submitted, ends or is called back, or, when a read
\* was completed, the two reads change places.
Quiet == UNCHANGED <<readVars, tr, cancelling, cancelled>>

TransfersStep ==
    \/ Start
    \/ RunBegins /\ plugged
    \/ WriteCompleted
    \/ ReadCompleted
    \/ \E t \in Transfers : TransferCancelled(t) \/ TransferFailed(t) \/ Complete(t)
    \/ Cancel
    \/ \E w \in Writers : WriteLocked(w) /\ open /\ ~in_progress /\ Submitted(tr, "w")

LEMMA TransfersDo ==
    ASSUME [Next]_vars
    PROVE  Quiet \/ (crash = "no" /\ TransfersStep)
<1>1. RunBegins /\ ~plugged => Quiet
  BY DEF RunBegins, Quiet
<1>2. EventsReturn \/ EvCloseCheck \/ EvClose => Quiet
  BY DEF EventsReturn, EvCloseCheck, EvClose, libusb, Quiet
<1>3. Take \/ Cancelled \/ StopFlag \/ StopCloseCheck \/ StopClose \/ Join => Quiet
  BY DEF Take, Cancelled, StopFlag, StopCloseCheck, StopClose, Join, libusb, Quiet
<1>4. StopCalled \/ Unplug \/ ClearQueues => Quiet
  BY DEF StopCalled, Unplug, ClearQueues, libusb, Quiet
<1>5. ASSUME NEW w \in Writers, WriteCalled(w) \/ WriteLocked(w)
      PROVE  Quiet \/ (WriteLocked(w) /\ open /\ ~in_progress /\ Submitted(tr, "w"))
  BY <1>5 DEF WriteCalled, WriteLocked, libusb, Quiet
<1>6. UNCHANGED vars => Quiet
  BY DEF vars, libusb, Quiet
<1> QED
  BY <1>1, <1>2, <1>3, <1>4, <1>5, <1>6, Steps DEF TransfersStep, Event, Callback, Stop

\* The device is opened by start() and closed by close(), which crashes or finds all idle.
LEMMA OpenStep ==
    ASSUME Flags, [Next]_vars
    PROVE  \/ open' = open /\ (crash' = "no" => crash = "no")
           \/ open' = TRUE /\ Start
           \/ open' = FALSE /\ UNCHANGED tr /\ (crash' = "no" => AllIdle)
<1>1. EvClose \/ StopClose => open' = FALSE /\ UNCHANGED tr /\ (crash' = "no" => AllIdle)
  BY DEF EvClose, StopClose, CloseBody, CloseCrash, libusb, AllIdle
<1>2. Start => open' = TRUE
  BY DEF Start
<1>3. RunBegins \/ EventsReturn \/ EvCloseCheck \/ Callback => UNCHANGED open
  BY CallbackStep DEF RunBegins, EventsReturn, EvCloseCheck
<1>4. Take \/ Cancel \/ Cancelled \/ StopFlag \/ StopCloseCheck \/ Join => UNCHANGED open
  BY DEF Take, Cancel, Cancelled, StopFlag, StopCloseCheck, Join
<1>5. StopCalled \/ Unplug \/ ClearQueues => UNCHANGED open
  BY DEF StopCalled, Unplug, ClearQueues
<1>6. \A t \in Transfers : Complete(t) => UNCHANGED open
  BY DEF Complete
<1>7. \A w \in Writers : WriteCalled(w) \/ WriteLocked(w) => UNCHANGED open
  BY DEF WriteCalled, WriteLocked
<1>8. UNCHANGED vars => UNCHANGED <<open, crash>>
  BY DEF vars
<1> QED
  BY <1>1, <1>2, <1>3, <1>4, <1>5, <1>6, <1>7, <1>8, Steps DEF Event, Stop

\* A step into "up" is the beginning of run().
LEMMA UpStep ==
    ASSUME [Next]_vars, owner' = "up"
    PROVE  owner = "up" \/ (RunBegins /\ plugged)
<1>1. RunBegins /\ ~plugged => UNCHANGED owner
  BY DEF RunBegins
<1>2. EventsReturn \/ EvCloseCheck \/ EvClose => UNCHANGED owner
  BY DEF EventsReturn, EvCloseCheck, EvClose, ownerVars
<1>3. Callback => UNCHANGED owner
  BY DEF Callback, WriteCompleted, ReadCompleted, TransferCancelled, TransferFailed, ownerVars
<1>4. ~Stop /\ ~Start /\ ~StopCalled
  BY DEF Stop, Take, Cancel, Cancelled, StopFlag, StopCloseCheck, StopClose, Join, Start, StopCalled, GoOn
<1>5. Unplug \/ ClearQueues => UNCHANGED owner
  BY DEF Unplug, ClearQueues, ownerVars
<1>6. \A t \in Transfers : Complete(t) => UNCHANGED owner
  BY DEF Complete, ownerVars
<1>7. \A w \in Writers : WriteCalled(w) \/ WriteLocked(w) => UNCHANGED owner
  BY DEF WriteCalled, WriteLocked, ownerVars
<1>8. UNCHANGED vars => UNCHANGED owner
  BY DEF vars, ownerVars
<1> QED
  BY <1>1, <1>2, <1>3, <1>4, <1>5, <1>6, <1>7, <1>8, Steps DEF Event

LEMMA TransferringStep ==
    ASSUME Flags, Positions, Transferring, [Next]_vars
    PROVE  Transferring'
<1> USE DEF Flags, Transfers
<1>1. CASE Quiet
  <2>1. UNCHANGED <<tr, cancelling>>
    BY <1>1 DEF Quiet
  <2>2. (crash' = "no" /\ ~open') => AllIdle
    BY OpenStep DEF Transferring
  <2>3. owner' = "up" => owner = "up"
    <3>1. ~(RunBegins /\ plugged)
      BY <1>1 DEF RunBegins, Quiet, Positions, AllIdle
    <3> QED
      BY <3>1, UpStep
  <2> QED
    BY <2>1, <2>2, <2>3 DEF Transferring, AllIdle
<1>2. CASE Start /\ crash = "no"
  <2>1. open = FALSE
    BY <1>2 DEF Start, Positions
  <2>2. cancelling = {}
    BY <1>2, <2>1 DEF Transferring, AllIdle
  <2> QED
    BY <1>2, <2>2 DEF Start, Transferring, AllIdle
<1>3. CASE RunBegins /\ plugged
  <2>1. AllIdle /\ owner = "starting"
    BY <1>3 DEF RunBegins, Positions
  <2>2. cancelling = {}
    BY <2>1 DEF Transferring, AllIdle
  <2>3. open' = TRUE
    BY <1>3, <2>1 DEF RunBegins, Positions
  <2> QED
    BY <1>3, <2>1, <2>2, <2>3 DEF RunBegins, Transferring, AllIdle
<1>4. ASSUME NEW t \in Transfers, tr[t] # "idle", crash = "no", UNCHANGED open
      PROVE  open' = TRUE
  BY <1>4 DEF Transferring, AllIdle
<1>5. CASE WriteCompleted /\ crash = "no"
  <2>1. tr["w"] = "done" /\ UNCHANGED <<open, cancelling, owner>>
    BY <1>5 DEF WriteCompleted, Called, ownerVars
  <2>2. tr' = [tr EXCEPT !["w"] = "fly"] \/ tr' = [tr EXCEPT !["w"] = "idle"]
    BY <1>5 DEF WriteCompleted, Submitted
  <2>3. open' = TRUE
    BY <1>4, <1>5, <2>1
  <2> QED
    BY <2>1, <2>2, <2>3 DEF Transferring
<1>6. CASE ReadCompleted /\ crash = "no"
  <2>1. tr[curr] = "done" /\ UNCHANGED <<open, cancelling, owner>>
    BY <1>6 DEF ReadCompleted, Called, ownerVars
  <2>2. \/ tr' = [tr EXCEPT ![curr] = "idle"]
        \/ tr' = [[tr EXCEPT ![curr] = "idle"] EXCEPT ![prev] = "fly"]
    BY <1>6 DEF ReadCompleted, Submitted
  <2>3. open' = TRUE
    BY <1>4, <1>6, <2>1
  <2> QED
    BY <2>1, <2>2, <2>3 DEF Transferring
<1>7. CASE crash = "no" /\ \E t \in Transfers : TransferCancelled(t) \/ TransferFailed(t)
  <2>1. PICK t \in Transfers : TransferCancelled(t) \/ TransferFailed(t)
    BY <1>7
  <2>2. /\ tr[t] \in {"cancelled", "error"} /\ UNCHANGED <<open, cancelling, owner>>
        /\ tr' = [tr EXCEPT ![t] = "idle"]
    BY <2>1 DEF TransferCancelled, TransferFailed, Called, ownerVars
  <2>3. open' = TRUE
    BY <1>4, <1>7, <2>2
  <2> QED
    BY <2>2, <2>3 DEF Transferring
<1>8. CASE crash = "no" /\ \E t \in Transfers : Complete(t)
  <2>1. PICK t \in Transfers : Complete(t)
    BY <1>8
  <2>2. tr[t] = "fly" /\ cancelling' = cancelling \ {t} /\ UNCHANGED <<open, owner>>
    BY <2>1 DEF Complete, ownerVars
  <2>3. PICK s \in {"done", "cancelled", "error"} :
          tr' = [tr EXCEPT ![t] = s] /\ (s = "cancelled" => t \in cancelling)
    BY <2>1 DEF Complete
  <2>4. open' = TRUE
    BY <1>4, <1>8, <2>2
  <2> QED
    BY <2>2, <2>3, <2>4 DEF Transferring
<1>9. CASE Cancel
  <2>1. UNCHANGED <<open, tr, crash>> /\ owner' # "up"
    BY <1>9 DEF Cancel, GoOn
  <2>2. cancelling' = cancelling \/ (tr[target] = "fly" /\ cancelling' = cancelling \cup {target})
    BY <1>9 DEF Cancel
  <2> QED
    BY <2>1, <2>2 DEF Transferring, AllIdle
<1>10. CASE \E w \in Writers : WriteLocked(w) /\ open /\ ~in_progress /\ Submitted(tr, "w")
  <2>1. UNCHANGED <<open, cancelling, owner>> /\ open' /\ tr' = [tr EXCEPT !["w"] = "fly"]
    BY <1>10 DEF WriteLocked, Submitted, ownerVars
  <2> QED
    BY <2>1 DEF Transferring
<1> QED
  BY <1>1, <1>2, <1>3, <1>5, <1>6, <1>7, <1>8, <1>9, <1>10, TransfersDo DEF TransfersStep

\* late and failed stay until the next start().
LEMMA HistoryStep ==
    ASSUME Flags, [Next]_vars, ~Start
    PROVE  (failed => failed') /\ (late => late')
<1>1. Callback => (failed => failed') /\ (late => late')
  BY CallbackStep
<1>2. \A t \in Transfers : Complete(t) => (failed => failed') /\ (late => late')
  BY DEF Complete, Flags
<1>3. RunBegins \/ EventsReturn \/ EvCloseCheck \/ EvClose \/ StopCalled \/ Unplug \/ ClearQueues
        => UNCHANGED <<failed, late>>
  BY DEF RunBegins, EventsReturn, EvCloseCheck, EvClose, StopCalled, Unplug, ClearQueues, history
<1>4. Take \/ Cancelled \/ StopFlag \/ StopCloseCheck \/ StopClose \/ Join => UNCHANGED <<failed, late>>
  BY DEF history, Take, Cancelled, StopFlag, StopCloseCheck, StopClose, Join
<1>5. Cancel => failed' = failed /\ (late => late')
  <2>1. Cancel => failed' = failed /\ (late' = late \/ late' = (late \/ tr[target] # "idle"))
    BY DEF Cancel
  <2> QED
    BY <2>1 DEF Flags
<1>6. \A w \in Writers : WriteCalled(w) => UNCHANGED <<failed, late>>
  BY DEF WriteCalled, history
<1>7. \A w \in Writers : WriteLocked(w) => failed' = failed /\ (late => late')
  <2>1. \A w \in Writers : WriteLocked(w) =>
          failed' = failed /\ (late' = late \/ late' = (late \/ Passed("w")))
    BY DEF WriteLocked, Submitted
  <2> QED
    BY <2>1 DEF Flags, Passed
<1>8. UNCHANGED vars => UNCHANGED <<failed, late>>
  BY DEF vars, history
<1> QED
  BY <1>1, <1>2, <1>3, <1>4, <1>5, <1>6, <1>7, <1>8, Steps DEF Event, Stop

LEMMA ReadInvStep ==
    ASSUME Flags, Positions, Transferring, ReadInv, [Next]_vars
    PROVE  ReadInv'
<1> USE DEF Flags, Transfers
<1> SUFFICES ASSUME owner' = "up", failed' = FALSE
             PROVE  ev' = "run" /\ tr'[curr'] # "idle" /\ curr' # prev' /\ tr'[prev'] = "idle"
  <2>1. failed' \in BOOLEAN
    BY FlagsStep
  <2> QED
    BY <2>1 DEF ReadInv
<1> DEFINE Armed == tr[curr] # "idle" /\ curr # prev /\ tr[prev] = "idle"
<1>1. CASE RunBegins /\ plugged
  BY <1>1 DEF RunBegins, Positions, AllIdle, readVars
<1>2. ASSUME owner = "up" PROVE failed = FALSE
  BY <1>2, HistoryStep DEF Start
<1>3. ASSUME owner = "up" PROVE ev = "run" /\ Armed
  BY <1>2, <1>3 DEF ReadInv
<1>4. ASSUME owner = "up" PROVE ev' = "run"
  <2>1. ev = "run" /\ eptr # "fatal" /\ running
    BY <1>2, <1>3, <1>4 DEF Positions
  <2>2. ~RunBegins /\ ~EvCloseCheck /\ ~EvClose /\ ~Start /\ ~Stop
    BY <1>4, <2>1 DEF RunBegins, EvCloseCheck, EvClose, Start, Stop, Take, Cancel, Cancelled, StopFlag,
                      StopCloseCheck, StopClose, Join
  <2>3. EventsReturn => ev' = "run"
    BY <2>1 DEF EventsReturn
  <2>4. Callback => ev' = ev
    BY CallbackStep
  <2>5. StopCalled \/ Unplug \/ ClearQueues => ev' = ev
    BY DEF StopCalled, Unplug, ClearQueues
  <2>6. \A t \in Transfers : Complete(t) => ev' = ev
    BY DEF Complete
  <2>7. \A w \in Writers : WriteCalled(w) \/ WriteLocked(w) => ev' = ev
    BY DEF WriteCalled, WriteLocked
  <2>8. UNCHANGED vars => ev' = ev
    BY DEF vars
  <2> QED
    BY <2>1, <2>2, <2>3, <2>4, <2>5, <2>6, <2>7, <2>8, Steps DEF Event
<1>5. ASSUME owner = "up" PROVE Armed'
  <2>1. Armed
    BY <1>3, <1>5
  <2>2. CASE Quiet
    BY <2>1, <2>2 DEF Quiet, readVars
  <2>3. CASE WriteCompleted
    BY <2>1, <2>3 DEF WriteCompleted, Submitted, readVars
  <2>4. CASE ReadCompleted
    <3>1. plugged /\ Submitted([tr EXCEPT ![curr] = "idle"], prev) /\ curr' = prev /\ prev' = curr
      BY <2>4 DEF ReadCompleted, Throws, SwappedOut
    <3>2. tr' = [[tr EXCEPT ![curr] = "idle"] EXCEPT ![prev] = "fly"]
      BY <3>1 DEF Submitted
    <3> QED
      BY <2>1, <3>1, <3>2
  <2>5. CASE \E t \in Transfers : TransferCancelled(t) \/ TransferFailed(t)
    <3>1. \A t \in Transfers : ~TransferCancelled(t)
      BY <1>5 DEF TransferCancelled, Called, Transferring
    <3>2. \A t \in Transfers : TransferFailed(t) => failed'
      BY DEF TransferFailed, Throws
    <3> QED
      BY <2>5, <3>1, <3>2
  <2>6. CASE \E t \in Transfers : Complete(t)
    <3>1. PICK t \in Transfers : Complete(t)
      BY <2>6
    <3>2. tr[t] = "fly" /\ UNCHANGED <<curr, prev>>
      BY <3>1 DEF Complete, readVars
    <3>3. PICK s \in {"done", "cancelled", "error"} : tr' = [tr EXCEPT ![t] = s]
      BY <3>1 DEF Complete
    <3> QED
      BY <2>1, <3>2, <3>3
  <2>7. ~Start /\ ~Cancel /\ ~RunBegins
    BY <1>2, <1>5 DEF Start, Cancel, RunBegins, Positions
  <2>8. CASE \E w \in Writers : WriteLocked(w) /\ open /\ ~in_progress /\ Submitted(tr, "w")
    BY <2>1, <2>8 DEF WriteLocked, Submitted, readVars
  <2> QED
    BY <2>2, <2>3, <2>4, <2>5, <2>6, <2>7, <2>8, TransfersDo DEF TransfersStep
<1> QED
  BY <1>1, <1>4, <1>5, UpStep

-----------------------------------------------------------------------------
(* stop(), while nothing fails and nothing is submitted behind it.         *)

\* The next pointer: the transfer of the last one is idle.
LEMMA GoOnProgress ==
    ASSUME Flags, Positions, Progress, owner \in {"take", "cancel", "wait"}, GoOn,
           AllIdle \/ (tr[target] = "idle" /\ target = Pointer(nth)),
           UNCHANGED <<tr, curr, prev, open>>
    PROVE  Progress'
<1>1. nth \in {1, 2, 3} /\ nth' = nth + 1 /\ owner' \in {"flag", "take"}
  BY DEF GoOn, Positions, Flags
<1>2. CASE AllIdle
  BY <1>1, <1>2 DEF AllIdle, Progress, Flags, Transfers
<1>3. CASE tr[target] = "idle" /\ target = Pointer(nth)
  <2>1. CASE nth = 1
    BY <1>1, <1>3, <2>1 DEF Progress, Pointer
  <2>2. CASE nth = 2
    BY <1>1, <1>3, <2>2 DEF Progress, Pointer
  <2>3. CASE nth = 3
    BY <1>1, <1>3, <2>3 DEF Progress, Pointer
  <2> QED
    BY <1>1, <2>1, <2>2, <2>3
<1> QED
  BY <1>2, <1>3

\* The steps that leave the owner where it is.
Elsewhere == UNCHANGED <<owner, nth, target>>

LEMMA OwnerSteps ==
    ASSUME [Next]_vars, owner \in Stopping, owner' \in Stopping
    PROVE  \/ Take \/ Cancel \/ Cancelled
           \/ Quiet /\ UNCHANGED <<nth, target>> /\ owner' \in {"check", "close", "join"}
           \/ Elsewhere
<1> USE DEF Stopping
<1>1. StopFlag \/ StopCloseCheck \/ StopClose =>
        Quiet /\ UNCHANGED <<nth, target>> /\ owner' \in {"check", "close", "join"}
  BY DEF StopFlag, StopCloseCheck, StopClose, Quiet, libusb
<1>2. ~Join /\ ~Start /\ ~StopCalled
  BY DEF Join, Start, StopCalled
<1>3. ~RunBegins \/ Elsewhere
  BY DEF RunBegins, Elsewhere
<1>4. EventsReturn \/ EvCloseCheck \/ EvClose => Elsewhere
  BY DEF EventsReturn, EvCloseCheck, EvClose, ownerVars, Elsewhere
<1>5. Callback => Elsewhere
  BY DEF Callback, WriteCompleted, ReadCompleted, TransferCancelled, TransferFailed, ownerVars, Elsewhere
<1>6. Unplug \/ ClearQueues => Elsewhere
  BY DEF Unplug, ClearQueues, ownerVars, Elsewhere
<1>7. \A t \in Transfers : Complete(t) => Elsewhere
  BY DEF Complete, ownerVars, Elsewhere
<1>8. \A w \in Writers : WriteCalled(w) \/ WriteLocked(w) => Elsewhere
  BY DEF WriteCalled, WriteLocked, ownerVars, Elsewhere
<1>9. UNCHANGED vars => Elsewhere
  BY DEF vars, ownerVars, Elsewhere
<1> QED
  BY <1>1, <1>2, <1>3, <1>4, <1>5, <1>6, <1>7, <1>8, <1>9, Steps DEF Event, Stop

\* stop() begins, with a read at libusb or with the device closed.
LEMMA StopBegins ==
    ASSUME [Next]_vars, owner' \in Stopping, owner \notin Stopping
    PROVE  StopCalled /\ crash = "no"
<1> USE DEF Stopping
<1>2. EventsReturn \/ EvCloseCheck \/ EvClose => UNCHANGED owner
  BY DEF EventsReturn, EvCloseCheck, EvClose, ownerVars
<1>3. Callback => UNCHANGED owner
  BY DEF Callback, WriteCompleted, ReadCompleted, TransferCancelled, TransferFailed, ownerVars
<1>4. Stop => owner \in Stopping
  BY DEF Stop, Take, Cancel, Cancelled, StopFlag, StopCloseCheck, StopClose, Join
<1>5. Unplug \/ ClearQueues => UNCHANGED owner
  BY DEF Unplug, ClearQueues, ownerVars
<1>6. \A t \in Transfers : Complete(t) => UNCHANGED owner
  BY DEF Complete, ownerVars
<1>7. \A w \in Writers : WriteCalled(w) \/ WriteLocked(w) => UNCHANGED owner
  BY DEF WriteCalled, WriteLocked, ownerVars
<1>8. UNCHANGED vars => UNCHANGED owner
  BY DEF vars, ownerVars
<1>9. RunBegins => owner' \in {owner, "up"}
  BY DEF RunBegins
<1>1. ~Start
  BY DEF Start
<1> QED
  BY <1>1, <1>2, <1>3, <1>4, <1>5, <1>6, <1>7, <1>8, <1>9, Steps DEF Event

\* write_cb alone frees the write transfer, but for a new connection.
LEMMA OnHold ==
    ASSUME [Next]_vars, in_progress, ~in_progress'
    PROVE  Start \/ (WriteCompleted /\ tr["w"] = "done")
<1>1. WriteCompleted => tr["w"] = "done"
  BY DEF WriteCompleted, Called
<1>2. RunBegins \/ EventsReturn \/ EvCloseCheck \/ EvClose => UNCHANGED in_progress
  BY DEF RunBegins, EventsReturn, EvCloseCheck, EvClose, writeVars
<1>3. ReadCompleted \/ (\E t \in Transfers : TransferCancelled(t) \/ TransferFailed(t)) => UNCHANGED in_progress
  BY DEF ReadCompleted, TransferCancelled, TransferFailed, writeVars
<1>4. Stop => UNCHANGED in_progress
  BY DEF Stop, Take, Cancel, Cancelled, StopFlag, StopCloseCheck, StopClose, Join, writeVars
<1>5. StopCalled \/ Unplug \/ ClearQueues => UNCHANGED in_progress
  BY DEF StopCalled, Unplug, ClearQueues, writeVars
<1>6. \A t \in Transfers : Complete(t) => UNCHANGED in_progress
  BY DEF Complete, writeVars
<1>7. \A w \in Writers : WriteCalled(w) \/ WriteLocked(w) => in_progress' \in {in_progress, TRUE}
  BY DEF WriteCalled, WriteLocked, writeVars
<1>8. UNCHANGED vars => UNCHANGED in_progress
  BY DEF vars, writeVars
<1> QED
  BY <1>1, <1>2, <1>3, <1>4, <1>5, <1>6, <1>7, <1>8, Steps DEF Event, Callback

LEMMA StopInvStep ==
    ASSUME Flags, Positions, Transferring, ReadInv, WriteInv, StopInv, [Next]_vars
    PROVE  StopInv'
<1> USE DEF Transfers
<1> SUFFICES ASSUME owner' \in Stopping, failed' = FALSE, late' = FALSE
             PROVE  Progress'
  <2>1. failed' \in BOOLEAN /\ late' \in BOOLEAN
    BY FlagsStep DEF Flags
  <2> QED
    BY <2>1 DEF StopInv
<1>1. failed = FALSE /\ late = FALSE
  BY HistoryStep DEF Start, Stopping, Flags
<1>2. CASE owner \notin Stopping
  <2>1. StopCalled /\ crash = "no"
    BY <1>2, StopBegins
  <2>2. UNCHANGED <<tr, curr, prev, open>> /\ nth' = 1 /\ owner' = "take"
    BY <2>1 DEF StopCalled, libusb, readVars
  <2>3. CASE owner = "up"
    BY <1>1, <2>2, <2>3 DEF ReadInv, Progress
  <2>4. CASE owner = "idle"
    <3>1. AllIdle /\ ~open
      BY <2>1, <2>4 DEF Positions, Transferring
    <3> QED
      BY <2>2, <3>1 DEF Progress, AllIdle, Flags
  <2> QED
    BY <2>1, <2>3, <2>4 DEF StopCalled
<1>3. ASSUME owner \in Stopping PROVE Progress
  BY <1>1, <1>3 DEF StopInv
<1>4. CASE Take /\ crash = "no"
  <2>1. UNCHANGED <<tr, curr, prev, open, cancelled>> /\ owner = "take"
    BY <1>4 DEF Take, readVars, libusb
  <2>2. CASE open /\ owner' = "cancel" /\ target' = Pointer(nth) /\ UNCHANGED nth
    BY <1>3, <2>1, <2>2 DEF Progress, Pointer, Stopping
  <2>3. CASE ~open /\ GoOn
    BY <1>3, <1>4, <2>1, <2>3, GoOnProgress DEF Transferring, Stopping
  <2> QED
    BY <1>4, <2>2, <2>3 DEF Take
<1>5. CASE Cancel
  <2>1. /\ UNCHANGED <<tr, curr, prev, open, target, in_progress>> /\ owner = "cancel"
        /\ cancelled' = cancelled \ {target}
    BY <1>5 DEF Cancel, readVars, writeVars
  <2>2. Progress /\ target = Pointer(nth)
    BY <1>3, <2>1 DEF Progress, Stopping
  <2>3. CASE /\ UNCHANGED nth
             /\ \/ owner' = "join"
                \/ owner' = "wait" /\ tr[target] = "fly" /\ cancelling' = cancelling \cup {target}
    <3>1. Pointer(nth)' = Pointer(nth) /\ target' = target /\ target' \notin cancelled'
      BY <2>1, <2>3 DEF Pointer
    <3>2. tr'[prev'] = "idle" /\ (open' => curr' # prev')
      BY <2>1, <2>2 DEF Progress
    <3>3. (nth' > 1 => tr'["w"] = "idle") /\ (nth' > 2 => tr'[curr'] = "idle")
      BY <2>1, <2>2, <2>3 DEF Progress
    <3>4. owner' = "wait" => tr'[target'] = "fly" /\ target' \in cancelling' /\ (target' = "w" => in_progress')
      BY <2>1, <2>3 DEF WriteInv
    <3> QED
      BY <2>2, <3>1, <3>2, <3>3, <3>4 DEF Progress
  <2>4. CASE GoOn /\ late' = (late \/ tr[target] # "idle")
    <3>1. tr[target] = "idle"
      BY <2>4
    <3> QED
      BY <2>1, <2>2, <2>4, <3>1, GoOnProgress
  <2> QED
    BY <1>5, <2>3, <2>4 DEF Cancel
<1>6. CASE Cancelled
  <2>1. UNCHANGED <<tr, curr, prev, open>> /\ owner = "wait" /\ target \in cancelled /\ GoOn
    BY <1>6 DEF Cancelled, readVars, libusb
  <2>2. Progress /\ target = Pointer(nth) /\ tr[target] = "idle"
    BY <1>3, <2>1 DEF Progress, Stopping
  <2> QED
    BY <2>1, <2>2, GoOnProgress
<1>7. owner \in Stopping => (open' => open)
  BY OpenStep DEF Start, Stopping, Flags
<1>8. CASE owner \in Stopping /\ Quiet /\ UNCHANGED <<nth, target>>
           /\ (owner' = owner \/ owner' \in {"check", "close", "join"})
  <2>1. Progress /\ UNCHANGED <<curr, prev, tr, cancelling, cancelled>> /\ (open' => open)
    BY <1>3, <1>7, <1>8 DEF Quiet, readVars
  <2>2. (owner' = "wait" /\ in_progress) => in_progress'
    <3>1. ~Start
      BY <1>8 DEF Start, Stopping
    <3>2. ~(WriteCompleted /\ tr["w"] = "done")
      BY <2>1 DEF WriteCompleted, Submitted, Flags
    <3> QED
      BY <3>1, <3>2, OnHold
  <2> QED
    BY <1>8, <2>1, <2>2 DEF Progress, Pointer
<1>9. CASE owner \in Stopping /\ Elsewhere /\ crash = "no" /\ TransfersStep
  <2>0. Progress /\ UNCHANGED <<owner, nth, target>> /\ (open' => open)
    BY <1>3, <1>7, <1>9 DEF Elsewhere
  <2>1. CASE WriteCompleted
    <3>1. tr["w"] = "done" /\ UNCHANGED <<curr, prev, cancelling, cancelled>> /\ ~Throws("fatal")
      BY <2>1 DEF WriteCompleted, Called, readVars, Throws
    <3>2. ~(owner = "wait" /\ target = "w")
      BY <2>0, <3>1 DEF Progress
    <3>3. CASE Submitted(tr, "w")
      <4>1. ~Passed("w")
        BY <3>3 DEF Submitted
      <4>2. nth = 1
        BY <1>9, <4>1 DEF Passed, Flags
      <4>3. owner # "wait"
        BY <2>0, <3>2, <4>2 DEF Progress, Pointer
      <4>4. tr' = [tr EXCEPT !["w"] = "fly"]
        BY <3>3 DEF Submitted
      <4> QED
        BY <2>0, <3>1, <4>2, <4>3, <4>4 DEF Progress, Pointer, Flags
    <3>4. CASE tr' = [tr EXCEPT !["w"] = "idle"]
      BY <2>0, <3>1, <3>2, <3>4 DEF Progress, Pointer, Flags
    <3> QED
      BY <2>1, <3>3, <3>4 DEF WriteCompleted
  <2>2. CASE ReadCompleted
    <3>1. /\ tr[curr] = "done" /\ curr' = prev /\ UNCHANGED <<cancelling, cancelled, in_progress>>
          /\ ~Throws("fatal")
      BY <2>2 DEF ReadCompleted, Called, writeVars, Throws
    <3>2. Submitted([tr EXCEPT ![curr] = "idle"], prev) /\ prev' = curr
      BY <2>2, <3>1 DEF ReadCompleted, SwappedOut
    <3>3. ~Passed(prev) /\ tr' = [[tr EXCEPT ![curr] = "idle"] EXCEPT ![prev] = "fly"]
      BY <3>2 DEF Submitted
    <3>4. nth = 1 \/ (nth = 2 /\ owner = "take")
      BY <1>9, <3>3 DEF Passed, Flags
    <3>5. open /\ curr # prev
      BY <1>9, <2>0, <3>1 DEF Transferring, AllIdle, Flags, Progress
    <3>6. /\ tr'[prev'] = "idle" /\ curr' # prev' /\ tr'["w"] = tr["w"]
      BY <3>1, <3>2, <3>3, <3>5 DEF Flags
    <3>7. owner \in {"cancel", "wait"} => target = "w" /\ nth = 1
      BY <2>0, <3>4 DEF Progress, Pointer
    <3> QED
      BY <2>0, <3>1, <3>4, <3>6, <3>7 DEF Progress, Pointer
  <2>3. CASE \E t \in Transfers : TransferCancelled(t)
    <3>1. PICK t \in Transfers : TransferCancelled(t)
      BY <2>3
    <3>2. /\ tr[t] = "cancelled" /\ tr' = [tr EXCEPT ![t] = "idle"]
          /\ cancelled' = cancelled \cup {Notified(t)} /\ UNCHANGED <<curr, prev, cancelling, in_progress>>
      BY <3>1 DEF TransferCancelled, Called, readVars, writeVars
    <3>3. open
      BY <1>9, <3>2 DEF Transferring, AllIdle
    <3>4. t = "w" \/ t = curr
      BY <2>0, <3>2, <3>3 DEF Progress, Flags
    <3>5. Notified(t) = t
      BY <3>4 DEF Notified
    <3> QED
      BY <2>0, <3>2, <3>5 DEF Progress, Pointer, Flags
  <2>4. \A t \in Transfers : ~TransferFailed(t)
    BY DEF TransferFailed, Throws
  <2>5. CASE \E t \in Transfers : Complete(t)
    <3>1. PICK t \in Transfers : Complete(t)
      BY <2>5
    <3>2. /\ tr[t] = "fly" /\ UNCHANGED <<curr, prev, cancelled, in_progress>>
          /\ cancelling' = cancelling \ {t}
      BY <3>1 DEF Complete, readVars, writeVars
    <3>3. PICK s \in {"done", "cancelled", "error"} :
            tr' = [tr EXCEPT ![t] = s] /\ (t \in cancelling => s # "done")
      BY <3>1 DEF Complete
    <3>4. (owner = "wait" /\ t = target) => target \in cancelling /\ target \notin cancelled
      BY <2>0, <3>2 DEF Progress
    <3>5. /\ tr'[prev'] = "idle" /\ (open' => curr' # prev')
          /\ nth' > 1 => tr'["w"] = "idle"
          /\ nth' > 2 => tr'[curr'] = "idle"
      BY <2>0, <3>2, <3>3 DEF Progress, Flags
    <3>6. owner' \in {"cancel", "wait"} => target' = Pointer(nth)'
      BY <2>0, <3>2 DEF Progress, Pointer
    <3>7. owner' = "wait" => /\ target' \in cancelled' => tr'[target'] = "idle"
                             /\ tr'[target'] # "done" /\ (tr'[target'] = "fly" => target' \in cancelling')
                             /\ target' = "w" => in_progress'
      BY <2>0, <3>2, <3>3, <3>4 DEF Progress, Flags
    <3> QED
      BY <3>5, <3>6, <3>7 DEF Progress
  <2>6. ~Start /\ ~RunBegins
    BY <1>9 DEF Start, RunBegins, Stopping, Positions
  <2>7. CASE \E w \in Writers : WriteLocked(w) /\ open /\ ~in_progress /\ Submitted(tr, "w")
    <3>1. /\ ~Passed("w") /\ tr' = [tr EXCEPT !["w"] = "fly"] /\ ~in_progress
          /\ UNCHANGED <<curr, prev, cancelling, cancelled>>
      BY <2>7 DEF WriteLocked, Submitted, readVars
    <3>2. nth = 1
      BY <1>9, <3>1 DEF Passed, Flags
    <3>3. owner # "wait"
      BY <2>0, <3>1, <3>2 DEF Progress, Pointer
    <3> QED
      BY <2>0, <3>1, <3>2, <3>3 DEF Progress, Pointer, Flags
  <2> QED
    BY <1>5, <1>9, <2>1, <2>2, <2>3, <2>4, <2>5, <2>6, <2>7 DEF TransfersStep
<1>10. ASSUME owner \in Stopping PROVE Progress'
  <2>1. CASE Take
    <3>1. CASE UNCHANGED vars
      BY <1>8, <1>10, <3>1 DEF vars, ownerVars, libusb, Quiet
    <3> QED
      BY <1>4, <2>1, <3>1 DEF Next
  <2>2. CASE Elsewhere
    BY <1>8, <1>9, <1>10, <2>2, TransfersDo DEF Elsewhere
  <2> QED
    BY <1>5, <1>6, <1>8, <1>10, <2>1, <2>2, OwnerSteps
<1> QED
  BY <1>2, <1>10

-----------------------------------------------------------------------------
(* close().                                                                *)

\* What goes wrong goes wrong in close(), or in a write() that finds the device closed.
LEMMA CrashStep ==
    ASSUME [Next]_vars, crash' # crash
    PROVE  \/ (EvClose \/ StopClose) /\ crash' = CloseCrash /\ UNCHANGED <<running, failed, late>>
           \/ /\ crash' = "write after close" /\ ~open
              /\ UNCHANGED <<running, failed>>
<1>1. EvClose \/ StopClose => crash' = CloseCrash /\ UNCHANGED <<running, failed, late>>
  BY DEF EvClose, StopClose, CloseBody, history, ownerVars
<1>2. Start \/ RunBegins \/ EventsReturn \/ EvCloseCheck => UNCHANGED crash
  BY DEF Start, RunBegins, EventsReturn, EvCloseCheck
<1>3. Callback => UNCHANGED crash
  BY DEF Callback, WriteCompleted, ReadCompleted, TransferCancelled, TransferFailed
<1>4. Take \/ Cancel \/ Cancelled \/ StopFlag \/ StopCloseCheck \/ Join => UNCHANGED crash
  BY DEF Take, Cancel, Cancelled, StopFlag, StopCloseCheck, Join
<1>5. StopCalled \/ Unplug \/ ClearQueues => UNCHANGED crash
  BY DEF StopCalled, Unplug, ClearQueues
<1>6. \A t \in Transfers : Complete(t) => UNCHANGED crash
  BY DEF Complete
<1>7. \A w \in Writers : WriteCalled(w) => UNCHANGED crash
  BY DEF WriteCalled
<1>8. \A w \in Writers : WriteLocked(w) =>
         \/ UNCHANGED crash
         \/ crash' = "write after close" /\ ~open /\ UNCHANGED <<running, failed>>
  BY DEF WriteLocked, ownerVars
<1>9. UNCHANGED vars => UNCHANGED crash
  BY DEF vars
<1> QED
  BY <1>1, <1>2, <1>3, <1>4, <1>5, <1>6, <1>7, <1>8, <1>9, Steps DEF Event, Stop

\* Behind cancel_transfers() nothing is at libusb.
LEMMA BehindCancel ==
    ASSUME Flags, StopInv, owner \in Stopping, nth = 4, ~failed, ~late
    PROVE  AllIdle \/ curr = prev
<1>1. nth > 1 /\ nth > 2
  OBVIOUS
<1>2. tr[prev] = "idle" /\ tr["w"] = "idle" /\ tr[curr] = "idle"
  BY <1>1 DEF StopInv, Progress
<1> QED
  BY <1>2 DEF AllIdle, Transfers, Flags

\* Why a device may be closed: the thread that saw a failure or the end, or stop() behind its flag.
LEMMA CausesStep ==
    ASSUME Flags, Positions, Causes, [Next]_vars
    PROVE  Causes'
<1>1. CASE Start
  BY <1>1 DEF Start, Causes
<1>2. CASE EvClose \/ StopClose
  <2>1. /\ open' = FALSE /\ UNCHANGED <<running, failed>>
        /\ EvClose => ev = "close" /\ ev' = "ended"
        /\ StopClose => owner = "close" /\ owner' = "join"
    BY <1>2 DEF EvClose, StopClose, CloseBody, ownerVars, history
  <2>2. (EvClose => failed \/ ~running) /\ (StopClose => ~running)
    BY <2>1 DEF Positions
  <2> QED
    BY <1>2, <2>1, <2>2 DEF Causes, Flags
<1>3. CASE ReadCompleted
  <2>1. UNCHANGED <<open, owner, running, ev>> /\ (failed => failed')
    BY <1>3, CallbackStep DEF Callback, ownerVars
  <2>2. failed' \/ (curr' = prev /\ prev' = curr)
    BY <1>3 DEF ReadCompleted, Throws, SwappedOut
  <2> QED
    BY <2>1, <2>2 DEF Causes
<1>4. ASSUME UNCHANGED <<open, curr, prev>>, failed => failed', running' \in {running, FALSE},
             owner = "join" => (owner' = "join" \/ ev \in {"ended", "off"}),
             \/ ev' = ev \/ ev' \in {"ended", "off"} \/ open
             \/ ev \in {"run", "exit"}
      PROVE  Causes'
  <2>1. ~open' => ~open /\ (failed \/ ~running)
    BY <1>4 DEF Causes
  <2>2. running' => running
    BY <1>4 DEF Flags
  <2>3. (ev' \in {"run", "exit", "close"} /\ ~open') => ev \in {"run", "exit", "close"} /\ ~open
    BY <1>4, <2>1 DEF Flags
  <2>4. (ev' \in {"run", "exit", "close"} /\ ~open') => ~running' /\ owner' = "join"
    BY <1>4, <2>2, <2>3 DEF Causes
  <2>5. (open' /\ ~failed') => curr' # prev'
    BY <1>4 DEF Causes
  <2> QED
    BY <1>4, <2>1, <2>2, <2>4, <2>5 DEF Causes
<1>5. CASE RunBegins
  <2>1. ev = "start" /\ owner = "starting" /\ open
    BY <1>5 DEF RunBegins, Positions
  <2> QED
    BY <1>4, <1>5, <2>1 DEF RunBegins, readVars, history
<1>6. CASE EventsReturn \/ EvCloseCheck
  BY <1>4, <1>6 DEF EventsReturn, EvCloseCheck, ownerVars, readVars, history
<1>7. CASE WriteCompleted \/ \E t \in Transfers : TransferCancelled(t) \/ TransferFailed(t)
  <2>1. UNCHANGED <<open, owner, running, ev>> /\ (failed => failed')
    BY <1>7, CallbackStep DEF Callback, ownerVars
  <2>2. UNCHANGED <<curr, prev>>
    BY <1>7 DEF WriteCompleted, TransferCancelled, TransferFailed, readVars
  <2> QED
    BY <1>4, <2>1, <2>2
<1>8. CASE Take \/ Cancel \/ Cancelled \/ StopFlag \/ StopCloseCheck
  <2>1. UNCHANGED <<open, curr, prev, ev, failed>> /\ running' \in {running, FALSE} /\ owner # "join"
    BY <1>8 DEF Take, Cancel, Cancelled, StopFlag, StopCloseCheck, readVars, history
  <2> QED
    BY <1>4, <2>1
<1>9. CASE Join
  BY <1>4, <1>9 DEF Join, readVars, history
<1>10. CASE StopCalled \/ Unplug \/ ClearQueues
  BY <1>4, <1>10 DEF StopCalled, Unplug, ClearQueues, ownerVars, readVars, history
<1>11. CASE \E t \in Transfers : Complete(t)
  <2>1. /\ UNCHANGED <<open, owner, running, ev, curr, prev>>
        /\ failed => failed'
    BY <1>11 DEF Complete, ownerVars, readVars
  <2> QED
    BY <1>4, <2>1
<1>12. CASE \E w \in Writers : WriteCalled(w) \/ WriteLocked(w)
  <2>1. UNCHANGED <<open, owner, running, ev, curr, prev, failed>>
    BY <1>12 DEF WriteCalled, WriteLocked, ownerVars, readVars, history
  <2> QED
    BY <1>4, <2>1
<1>13. CASE UNCHANGED vars
  BY <1>4, <1>13 DEF vars, ownerVars, readVars, history
<1> QED
  BY <1>1, <1>2, <1>3, <1>5, <1>6, <1>7, <1>8, <1>9, <1>10, <1>11, <1>12, <1>13, Steps
     DEF Event, Callback, Stop

LEMMA CrashHasCauseStep ==
    ASSUME Flags, Positions, StopInv, Causes, CrashHasCause, [Next]_vars
    PROVE  CrashHasCause'
<1>1. CASE UNCHANGED crash
  <2>1. CASE crash = "no"
    BY <1>1, <2>1 DEF CrashHasCause
  <2>2. CASE crash # "no"
    <3>1. UNCHANGED <<crash, running, owner, failed, late>>
      BY <2>2 DEF Next, vars, ownerVars, history
    <3> QED
      BY <3>1 DEF CrashHasCause
  <2> QED
    BY <2>1, <2>2
<1>2. CASE (EvClose \/ StopClose) /\ crash' = CloseCrash /\ UNCHANGED <<running, failed, late>>
  <2>1. /\ EvClose => ev = "close" /\ owner' = owner
        /\ StopClose => owner = "close" /\ owner' = "join"
    BY DEF EvClose, StopClose, ownerVars
  <2>2. (EvClose => failed \/ ~running) /\ (StopClose => ~running)
    BY <2>1 DEF Positions
  <2>3. CASE ~open
    <3>1. crash' = "double close"
      BY <1>2, <2>3 DEF CloseCrash
    <3>2. ~running /\ owner' = "join"
      BY <1>2, <2>1, <2>2, <2>3 DEF Causes
    <3> QED
      BY <1>2, <3>1, <3>2 DEF CrashHasCause
  <2>4. CASE open /\ curr = prev
    <3>1. crash' = "double delete" /\ failed
      BY <1>2, <2>4 DEF CloseCrash, Causes
    <3> QED
      BY <1>2, <3>1 DEF CrashHasCause
  <2>5. CASE open /\ curr # prev /\ owner \in {"cancel", "wait"}
    <3>1. crash' = "deleted in use"
      BY <1>2, <2>5 DEF CloseCrash
    <3>2. running /\ ~StopClose
      BY <2>1, <2>5 DEF Positions
    <3> QED
      BY <1>2, <2>2, <3>1, <3>2 DEF CrashHasCause
  <2>6. CASE open /\ curr # prev /\ owner \notin {"cancel", "wait"} /\ ~AllIdle
    <3>1. crash' = "deleted in flight"
      BY <1>2, <2>6 DEF CloseCrash, AllIdle
    <3>2. (owner \in {"check", "close", "join"} /\ nth = 4) \/ failed
      <4>1. owner \in {"check", "close", "join"} \/ failed
        BY <1>2, <2>1, <2>2, <2>6 DEF Positions
      <4>2. owner \in {"check", "close"} \/ (owner = "join" /\ ~running) => nth = 4
        BY DEF Positions
      <4>3. ~failed => ~running
        BY <1>2, <2>2
      <4> QED
        BY <4>1, <4>2, <4>3
    <3>3. failed \/ late
      BY <2>6, <3>2, BehindCancel DEF Flags, Stopping
    <3> QED
      BY <1>2, <3>1, <3>3 DEF CrashHasCause
  <2>7. CASE open /\ curr # prev /\ owner \notin {"cancel", "wait"} /\ AllIdle
    <3>1. crash' = "no"
      BY <1>2, <2>7 DEF CloseCrash, AllIdle
    <3> QED
      BY <3>1 DEF CrashHasCause
  <2> QED
    BY <2>3, <2>4, <2>5, <2>6, <2>7
<1>3. CASE crash' = "write after close" /\ ~open /\ UNCHANGED <<running, failed>>
  BY <1>3 DEF CrashHasCause, Causes
<1> QED
  BY <1>1, <1>2, <1>3, CrashStep

-----------------------------------------------------------------------------
(* The write transfer and its queue.                                       *)

\* The steps that touch neither.
Unwritten == UNCHANGED <<tr, in_progress, packet, queue, cleared, caller, count>>

LEMMA UnwrittenSteps ==
    ASSUME [Next]_vars
    PROVE  \/ Unwritten
           \/ Start \/ RunBegins \/ Callback \/ ClearQueues
           \/ \E t \in Transfers : Complete(t)
           \/ \E w \in Writers : WriteCalled(w) \/ WriteLocked(w)
<1>1. EventsReturn \/ EvCloseCheck \/ EvClose => Unwritten
  BY DEF EventsReturn, EvCloseCheck, EvClose, libusb, writeVars, users, Unwritten
<1>2. Stop => Unwritten
  BY DEF Stop, Take, Cancel, Cancelled, StopFlag, StopCloseCheck, StopClose, Join, libusb, writeVars,
         users, Unwritten
<1>3. StopCalled \/ Unplug => Unwritten
  BY DEF StopCalled, Unplug, libusb, writeVars, users, Unwritten
<1>4. UNCHANGED vars => Unwritten
  BY DEF vars, libusb, writeVars, users, Unwritten
<1> QED
  BY <1>1, <1>2, <1>3, <1>4, Steps DEF Event

LEMMA WriteInvStep ==
    ASSUME Flags, Data, Positions, Transferring, WriteInv, [Next]_vars
    PROVE  WriteInv'
<1> USE DEF Flags, Transfers
<1>0. ~Start => (owner' = "up" /\ ~failed' => (owner = "up" \/ (RunBegins /\ plugged)) /\ ~failed)
  BY UpStep, HistoryStep
<1>1. CASE Unwritten
  <2>1. owner' = "up" /\ ~failed' /\ in_progress' => owner = "up" /\ ~failed
    <3>1. ~Start \/ owner' # "up"
      BY DEF Start
    <3>2. ~(RunBegins /\ plugged)
      BY <1>1 DEF RunBegins, Unwritten, Positions, AllIdle
    <3> QED
      BY <1>0, <3>1, <3>2
  <2> QED
    BY <1>1, <2>1 DEF WriteInv, Unwritten
<1>2. CASE Start
  BY <1>2 DEF Start, WriteInv, users
<1>3. CASE RunBegins
  BY <1>3 DEF RunBegins, Positions, AllIdle, WriteInv, writeVars, users
<1>4. CASE WriteCompleted
  <2>1. /\ tr["w"] = "done" /\ in_progress /\ UNCHANGED <<cleared, caller>>
    BY <1>4 DEF WriteCompleted, Called, WriteInv, users
  <2>2. CASE plugged /\ Submitted(tr, "w") /\ UNCHANGED in_progress
    BY <2>1, <2>2 DEF Submitted, WriteInv
  <2>3. CASE tr' = [tr EXCEPT !["w"] = "idle"] /\ Throws("fatal") /\ UNCHANGED in_progress
    BY <2>1, <2>3 DEF Throws, WriteInv
  <2>4. CASE /\ \A w \in Writers : queue[w] = <<>>
             /\ PutOnHold /\ tr' = [tr EXCEPT !["w"] = "idle"] /\ UNCHANGED queue
    BY <2>1, <2>4 DEF PutOnHold, WriteInv
  <2> QED
    BY <1>4, <2>2, <2>3, <2>4 DEF WriteCompleted
<1>5. CASE ReadCompleted
  <2>1. UNCHANGED <<in_progress, queue, cleared, caller, owner>>
    BY <1>5 DEF ReadCompleted, writeVars, users, ownerVars
  <2>2. tr'["w"] = tr["w"]
    BY <1>5 DEF ReadCompleted, Submitted
  <2>3. failed => failed'
    BY <1>5, CallbackStep DEF Callback
  <2> QED
    BY <2>1, <2>2, <2>3 DEF WriteInv
<1>6. CASE \E t \in Transfers : TransferCancelled(t) \/ TransferFailed(t)
  <2>1. PICK t \in Transfers : TransferCancelled(t) \/ TransferFailed(t)
    BY <1>6
  <2>2. UNCHANGED <<in_progress, queue, cleared, caller, owner>> /\ tr' = [tr EXCEPT ![t] = "idle"]
    BY <2>1 DEF TransferCancelled, TransferFailed, writeVars, users, ownerVars
  <2>3. TransferCancelled(t) => UNCHANGED failed /\ owner # "up"
    BY DEF TransferCancelled, Called, Transferring, history
  <2>4. TransferFailed(t) => failed'
    BY DEF TransferFailed, Throws
  <2> QED
    BY <2>1, <2>2, <2>3, <2>4 DEF WriteInv
<1>7. CASE ClearQueues
  <2>1. UNCHANGED <<tr, in_progress, caller, owner, failed>> /\ (cleared => cleared')
    BY <1>7 DEF ClearQueues, libusb, users, ownerVars, history
  <2>2. CASE UNCHANGED cleared /\ \E w \in Writers : queue[w] # <<>>
    BY <2>1, <2>2 DEF WriteInv
  <2>3. CASE UNCHANGED queue /\ \A w \in Writers : queue[w] = <<>>
    BY <2>1, <2>3 DEF WriteInv
  <2> QED
    BY <1>7, <2>2, <2>3 DEF ClearQueues
<1>8. CASE \E t \in Transfers : Complete(t)
  <2>1. PICK t \in Transfers : Complete(t)
    BY <1>8
  <2>2. tr[t] = "fly" /\ UNCHANGED <<in_progress, queue, cleared, caller, owner>> /\ (failed => failed')
    BY <2>1 DEF Complete, writeVars, users, ownerVars
  <2>3. PICK s \in {"done", "cancelled", "error"} : tr' = [tr EXCEPT ![t] = s]
    BY <2>1 DEF Complete
  <2> QED
    BY <2>2, <2>3 DEF WriteInv
<1>9. CASE \E w \in Writers : WriteCalled(w)
  <2>1. PICK w \in Writers : WriteCalled(w)
    BY <1>9
  <2>2. UNCHANGED <<tr, in_progress, queue, cleared, owner, failed>> /\ cleared
    BY <2>1 DEF WriteCalled, libusb, writeVars, ownerVars, history
  <2> QED
    BY <2>2 DEF WriteInv
<1>10. CASE \E w \in Writers : WriteLocked(w)
  <2>1. PICK w \in Writers : WriteLocked(w)
    BY <1>10
  <2>2. /\ UNCHANGED <<cleared, owner, failed>> /\ cleared
        /\ \A v \in Writers : caller'[v] = "in" => caller[v] = "in"
    BY <2>1 DEF WriteLocked, ownerVars, WriteInv, Data
  <2>3. CASE UNCHANGED <<tr, in_progress, queue>>
    BY <2>2, <2>3 DEF WriteInv
  <2>4. CASE in_progress /\ UNCHANGED <<tr, in_progress>>
    BY <2>2, <2>4 DEF WriteInv
  <2>5. CASE Submitted(tr, "w") /\ in_progress' = TRUE
    BY <2>2, <2>5 DEF Submitted, WriteInv
  <2> QED
    BY <2>1, <2>3, <2>4, <2>5 DEF WriteLocked
<1> QED
  BY <1>1, <1>2, <1>3, <1>4, <1>5, <1>6, <1>7, <1>8, <1>9, <1>10, UnwrittenSteps DEF Callback

-----------------------------------------------------------------------------
(* The order of the packets.                                               *)

\* write() puts the next packet behind the transfer, or into it when it is free.
Enqueued(w) ==
    /\ caller[w] = "in" /\ in_progress /\ ~QueueFull
    /\ count' = [count EXCEPT ![w] = @ + 1]
    /\ queue' = [queue EXCEPT ![w] = Append(@, count'[w])]
    /\ UNCHANGED <<packet, tr, out>>

SentAtOnce(w) ==
    /\ caller[w] = "in" /\ ~in_progress
    /\ count' = [count EXCEPT ![w] = @ + 1]
    /\ packet' = <<w, count'[w]>>
    /\ tr' = [tr EXCEPT !["w"] = "fly"]
    /\ UNCHANGED <<queue, out>>

\* write_cb takes the oldest packet of some producer, and submits it or fails.
Taken(w) ==
    /\ tr["w"] = "done" /\ queue[w] # <<>>
    /\ packet' = <<w, Head(queue[w])>>
    /\ queue' = [queue EXCEPT ![w] = Tail(@)]
    /\ tr' \in {[tr EXCEPT !["w"] = "fly"], [tr EXCEPT !["w"] = "idle"]}
    /\ UNCHANGED <<count, out>>

Sent ==
    /\ tr["w"] = "fly" /\ tr'["w"] = "done"
    /\ out' = [out EXCEPT ![packet[1]] = packet[2]]
    /\ UNCHANGED <<packet, queue, count>>

\* clear_queues() takes one, which is lost.
Lost(w) ==
    /\ queue[w] # <<>>
    /\ queue' = [queue EXCEPT ![w] = Tail(@)]
    /\ UNCHANGED <<packet, tr, count, out>>

\* What is left: the write transfer is as it was or no longer in flight.
Drops ==
    /\ tr'["w"] = tr["w"] \/ tr'["w"] # "fly"
    /\ UNCHANGED <<packet, queue, count, out>>

LEMMA PacketSteps ==
    ASSUME Flags, [Next]_vars
    PROVE  \/ Drops \/ Sent
           \/ \E w \in Writers : Enqueued(w) \/ SentAtOnce(w) \/ Taken(w) \/ Lost(w)
<1> USE DEF Flags, Transfers
<1>1. Unwritten /\ UNCHANGED out => Drops
  BY DEF Unwritten, Drops
<1>2. EventsReturn \/ EvCloseCheck \/ EvClose => Unwritten /\ UNCHANGED out
  BY DEF EventsReturn, EvCloseCheck, EvClose, libusb, writeVars, users, history, Unwritten
<1>3. Stop => Unwritten /\ UNCHANGED out
  BY DEF Stop, Take, Cancel, Cancelled, StopFlag, StopCloseCheck, StopClose, Join, libusb, writeVars,
         users, history, Unwritten
<1>4. StopCalled \/ Unplug => Unwritten /\ UNCHANGED out
  BY DEF StopCalled, Unplug, libusb, writeVars, users, history, Unwritten
<1>5. UNCHANGED vars => Unwritten /\ UNCHANGED out
  BY DEF vars, libusb, writeVars, users, history, Unwritten
<1>6. Start => Drops
  BY DEF Start, users, Drops
<1>7. RunBegins => Drops
  BY DEF RunBegins, writeVars, users, history, Drops
<1>8. ClearQueues => Drops \/ \E w \in Writers : Lost(w)
  BY DEF ClearQueues, Dequeued, libusb, users, history, Drops, Lost
<1>9. ReadCompleted => Drops
  <2>1. ReadCompleted => tr'["w"] = tr["w"]
    BY DEF ReadCompleted, Submitted
  <2> QED
    BY <2>1 DEF ReadCompleted, writeVars, users, Drops
<1>10. ASSUME NEW t \in Transfers, TransferCancelled(t) \/ TransferFailed(t)
       PROVE  Drops
  BY <1>10 DEF TransferCancelled, TransferFailed, Throws, writeVars, users, history, Drops
<1>11. ASSUME NEW t \in Transfers, Complete(t)
       PROVE  Drops \/ Sent
  <2>1. tr[t] = "fly" /\ UNCHANGED <<packet, queue, count>>
    BY <1>11 DEF Complete, writeVars, users
  <2>2. PICK s \in {"done", "cancelled", "error"} :
          /\ tr' = [tr EXCEPT ![t] = s]
          /\ out' = IF t = "w" /\ s = "done" THEN [out EXCEPT ![packet[1]] = packet[2]] ELSE out
    BY <1>11 DEF Complete
  <2> QED
    BY <2>1, <2>2 DEF Drops, Sent
<1>12. WriteCompleted => Drops \/ \E w \in Writers : Taken(w)
  <2> SUFFICES ASSUME WriteCompleted
               PROVE  Drops \/ \E w \in Writers : Taken(w)
    OBVIOUS
  <2>1. tr["w"] = "done" /\ UNCHANGED <<count, out>>
    BY DEF WriteCompleted, Called, users
  <2>2. tr' \in {[tr EXCEPT !["w"] = "fly"], [tr EXCEPT !["w"] = "idle"]}
    BY DEF WriteCompleted, Submitted
  <2>3. \/ UNCHANGED <<packet, queue>> /\ tr' = [tr EXCEPT !["w"] = "idle"]
        \/ \E w \in Writers : /\ queue[w] # <<>>
                              /\ packet' = <<w, Head(queue[w])>>
                              /\ queue' = [queue EXCEPT ![w] = Tail(@)]
    BY DEF WriteCompleted, Dequeued
  <2> QED
    BY <2>1, <2>2, <2>3 DEF Drops, Taken
<1>13. ASSUME NEW w \in Writers, WriteCalled(w)
       PROVE  Drops
  BY <1>13 DEF WriteCalled, libusb, writeVars, history, Drops
<1>14. ASSUME NEW w \in Writers, WriteLocked(w)
       PROVE  Drops \/ Enqueued(w) \/ SentAtOnce(w)
  BY <1>14 DEF WriteLocked, Submitted, Drops, Enqueued, SentAtOnce
<1> QED
  BY <1>1, <1>2, <1>3, <1>4, <1>5, <1>6, <1>7, <1>8, <1>9, <1>10, <1>11, <1>12, <1>13, <1>14, Steps
     DEF Event, Callback

LEMMA NextPacket ==
    ASSUME Data, NEW w \in Writers, caller[w] = "in"
    PROVE  count[w] + 1 \in 1 .. MaxPackets /\ count[w] + 1 > count[w]
<1>1. count[w] \in 0 .. MaxPackets /\ count[w] < MaxPackets
  BY DEF Data
<1> QED
  BY <1>1, UsbAssumption

LEMMA AppendedTo ==
    ASSUME NEW q \in Seq(1 .. MaxPackets), NEW c \in 1 .. MaxPackets
    PROVE  /\ DOMAIN Append(q, c) = DOMAIN q \cup {Len(q) + 1}
           /\ \A i \in DOMAIN q : Append(q, c)[i] = q[i] /\ i < Len(q) + 1 /\ i \in Nat /\ q[i] \in Nat
           /\ Append(q, c)[Len(q) + 1] = c /\ Len(q) + 1 \notin DOMAIN q
<1>1. DOMAIN q = 1 .. Len(q) /\ Len(q) \in Nat
  OBVIOUS
<1>2. DOMAIN Append(q, c) = 1 .. Len(q) + 1
  BY <1>1
<1>3. \A i \in DOMAIN q : Append(q, c)[i] = q[i] /\ q[i] \in Nat
  BY UsbAssumption
<1>4. Append(q, c)[Len(q) + 1] = c
  OBVIOUS
<1> QED
  BY <1>1, <1>2, <1>3, <1>4

LEMMA OrderStep ==
    ASSUME Flags, Data, WriteInv, Order, [Next]_vars
    PROVE  Order'
<1> USE DEF Order
<1>1. CASE Drops
  BY <1>1 DEF Drops
<1>2. CASE Sent
  BY <1>2 DEF Sent
<1>3. CASE \E w \in Writers : Enqueued(w)
  <2>1. PICK w \in Writers : Enqueued(w)
    BY <1>3
  <2> DEFINE c == count[w] + 1
             q == queue[w]
  <2>2. c \in 1 .. MaxPackets /\ c > count[w]
    BY <2>1, NextPacket DEF Enqueued
  <2>3. q \in Seq(1 .. MaxPackets)
    BY DEF Data
  <2>4. /\ count' = [count EXCEPT ![w] = c] /\ count'[w] = c
        /\ queue' = [queue EXCEPT ![w] = Append(q, c)]
        /\ UNCHANGED <<packet, tr>>
    BY <2>1 DEF Enqueued, Data
  <2>5. /\ DOMAIN Append(q, c) = DOMAIN q \cup {Len(q) + 1}
        /\ \A i \in DOMAIN q : Append(q, c)[i] = q[i] /\ i < Len(q) + 1 /\ i \in Nat /\ q[i] \in Nat
        /\ Append(q, c)[Len(q) + 1] = c /\ Len(q) + 1 \notin DOMAIN q
    BY <2>2, <2>3, AppendedTo
  <2>6. \A i \in DOMAIN q : q[i] < c
    BY <2>2, <2>3, <2>5 DEF Data
  <2>7. queue'[w] = Append(q, c) /\ \A v \in Writers : v # w => queue'[v] = queue[v] /\ count'[v] = count[v]
    BY <2>4 DEF Data
  <2>8. \A i, j \in DOMAIN queue'[w] : i < j => queue'[w][i] < queue'[w][j]
    BY <2>2, <2>3, <2>5, <2>6, <2>7
  <2>9. \A i \in DOMAIN queue'[w] : queue'[w][i] <= count'[w]
    BY <2>2, <2>3, <2>4, <2>5, <2>6, <2>7
  <2>10. ASSUME tr["w"] = "fly"
         PROVE  /\ packet[2] <= count'[packet[1]]
                /\ \A i \in DOMAIN queue'[packet[1]] : packet[2] < queue'[packet[1]][i]
    <3>1. packet[1] \in Writers /\ packet[2] \in Nat
      BY <2>10
    <3>2. CASE packet[1] = w
      <4>1. packet[2] < c
        BY <2>2, <2>10, <3>1, <3>2 DEF Data
      <4> QED
        BY <2>2, <2>4, <2>5, <2>7, <2>10, <3>1, <3>2, <4>1
    <3>3. CASE packet[1] # w
      BY <2>7, <2>10, <3>1, <3>3
    <3> QED
      BY <3>2, <3>3
  <2> QED
    BY <2>4, <2>7, <2>8, <2>9, <2>10
<1>4. CASE \E w \in Writers : SentAtOnce(w)
  <2>1. PICK w \in Writers : SentAtOnce(w)
    BY <1>4
  <2>2. queue[w] = <<>>
    BY <2>1 DEF SentAtOnce, WriteInv
  <2>3. count' = [count EXCEPT ![w] = @ + 1] /\ count'[w] = count[w] + 1 /\ count'[w] \in 1 .. MaxPackets
    <3>1. count[w] + 1 \in 1 .. MaxPackets
      BY <2>1, NextPacket DEF SentAtOnce
    <3> QED
      BY <2>1, <3>1 DEF SentAtOnce, Data
  <2>4. packet' = <<w, count'[w]>> /\ UNCHANGED queue
    BY <2>1 DEF SentAtOnce
  <2>5. \A v \in Writers : \A i \in DOMAIN queue[v] : queue[v][i] <= count'[v]
    BY <2>2, <2>3 DEF Data
  <2> QED
    BY <2>2, <2>3, <2>4, <2>5
<1>5. CASE \E w \in Writers : Taken(w)
  <2>1. PICK w \in Writers : Taken(w)
    BY <1>5
  <2> DEFINE q == queue[w]
  <2>2. q \in Seq(1 .. MaxPackets) /\ q # <<>>
    BY <2>1 DEF Taken, Data
  <2>3. /\ Head(q) = q[1] /\ 1 \in DOMAIN q /\ Head(q) \in 1 .. MaxPackets
        /\ DOMAIN q \subseteq Nat /\ \A i \in DOMAIN q : q[i] \in Nat
    <3>1. Head(q) = q[1] /\ DOMAIN q = 1 .. Len(q) /\ Len(q) \in Nat \ {0} /\ Head(q) \in 1 .. MaxPackets
      BY <2>2, HeadAndTail
    <3>2. \A i \in DOMAIN q : q[i] \in Nat
      BY <2>2, UsbAssumption
    <3> QED
      BY <3>1, <3>2
  <2>4. \A i \in DOMAIN Tail(q) : i + 1 \in DOMAIN q /\ Tail(q)[i] = q[i + 1] /\ i \in Nat /\ 1 < i + 1
    BY <2>2, HeadAndTail
  <2>5. /\ packet' = <<w, q[1]>> /\ queue'[w] = Tail(q) /\ UNCHANGED count
        /\ \A v \in Writers : v # w => queue'[v] = queue[v]
    BY <2>1, <2>3 DEF Taken, Data
  <2>6. \A i, j \in DOMAIN Tail(q) : i < j => Tail(q)[i] < Tail(q)[j]
    <3>1. \A i, j \in DOMAIN Tail(q) : i < j => i + 1 < j + 1
      BY <2>4
    <3> QED
      BY <2>4, <3>1
  <2>7. \A i \in DOMAIN Tail(q) : Tail(q)[i] <= count[w] /\ q[1] < Tail(q)[i]
    BY <2>3, <2>4
  <2>8. q[1] <= count[w]
    BY <2>3
  <2> QED
    BY <2>3, <2>5, <2>6, <2>7, <2>8
<1>6. CASE \E w \in Writers : Lost(w)
  <2>1. PICK w \in Writers : Lost(w)
    BY <1>6
  <2> DEFINE q == queue[w]
  <2>2. q \in Seq(1 .. MaxPackets) /\ q # <<>>
    BY <2>1 DEF Lost, Data
  <2>3. \A i \in DOMAIN Tail(q) : i + 1 \in DOMAIN q /\ Tail(q)[i] = q[i + 1] /\ i \in Nat
    BY <2>2, HeadAndTail
  <2>4. /\ queue'[w] = Tail(q) /\ UNCHANGED <<packet, tr, count>>
        /\ \A v \in Writers : v # w => queue'[v] = queue[v]
    BY <2>1 DEF Lost, Data
  <2>5. \A i, j \in DOMAIN Tail(q) : i < j => Tail(q)[i] < Tail(q)[j]
    <3>1. \A i, j \in DOMAIN Tail(q) : i < j => i + 1 < j + 1
      BY <2>3
    <3> QED
      BY <2>3, <3>1
  <2>6. \A i \in DOMAIN Tail(q) : Tail(q)[i] <= count[w]
    BY <2>3
  <2>7. (tr["w"] = "fly" /\ packet[1] = w) => \A i \in DOMAIN Tail(q) : packet[2] < Tail(q)[i]
    BY <2>3
  <2> QED
    BY <2>4, <2>5, <2>6, <2>7
<1> QED
  BY <1>1, <1>2, <1>3, <1>4, <1>5, <1>6, PacketSteps

-----------------------------------------------------------------------------
(* The capacity of the queue.                                              *)

LEMMA PlacesAre ==
    ASSUME NEW q \in [Writers -> Seq(1 .. MaxPackets)]
    PROVE  UNION {{w} \X DOMAIN q[w] : w \in Writers} = {p \in Writers \X Nat : p[2] \in DOMAIN q[p[1]]}
<1>1. \A w \in Writers : DOMAIN q[w] \subseteq Nat
  <2>1. \A w \in Writers : DOMAIN q[w] = 1 .. Len(q[w])
    OBVIOUS
  <2> QED
    BY <2>1
<1> QED
  BY <1>1

LEMMA BoundStep ==
    ASSUME Flags, Data, Data', Bound, [Next]_vars
    PROVE  Bound'
<1>1. /\ Places = {p \in Writers \X Nat : p[2] \in DOMAIN queue[p[1]]}
      /\ Places' = {p \in Writers \X Nat : p[2] \in DOMAIN queue'[p[1]]}
  BY PlacesAre DEF Places, Data
<1>2. Cardinality(Places) \in Nat
  BY FS_CardinalityType DEF Bound
<1>3. CASE Places' \subseteq Places
  <2>1. IsFiniteSet(Places') /\ Cardinality(Places') <= Cardinality(Places)
    BY <1>3, FS_Subset DEF Bound
  <2>2. Cardinality(Places') \in Nat
    BY <2>1, FS_CardinalityType
  <2> QED
    BY <1>2, <2>1, <2>2, UsbAssumption DEF Bound
<1>4. CASE Drops \/ Sent \/ \E w \in Writers : SentAtOnce(w)
  <2>1. queue' = queue
    BY <1>4 DEF Drops, Sent, SentAtOnce
  <2> QED
    BY <1>1, <1>3, <2>1
<1>5. CASE \E w \in Writers : Taken(w) \/ Lost(w)
  <2>1. PICK w \in Writers : Taken(w) \/ Lost(w)
    BY <1>5
  <2>2. queue[w] \in Seq(1 .. MaxPackets) /\ queue[w] # <<>>
    BY <2>1 DEF Taken, Lost, Data
  <2>3. DOMAIN Tail(queue[w]) \subseteq DOMAIN queue[w]
    BY <2>2, HeadAndTail
  <2>4. \A v \in Writers : DOMAIN queue'[v] \subseteq DOMAIN queue[v]
    BY <2>1, <2>3 DEF Taken, Lost, Data
  <2>5. \A p \in Writers \X Nat : DOMAIN queue'[p[1]] \subseteq DOMAIN queue[p[1]]
    BY <2>4
  <2> QED
    BY <1>1, <1>3, <2>5
<1>6. CASE \E w \in Writers : Enqueued(w)
  <2>1. PICK w \in Writers : Enqueued(w)
    BY <1>6
  <2> DEFINE new == <<w, Len(queue[w]) + 1>>
  <2>2. queue[w] \in Seq(1 .. MaxPackets) /\ count[w] + 1 \in 1 .. MaxPackets
    BY <2>1, NextPacket DEF Enqueued, Data
  <2>3. queue' = [queue EXCEPT ![w] = Append(@, count[w] + 1)]
    BY <2>1 DEF Enqueued, Data
  <2>4. DOMAIN queue'[w] = DOMAIN queue[w] \cup {Len(queue[w]) + 1} /\ Len(queue[w]) \in Nat
    BY <2>2, <2>3, AppendedTo DEF Data
  <2>5. \A v \in Writers : v # w => queue'[v] = queue[v]
    BY <2>3 DEF Data
  <2>6. Places' = Places \cup {new}
    BY <1>1, <2>4, <2>5
  <2>7. Cardinality(Places) < QueueMax
    BY <1>2, <2>1, UsbAssumption DEF Enqueued, QueueFull, Queued, Places
  <2>8. IsFiniteSet(Places') /\ Cardinality(Places') \in {Cardinality(Places), Cardinality(Places) + 1}
    BY <2>6, FS_AddElement DEF Bound
  <2> QED
    BY <1>2, <2>7, <2>8, UsbAssumption DEF Bound
<1> QED
  BY <1>4, <1>5, <1>6, PacketSteps

-----------------------------------------------------------------------------
(* The invariant holds.                                                    *)

LEMMA InitInvariant == Init => UInv
<1> SUFFICES ASSUME Init PROVE UInv
  OBVIOUS
<1> USE DEF Init, Transfers
<1>1. Flags
  <2>1. starts \in 0 .. MaxStarts
    BY UsbAssumption
  <2>2. {running, open, plugged, in_progress, cleared, lost, late, failed} \subseteq BOOLEAN
    OBVIOUS
  <2>3. tr \in [Transfers -> {"idle", "fly", "done", "cancelled", "error"}]
    OBVIOUS
  <2>4. nth \in 1 .. 4 /\ target \in Transfers /\ cancelling \subseteq Transfers /\ cancelled \subseteq Transfers
    OBVIOUS
  <2> QED
    BY <2>1, <2>2, <2>3, <2>4 DEF Flags
<1>2. Data
  <2>1. <<>> \in Seq(1 .. MaxPackets)
    OBVIOUS
  <2> QED
    BY <2>1, UsbAssumption DEF Data
<1>3. Bound
  <2>1. Places = {}
    BY DEF Places
  <2> QED
    BY <2>1, FS_EmptySet, UsbAssumption DEF Bound
<1>4. Positions
  BY DEF Positions
<1>5. Transferring /\ ReadInv /\ StopInv /\ Causes /\ CrashHasCause
  BY DEF Transferring, ReadInv, StopInv, Causes, CrashHasCause, AllIdle, Stopping
<1>6. WriteInv /\ Order
  BY DEF WriteInv, Order
<1> QED
  BY <1>1, <1>2, <1>3, <1>4, <1>5, <1>6 DEF UInv

\* The invariant of the device: where the owner and the event thread are, what libusb holds of
\* the transfers, how far cancel_transfers() has come, and the line in which packets leave.
THEOREM UsbInvHolds == Spec => []UInv
<1>1. UInv /\ [Next]_vars => UInv'
  <2> SUFFICES ASSUME UInv, [Next]_vars
               PROVE  UInv'
    OBVIOUS
  <2> USE DEF UInv
  <2>1. Flags' /\ Data' /\ Positions'
    BY FlagsStep, DataStep, PositionsStep
  <2>2. Transferring' /\ ReadInv' /\ StopInv' /\ Causes' /\ CrashHasCause'
    BY TransferringStep, ReadInvStep, StopInvStep, CausesStep, CrashHasCauseStep
  <2>3. WriteInv' /\ Order' /\ Bound'
    BY <2>1, WriteInvStep, OrderStep, BoundStep
  <2> QED
    BY <2>1, <2>2, <2>3
<1> QED
  BY <1>1, InitInvariant, PTL DEF Spec

\* The state keeps its types and write_queue_ its capacity.
THEOREM UsbTypeCorrect == Spec => []TypeOK
<1>1. UInv => TypeOK
  BY DEF UInv, Flags, Data, Bound, Places, TypeOK, Queued
<1> QED
  BY <1>1, UsbInvHolds, PTL

\* What rtransfer_curr_, rtransfer_prev_ and in_progress() say is what libusb has.
THEOREM InStepHolds == Spec => []InStep
<1>1. UInv => TypeOK
  BY DEF UInv, Flags, Data, Bound, Places, TypeOK, Queued
<1>2. UInv => ReadArmed
  BY DEF UInv, Flags, ReadInv, ReadArmed, Healthy
<1>3. UInv => WriteChain
  BY DEF UInv, Flags, WriteInv, WriteChain, Healthy
<1> QED
  BY <1>1, <1>2, <1>3, UsbInvHolds, PTL DEF InStep

\* The device is used after its end only for a reason: an error, a transfer submitted or completed
\* behind cancel_transfers(), or the end of both threads; and after stop() it is closed and its
\* thread gone.
THEOREM CleanStopHolds == Spec => []CleanStop
<1>1. UInv => StoppedIsDown
  BY DEF UInv, Flags, Positions, StoppedIsDown
<1>2. UInv => CleanStop
  BY <1>1 DEF UInv, CleanStop
<1> QED
  BY <1>2, UsbInvHolds, PTL

-----------------------------------------------------------------------------
(* The device implements Channel.                                          *)

\* The packets of a writer in the queue, and the one that libusb has.
Waits(q, w)   == {q[w][i] : i \in DOMAIN q[w]}
Flying(f, p, w) == {n \in 1 .. MaxPackets : f["w"] = "fly" /\ p = <<w, n>>}

LEMMA PendingIs ==
    /\ pending = [w \in Writers |-> Waits(queue, w) \cup Flying(tr, packet, w)]
    /\ pending' = [w \in Writers |-> Waits(queue', w) \cup Flying(tr', packet', w)]
BY DEF pending, Waits, Flying

LEMMA LosesStep ==
    ASSUME UNCHANGED <<count, out>>, \A w \in Writers : pending'[w] \subseteq pending[w]
    PROVE  Promise!Lose
<1>1. pending' \in [Writers -> UNION {SUBSET pending[w] : w \in Writers}]
  <2>1. pending' = [w \in Writers |-> pending'[w]]
    BY PendingIs
  <2> QED
    BY <2>1
<1> QED
  BY <1>1 DEF Promise!Lose

LEMMA DropsLoses ==
    ASSUME Drops
    PROVE  Promise!Lose
<1>1. \A w \in Writers : Waits(queue', w) \subseteq Waits(queue, w)
  BY DEF Drops, Waits
<1>2. \A w \in Writers : Flying(tr', packet', w) \subseteq Flying(tr, packet, w)
  BY DEF Drops, Flying
<1> QED
  BY <1>1, <1>2, PendingIs, LosesStep DEF Drops

\* A packet that goes from the queue to libusb stays pending, one that clear_queues() took is lost.
LEMMA TakenLoses ==
    ASSUME Data, NEW w \in Writers, Taken(w) \/ Lost(w)
    PROVE  Promise!Lose
<1>1. queue[w] \in Seq(1 .. MaxPackets) /\ queue[w] # <<>>
  BY DEF Taken, Lost, Data
<1>2. /\ Head(queue[w]) = queue[w][1] /\ 1 \in DOMAIN queue[w]
      /\ \A i \in DOMAIN Tail(queue[w]) : i + 1 \in DOMAIN queue[w] /\ Tail(queue[w])[i] = queue[w][i + 1]
  BY <1>1, HeadAndTail
<1>3. /\ queue'[w] = Tail(queue[w]) /\ \A v \in Writers : v # w => queue'[v] = queue[v]
      /\ packet' = <<w, Head(queue[w])>> \/ UNCHANGED <<packet, tr>>
      /\ UNCHANGED <<count, out>>
  BY DEF Taken, Lost, Data
<1>4. \A v \in Writers : Waits(queue', v) \subseteq Waits(queue, v)
  <2>1. Waits(queue', w) \subseteq Waits(queue, w)
    BY <1>2, <1>3 DEF Waits
  <2>2. \A v \in Writers : v # w => Waits(queue', v) = Waits(queue, v)
    BY <1>3 DEF Waits
  <2> QED
    BY <2>1, <2>2
<1>5. \A v \in Writers : Flying(tr', packet', v) \subseteq Waits(queue, v) \cup Flying(tr, packet, v)
  <2>1. CASE packet' = <<w, Head(queue[w])>>
    BY <1>2, <2>1 DEF Waits, Flying
  <2>2. CASE UNCHANGED <<packet, tr>>
    BY <2>2
  <2> QED
    BY <1>3, <2>1, <2>2
<1> QED
  BY <1>3, <1>4, <1>5, PendingIs, LosesStep

\* write() adds the next packet, behind the transfer or in it.
LEMMA WritesStep ==
    ASSUME Flags, Data, WriteInv, NEW w \in Writers, Enqueued(w) \/ SentAtOnce(w)
    PROVE  Promise!Write(w)
<1> DEFINE c == count[w] + 1
<1>1. /\ count' = [count EXCEPT ![w] = @ + 1] /\ count'[w] = c /\ UNCHANGED out
      /\ c \in 1 .. MaxPackets
  <2>1. c \in 1 .. MaxPackets
    BY NextPacket DEF Enqueued, SentAtOnce
  <2> QED
    BY <2>1 DEF Enqueued, SentAtOnce, Data
<1>2. CASE Enqueued(w)
  <2>1. queue' = [queue EXCEPT ![w] = Append(@, c)] /\ UNCHANGED <<packet, tr>>
    BY <1>1, <1>2 DEF Enqueued
  <2>2. queue[w] \in Seq(1 .. MaxPackets)
    BY DEF Data
  <2> HIDE DEF c
  <2>3. Waits(queue', w) = Waits(queue, w) \cup {c}
    <3>1. queue'[w] = Append(queue[w], c)
      BY <2>1 DEF Data
    <3>2. /\ DOMAIN Append(queue[w], c) = DOMAIN queue[w] \cup {Len(queue[w]) + 1}
          /\ \A i \in DOMAIN queue[w] : Append(queue[w], c)[i] = queue[w][i]
          /\ Append(queue[w], c)[Len(queue[w]) + 1] = c
      BY <1>1, <2>2, AppendedTo
    <3> QED
      BY <3>1, <3>2 DEF Waits
  <2>4. \A v \in Writers : v # w => Waits(queue', v) = Waits(queue, v)
    BY <2>1 DEF Waits, Data
  <2>5. \A v \in Writers : Flying(tr', packet', v) = Flying(tr, packet, v)
    BY <2>1 DEF Flying
  <2>6. pending' = [pending EXCEPT ![w] = @ \cup {c}]
    BY <2>3, <2>4, <2>5, PendingIs
  <2> QED
    BY <1>1, <2>6 DEF Promise!Write
<1>3. CASE SentAtOnce(w)
  <2>1. packet' = <<w, c>> /\ tr'["w"] = "fly" /\ tr["w"] # "fly" /\ UNCHANGED queue
    <3>1. tr["w"] = "idle" /\ tr' = [tr EXCEPT !["w"] = "fly"]
      BY <1>3 DEF SentAtOnce, WriteInv
    <3> QED
      BY <1>1, <1>3, <3>1 DEF SentAtOnce, Flags, Transfers
  <2> HIDE DEF c
  <2>2. \A v \in Writers : Flying(tr, packet, v) = {}
    BY <2>1 DEF Flying
  <2>3. \A v \in Writers : Flying(tr', packet', v) = IF v = w THEN {c} ELSE {}
    BY <1>1, <2>1 DEF Flying
  <2>4. \A v \in Writers : Waits(queue', v) = Waits(queue, v)
    BY <2>1 DEF Waits
  <2>5. pending' = [pending EXCEPT ![w] = @ \cup {c}]
    BY <2>2, <2>3, <2>4, PendingIs
  <2> QED
    BY <1>1, <2>5 DEF Promise!Write
<1> QED
  BY <1>2, <1>3

\* The packet libusb has is the oldest one of its writer, and no other has its number.
LEMMA SendsStep ==
    ASSUME Data, Order, Sent
    PROVE  \E w \in Writers : Promise!Send(w)
<1> DEFINE v == packet[1]
           n == packet[2]
<1>1. /\ v \in Writers /\ n \in 1 .. MaxPackets /\ packet = <<v, n>>
      /\ tr["w"] = "fly" /\ tr'["w"] # "fly"
      /\ out' = [out EXCEPT ![v] = n] /\ UNCHANGED <<packet, queue, count>>
  BY DEF Sent, Order
<1>2. \A m \in Waits(queue, v) : n < m /\ m \in Nat
  <2>1. queue[v] \in Seq(1 .. MaxPackets)
    BY <1>1 DEF Data
  <2>2. \A i \in DOMAIN queue[v] : queue[v][i] \in Nat
    BY <2>1, UsbAssumption
  <2>3. \A i \in DOMAIN queue[v] : n < queue[v][i]
    BY <1>1 DEF Order
  <2> QED
    BY <2>2, <2>3 DEF Waits
<1> HIDE DEF v, n
<1>3. \A w \in Writers : Flying(tr, packet, w) = IF w = v THEN {n} ELSE {}
  BY <1>1 DEF Flying
<1>4. \A w \in Writers : Flying(tr', packet', w) = {}
  BY <1>1 DEF Flying
<1>5. \A w \in Writers : Waits(queue', w) = Waits(queue, w)
  BY <1>1 DEF Waits
<1>6. n \notin Waits(queue, v)
  BY <1>1, <1>2
<1>7. pending' = [pending EXCEPT ![v] = @ \ {n}]
  BY <1>1, <1>3, <1>4, <1>5, <1>6, PendingIs
<1>8. n \in pending[v] /\ \A m \in pending[v] : n <= m
  BY <1>1, <1>2, <1>3, PendingIs
<1> QED
  BY <1>1, <1>7, <1>8 DEF Promise!Send

\* The device implements Channel: a write() adds a packet, a completion of the write transfer
\* sends the oldest of its writer, and all other steps lose packets or leave them.
THEOREM InOrderHolds == Spec => InOrder
<1>1. Init => Promise!Init
  <2> SUFFICES ASSUME Init PROVE Promise!Init
    OBVIOUS
  <2>1. \A w \in Writers : Waits(queue, w) = {} /\ Flying(tr, packet, w) = {}
    BY DEF Init, Waits, Flying, Transfers
  <2>2. pending = [w \in Writers |-> {}]
    BY <2>1, PendingIs
  <2> QED
    BY <2>2 DEF Init, Promise!Init
<1>2. UInv /\ [Next]_vars => [Promise!Next]_<<count, pending, out>>
  <2> SUFFICES ASSUME UInv, [Next]_vars PROVE Promise!Next
    OBVIOUS
  <2> USE DEF UInv
  <2> QED
    BY PacketSteps, DropsLoses, TakenLoses, WritesStep, SendsStep DEF Promise!Next
<1> QED
  BY <1>1, <1>2, UsbInvHolds, PTL DEF Spec, InOrder, Promise!Spec

=============================================================================
