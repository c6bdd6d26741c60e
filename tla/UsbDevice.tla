----------------------------- MODULE UsbDevice ------------------------------
(***************************************************************************)
(* transport::usb::Device (usb_async.h, usb_async.cpp): two read transfers *)
(* that take turns, one write transfer with a queue behind it, an event    *)
(* thread that runs libusb's callbacks, and an owner that starts and stops *)
(* the device.  libusb itself is external: a submitted transfer completes, *)
(* is cancelled or fails, and its callback comes later, in the event       *)
(* thread.  Where the code goes on with a deleted transfer or a handle     *)
(* that was closed the behaviour is undefined and the model stops (crash). *)
(***************************************************************************)
EXTENDS Naturals, Sequences, FiniteSets

CONSTANTS
    Writers,      \* threads that call write(), each a producer of write_queue_
    MaxPackets,   \* packets each of them writes (bound)
    QueueMax,     \* max_queue_size, 100 in the code
    MaxStarts     \* calls of start() (bound)

ASSUME UsbAssumption == MaxPackets \in Nat /\ QueueMax \in Nat /\ MaxStarts \in Nat

VARIABLES
    owner, starts,          \* the owner's position, calls of start()
    nth, target,            \* in cancel_transfers(): the pointer it is at, the transfer it read there
    running, ev, eptr,      \* is_running(), the event thread, eptr_
    open, plugged,          \* open_, the device behind the handle is there
    curr, prev,             \* rtransfer_curr_, rtransfer_prev_
    tr,                     \* per transfer: its state in libusb
    cancelling, cancelled,  \* transfers libusb is cancelling; whose cancelled_ is set
    in_progress, packet,    \* wtransfer_->in_progress(), wtransfer_->packet()
    queue,                  \* write_queue_, per producer
    cleared,                \* clear_queues() has returned once on this connection
    caller, count,          \* per writer: inside write(), packets accepted
    out,                    \* history, per writer: the last packet that was sent
    lost,                   \* history: an error was overwritten in eptr_
    late,                   \* history: a transfer was submitted, or its callback due, when
                            \* cancel_transfers() had passed it
    failed,                 \* history: a transfer failed, or could not be submitted
    crash                   \* why the behaviour is undefined, or "no"

ownerVars == <<owner, starts, nth, target, running>>
readVars  == <<curr, prev>>
libusb    == <<tr, cancelling, cancelled, plugged>>
writeVars == <<in_progress, packet, queue, cleared>>
users     == <<caller, count>>
history   == <<out, lost, late, failed>>
vars      == <<ownerVars, ev, eptr, open, readVars, libusb, writeVars, users, history, crash>>

Transfers == {"w", "r1", "r2"}
Stopping  == {"take", "cancel", "wait", "flag", "check", "close", "join"}
NoPacket  == <<>>

Init ==
    /\ owner = "idle" /\ starts = 0 /\ nth = 1 /\ target = "w" /\ running = FALSE
    /\ ev = "off" /\ eptr = "none" /\ open = FALSE /\ plugged = TRUE
    /\ curr = "r1" /\ prev = "r2"
    /\ tr = [t \in Transfers |-> "idle"] /\ cancelling = {} /\ cancelled = {}
    /\ in_progress = FALSE /\ packet = NoPacket
    /\ queue = [w \in Writers |-> <<>>] /\ cleared = FALSE
    /\ caller = [w \in Writers |-> "out"]
    /\ count = [w \in Writers |-> 0] /\ out = [w \in Writers |-> 0]
    /\ lost = FALSE /\ late = FALSE /\ failed = FALSE /\ crash = "no"

-----------------------------------------------------------------------------
(* libusb.                                                                 *)

\* A transfer ends.  One that is being cancelled ends as cancelled, all end in an error when
\* the device is gone; only the write transfer has a timeout.
Complete(t) ==
    /\ tr[t] = "fly"
    /\ \E s \in (IF ~plugged THEN {"error"} ELSE IF t \in cancelling THEN {"cancelled"} ELSE {"done", "error"}) :
          /\ tr' = [tr EXCEPT ![t] = s]
          /\ out' = IF t = "w" /\ s = "done" THEN [out EXCEPT ![packet[1]] = packet[2]] ELSE out
          /\ failed' = (failed \/ s = "error")
    /\ cancelling' = cancelling \ {t}
    /\ UNCHANGED <<ownerVars, ev, eptr, open, readVars, cancelled, plugged, writeVars, users, lost,
                   late, crash>>

Unplug ==
    /\ plugged
    /\ plugged' = FALSE
    /\ UNCHANGED <<ownerVars, ev, eptr, open, readVars, tr, cancelling, cancelled, writeVars,
                   users, history, crash>>

\* cancel_transfers() has passed a transfer: wtransfer_ once its cancel() returned, the reads
\* once rtransfer_curr_ was read.
Passed(t) ==
    /\ owner \in Stopping
    /\ IF t = "w" THEN nth > 1 ELSE nth > 2 \/ (nth = 2 /\ owner # "take")

\* libusb_submit_transfer succeeded.
Submitted(f, t) ==
    /\ tr' = [f EXCEPT ![t] = "fly"]
    /\ late' = (late \/ Passed(t))

-----------------------------------------------------------------------------
(* start() and run().                                                      *)

\* A device that was unplugged may be there again; open() throws when it is not.  No write()
\* that began on the last connection is still under way (an assumption on the users).
Start ==
    /\ owner = "idle" /\ ~running /\ starts < MaxStarts
    /\ \A w \in Writers : caller[w] = "out"
    /\ owner' = "starting" /\ starts' = starts + 1
    /\ running' = TRUE /\ ev' = "start"
    /\ open' = TRUE /\ plugged' = TRUE /\ curr' = "r1" /\ prev' = "r2"
    /\ tr' = [t \in Transfers |-> "idle"] /\ cancelled' = {}
    /\ in_progress' = FALSE /\ cleared' = FALSE
    /\ lost' = FALSE /\ late' = FALSE /\ failed' = FALSE
    /\ UNCHANGED <<nth, target, eptr, cancelling, packet, queue, users, out, crash>>

\* The first read.  When it cannot be submitted nobody is notified and start() waits for ever.
RunBegins ==
    /\ ev = "start"
    /\ IF plugged THEN ev' = "run" /\ owner' = "up" /\ tr' = [tr EXCEPT ![curr] = "fly"]
                  ELSE ev' = "ended" /\ UNCHANGED <<owner, tr>>
    /\ UNCHANGED <<starts, nth, target, running, eptr, open, readVars, cancelling, cancelled, plugged,
                   writeVars, users, history, crash>>

MUT_EventsReturn ==
    /\ ev = "run" /\ (eptr # "none" \/ ~running)
    /\ ev' = IF ~running THEN "exit" ELSE "run"
    /\ eptr' = "none"
    /\ UNCHANGED <<ownerVars, open, readVars, libusb, writeVars, users, history, crash>>

\* libusb_handle_events returns: the last exception of the callbacks it called decides.
EventsReturn ==
    /\ ev = "run" /\ (eptr # "none" \/ ~running)
    /\ ev' = IF eptr = "fatal" \/ ~running THEN "exit" ELSE "run"
    /\ eptr' = "none"
    /\ UNCHANGED <<ownerVars, open, readVars, libusb, writeVars, users, history, crash>>

-----------------------------------------------------------------------------
(* close(): is_open(), then the lock and the rest.                         *)

\* What goes wrong when the transfers and the handle are deleted now.
CloseCrash ==
    IF ~open THEN "double close"
    ELSE IF curr = prev THEN "double delete"
    ELSE IF owner \in {"cancel", "wait"} THEN "deleted in use"
    ELSE IF \E t \in Transfers : tr[t] # "idle" THEN "deleted in flight" ELSE "no"

CloseBody ==
    /\ crash' = CloseCrash
    /\ open' = FALSE

EvCloseCheck ==
    /\ ev = "exit"
    /\ ev' = IF open THEN "close" ELSE "ended"
    /\ UNCHANGED <<ownerVars, eptr, open, readVars, libusb, writeVars, users, history, crash>>

EvClose ==
    /\ ev = "close"
    /\ CloseBody
    /\ ev' = "ended"
    /\ UNCHANGED <<ownerVars, eptr, readVars, libusb, writeVars, users, history>>

-----------------------------------------------------------------------------
(* The callbacks.                                                          *)

Called(t, s) == ev = "run" /\ tr[t] = s

\* An exception of a callback replaces the one before it.
Throws(kind) ==
    /\ eptr' = kind
    /\ lost' = (lost \/ (eptr = "fatal" /\ kind = "packet"))
    /\ failed' = (failed \/ kind = "fatal")

MUT_Dequeued(w) == queue

\* try_dequeue: the oldest packet of some producer.
Dequeued(w) == [queue EXCEPT ![w] = Tail(@)]

PutOnHold == in_progress' = FALSE

\* write_cb, under mutex_wprogress_.
WriteCompleted ==
    /\ Called("w", "done")
    /\ \/ /\ \E w \in Writers :
                /\ queue[w] # <<>>
                /\ packet' = <<w, Head(queue[w])>>
                /\ queue' = Dequeued(w)
          /\ \/ plugged /\ Submitted(tr, "w") /\ UNCHANGED <<eptr, lost, failed>>
             \/ ~plugged /\ tr' = [tr EXCEPT !["w"] = "idle"] /\ Throws("fatal") /\ UNCHANGED late
          /\ UNCHANGED in_progress
       \/ /\ \A w \in Writers : queue[w] = <<>>
          /\ PutOnHold
          /\ tr' = [tr EXCEPT !["w"] = "idle"]
          /\ UNCHANGED <<packet, queue, eptr, lost, late, failed>>
    /\ UNCHANGED <<ownerVars, ev, open, readVars, cancelling, cancelled, plugged, cleared, users,
                   out, crash>>

MUT_SwappedOut == prev

SwappedOut == curr

\* read_cb: the other transfer is submitted and they change places; when that throws both
\* names are left with the same transfer.  An ill-formed packet throws from its constructor.
ReadCompleted ==
    /\ Called(curr, "done")
    /\ curr' = prev
    /\ LET idle == [tr EXCEPT ![curr] = "idle"] IN
          \/ /\ plugged
             /\ Submitted(idle, prev)
             /\ prev' = SwappedOut
             /\ Throws("packet") \/ UNCHANGED <<eptr, lost, failed>>
          \/ ~plugged /\ tr' = idle /\ Throws("fatal") /\ UNCHANGED <<prev, late>>
    /\ UNCHANGED <<ownerVars, ev, open, cancelling, cancelled, plugged, writeVars, users, out,
                   crash>>

MUT_Notified(t) == prev

\* read_cb notifies whichever transfer is the current one.
Notified(t) == IF t = "w" THEN "w" ELSE curr

\* notify_cancelled
TransferCancelled(t) ==
    /\ Called(t, "cancelled")
    /\ tr' = [tr EXCEPT ![t] = "idle"]
    /\ cancelled' = cancelled \cup {Notified(t)}
    /\ UNCHANGED <<ownerVars, ev, eptr, open, readVars, cancelling, plugged, writeVars, users,
                   history, crash>>

TransferFailed(t) ==
    /\ Called(t, "error")
    /\ tr' = [tr EXCEPT ![t] = "idle"]
    /\ Throws("fatal")
    /\ UNCHANGED <<ownerVars, ev, open, readVars, cancelling, cancelled, plugged, writeVars, users,
                   out, late, crash>>

Callback == \/ WriteCompleted \/ ReadCompleted
            \/ \E t \in Transfers : TransferCancelled(t) \/ TransferFailed(t)

-----------------------------------------------------------------------------
(* stop().                                                                 *)

\* A stop() that threw out of cancel_transfers() has left is_running() true.
StopCalled ==
    /\ owner = "up" \/ (owner = "idle" /\ running)
    /\ owner' = "take" /\ nth' = 1
    /\ UNCHANGED <<target, starts, running, ev, eptr, open, readVars, libusb, writeVars, users,
                   history, crash>>

MUT_Last == 1

\* cancel_transfers(): wtransfer_, rtransfer_curr_, rtransfer_prev_ in turn.
Last == 3

Pointer(i) == CASE i = 1 -> "w" [] i = 2 -> curr [] i = 3 -> prev

GoOn == owner' = (IF nth = Last THEN "flag" ELSE "take") /\ nth' = nth + 1

\* The pointer is read, and is null once close() was called ...
Take ==
    /\ owner = "take"
    /\ \/ open /\ owner' = "cancel" /\ target' = Pointer(nth) /\ UNCHANGED nth
       \/ ~open /\ GoOn /\ UNCHANGED target
    /\ UNCHANGED <<starts, running, ev, eptr, open, readVars, libusb, writeVars, users, history,
                   crash>>

\* ... then Transfer::cancel(): wait for the callback if libusb accepts, go on if the transfer
\* is not in flight; the exception of a device that is gone skips the rest of stop() but join().
Cancel ==
    /\ owner = "cancel"
    /\ cancelled' = cancelled \ {target}
    /\ \/ /\ tr[target] = "fly" /\ plugged
          /\ owner' = "wait" /\ cancelling' = cancelling \cup {target}
          /\ UNCHANGED <<nth, late>>
       \/ /\ tr[target] = "fly" /\ ~plugged
          /\ owner' = "join"
          /\ UNCHANGED <<nth, cancelling, late>>
       \/ /\ tr[target] # "fly"
          /\ GoOn
          /\ late' = (late \/ tr[target] # "idle")
          /\ UNCHANGED cancelling
    /\ UNCHANGED <<target, starts, running, ev, eptr, open, readVars, tr, plugged, writeVars, users,
                   out, lost, failed, crash>>

Cancelled ==
    /\ owner = "wait" /\ target \in cancelled
    /\ GoOn
    /\ UNCHANGED <<target, starts, running, ev, eptr, open, readVars, libusb, writeVars, users,
                   history, crash>>

StopFlag ==
    /\ owner = "flag"
    /\ running' = FALSE
    /\ owner' = "check"
    /\ UNCHANGED <<nth, target, starts, ev, eptr, open, readVars, libusb, writeVars, users, history,
                   crash>>

StopCloseCheck ==
    /\ owner = "check"
    /\ owner' = IF open THEN "close" ELSE "join"
    /\ UNCHANGED <<nth, target, starts, running, ev, eptr, open, readVars, libusb, writeVars, users,
                   history, crash>>

StopClose ==
    /\ owner = "close"
    /\ CloseBody
    /\ owner' = "join"
    /\ UNCHANGED <<nth, target, starts, running, ev, eptr, readVars, libusb, writeVars, users, history>>

Join ==
    /\ owner = "join" /\ ev \in {"ended", "off"}
    /\ owner' = "idle" /\ ev' = "off"
    /\ UNCHANGED <<nth, target, starts, running, eptr, open, readVars, libusb, writeVars, users,
                   history, crash>>

-----------------------------------------------------------------------------
(* The users.                                                              *)

\* clear_queues(), of a Master or a Slave whose state machine begins again, at any time and as
\* often as it likes, beside write_cb and the writers: one try_dequeue(), or the one that fails
\* and ends the loop.  The read queue is not modelled.
ClearQueues ==
    /\ owner = "up"
    /\ \/ /\ \E w \in Writers : queue[w] # <<>> /\ queue' = Dequeued(w)
          /\ UNCHANGED cleared
       \/ /\ \A w \in Writers : queue[w] = <<>>
          /\ cleared' = TRUE
          /\ UNCHANGED queue
    /\ UNCHANGED <<ownerVars, ev, eptr, open, readVars, libusb, in_progress, packet, users, history,
                   crash>>

\* write(): is_open(); nobody writes before the first clear_queues() of a connection ...
WriteCalled(w) ==
    /\ caller[w] = "out" /\ open /\ cleared /\ count[w] < MaxPackets
    /\ caller' = [caller EXCEPT ![w] = "in"]
    /\ UNCHANGED <<ownerVars, ev, eptr, open, readVars, libusb, writeVars, count, history, crash>>

Queued == Cardinality(UNION {{w} \X DOMAIN queue[w] : w \in Writers})

QueueFull == Queued >= QueueMax

\* ... and the rest under mutex_wprogress_: enqueue behind the transfer or submit it.
WriteLocked(w) ==
    /\ caller[w] = "in"
    /\ caller' = [caller EXCEPT ![w] = "out"]
    /\ \/ /\ ~open
          /\ crash' = "write after close"
          /\ UNCHANGED <<count, queue, packet, in_progress, tr, late>>
       \/ /\ open /\ in_progress /\ ~QueueFull
          /\ count' = [count EXCEPT ![w] = @ + 1]
          /\ queue' = [queue EXCEPT ![w] = Append(@, count'[w])]
          /\ UNCHANGED <<packet, in_progress, tr, late, crash>>
       \/ /\ open /\ ~in_progress /\ plugged
          /\ count' = [count EXCEPT ![w] = @ + 1]
          /\ packet' = <<w, count'[w]>>
          /\ in_progress' = TRUE
          /\ Submitted(tr, "w")
          /\ UNCHANGED <<queue, crash>>
       \/ /\ open /\ IF in_progress THEN QueueFull ELSE ~plugged      \* throws
          /\ UNCHANGED <<count, queue, packet, in_progress, tr, late, crash>>
    /\ UNCHANGED <<ownerVars, ev, eptr, open, readVars, cancelling, cancelled, plugged, cleared,
                   out, lost, failed>>

Event == RunBegins \/ EventsReturn \/ EvCloseCheck \/ EvClose \/ Callback
Stop  == Take \/ Cancel \/ Cancelled \/ StopFlag \/ StopCloseCheck \/ StopClose \/ Join

Next ==
    /\ crash = "no"
    /\ \/ Event \/ Stop \/ Start \/ StopCalled \/ Unplug \/ ClearQueues
       \/ \E t \in Transfers : Complete(t)
       \/ \E w \in Writers : WriteCalled(w) \/ WriteLocked(w)

Spec == Init /\ [][Next]_vars

\* libusb_handle_events calls the callbacks that are due and returns, a transfer that is being
\* cancelled ends, and stop() goes on.
FairSpec ==
    /\ Spec
    /\ WF_vars(crash = "no" /\ (EventsReturn \/ EvCloseCheck \/ EvClose)) /\ WF_vars(crash = "no" /\ Stop)
    /\ \A t \in Transfers :
          /\ WF_vars(crash = "no" /\ (TransferCancelled(t) \/ TransferFailed(t)))
          /\ WF_vars(crash = "no" /\ t \in cancelling /\ Complete(t))

-----------------------------------------------------------------------------
(* Properties.                                                             *)

\* The types of the state; write_queue_ keeps to its capacity.
TypeOK ==
    /\ owner \in {"idle", "starting", "up"} \cup Stopping
    /\ nth \in 1 .. 4 /\ target \in Transfers /\ starts \in 0 .. MaxStarts
    /\ ev \in {"off", "start", "run", "exit", "close", "ended"}
    /\ eptr \in {"none", "packet", "fatal"}
    /\ {running, open, plugged, in_progress, cleared, lost, late, failed} \subseteq BOOLEAN
    /\ curr \in {"r1", "r2"} /\ prev \in {"r1", "r2"}
    /\ tr \in [Transfers -> {"idle", "fly", "done", "cancelled", "error"}]
    /\ cancelling \subseteq Transfers /\ cancelled \subseteq Transfers
    /\ packet \in {NoPacket} \cup (Writers \X (1 .. MaxPackets))
    /\ queue \in [Writers -> Seq(1 .. MaxPackets)] /\ Queued <= QueueMax
    /\ caller \in [Writers -> {"out", "in"}]
    /\ count \in [Writers -> 0 .. MaxPackets] /\ out \in [Writers -> 0 .. MaxPackets]

\* Nothing has gone wrong on this connection and nobody is stopping it.
Healthy == open /\ ev = "run" /\ owner = "up" /\ ~failed /\ eptr # "fatal" /\ crash = "no"

\* The device is never deaf, whatever packets arrive: one of the two read transfers is at
\* libusb, it is the one rtransfer_curr_ names, and the other one is free for the next read.
ReadArmed == Healthy => (tr[curr] # "idle" /\ curr # prev /\ tr[prev] = "idle")

\* in_progress() tells whether the write transfer is at libusb, and a packet in write_queue_ has
\* a transfer before it whose write_cb takes it.
WriteChain ==
    (Healthy /\ cleared) =>
        /\ in_progress <=> tr["w"] # "idle"
        /\ in_progress \/ \A w \in Writers : queue[w] = <<>>

\* What the code remembers of its transfers is what libusb has of them.
InStep == TypeOK /\ ReadArmed /\ WriteChain

\* The device is used after its end only for one of these reasons.  A transfer that libusb still
\* holds is deleted after a transfer failed, or when one was submitted or completed that
\* cancel_transfers() had passed; a transfer is deleted twice, or under cancel(), after one
\* failed; a write() that found the device open finds it closed after a failure or in stop();
\* and the device is closed twice by stop() and the thread that stop() told to end.
CrashHasCause ==
    /\ crash = "deleted in flight" => failed \/ late
    /\ crash \in {"double delete", "deleted in use"} => failed
    /\ crash = "write after close" => failed \/ ~running
    /\ crash = "double close" => ~running /\ owner = "join"

\* When stop() has returned the device is closed and its thread is gone; is_running() is still
\* true, so that start() does nothing, only if the device was unplugged.
StoppedIsDown == owner = "idle" => (~open /\ ev = "off" /\ (running => ~plugged))

\* stop() leaves nothing behind, neither at libusb nor in the device.
CleanStop == CrashHasCause /\ StoppedIsDown

pending ==
    [w \in Writers |-> {queue[w][i] : i \in DOMAIN queue[w]}
                           \cup {n \in 1 .. MaxPackets : tr["w"] = "fly" /\ packet = <<w, n>>}]

Promise == INSTANCE Channel

\* The packets of each writer are sent in order and at most once, across the connections.
InOrder == Promise!Spec

\* stop() returns while the device is there: each cancel() is answered by its callback, and the
\* event thread ends.
StopReturns == owner \in Stopping ~> (owner = "idle" \/ ~plugged \/ crash # "no")

\* A transfer that failed closes the device, so that the Master sees that it is gone, unless an
\* ill-formed packet in the same round of callbacks replaced the exception.
ErrorCloses == eptr = "fatal" ~> (~open \/ lost \/ crash # "no")
=============================================================================
