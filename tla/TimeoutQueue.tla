---------------------------- MODULE TimeoutQueue ----------------------------
(***************************************************************************)
(* common::TimeoutQueue of the libcommon submodule, which is not in the    *)
(* repository: modelled from how the two request managers use it (add,     *)
(* add_repeating, erase, clear, run_once).                                 *)
(*                                                                         *)
(* A queue is a function from timer ids to cells.  Time is relative: left  *)
(* is the number of run_once calls that still pass before the timer is due *)
(* (expiry - now_), so the tick counter now_ needs no bound.               *)
(*                                                                         *)
(* run_once first collects what is due (a repeating timer goes back into   *)
(* the queue at once) and then calls the callbacks one by one without      *)
(* holding the queue's lock: the callbacks themselves call add and erase.  *)
(* Whether erase also withdraws a callback that is already collected is    *)
(* not visible from here: the constant EraseReachesBatch is both answers.  *)
(***************************************************************************)
EXTENDS Naturals

CONSTANT EraseReachesBatch   \* does erase withdraw a callback already collected?

ASSUME QueueAssumption == EraseReachesBatch \in BOOLEAN

\* kind is the timer in the queue, due the callback that run_once still has to call.
NoCell == [kind |-> "none", left |-> 0, due |-> "none"]

EmptyQueue(ids) == [id \in ids |-> NoCell]

\* add and add_repeating: the caller passes now_ and the delay.
Add(q, id, k, delay) == [q EXCEPT ![id] = [kind |-> k, left |-> delay, due |-> "none"]]

EraseAll(q, ids) ==
    [id \in DOMAIN q |->
        IF id \in ids
        THEN [kind |-> "none", left |-> 0,
              due  |-> IF EraseReachesBatch THEN "none" ELSE q[id].due]
        ELSE q[id]]

Erase(q, id) == EraseAll(q, {id})

\* The first half of run_once, for one timer.  period[k] is the interval of a repeating
\* kind and 0 for a kind that fires once.
Aged(cell, period) ==
    IF cell.kind = "none" THEN NoCell
    ELSE IF cell.left > 0
         THEN [kind |-> cell.kind, left |-> cell.left - 1, due |-> "none"]
         ELSE IF period[cell.kind] > 0
              THEN [kind |-> cell.kind, left |-> period[cell.kind] - 1, due |-> cell.kind]
              ELSE [kind |-> "none", left |-> 0, due |-> cell.kind]

Collect(q, period) == [id \in DOMAIN q |-> Aged(q[id], period)]

\* The second half, one callback at a time.
TakeDue(q, id) == [q EXCEPT ![id].due = "none"]

\* A callback that throws ends run_once: the rest of the batch is not called.
DropDue(q) == [id \in DOMAIN q |-> [q[id] EXCEPT !.due = "none"]]

NothingDue(q) == \A id \in DOMAIN q : q[id].due = "none"

Live(q, id, k) == id \in DOMAIN q /\ q[id].kind = k
=============================================================================
