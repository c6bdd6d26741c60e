------------------------------ MODULE Channel -------------------------------
(***************************************************************************)
(* What Transport::write promises its callers: the packets of one writer   *)
(* leave in the order in which they were written and none leaves twice.    *)
(* Packets may be lost (a full queue, clear_queues, a connection that      *)
(* ends).  TcpClient, TcpServer and UsbDevice implement this.              *)
(***************************************************************************)
EXTENDS Naturals

CONSTANT Writers

VARIABLES
    count,      \* per writer: packets written so far, which also numbers them
    pending,    \* per writer: the packets that have not left
    out         \* per writer: the last packet that left, 0 for none

Init ==
    /\ count = [w \in Writers |-> 0]
    /\ pending = [w \in Writers |-> {}]
    /\ out = [w \in Writers |-> 0]

Write(w) ==
    /\ count' = [count EXCEPT ![w] = @ + 1]
    /\ pending' = [pending EXCEPT ![w] = @ \cup {count'[w]}]
    /\ UNCHANGED out

\* The oldest packet leaves.
Send(w) ==
    /\ \E n \in pending[w] :
          /\ \A m \in pending[w] : n <= m
          /\ out' = [out EXCEPT ![w] = n]
          /\ pending' = [pending EXCEPT ![w] = @ \ {n}]
    /\ UNCHANGED count

\* Any of the packets are lost.
Lose ==
    /\ pending' \in [Writers -> UNION {SUBSET pending[w] : w \in Writers}]
    /\ \A w \in Writers : pending'[w] \subseteq pending[w]
    /\ UNCHANGED <<count, out>>

Next == Lose \/ \E w \in Writers : Write(w) \/ Send(w)

Spec == Init /\ [][Next]_<<count, pending, out>>
=============================================================================
