---------------------------- MODULE CommandLife -----------------------------
(***************************************************************************)
(* What Master::send_command promises the application, without a word of   *)
(* timers, threads or mutexes: a command is transmitted once, either is    *)
(* refused with an exception or becomes pending, and a pending command     *)
(* ends in exactly one way: answered, reported as a timeout after all its  *)
(* retries, or dropped together with everything its session had pending.   *)
(* MasterRequest is shown to implement this specification.                 *)
(***************************************************************************)
EXTENDS Naturals

CONSTANTS Cmds, MaxRetry

VARIABLES
    phase,      \* per command: where it is in its life
    tries,      \* per command: retries used
    sent        \* per command: transmissions

Phases == {"new", "pending", "refused", "answered", "timeout", "dropped"}

Init ==
    /\ phase = [c \in Cmds |-> "new"]
    /\ tries = [c \in Cmds |-> 0]
    /\ sent  = [c \in Cmds |-> 0]

Becomes(c, from, to) ==
    /\ phase[c] = from
    /\ phase' = [phase EXCEPT ![c] = to]
    /\ UNCHANGED <<tries, sent>>

Transmit(c) ==
    /\ phase[c] = "new" /\ sent[c] = 0
    /\ sent' = [sent EXCEPT ![c] = 1]
    /\ UNCHANGED <<phase, tries>>

Refuse(c) == Becomes(c, "new", "refused")
Accept(c) == sent[c] = 1 /\ Becomes(c, "new", "pending")
Answer(c) == Becomes(c, "pending", "answered")
GiveUp(c) == tries[c] = MaxRetry /\ Becomes(c, "pending", "timeout")

\* A retry is used up whether or not the transport lets it through.
Retry(c) ==
    /\ phase[c] = "pending" /\ tries[c] < MaxRetry
    /\ tries' = [tries EXCEPT ![c] = @ + 1]
    /\ sent' \in {sent, [sent EXCEPT ![c] = @ + 1]}
    /\ UNCHANGED phase

\* The session ends with everything that is pending.
EndSession ==
    /\ phase' = [c \in Cmds |-> IF phase[c] = "pending" THEN "dropped" ELSE phase[c]]
    /\ UNCHANGED <<tries, sent>>

Next ==
    \/ EndSession
    \/ \E c \in Cmds : \/ Transmit(c) \/ Refuse(c) \/ Accept(c) \/ Answer(c)
                       \/ GiveUp(c) \/ Retry(c)

Spec == Init /\ [][Next]_<<phase, tries, sent>>
=============================================================================
