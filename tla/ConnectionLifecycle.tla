------------------------- MODULE ConnectionLifecycle -------------------------
(***************************************************************************)
(* What a connection promises to the server that owns it: it works until   *)
(* it is closed, drains the operations it has in the kernel, and leaves    *)
(* the registry only then, once.                                           *)
(***************************************************************************)
EXTENDS Naturals

VARIABLES
    phase,    \* "Active", "Closing" or "Closed"
    ops,      \* operations in the kernel or in the completion queue: 0..2
    member    \* the registry holds the connection

vars == <<phase, ops, member>>

Init == phase = "Active" /\ ops = 0 /\ member = TRUE

\* Post and complete operations.
Work ==
    /\ phase = "Active" /\ ops' \in 0..2
    /\ UNCHANGED <<phase, member>>

\* Close, in the same step as the completion that led to it or on its own;
\* with nothing in the kernel the connection is drained at once.
BeginClose ==
    /\ phase = "Active" /\ ops' \in {ops} \cup {n \in 0..2 : n + 1 = ops}
    /\ phase' = IF ops' = 0 THEN "Closed" ELSE "Closing"
    /\ UNCHANGED member

\* One of the operations cancelled by the close completes.
Drain ==
    /\ phase = "Closing" /\ ops > 0 /\ ops' = ops - 1
    /\ phase' = IF ops' = 0 THEN "Closed" ELSE "Closing"
    /\ UNCHANGED member

Leave ==
    /\ phase = "Closed" /\ member
    /\ member' = FALSE
    /\ UNCHANGED <<phase, ops>>

Next == Work \/ BeginClose \/ Drain \/ Leave

Spec == Init /\ [][Next]_vars

FairSpec == Spec /\ WF_vars(Drain) /\ WF_vars(Leave)
==============================================================================
