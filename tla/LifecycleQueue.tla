--------------------------- MODULE LifecycleQueue ---------------------------
(***************************************************************************)
(* What the lifecycle lock of the agent engine promises: operations enter  *)
(* one at a time, in the order in which they asked, and one that waits may *)
(* give up.  Nothing is said of how the line is kept.                      *)
(***************************************************************************)

CONSTANT Callers

VARIABLES
    line,    \* of each caller that waits, those who are served before it
    inside   \* who is in: nobody or one caller

Waiters == DOMAIN line

Init == line = [c \in {} |-> {}] /\ inside = {}

Ask(c) ==
    /\ c \notin Waiters \cup inside
    /\ line' = [d \in Waiters \cup {c} |-> IF d = c THEN Waiters ELSE line[d]]
    /\ UNCHANGED inside

\* Nobody waits for c any more.
Without(c) == [d \in Waiters \ {c} |-> line[d] \ {c}]

GiveUp(c) ==
    /\ c \in Waiters
    /\ line' = Without(c)
    /\ UNCHANGED inside

Enter(c) ==
    /\ inside = {}
    /\ c \in Waiters /\ line[c] = {}
    /\ inside' = {c}
    /\ line' = Without(c)

\* The operation settles, lends the lock, or is declared hung.
Leave ==
    /\ inside # {}
    /\ inside' = {}
    /\ UNCHANGED line

Next == Leave \/ \E c \in Callers : Ask(c) \/ GiveUp(c) \/ Enter(c)

Spec == Init /\ [][Next]_<<line, inside>>
=============================================================================
