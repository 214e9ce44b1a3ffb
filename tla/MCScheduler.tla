---------------------------- MODULE MCScheduler -----------------------------
(***************************************************************************)
(* An instance of Scheduler for TLC.                                       *)
(***************************************************************************)
EXTENDS Scheduler, TLC

CONSTANTS a, b, c, g, s

\* Two tasks that await once, and one that does not; results of either sign,
\* one of them the code for "cancelled".
AwaitsOf == [x \in Tasks |-> IF x = c THEN 0 ELSE 1]
MembersOf == (g :> {a, b}) @@ (s :> {c})
ResultOf == [x \in Tasks |-> IF x = a THEN -3 ELSE 0]
=============================================================================
