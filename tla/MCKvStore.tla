----------------------------- MODULE MCKvStore ------------------------------
(***************************************************************************)
(* Instances of KvStore for TLC: two or three keys, a short and a long     *)
(* value.                                                                  *)
(***************************************************************************)
EXTENDS KvStore, TLC

CONSTANTS k1, k2, k3, short, long

\* No two keys share a hash and a length; or k1 and k2 do.
ClassPerKey == [k \in Keys |-> k]
SharedClass == [k \in Keys |-> IF k = k2 THEN k1 ELSE k]

Lengths == (short :> 1) @@ (long :> 2)

\* Renaming the values is sound where no buffer tells their lengths apart.
AllPerms == Permutations(Keys) \cup Permutations(Vals)
KeyPerms == Permutations(Keys)
ValPerms == Permutations(Vals)
=============================================================================
