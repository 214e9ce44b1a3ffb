---------------------------- MODULE MCLockOrder -----------------------------
(***************************************************************************)
(* An instance of LockOrder for TLC.                                       *)
(***************************************************************************)
EXTENDS LockOrder, TLC

SignedIds == {-1, 1, 2, 3}

Perms == Permutations(Threads) \cup Permutations(Mutexes)
=============================================================================
