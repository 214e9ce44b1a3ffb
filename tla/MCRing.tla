------------------------------- MODULE MCRing -------------------------------
(***************************************************************************)
(* Instances of ReadyRing for TLC.                                         *)
(***************************************************************************)
EXTENDS ReadyRing, TLC

Perms == Permutations(Producers) \cup Permutations(Tasks)
=============================================================================
