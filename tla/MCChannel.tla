----------------------------- MODULE MCChannel ------------------------------
(***************************************************************************)
(* Instances of Channel for TLC: one channel, one to three threads.       *)
(***************************************************************************)
EXTENDS Channel, TLC

CONSTANTS c1

One == [c \in Chans |-> 1]
Two == [c \in Chans |-> 2]

Perms == Permutations(Threads) \cup Permutations(Vals)
=============================================================================
