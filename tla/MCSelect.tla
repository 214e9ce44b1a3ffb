------------------------------ MODULE MCSelect ------------------------------
(***************************************************************************)
(* Instances of ChannelSelect for TLC: two channels of one cell, one or    *)
(* two selectors with two cases each.                                      *)
(***************************************************************************)
EXTENDS ChannelSelect, TLC

CONSTANTS c1, c2, a, s2

One == [c \in Chans |-> 1]

RecvBoth ==
  [s \in Selectors |-> <<[ch |-> c1, dir |-> "recv"], [ch |-> c2, dir |-> "recv"]>>]
Mixed ==
  [s \in Selectors |-> <<[ch |-> c1, dir |-> "recv"], [ch |-> c2, dir |-> "send"]>>]

MixedAndBoth ==
  [s \in Selectors |-> IF s = s2 THEN RecvBoth[s] ELSE Mixed[s]]

OneVal == [s \in Selectors |-> a]
=============================================================================
