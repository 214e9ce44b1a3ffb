----------------------------- MODULE MCLruCache -----------------------------
(* An instance of LruCache: three keys for two entries in three nodes, so that *)
(* a freed node is used again before one that was never used.                  *)
EXTENDS LruCache, TLC

Alike == Permutations(Keys) \cup Permutations(Vals)
=============================================================================
