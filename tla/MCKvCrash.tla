----------------------------- MODULE MCKvCrash ------------------------------
(***************************************************************************)
(* Instances of KvCrash for TLC, with the keys and values of MCKvStore.    *)
(***************************************************************************)
EXTENDS KvCrash, MCKvStore
=============================================================================
