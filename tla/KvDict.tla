------------------------------- MODULE KvDict -------------------------------
(***************************************************************************)
(* What std.db.kv is to its callers: a dictionary that may forget keys.  A *)
(* put that is acknowledged replaces the value of its key; nothing else    *)
(* gives a key another value.                                              *)
(***************************************************************************)
CONSTANTS Keys, Vals, NoVal

VARIABLE dict

DictInit == dict = [k \in Keys |-> NoVal]

DictPut(k, v) == dict' = [dict EXCEPT ![k] = v]

DictForget(ks) == dict' = [k \in Keys |-> IF k \in ks THEN NoVal ELSE dict[k]]

DictNext ==
  \/ \E k \in Keys, v \in Vals : DictPut(k, v)
  \/ \E ks \in SUBSET Keys : DictForget(ks)

DictSpec == DictInit /\ [][DictNext]_dict
=============================================================================
