------------------------------ MODULE LruList ------------------------------
(***************************************************************************)
(* What the LRU cache of std.cache promises: at most Capacity entries, the *)
(* one used last first. A read or a write of a key moves its entry to the  *)
(* front, a new entry pushes out the last, and an entry whose time is over *)
(* is not read.                                                            *)
(***************************************************************************)
EXTENDS Integers, Sequences

CONSTANTS Keys, Vals, NoVal, Ttls, Capacity

VARIABLES list,    \* the entries, the most recently used first
          now,     \* the clock
          answer   \* what the last get found, or NoVal

vars == <<list, now, answer>>

Init == list = <<>> /\ now \in Nat /\ answer = NoVal

Holds(k) == \E i \in 1 .. Len(list) : list[i].key = k

\* An entry with expire 0 is kept until it is pushed out or removed.
Expired(e) == e.expire # 0 /\ now >= e.expire

Without(i) == SubSeq(list, 1, i - 1) \o SubSeq(list, i + 1, Len(list))

Hit(i) ==
  /\ ~Expired(list[i])
  /\ list' = <<list[i]>> \o Without(i)
  /\ answer' = list[i].val
  /\ UNCHANGED now

\* The entry of a key that is read too late goes.
Late(i) ==
  /\ Expired(list[i])
  /\ list' = Without(i)
  /\ answer' = NoVal
  /\ UNCHANGED now

Miss == answer' = NoVal /\ UNCHANGED <<list, now>>

Get(k) ==
  \/ \E i \in 1 .. Len(list) : list[i].key = k /\ (Hit(i) \/ Late(i))
  \/ ~Holds(k) /\ Miss

NewEntry(k, v, ttl) ==
  [key |-> k, val |-> v, expire |-> IF ttl > 0 THEN now + ttl ELSE 0]

Put(k, v, ttl) ==
  /\ \/ \E i \in 1 .. Len(list) :
          list[i].key = k /\ list' = <<NewEntry(k, v, ttl)>> \o Without(i)
     \/ /\ ~Holds(k) /\ Len(list) < Capacity
        /\ list' = <<NewEntry(k, v, ttl)>> \o list
     \/ /\ ~Holds(k) /\ Len(list) = Capacity
        /\ list' = <<NewEntry(k, v, ttl)>> \o Without(Len(list))
  /\ UNCHANGED <<now, answer>>

Remove(k) ==
  /\ \E i \in 1 .. Len(list) : list[i].key = k /\ list' = Without(i)
  /\ UNCHANGED <<now, answer>>

\* A purge takes out an entry whose time is over.
Expire ==
  /\ \E i \in 1 .. Len(list) : Expired(list[i]) /\ list' = Without(i)
  /\ UNCHANGED <<now, answer>>

Tick == now' > now /\ UNCHANGED <<list, answer>>

Next ==
  \/ \E k \in Keys : Get(k) \/ Remove(k) \/ \E v \in Vals, ttl \in Ttls : Put(k, v, ttl)
  \/ Expire
  \/ Tick

Spec == Init /\ [][Next]_vars
=============================================================================
