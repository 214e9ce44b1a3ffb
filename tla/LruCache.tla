------------------------------ MODULE LruCache ------------------------------
(***************************************************************************)
(* The LRU cache of std.cache (cache.x): a doubly linked list threaded     *)
(* through an array of nodes, searched from index 0 and evicted from the   *)
(* tail. It has no lock and is documented for one thread, so a call is one *)
(* action, but for the purge, which reads the clock again for each node.   *)
(***************************************************************************)
EXTENDS Integers, Sequences

CONSTANTS Keys, Vals,
          NoVal,      \* no value was found
          Ttls,       \* times to live that callers pass
          MaxNodes,   \* LRU_MAX_NODES
          Capacity,   \* the capacity asked for
          MaxNow,     \* bound: the last time of the clock
          Half        \* 2^63: an i64 is below it

ASSUME LruConstants ==
  /\ NoVal \notin Vals
  /\ Ttls \subseteq Int
  /\ MaxNodes \in Nat /\ Capacity \in 1 .. MaxNodes
  /\ MaxNow \in Nat /\ Half \in Nat

VARIABLES c,        \* the cache: nodes, count, head and tail
          now,      \* time_now_monotonic_ns_c
          answer,   \* the value the last get found, or NoVal
          at,       \* the node a purge looks at next; Null when none runs
          since     \* history: when the purge under way began

vars == <<c, now, answer, at, since>>

Null == -1

Idx == 0 .. MaxNodes - 1

Free == [used |-> FALSE, key |-> NoVal, val |-> NoVal, expire |-> 0,
         prev |-> Null, next |-> Null]

\* What calloc leaves.
Zeroed == [Free EXCEPT !.prev = 0, !.next = 0]

Used(l) == {i \in Idx : l.node[i].used}

Lowest(S) == IF S = {} THEN Null ELSE CHOOSE i \in S : \A j \in S : i <= j

Find(l, k) == Lowest({i \in Used(l) : l.node[i].key = k})

Alloc(l) == Lowest(Idx \ Used(l))

\* Signed addition wraps.
Wrapped(t) == IF t >= Half THEN t - 2 * Half ELSE t

Deadline(ttl) == IF ttl > 0 THEN Wrapped(now + ttl) ELSE 0

-----------------------------------------------------------------------------
(* The list. *)

Link(n, p, i) == IF p = Null THEN n ELSE [n EXCEPT ![p].next = i]

\* Mutant: the node behind is not linked back.
BackLinkNone(n, i, p) == n

BackLink(n, i, p) == IF i = Null THEN n ELSE [n EXCEPT ![i].prev = p]

\* Move node i to the front.
Touch(l, i) ==
  IF l.head = i THEN l
  ELSE LET p == l.node[i].prev
           n == l.node[i].next
           around == BackLink(Link(l.node, p, n), n, p)
           front == [around EXCEPT ![i].prev = Null, ![i].next = l.head]
       IN  [l EXCEPT !.node = BackLink(front, l.head, i),
                     !.head = i,
                     !.tail = IF @ \in {i, Null} THEN IF @ = i /\ p # Null THEN p ELSE i
                              ELSE @]

\* Take node i out.
RemoveNode(l, i) ==
  LET p == l.node[i].prev
      n == l.node[i].next
  IN  [node |-> [BackLink(Link(l.node, p, n), n, p) EXCEPT ![i] = Free],
       head |-> IF p = Null THEN n ELSE l.head,
       tail |-> IF n = Null THEN p ELSE l.tail,
       count |-> l.count - 1]

Evict(l) == IF l.tail = Null THEN l ELSE RemoveNode(l, l.tail)

\* Put a new node i at the front.
Insert(l, i, k, v, x) ==
  LET new == [used |-> TRUE, key |-> k, val |-> v, expire |-> x,
              prev |-> Null, next |-> l.head]
  IN  [node |-> BackLink([l.node EXCEPT ![i] = new], l.head, i),
       head |-> i,
       tail |-> IF l.tail = Null THEN i ELSE l.tail,
       count |-> l.count + 1]

-----------------------------------------------------------------------------
(* The calls. Counters of hits, misses and evictions are left out. *)

Init ==
  /\ c = [node |-> [i \in Idx |-> Zeroed], head |-> Null, tail |-> Null, count |-> 0]
  /\ now \in 0 .. MaxNow
  /\ answer = NoVal
  /\ at = Null /\ since = 0

Idle == at = Null

Late(n) == n.expire # 0 /\ now >= n.expire

Get(k) ==
  LET i == Find(c, k)
  IN  /\ Idle
      /\ \/ i = Null /\ answer' = NoVal /\ UNCHANGED c
         \/ i # Null /\ Late(c.node[i]) /\ answer' = NoVal /\ c' = RemoveNode(c, i)
         \/ i # Null /\ ~Late(c.node[i]) /\ answer' = c.node[i].val /\ c' = Touch(c, i)
      /\ UNCHANGED <<now, at, since>>

\* Mutant: a rewritten entry keeps its place.
RewriteInPlace(l, i, v, x) ==
  [l EXCEPT !.node[i].val = v, !.node[i].expire = x]

Rewrite(l, i, v, x) ==
  Touch([l EXCEPT !.node[i].val = v, !.node[i].expire = x], i)

\* Mutant: an entry too many before one is evicted.
PutNewLate(l, k, v, x) ==
  LET room == IF l.count > Capacity THEN Evict(l) ELSE l
      i == Alloc(room)
  IN  IF i = Null THEN room ELSE Insert(room, i, k, v, x)

\* The loop of the code evicts until there is room. count never exceeds the
\* capacity (TypeOK), so that one eviction is enough. The put fails when there is
\* nothing to evict or no free node.
PutNew(l, k, v, x) ==
  LET full == l.count >= Capacity
      room == IF full THEN Evict(l) ELSE l
      i == Alloc(room)
  IN  IF i = Null \/ (full /\ l.tail = Null) THEN room ELSE Insert(room, i, k, v, x)

Put(k, v, ttl) ==
  LET i == Find(c, k)
  IN  /\ Idle
      /\ \/ i # Null /\ c' = Rewrite(c, i, v, Deadline(ttl))
         \/ i = Null /\ c' = PutNew(c, k, v, Deadline(ttl))
      /\ UNCHANGED <<now, answer, at, since>>

\* A key without an entry is refused.
Remove(k) ==
  LET i == Find(c, k)
  IN  /\ Idle /\ i # Null
      /\ c' = RemoveNode(c, i)
      /\ UNCHANGED <<now, answer, at, since>>

PurgeBegins ==
  /\ Idle
  /\ at' = 0 /\ since' = now
  /\ UNCHANGED <<c, now, answer>>

\* Mutant: the purge removes a node one tick late.
PurgeLooksLate ==
  /\ at \in Idx
  /\ LET n == c.node[at]
     IN  c' = IF n.used /\ n.expire > 0 /\ now > n.expire THEN RemoveNode(c, at) ELSE c
  /\ at' = at + 1
  /\ UNCHANGED <<now, answer, since>>

PurgeLooks ==
  /\ at \in Idx
  /\ LET n == c.node[at]
     IN  c' = IF n.used /\ n.expire > 0 /\ Late(n) THEN RemoveNode(c, at) ELSE c
  /\ at' = at + 1
  /\ UNCHANGED <<now, answer, since>>

PurgeReturns ==
  /\ at = MaxNodes
  /\ at' = Null /\ since' = 0
  /\ UNCHANGED <<c, now, answer>>

\* Time passes, also while a purge runs.
Tick ==
  /\ now' \in now + 1 .. MaxNow
  /\ UNCHANGED <<c, answer, at, since>>

Next ==
  \/ \E k \in Keys : Get(k)
  \/ \E k \in Keys, v \in Vals, ttl \in Ttls : Put(k, v, ttl)
  \/ \E k \in Keys : Remove(k)
  \/ PurgeBegins
  \/ PurgeLooks
  \/ PurgeReturns
  \/ Tick

Spec == Init /\ [][Next]_vars

-----------------------------------------------------------------------------
(* Properties. *)

Node == [used : BOOLEAN, key : Keys \cup {NoVal}, val : Vals \cup {NoVal},
         expire : Int, prev : Idx \cup {Null}, next : Idx \cup {Null}]

\* The state has the shape of LruCacheMem; as many nodes are in use as count
\* says, and never more than the capacity asked for.
TypeOK ==
  /\ c \in [node : [Idx -> Node], head : Idx \cup {Null}, tail : Idx \cup {Null},
            count : 0 .. Capacity]
  /\ now \in 0 .. MaxNow /\ since \in 0 .. now
  /\ answer \in Vals \cup {NoVal}
  /\ at \in 0 .. MaxNodes \cup {Null}

\* o is the nodes in use in the order of the links from head to tail, and the
\* links from tail to head agree with it.
Chain(l, o) ==
  /\ \A i, j \in 1 .. Len(o) : o[i] = o[j] => i = j
  /\ \A i \in Idx : l.node[i].used <=> \E j \in 1 .. Len(o) : o[j] = i
  /\ l.count = Len(o)
  /\ l.head = IF Len(o) = 0 THEN Null ELSE o[1]
  /\ l.tail = IF Len(o) = 0 THEN Null ELSE o[Len(o)]
  /\ \A j \in 1 .. Len(o) :
       /\ l.node[o[j]].prev = IF j = 1 THEN Null ELSE o[j - 1]
       /\ l.node[o[j]].next = IF j = Len(o) THEN Null ELSE o[j + 1]

Orders == UNION {[1 .. n -> Idx] : n \in 0 .. MaxNodes}

Order(l) == CHOOSE o \in Orders : Chain(l, o)

\* The entries, first the one used last.
EntriesAlong(l, o) ==
  [j \in 1 .. Len(o) |->
     [key |-> l.node[o[j]].key, val |-> l.node[o[j]].val, expire |-> l.node[o[j]].expire]]

Entries == EntriesAlong(c, Order(c))

Abstract == INSTANCE LruList WITH list <- Entries

\* The links make one list of the nodes in use, in both directions.
Linked == \E o \in Orders : Chain(c, o)

\* No deadline reaches 2^63.
TtlsFit == \A ttl \in Ttls : MaxNow + ttl < Half

\* The cache is a list ordered by use: whatever is found, moved, replaced,
\* evicted, expired or removed in the array of nodes, a get answers what the
\* list of entries says, and the entry that a put pushes out is the one used
\* longest ago.
ListRefined == Abstract!Spec

\* A purge leaves behind it no entry that a get would have refused when the
\* purge began.
PurgeComplete ==
  \A i \in Idx :
    i < at /\ c.node[i].used /\ c.node[i].expire # 0 => since < c.node[i].expire
=============================================================================
