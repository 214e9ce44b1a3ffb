----------------------------- MODULE LruProofs ------------------------------
(***************************************************************************)
(* For any keys, values, times and capacities: the links of the nodes in   *)
(* use make one list in both directions, and, where no deadline wraps, the *)
(* cache is the list of LruList and a purge passes over no expired entry.  *)
(***************************************************************************)
EXTENDS LruCache, FiniteSetTheorems, SequenceTheorems, WellFoundedInduction, TLAPS

-----------------------------------------------------------------------------
(* Numbers and sequences. *)

\* A set of indexes has a lowest one.
LEMMA LowestIs ==
  ASSUME NEW S \in SUBSET Nat
  PROVE  /\ S # {} => Lowest(S) \in S /\ \A j \in S : Lowest(S) <= j
         /\ S = {} => Lowest(S) = Null
<1>1. ASSUME S # {}
      PROVE  \E i \in S : \A j \in S : i <= j
  <2>1. PICK i \in S : \A j \in S : <<j, i>> \notin OpToRel(<, Nat)
    BY <1>1, NatLessThanWellFounded, WFMin
  <2>2. \A j \in S : ~(j < i)
    BY <2>1 DEF OpToRel
  <2> QED
    BY <2>2
<1> QED
  BY <1>1 DEF Lowest

\* s without its element m.
Cut(s, m) == [j \in 1 .. Len(s) - 1 |-> IF j < m THEN s[j] ELSE s[j + 1]]

\* s with its element m moved to the front.
Fronted(s, m) ==
  [j \in 1 .. Len(s) |-> IF j = 1 THEN s[m] ELSE IF j <= m THEN s[j - 1] ELSE s[j]]

\* e before s.
Pushed(e, s) == [j \in 1 .. Len(s) + 1 |-> IF j = 1 THEN e ELSE s[j - 1]]

\* The three as sequences over T.
IsCut(u, s, m, T) ==
  /\ u \in Seq(T) /\ Len(u) = Len(s) - 1
  /\ \A j \in 1 .. Len(s) - 1 : u[j] = IF j < m THEN s[j] ELSE s[j + 1]

IsFronted(u, s, m, T) ==
  /\ u \in Seq(T) /\ Len(u) = Len(s)
  /\ \A j \in 1 .. Len(s) : u[j] = IF j = 1 THEN s[m] ELSE IF j <= m THEN s[j - 1] ELSE s[j]

IsPushed(u, e, s, T) ==
  /\ u \in Seq(T) /\ Len(u) = Len(s) + 1
  /\ \A j \in 1 .. Len(s) + 1 : u[j] = IF j = 1 THEN e ELSE s[j - 1]

LEMMA CutSeq ==
  ASSUME NEW T, NEW s \in Seq(T), NEW m \in 1 .. Len(s)
  PROVE  IsCut(Cut(s, m), s, m, T)
<1>1. Len(s) \in Nat /\ \A j \in 1 .. Len(s) : s[j] \in T
  OBVIOUS
<1>2. \A j \in 1 .. Len(s) - 1 : (IF j < m THEN s[j] ELSE s[j + 1]) \in T
  BY <1>1
<1>3. Len(s) - 1 \in Nat
  BY <1>1
<1> QED
  BY <1>2, <1>3 DEF Cut, IsCut

LEMMA FrontedSeq ==
  ASSUME NEW T, NEW s \in Seq(T), NEW m \in 1 .. Len(s)
  PROVE  IsFronted(Fronted(s, m), s, m, T)
<1>1. Len(s) \in Nat /\ \A j \in 1 .. Len(s) : s[j] \in T
  OBVIOUS
<1>2. \A j \in 1 .. Len(s) :
        (IF j = 1 THEN s[m] ELSE IF j <= m THEN s[j - 1] ELSE s[j]) \in T
  BY <1>1
<1> QED
  BY <1>1, <1>2 DEF Fronted, IsFronted

LEMMA PushedSeq ==
  ASSUME NEW T, NEW s \in Seq(T), NEW e \in T
  PROVE  IsPushed(Pushed(e, s), e, s, T)
<1>1. Len(s) \in Nat /\ \A j \in 1 .. Len(s) : s[j] \in T
  OBVIOUS
<1>2. \A j \in 1 .. Len(s) + 1 : (IF j = 1 THEN e ELSE s[j - 1]) \in T
  BY <1>1
<1>3. Len(s) + 1 \in Nat
  BY <1>1
<1> QED
  BY <1>2, <1>3 DEF Pushed, IsPushed

LEMMA PushedIs ==
  ASSUME NEW T, NEW s \in Seq(T), NEW e \in T
  PROVE  <<e>> \o s = Pushed(e, s)
<1>1. /\ <<e>> \in Seq(T) /\ Len(<<e>>) = 1 /\ <<e>>[1] = e
      /\ Len(s) \in Nat
  OBVIOUS
<1>2. /\ <<e>> \o s \in Seq(T) /\ Len(<<e>> \o s) = 1 + Len(s)
      /\ \A j \in 1 .. 1 + Len(s) : (<<e>> \o s)[j] = IF j <= 1 THEN <<e>>[j] ELSE s[j - 1]
  BY <1>1, ConcatProperties
<1>3. /\ Pushed(e, s) \in Seq(T) /\ Len(Pushed(e, s)) = Len(s) + 1
      /\ \A j \in 1 .. Len(s) + 1 : Pushed(e, s)[j] = IF j = 1 THEN e ELSE s[j - 1]
  <2>1. IsPushed(Pushed(e, s), e, s, T)
    BY PushedSeq
  <2> QED
    BY <2>1 DEF IsPushed
<1>4. \A j \in 1 .. Len(s) + 1 : (<<e>> \o s)[j] = Pushed(e, s)[j]
  BY <1>1, <1>2, <1>3
<1> QED
  BY <1>1, <1>2, <1>3, <1>4, SeqEqual

LEMMA CutIs ==
  ASSUME NEW T, NEW s \in Seq(T), NEW m \in 1 .. Len(s)
  PROVE  SubSeq(s, 1, m - 1) \o SubSeq(s, m + 1, Len(s)) = Cut(s, m)
<1> DEFINE a == SubSeq(s, 1, m - 1)  b == SubSeq(s, m + 1, Len(s))
<1>0. Len(s) \in Nat
  OBVIOUS
<1>1. /\ a \in Seq(T) /\ Len(a) = m - 1 /\ \A j \in 1 .. m - 1 : a[j] = s[j]
  BY <1>0
<1>2. /\ b \in Seq(T) /\ Len(b) = Len(s) - m /\ \A j \in 1 .. Len(s) - m : b[j] = s[m + j]
  BY <1>0
<1> HIDE DEF a, b
<1>3. /\ a \o b \in Seq(T) /\ Len(a \o b) = Len(a) + Len(b)
      /\ \A j \in 1 .. Len(a) + Len(b) : (a \o b)[j] = IF j <= Len(a) THEN a[j] ELSE b[j - Len(a)]
  BY <1>1, <1>2, ConcatProperties
<1>4. /\ Cut(s, m) \in Seq(T) /\ Len(Cut(s, m)) = Len(s) - 1
      /\ \A j \in 1 .. Len(s) - 1 : Cut(s, m)[j] = IF j < m THEN s[j] ELSE s[j + 1]
  <2>1. IsCut(Cut(s, m), s, m, T)
    BY CutSeq
  <2> QED
    BY <2>1 DEF IsCut
<1>5. Len(a \o b) = Len(s) - 1
  BY <1>0, <1>1, <1>2, <1>3
<1>6. ASSUME NEW j \in 1 .. Len(s) - 1
      PROVE  (a \o b)[j] = Cut(s, m)[j]
  <2>1. CASE j < m
    BY <1>0, <1>1, <1>2, <1>3, <1>4, <2>1
  <2>2. CASE ~(j < m)
    <3>1. /\ j - (m - 1) \in 1 .. Len(s) - m /\ m + (j - (m - 1)) = j + 1
          /\ ~(j <= m - 1) /\ j \in 1 .. Len(a) + Len(b)
      BY <1>0, <1>1, <1>2, <2>2
    <3>2. (a \o b)[j] = b[j - (m - 1)]
      BY <1>1, <1>3, <3>1
    <3>3. b[j - (m - 1)] = s[j + 1]
      BY <1>2, <3>1
    <3> QED
      BY <1>4, <2>2, <3>2, <3>3
  <2> QED
    BY <2>1, <2>2
<1>7. a \o b = Cut(s, m)
  BY <1>3, <1>4, <1>5, <1>6, SeqEqual
<1> QED
  BY <1>7 DEF a, b

-----------------------------------------------------------------------------
(* What the operations do to the links. *)

Shape ==
  [node : [Idx -> Node], head : Idx \cup {Null}, tail : Idx \cup {Null}, count : Int]

SameData(n, m) ==
  n.used = m.used /\ n.key = m.key /\ n.val = m.val /\ n.expire = m.expire

LEMMA IndexRange == MaxNodes \in Nat /\ Capacity \in 1 .. MaxNodes /\ Null \notin Idx
BY LruConstants DEF Idx, Null

\* b is n with p before i.
Preceded(b, n, i, p) ==
  /\ b \in [Idx -> Node]
  /\ \A j \in Idx :
       /\ SameData(b[j], n[j])
       /\ b[j].next = n[j].next
       /\ b[j].prev = IF j = i THEN p ELSE n[j].prev

LEMMA BackLinked ==
  ASSUME NEW n \in [Idx -> Node], NEW i \in Idx \cup {Null}, NEW p \in Idx \cup {Null}
  PROVE  Preceded(BackLink(n, i, p), n, i, p)
<1>1. CASE i = Null
  BY <1>1, IndexRange DEF BackLink, SameData, Preceded
<1>2. CASE i \in Idx
  <2>1. BackLink(n, i, p) = [n EXCEPT ![i] = [n[i] EXCEPT !.prev = p]]
    BY <1>2, IndexRange DEF BackLink
  <2>2. [n[i] EXCEPT !.prev = p] \in Node
    BY <1>2 DEF Node
  <2> QED
    BY <1>2, <2>1, <2>2 DEF Node, SameData, Preceded
<1> QED
  BY <1>1, <1>2

LEMMA Linked1 ==
  ASSUME NEW n \in [Idx -> Node], NEW i \in Idx \cup {Null}, NEW p \in Idx \cup {Null}
  PROVE  /\ Link(n, p, i) \in [Idx -> Node]
         /\ \A j \in Idx :
              /\ SameData(Link(n, p, i)[j], n[j])
              /\ Link(n, p, i)[j].prev = n[j].prev
              /\ Link(n, p, i)[j].next = IF j = p THEN i ELSE n[j].next
<1>1. CASE p = Null
  BY <1>1, IndexRange DEF Link, SameData
<1>2. CASE p \in Idx
  <2>1. Link(n, p, i) = [n EXCEPT ![p] = [n[p] EXCEPT !.next = i]]
    BY <1>2, IndexRange DEF Link
  <2>2. [n[p] EXCEPT !.next = i] \in Node
    BY <1>2 DEF Node
  <2> QED
    BY <1>2, <2>1, <2>2 DEF Node, SameData
<1> QED
  BY <1>1, <1>2

\* r is n with p and q linked to each other.
Joined(r, n, p, q) ==
  /\ r \in [Idx -> Node]
  /\ \A j \in Idx :
       /\ SameData(r[j], n[j])
       /\ r[j].next = IF j = p THEN q ELSE n[j].next
       /\ r[j].prev = IF j = q THEN p ELSE n[j].prev

LEMMA Spliced ==
  ASSUME NEW n \in [Idx -> Node], NEW p \in Idx \cup {Null}, NEW q \in Idx \cup {Null}
  PROVE  Joined(BackLink(Link(n, p, q), q, p), n, p, q)
<1>1. PICK a : a = Link(n, p, q)
  OBVIOUS
<1>2. /\ a \in [Idx -> Node]
      /\ \A j \in Idx :
           SameData(a[j], n[j]) /\ a[j].prev = n[j].prev /\ a[j].next = IF j = p THEN q ELSE n[j].next
  BY <1>1, Linked1
<1>3. Preceded(BackLink(a, q, p), a, q, p)
  BY <1>2, BackLinked
<1>4. Joined(BackLink(a, q, p), n, p, q)
  BY <1>2, <1>3 DEF SameData, Joined, Preceded
<1> QED
  BY <1>1, <1>4

\* What a chain says of the links at one place.
LEMMA ChainAt ==
  ASSUME NEW l \in Shape, NEW o \in Seq(Idx), Chain(l, o), NEW m \in 1 .. Len(o)
  PROVE  /\ o[m] \in Idx /\ l.node[o[m]] \in Node
         /\ l.node[o[m]].used
         /\ l.node[o[m]].prev = IF m = 1 THEN Null ELSE o[m - 1]
         /\ l.node[o[m]].next = IF m = Len(o) THEN Null ELSE o[m + 1]
<1>1. o[m] \in Idx
  OBVIOUS
<1>2. l.node[o[m]] \in Node
  BY <1>1 DEF Shape
<1> QED
  BY <1>1, <1>2 DEF Chain

LEMMA RemoveShape ==
  ASSUME NEW l \in Shape, NEW i \in Idx
  PROVE  /\ RemoveNode(l, i) \in Shape
         /\ RemoveNode(l, i).count = l.count - 1
         /\ RemoveNode(l, i).head = IF l.node[i].prev = Null THEN l.node[i].next ELSE l.head
         /\ RemoveNode(l, i).tail = IF l.node[i].next = Null THEN l.node[i].prev ELSE l.tail
         /\ ~RemoveNode(l, i).node[i].used
         /\ \A j \in Idx : j # i =>
              /\ SameData(RemoveNode(l, i).node[j], l.node[j])
              /\ RemoveNode(l, i).node[j].next =
                   IF j = l.node[i].prev THEN l.node[i].next ELSE l.node[j].next
              /\ RemoveNode(l, i).node[j].prev =
                   IF j = l.node[i].next THEN l.node[i].prev ELSE l.node[j].prev
<1>1. PICK p : p = l.node[i].prev
  OBVIOUS
<1>2. PICK q : q = l.node[i].next
  OBVIOUS
<1>3. PICK n : n = l.node
  OBVIOUS
<1>4. /\ n \in [Idx -> Node] /\ p \in Idx \cup {Null} /\ q \in Idx \cup {Null}
      /\ l.head \in Idx \cup {Null} /\ l.tail \in Idx \cup {Null} /\ l.count \in Int
  BY <1>1, <1>2, <1>3 DEF Shape, Node
<1>5. PICK r : r = BackLink(Link(n, p, q), q, p)
  OBVIOUS
<1>6. /\ r \in [Idx -> Node]
      /\ \A j \in Idx :
           /\ SameData(r[j], n[j])
           /\ r[j].next = IF j = p THEN q ELSE n[j].next
           /\ r[j].prev = IF j = q THEN p ELSE n[j].prev
  <2>1. Joined(r, n, p, q)
    BY <1>4, <1>5, Spliced
  <2> QED
    BY <2>1 DEF Joined
<1>7. RemoveNode(l, i) = [node |-> [r EXCEPT ![i] = Free],
                          head |-> IF p = Null THEN q ELSE l.head,
                          tail |-> IF q = Null THEN p ELSE l.tail,
                          count |-> l.count - 1]
  BY <1>1, <1>2, <1>3, <1>5 DEF RemoveNode
<1>8. Free \in Node /\ ~Free.used
  BY DEF Free, Node
<1>9. [r EXCEPT ![i] = Free] \in [Idx -> Node]
  BY <1>6, <1>8
<1>10. RemoveNode(l, i) \in Shape
  BY <1>4, <1>7, <1>9 DEF Shape
<1>11. /\ [r EXCEPT ![i] = Free][i] = Free
       /\ \A j \in Idx : j # i => [r EXCEPT ![i] = Free][j] = r[j]
  BY <1>6
<1>12. RemoveNode(l, i).node = [r EXCEPT ![i] = Free]
  BY <1>7
<1> QED
  BY <1>1, <1>2, <1>3, <1>6, <1>7, <1>8, <1>10, <1>11, <1>12

LEMMA RemoveChain ==
  ASSUME NEW l \in Shape, NEW o \in Seq(Idx), Chain(l, o), NEW m \in 1 .. Len(o)
  PROVE  Chain(RemoveNode(l, o[m]), Cut(o, m))
<1>1. PICK i : i = o[m]
  OBVIOUS
<1>2. PICK r : r = RemoveNode(l, i)
  OBVIOUS
<1>3. PICK u : u = Cut(o, m)
  OBVIOUS
<1>4. PICK L \in Nat : L = Len(o)
  OBVIOUS
<1>5. /\ i \in Idx /\ l.node[i].used
      /\ l.node[i].prev = IF m = 1 THEN Null ELSE o[m - 1]
      /\ l.node[i].next = IF m = L THEN Null ELSE o[m + 1]
  BY <1>1, <1>4, ChainAt
<1>6. /\ u \in Seq(Idx) /\ Len(u) = L - 1
      /\ \A j \in 1 .. L - 1 : u[j] = IF j < m THEN o[j] ELSE o[j + 1]
  <2>1. IsCut(Cut(o, m), o, m, Idx)
    BY <1>3, <1>4, CutSeq
  <2> QED
    BY <1>3, <1>4, <2>1 DEF IsCut
<1>7. /\ r \in Shape /\ r.count = l.count - 1
      /\ r.head = IF l.node[i].prev = Null THEN l.node[i].next ELSE l.head
      /\ r.tail = IF l.node[i].next = Null THEN l.node[i].prev ELSE l.tail
      /\ ~r.node[i].used
      /\ \A j \in Idx : j # i =>
           /\ SameData(r.node[j], l.node[j])
           /\ r.node[j].next = IF j = l.node[i].prev THEN l.node[i].next ELSE l.node[j].next
           /\ r.node[j].prev = IF j = l.node[i].next THEN l.node[i].prev ELSE l.node[j].prev
  <2> HIDE DEF Shape
  <2>1. i \in Idx
    BY <1>5
  <2> QED
    BY <1>2, <2>1, RemoveShape, ZenonT(30)
<1>8. /\ \A j, k \in 1 .. L : o[j] = o[k] => j = k
      /\ \A j \in 1 .. L : o[j] \in Idx
      /\ \A j \in Idx : l.node[j].used <=> \E k \in 1 .. L : o[k] = j
      /\ l.count = L
      /\ l.head = IF L = 0 THEN Null ELSE o[1]
      /\ l.tail = IF L = 0 THEN Null ELSE o[L]
      /\ \A j \in 1 .. L :
           /\ l.node[o[j]].prev = IF j = 1 THEN Null ELSE o[j - 1]
           /\ l.node[o[j]].next = IF j = L THEN Null ELSE o[j + 1]
  BY <1>4 DEF Chain
<1>m. m \in 1 .. L
  BY <1>4
<1>9. \A k \in 1 .. L - 1 :
        \E g \in 1 .. L : g = (IF k < m THEN k ELSE k + 1) /\ g # m /\ u[k] = o[g]
  <2>1. ASSUME NEW k \in 1 .. L - 1
        PROVE  \E g \in 1 .. L : g = (IF k < m THEN k ELSE k + 1) /\ g # m /\ u[k] = o[g]
    <3>1. CASE k < m
      <4>1. k \in 1 .. L /\ k # m /\ u[k] = o[k]
        BY <1>6, <1>m, <3>1
      <4> QED
        BY <3>1, <4>1
    <3>2. CASE ~(k < m)
      <4>1. k + 1 \in 1 .. L /\ k + 1 # m /\ u[k] = o[k + 1]
        BY <1>6, <1>m, <3>2
      <4> QED
        BY <3>2, <4>1
    <3> QED
      BY <3>1, <3>2
  <2> QED
    BY <2>1
<1>a. \A j, k \in 1 .. L - 1 : u[j] = u[k] => j = k
  <2>1. ASSUME NEW j \in 1 .. L - 1, NEW k \in 1 .. L - 1, u[j] = u[k]
        PROVE  j = k
    <3>1. PICK g \in 1 .. L : g = (IF j < m THEN j ELSE j + 1) /\ u[j] = o[g]
      BY <1>9
    <3>2. PICK h \in 1 .. L : h = (IF k < m THEN k ELSE k + 1) /\ u[k] = o[h]
      BY <1>9
    <3>a. o[g] = o[h]
      BY <2>1, <3>1, <3>2
    <3>3. g = h
      BY <1>8, <3>a, Zenon
    <3> QED
      BY <1>m, <3>1, <3>2, <3>3
  <2> QED
    BY <2>1
<1>b. \A j \in Idx : r.node[j].used <=> \E k \in 1 .. L - 1 : u[k] = j
  <2>1. ASSUME NEW j \in Idx, NEW k \in 1 .. L - 1, u[k] = j
        PROVE  r.node[j].used
    <3>1. PICK g \in 1 .. L : g # m /\ o[g] = j
      BY <1>9, <2>1
    <3>2. j # i
      BY <1>1, <1>8, <1>m, <3>1
    <3> QED
      BY <1>7, <1>8, <3>1, <3>2 DEF SameData
  <2>2. ASSUME NEW j \in Idx, r.node[j].used
        PROVE  \E k \in 1 .. L - 1 : u[k] = j
    <3>1. j # i
      BY <1>7, <2>2
    <3>2. PICK g \in 1 .. L : o[g] = j
      BY <1>7, <1>8, <2>2, <3>1 DEF SameData
    <3>3. g # m
      BY <1>1, <3>1, <3>2
    <3>4. CASE g < m
      <4>1. g \in 1 .. L - 1
        BY <1>m, <3>4
      <4> QED
        BY <1>6, <3>2, <3>4, <4>1
    <3>5. CASE g > m
      <4>1. g - 1 \in 1 .. L - 1 /\ ~(g - 1 < m) /\ (g - 1) + 1 = g
        BY <1>m, <3>5
      <4> QED
        BY <1>6, <3>2, <4>1
    <3> QED
      BY <1>m, <3>3, <3>4, <3>5
  <2> QED
    BY <2>1, <2>2
<1>c. r.head = IF L - 1 = 0 THEN Null ELSE u[1]
  BY <1>5, <1>6, <1>7, <1>8, <1>m, IndexRange
<1>d. r.tail = IF L - 1 = 0 THEN Null ELSE u[L - 1]
  BY <1>5, <1>6, <1>7, <1>8, <1>m, IndexRange
<1>e. ASSUME NEW k \in 1 .. L - 1
      PROVE  /\ r.node[u[k]].prev = IF k = 1 THEN Null ELSE u[k - 1]
             /\ r.node[u[k]].next = IF k = L - 1 THEN Null ELSE u[k + 1]
  <2>1. PICK g \in 1 .. L : g = (IF k < m THEN k ELSE k + 1) /\ g # m /\ u[k] = o[g]
    BY <1>9
  <2>2. PICK x \in Idx : x = o[g] /\ x = u[k]
    <3>1. o[g] \in Idx
      BY <1>8
    <3> QED
      BY <2>1, <3>1, Zenon
  <2>3. x # i
    BY <1>1, <1>8, <1>m, <2>1, <2>2
  <2>a. /\ l.node[x].prev = IF g = 1 THEN Null ELSE o[g - 1]
        /\ l.node[x].next = IF g = L THEN Null ELSE o[g + 1]
    <3>1. /\ l.node[o[g]].prev = IF g = 1 THEN Null ELSE o[g - 1]
          /\ l.node[o[g]].next = IF g = L THEN Null ELSE o[g + 1]
      BY <1>8
    <3> QED
      BY <2>2, <3>1, Zenon
  <2>b. /\ r.node[x].next = IF x = l.node[i].prev THEN l.node[i].next ELSE l.node[x].next
        /\ r.node[x].prev = IF x = l.node[i].next THEN l.node[i].prev ELSE l.node[x].prev
    BY <1>7, <2>3
  <2>4. r.node[u[k]].prev = IF x = l.node[i].next THEN l.node[i].prev
                            ELSE IF g = 1 THEN Null ELSE o[g - 1]
    BY <2>2, <2>a, <2>b
  <2>5. r.node[u[k]].next = IF x = l.node[i].prev THEN l.node[i].next
                            ELSE IF g = L THEN Null ELSE o[g + 1]
    BY <2>2, <2>a, <2>b
  <2>6. x = l.node[i].next <=> g = m + 1
    <3>1. CASE m = L
      BY <1>5, <2>1, <3>1, IndexRange
    <3>2. CASE m # L
      <4>1. m + 1 \in 1 .. L /\ l.node[i].next = o[m + 1]
        BY <1>5, <1>m, <3>2
      <4>2. o[g] = o[m + 1] => g = m + 1
        BY <1>8, <4>1
      <4> QED
        BY <2>2, <4>1, <4>2, Zenon
    <3> QED
      BY <3>1, <3>2
  <2>7. x = l.node[i].prev <=> g = m - 1
    <3>1. CASE m = 1
      BY <1>5, <2>1, <3>1, IndexRange
    <3>2. CASE m # 1
      <4>1. m - 1 \in 1 .. L /\ l.node[i].prev = o[m - 1]
        BY <1>5, <1>m, <3>2
      <4>2. o[g] = o[m - 1] => g = m - 1
        BY <1>8, <4>1
      <4> QED
        BY <2>2, <4>1, <4>2, Zenon
    <3> QED
      BY <3>1, <3>2
  <2>8. r.node[u[k]].prev = IF k = 1 THEN Null ELSE u[k - 1]
    <3>1. CASE g = m + 1
      BY <1>5, <1>6, <1>m, <2>1, <2>4, <2>6, <3>1
    <3>2. CASE g # m + 1
      BY <1>6, <1>m, <2>1, <2>4, <2>6, <3>2
    <3> QED
      BY <3>1, <3>2
  <2>9. r.node[u[k]].next = IF k = L - 1 THEN Null ELSE u[k + 1]
    <3>1. CASE g = m - 1
      BY <1>5, <1>6, <1>m, <2>1, <2>5, <2>7, <3>1
    <3>2. CASE g # m - 1
      BY <1>6, <1>m, <2>1, <2>5, <2>7, <3>2
    <3> QED
      BY <3>1, <3>2
  <2> QED
    BY <2>8, <2>9
<1>f. Chain(r, u)
  <2>1. r.count = L - 1
    BY <1>7, <1>8
  <2> QED
    BY <1>6, <1>a, <1>b, <1>c, <1>d, <1>e, <2>1 DEF Chain
<1> QED
  BY <1>1, <1>2, <1>3, <1>f

LEMMA TouchShape ==
  ASSUME NEW l \in Shape, NEW i \in Idx, l.head # i,
         l.tail # Null, l.tail = i => l.node[i].prev # Null
  PROVE  /\ Touch(l, i) \in Shape
         /\ Touch(l, i).count = l.count
         /\ Touch(l, i).head = i
         /\ Touch(l, i).tail = IF l.tail = i THEN l.node[i].prev ELSE l.tail
         /\ \A j \in Idx :
              /\ SameData(Touch(l, i).node[j], l.node[j])
              /\ Touch(l, i).node[j].next =
                   IF j = i THEN l.head
                   ELSE IF j = l.node[i].prev THEN l.node[i].next ELSE l.node[j].next
              /\ Touch(l, i).node[j].prev =
                   IF j = l.head THEN i ELSE IF j = i THEN Null
                   ELSE IF j = l.node[i].next THEN l.node[i].prev ELSE l.node[j].prev
<1>1. PICK p : p = l.node[i].prev
  OBVIOUS
<1>2. PICK q : q = l.node[i].next
  OBVIOUS
<1>3. PICK n : n = l.node
  OBVIOUS
<1>h. PICK h : h = l.head
  OBVIOUS
<1>4. /\ n \in [Idx -> Node] /\ p \in Idx \cup {Null} /\ q \in Idx \cup {Null}
      /\ h \in Idx \cup {Null} /\ l.tail \in Idx \cup {Null} /\ l.count \in Int
      /\ h # i
  BY <1>1, <1>2, <1>3, <1>h DEF Shape, Node
<1>5. PICK r : r = BackLink(Link(n, p, q), q, p)
  OBVIOUS
<1>6. /\ r \in [Idx -> Node]
      /\ \A j \in Idx :
           /\ SameData(r[j], n[j])
           /\ r[j].next = IF j = p THEN q ELSE n[j].next
           /\ r[j].prev = IF j = q THEN p ELSE n[j].prev
  <2>1. n \in [Idx -> Node] /\ p \in Idx \cup {Null} /\ q \in Idx \cup {Null}
    BY <1>4
  <2> QED
    <3>1. Joined(r, n, p, q)
      BY <1>5, <2>1, Spliced
    <3> QED
      BY <3>1 DEF Joined
<1>7. PICK f : f = [r EXCEPT ![i].prev = Null, ![i].next = h]
  OBVIOUS
<1>8. /\ f \in [Idx -> Node]
      /\ \A j \in Idx :
           /\ SameData(f[j], r[j])
           /\ f[j].next = IF j = i THEN h ELSE r[j].next
           /\ f[j].prev = IF j = i THEN Null ELSE r[j].prev
  <2>1. r[i] \in Node /\ Null \in Idx \cup {Null}
    BY <1>6
  <2>2. PICK y : y = [r[i] EXCEPT !.prev = Null, !.next = h]
    OBVIOUS
  <2>3. /\ y \in Node /\ SameData(y, r[i]) /\ y.next = h /\ y.prev = Null
    BY <1>4, <2>1, <2>2 DEF Node, SameData
  <2>4. f = [r EXCEPT ![i] = y]
    BY <1>6, <1>7, <2>2
  <2>5. f \in [Idx -> Node]
    BY <1>6, <2>3, <2>4
  <2>6. f[i] = y /\ \A j \in Idx : j # i => f[j] = r[j]
    BY <1>6, <2>4
  <2>7. \A j \in Idx : SameData(r[j], r[j])
    BY DEF SameData
  <2> QED
    BY <2>3, <2>5, <2>6, <2>7
<1>9. PICK b : b = BackLink(f, h, i)
  OBVIOUS
<1>10. /\ b \in [Idx -> Node]
       /\ \A j \in Idx :
            /\ SameData(b[j], f[j]) /\ b[j].next = f[j].next
            /\ b[j].prev = IF j = h THEN i ELSE f[j].prev
  <2>1. f \in [Idx -> Node] /\ h \in Idx \cup {Null} /\ i \in Idx \cup {Null}
    BY <1>4, <1>8
  <2> QED
    <3>1. Preceded(b, f, h, i)
      BY <1>9, <2>1, BackLinked
    <3> QED
      BY <3>1 DEF Preceded
<1>11. PICK t : t = Touch(l, i)
  OBVIOUS
<1>12. t = [l EXCEPT !.node = b, !.head = i, !.tail = IF @ = i THEN p ELSE @]
  <2>1. t = [l EXCEPT !.node = b, !.head = i,
                      !.tail = IF @ \in {i, Null} THEN IF @ = i /\ p # Null THEN p ELSE i
                               ELSE @]
    BY <1>1, <1>2, <1>3, <1>h, <1>4, <1>5, <1>7, <1>9, <1>11, Zenon DEF Touch
  <2>2. /\ l.tail \in {i, Null} => l.tail = i /\ p # Null
        /\ l.tail \notin {i, Null} => l.tail # i
    BY <1>1
  <2> QED
    BY <2>1, <2>2
<1>13. /\ t \in Shape /\ t.node = b /\ t.head = i /\ t.count = l.count
       /\ t.tail = IF l.tail = i THEN p ELSE l.tail
  BY <1>4, <1>10, <1>12 DEF Shape
<1>14. \A j \in Idx :
         /\ SameData(b[j], n[j])
         /\ b[j].next = IF j = i THEN h ELSE IF j = p THEN q ELSE n[j].next
         /\ b[j].prev = IF j = h THEN i ELSE IF j = i THEN Null
                        ELSE IF j = q THEN p ELSE n[j].prev
  BY <1>6, <1>8, <1>10 DEF SameData
<1>15. \A j \in Idx :
         /\ SameData(t.node[j], l.node[j])
         /\ t.node[j].next = IF j = i THEN l.head
                             ELSE IF j = l.node[i].prev THEN l.node[i].next ELSE l.node[j].next
         /\ t.node[j].prev = IF j = l.head THEN i ELSE IF j = i THEN Null
                             ELSE IF j = l.node[i].next THEN l.node[i].prev ELSE l.node[j].prev
  BY <1>1, <1>2, <1>3, <1>h, <1>13, <1>14, Zenon
<1> QED
  BY <1>1, <1>11, <1>13, <1>15, Zenon

\* o as numbers and indexes: what Chain says, with its length named.
LEMMA ChainFacts ==
  ASSUME NEW l \in Shape, NEW o \in Seq(Idx), Chain(l, o), NEW L \in Nat, L = Len(o)
  PROVE  /\ \A j, k \in 1 .. L : o[j] = o[k] => j = k
         /\ \A j \in 1 .. L : o[j] \in Idx
         /\ \A j \in Idx : l.node[j].used <=> \E k \in 1 .. L : o[k] = j
         /\ l.count = L
         /\ l.head = IF L = 0 THEN Null ELSE o[1]
         /\ l.tail = IF L = 0 THEN Null ELSE o[L]
         /\ \A j \in 1 .. L :
              /\ l.node[o[j]].prev = IF j = 1 THEN Null ELSE o[j - 1]
              /\ l.node[o[j]].next = IF j = L THEN Null ELSE o[j + 1]
BY DEF Chain

\* The node at the end of the list has one before it, unless it is the first.
LEMMA TouchBack ==
  ASSUME NEW l \in Shape, NEW o \in Seq(Idx), Chain(l, o), NEW m \in 1 .. Len(o),
         l.head # o[m]
  PROVE  /\ l.tail # Null
         /\ l.tail = o[m] => l.node[o[m]].prev # Null
<1>1. PICK L \in Nat : L = Len(o)
  OBVIOUS
<1>2. /\ l.tail = o[L] /\ l.head = o[1] /\ L >= 1 /\ m \in 1 .. L
      /\ \A j \in 1 .. L : o[j] \in Idx
      /\ l.node[o[m]].prev = IF m = 1 THEN Null ELSE o[m - 1]
  BY <1>1 DEF Chain
<1>3. m # 1 /\ m - 1 \in 1 .. L
  BY <1>2
<1> QED
  BY <1>2, <1>3, IndexRange

LEMMA TouchChain ==
  ASSUME NEW l \in Shape, NEW o \in Seq(Idx), Chain(l, o), NEW m \in 1 .. Len(o),
         l.head # o[m]
  PROVE  Chain(Touch(l, o[m]), Fronted(o, m))
<1>1. PICK i : i = o[m]
  OBVIOUS
<1>2. PICK r : r = Touch(l, i)
  OBVIOUS
<1>3. PICK u : u = Fronted(o, m)
  OBVIOUS
<1>4. PICK L \in Nat : L = Len(o)
  OBVIOUS
<1>m. m \in 1 .. L
  BY <1>4
<1>5. /\ i \in Idx /\ l.node[i].used
      /\ l.node[i].prev = IF m = 1 THEN Null ELSE o[m - 1]
      /\ l.node[i].next = IF m = L THEN Null ELSE o[m + 1]
  BY <1>1, <1>4, ChainAt
<1>6. /\ u \in Seq(Idx) /\ Len(u) = L
      /\ \A j \in 1 .. L :
           u[j] = IF j = 1 THEN o[m] ELSE IF j <= m THEN o[j - 1] ELSE o[j]
  <2>1. IsFronted(Fronted(o, m), o, m, Idx)
    BY <1>3, <1>4, FrontedSeq
  <2> QED
    BY <1>3, <1>4, <2>1 DEF IsFronted
<1>8. /\ \A j, k \in 1 .. L : o[j] = o[k] => j = k
      /\ \A j \in 1 .. L : o[j] \in Idx
      /\ \A j \in Idx : l.node[j].used <=> \E k \in 1 .. L : o[k] = j
      /\ l.count = L
      /\ l.head = IF L = 0 THEN Null ELSE o[1]
      /\ l.tail = IF L = 0 THEN Null ELSE o[L]
      /\ \A j \in 1 .. L :
           /\ l.node[o[j]].prev = IF j = 1 THEN Null ELSE o[j - 1]
           /\ l.node[o[j]].next = IF j = L THEN Null ELSE o[j + 1]
  BY <1>4 DEF Chain
<1>h. PICK h : h = l.head
  OBVIOUS
<1>9. m > 1 /\ L > 1 /\ h = o[1] /\ h # i /\ h \in Idx
  BY <1>1, <1>8, <1>h, <1>m
<1>7. /\ r \in Shape /\ r.count = l.count /\ r.head = i
      /\ r.tail = IF l.tail = i THEN l.node[i].prev ELSE l.tail
      /\ \A j \in Idx :
           /\ SameData(r.node[j], l.node[j])
           /\ r.node[j].next = IF j = i THEN h
                               ELSE IF j = l.node[i].prev THEN l.node[i].next ELSE l.node[j].next
           /\ r.node[j].prev = IF j = h THEN i ELSE IF j = i THEN Null
                               ELSE IF j = l.node[i].next THEN l.node[i].prev ELSE l.node[j].prev
  <2>1. /\ i \in Idx /\ l.head # i
        /\ l.tail # Null /\ (l.tail = i => l.node[i].prev # Null)
    <3>1. /\ l.tail # Null /\ (l.tail = o[m] => l.node[o[m]].prev # Null)
      BY TouchBack
    <3> QED
      BY <1>1, <1>5, <3>1
  <2>2. /\ Touch(l, i) \in Shape /\ Touch(l, i).count = l.count /\ Touch(l, i).head = i
        /\ Touch(l, i).tail = IF l.tail = i THEN l.node[i].prev ELSE l.tail
        /\ \A j \in Idx :
             /\ SameData(Touch(l, i).node[j], l.node[j])
             /\ Touch(l, i).node[j].next =
                  IF j = i THEN l.head
                  ELSE IF j = l.node[i].prev THEN l.node[i].next ELSE l.node[j].next
             /\ Touch(l, i).node[j].prev =
                  IF j = l.head THEN i ELSE IF j = i THEN Null
                  ELSE IF j = l.node[i].next THEN l.node[i].prev ELSE l.node[j].prev
    BY <2>1, TouchShape
  <2> QED
    BY <1>2, <1>h, <2>2, Zenon
<1>10. \A k \in 1 .. L :
         \E g \in 1 .. L : /\ g = (IF k = 1 THEN m ELSE IF k <= m THEN k - 1 ELSE k)
                           /\ u[k] = o[g]
  <2>1. ASSUME NEW k \in 1 .. L
        PROVE  \E g \in 1 .. L : /\ g = (IF k = 1 THEN m ELSE IF k <= m THEN k - 1 ELSE k)
                                 /\ u[k] = o[g]
    <3>1. PICK g : g = (IF k = 1 THEN m ELSE IF k <= m THEN k - 1 ELSE k)
      OBVIOUS
    <3>2. g \in 1 .. L
      BY <1>m, <3>1
    <3>3. u[k] = o[g]
      BY <1>6, <3>1
    <3> QED
      BY <3>1, <3>2, <3>3, Zenon
  <2> QED
    BY <2>1
<1>a. \A j, k \in 1 .. L : u[j] = u[k] => j = k
  <2>1. ASSUME NEW j \in 1 .. L, NEW k \in 1 .. L, u[j] = u[k]
        PROVE  j = k
    <3>1. PICK g \in 1 .. L : /\ g = (IF j = 1 THEN m ELSE IF j <= m THEN j - 1 ELSE j)
                              /\ u[j] = o[g]
      BY <1>10
    <3>2. PICK f \in 1 .. L : /\ f = (IF k = 1 THEN m ELSE IF k <= m THEN k - 1 ELSE k)
                              /\ u[k] = o[f]
      BY <1>10
    <3>3. o[g] = o[f]
      BY <2>1, <3>1, <3>2
    <3>4. g = f
      BY <1>8, <3>3, Zenon
    <3> QED
      BY <1>m, <3>1, <3>2, <3>4
  <2> QED
    BY <2>1
<1>b. \A j \in Idx : r.node[j].used <=> \E k \in 1 .. L : u[k] = j
  <2>1. ASSUME NEW j \in Idx, NEW k \in 1 .. L, u[k] = j
        PROVE  r.node[j].used
    <3>1. PICK g \in 1 .. L : u[k] = o[g]
      BY <1>10
    <3>2. o[g] = j
      BY <2>1, <3>1
    <3>3. l.node[j].used
      BY <1>8, <3>2
    <3> QED
      BY <1>7, <3>3 DEF SameData
  <2>2. ASSUME NEW j \in Idx, r.node[j].used
        PROVE  \E k \in 1 .. L : u[k] = j
    <3>1. l.node[j].used
      BY <1>7, <2>2 DEF SameData
    <3>2. PICK g \in 1 .. L : o[g] = j
      BY <1>8, <3>1
    <3>3. PICK k : k = (IF g = m THEN 1 ELSE IF g < m THEN g + 1 ELSE g)
      OBVIOUS
    <3>4. k \in 1 .. L
      BY <1>m, <3>3
    <3>5. u[k] = o[g]
      BY <1>6, <1>m, <3>3, <3>4
    <3> QED
      BY <3>2, <3>4, <3>5
  <2> QED
    BY <2>1, <2>2
<1>c. r.head = IF L = 0 THEN Null ELSE u[1]
  BY <1>1, <1>6, <1>7, <1>9
<1>d. r.tail = IF L = 0 THEN Null ELSE u[L]
  <2>1. CASE m = L
    <3>1. l.tail = i /\ l.node[i].prev = o[m - 1]
      BY <1>1, <1>5, <1>8, <1>9, <2>1
    <3> QED
      BY <1>6, <1>7, <1>9, <2>1, <3>1
  <2>2. CASE m # L
    <3>1. l.tail = o[L] /\ L \in 1 .. L
      BY <1>8, <1>9
    <3>2. o[L] # i
      BY <1>1, <1>8, <1>m, <2>2, <3>1
    <3> QED
      BY <1>6, <1>7, <1>9, <1>m, <2>2, <3>1, <3>2
  <2> QED
    BY <2>1, <2>2
<1>e. ASSUME NEW k \in 1 .. L
      PROVE  /\ r.node[u[k]].prev = IF k = 1 THEN Null ELSE u[k - 1]
             /\ r.node[u[k]].next = IF k = L THEN Null ELSE u[k + 1]
  <2>1. PICK g \in 1 .. L : /\ g = (IF k = 1 THEN m ELSE IF k <= m THEN k - 1 ELSE k)
                            /\ u[k] = o[g]
    BY <1>10
  <2>2. PICK x \in Idx : x = o[g] /\ x = u[k]
    <3>1. o[g] \in Idx
      BY <1>8
    <3> QED
      BY <2>1, <3>1, Zenon
  <2>a. /\ l.node[x].prev = IF g = 1 THEN Null ELSE o[g - 1]
        /\ l.node[x].next = IF g = L THEN Null ELSE o[g + 1]
    <3>1. /\ l.node[o[g]].prev = IF g = 1 THEN Null ELSE o[g - 1]
          /\ l.node[o[g]].next = IF g = L THEN Null ELSE o[g + 1]
      BY <1>8
    <3> QED
      BY <2>2, <3>1, Zenon
  <2>b. /\ r.node[x].next = IF x = i THEN h
                            ELSE IF x = l.node[i].prev THEN l.node[i].next ELSE l.node[x].next
        /\ r.node[x].prev = IF x = h THEN i ELSE IF x = i THEN Null
                            ELSE IF x = l.node[i].next THEN l.node[i].prev ELSE l.node[x].prev
    BY <1>7, Zenon
  <2>c. \A f \in 1 .. L : x = o[f] <=> g = f
    <3>1. \A f \in 1 .. L : o[g] = o[f] <=> g = f
      BY <1>8
    <3> QED
      BY <2>2, <3>1, Zenon
  <2>3. x = i <=> g = m
    BY <1>1, <1>m, <2>c
  <2>4. x = h <=> g = 1
    <3>1. 1 \in 1 .. L
      BY <1>9
    <3> QED
      BY <1>9, <2>c, <3>1
  <2>6. x = l.node[i].next <=> g = m + 1
    <3>1. CASE m = L
      BY <1>5, <2>1, <3>1, IndexRange
    <3>2. CASE m # L
      <4>1. m + 1 \in 1 .. L /\ l.node[i].next = o[m + 1]
        BY <1>5, <1>m, <3>2
      <4> QED
        BY <2>c, <4>1
    <3> QED
      BY <3>1, <3>2
  <2>7. x = l.node[i].prev <=> g = m - 1
    <3>1. m - 1 \in 1 .. L /\ l.node[i].prev = o[m - 1]
      BY <1>5, <1>m, <1>9
    <3> QED
      BY <2>c, <3>1
  <2>8. CASE k = 1
    <3>1. g = m /\ x = i /\ x # h
      BY <1>9, <2>1, <2>3, <2>8
    <3>2. r.node[x].prev = Null /\ r.node[x].next = o[1]
      BY <1>9, <2>b, <3>1
    <3>3. u[2] = o[1] /\ k # L
      BY <1>6, <1>9, <1>m, <2>8
    <3> QED
      BY <2>2, <2>8, <3>2, <3>3
  <2>9. CASE k # 1 /\ k <= m
    <3>1. g = k - 1 /\ g < m /\ x # i
      BY <1>m, <2>1, <2>3, <2>9
    <3>2. r.node[x].prev = u[k - 1]
      <4>1. CASE g = 1
        BY <1>1, <1>6, <1>9, <2>4, <2>b, <3>1, <4>1
      <4>2. CASE g # 1
        <5>1. r.node[x].prev = o[g - 1]
          BY <1>m, <2>4, <2>6, <2>a, <2>b, <3>1, <4>2
        <5>2. k - 1 \in 1 .. L /\ k - 1 # 1 /\ k - 1 <= m /\ (k - 1) - 1 = g - 1
          BY <1>m, <2>9, <3>1, <4>2
        <5> QED
          BY <1>6, <5>1, <5>2
      <4> QED
        BY <4>1, <4>2
    <3>3. r.node[x].next = IF k = L THEN Null ELSE u[k + 1]
      <4>1. CASE k = m
        <5>1. r.node[x].next = l.node[i].next
          BY <1>m, <2>7, <2>b, <3>1, <4>1
        <5>2. CASE m = L
          BY <1>5, <4>1, <5>1, <5>2
        <5>3. CASE m # L
          <6>1. m + 1 \in 1 .. L /\ ~(m + 1 <= m) /\ m + 1 # 1
            BY <1>m, <5>3
          <6>2. u[m + 1] = o[m + 1]
            BY <1>6, <6>1
          <6> QED
            BY <1>5, <4>1, <5>1, <5>3, <6>2
        <5> QED
          BY <5>2, <5>3
      <4>2. CASE k # m
        <5>1. r.node[x].next = o[g + 1]
          BY <1>m, <2>7, <2>9, <2>a, <2>b, <3>1, <4>2
        <5>2. k + 1 \in 1 .. L /\ k + 1 # 1 /\ k + 1 <= m /\ (k + 1) - 1 = g + 1 /\ k # L
          BY <1>m, <2>9, <3>1, <4>2
        <5> QED
          BY <1>6, <5>1, <5>2
      <4> QED
        BY <4>1, <4>2
    <3> QED
      BY <2>2, <2>9, <3>2, <3>3
  <2>10. CASE k > m
    <3>1. g = k /\ g # m /\ x # i /\ x # h
      BY <1>9, <2>1, <2>3, <2>4, <2>10
    <3>2. r.node[x].prev = u[k - 1]
      <4>0. k - 1 \in 1 .. L /\ k - 1 # 1
        BY <1>9, <1>m, <2>10
      <4>1. CASE k = m + 1
        <5>1. r.node[x].prev = o[m - 1]
          BY <1>5, <1>9, <2>6, <2>b, <3>1, <4>1
        <5> QED
          BY <1>6, <1>m, <4>0, <4>1, <5>1
      <4>2. CASE k # m + 1
        <5>0. x # l.node[i].next /\ l.node[x].prev = o[k - 1]
          BY <1>9, <1>m, <2>6, <2>10, <2>a, <3>1, <4>2
        <5>1. r.node[x].prev = o[k - 1]
          BY <2>b, <3>1, <5>0
        <5>2. ~(k - 1 <= m)
          BY <1>m, <2>10, <4>2
        <5> QED
          BY <1>6, <4>0, <5>1, <5>2
      <4> QED
        BY <4>1, <4>2
    <3>3. r.node[x].next = IF k = L THEN Null ELSE u[k + 1]
      <4>1. r.node[x].next = IF k = L THEN Null ELSE o[k + 1]
        BY <1>m, <2>7, <2>10, <2>a, <2>b, <3>1
      <4>2. k # L => k + 1 \in 1 .. L /\ k + 1 # 1 /\ ~(k + 1 <= m)
        BY <1>m, <2>10
      <4> QED
        BY <1>6, <4>1, <4>2
    <3> QED
      BY <1>9, <2>2, <2>10, <3>2, <3>3
  <2> QED
    BY <1>m, <2>8, <2>9, <2>10
<1>f. Chain(r, u)
  <2>1. r.count = L
    BY <1>7, <1>8
  <2> QED
    BY <1>6, <1>a, <1>b, <1>c, <1>d, <1>e, <2>1 DEF Chain
<1> QED
  BY <1>1, <1>2, <1>3, <1>f

\* t is l with the new node i before the others.
Inserted(t, l, i, k, v, x) ==
  /\ t \in Shape
  /\ t.count = l.count + 1
  /\ t.head = i
  /\ t.tail = IF l.tail = Null THEN i ELSE l.tail
  /\ \A j \in Idx : j # i =>
       /\ SameData(t.node[j], l.node[j])
       /\ t.node[j].next = l.node[j].next
       /\ t.node[j].prev = IF j = l.head THEN i ELSE l.node[j].prev
  /\ t.node[i] =
       [used |-> TRUE, key |-> k, val |-> v, expire |-> x, prev |-> Null, next |-> l.head]

LEMMA InsertShape ==
  ASSUME NEW l \in Shape, NEW i \in Idx, l.head # i,
         NEW k \in Keys, NEW v \in Vals, NEW x \in Int
  PROVE  Inserted(Insert(l, i, k, v, x), l, i, k, v, x)
<1>1. PICK h : h = l.head
  OBVIOUS
<1>2. PICK w : w = [used |-> TRUE, key |-> k, val |-> v, expire |-> x,
                    prev |-> Null, next |-> h]
  OBVIOUS
<1>3. /\ h \in Idx \cup {Null} /\ l.tail \in Idx \cup {Null} /\ l.count \in Int /\ h # i
      /\ l.node \in [Idx -> Node]
  BY <1>1 DEF Shape
<1>4. w \in Node
  BY <1>2, <1>3 DEF Node
<1>5. PICK f : f = [l.node EXCEPT ![i] = w]
  OBVIOUS
<1>6. f \in [Idx -> Node] /\ f[i] = w /\ \A j \in Idx : j # i => f[j] = l.node[j]
  BY <1>3, <1>4, <1>5
<1>7. PICK b : b = BackLink(f, h, i)
  OBVIOUS
<1>8. /\ b \in [Idx -> Node]
      /\ \A j \in Idx :
           /\ SameData(b[j], f[j]) /\ b[j].next = f[j].next
           /\ b[j].prev = IF j = h THEN i ELSE f[j].prev
  <2>1. f \in [Idx -> Node] /\ h \in Idx \cup {Null} /\ i \in Idx \cup {Null}
    BY <1>3, <1>6
  <2> QED
    <3>1. Preceded(b, f, h, i)
      BY <1>7, <2>1, BackLinked
    <3> QED
      BY <3>1 DEF Preceded
<1>9. b[i] = w
  <2>1. b[i] \in Node
    BY <1>8
  <2>2. SameData(b[i], w) /\ b[i].next = w.next /\ b[i].prev = w.prev
    BY <1>3, <1>6, <1>8
  <2> QED
    BY <1>4, <2>1, <2>2 DEF Node, SameData
<1>10. PICK t : t = Insert(l, i, k, v, x)
  OBVIOUS
<1>11. t = [node |-> b, head |-> i, tail |-> IF l.tail = Null THEN i ELSE l.tail,
            count |-> l.count + 1]
  BY <1>1, <1>2, <1>5, <1>7, <1>10, Zenon DEF Insert
<1>12. /\ t \in Shape /\ t.node = b /\ t.head = i /\ t.count = l.count + 1
       /\ t.tail = IF l.tail = Null THEN i ELSE l.tail
  BY <1>3, <1>8, <1>11 DEF Shape
<1>13. \A j \in Idx : j # i =>
         /\ SameData(b[j], l.node[j]) /\ b[j].next = l.node[j].next
         /\ b[j].prev = IF j = h THEN i ELSE l.node[j].prev
  BY <1>6, <1>8
<1>14. Inserted(t, l, i, k, v, x)
  BY <1>1, <1>2, <1>9, <1>12, <1>13 DEF Inserted
<1> QED
  BY <1>10, <1>14

LEMMA InsertChain ==
  ASSUME NEW l \in Shape, NEW o \in Seq(Idx), Chain(l, o), NEW i \in Idx, ~l.node[i].used,
         NEW k \in Keys, NEW v \in Vals, NEW x \in Int
  PROVE  Chain(Insert(l, i, k, v, x), Pushed(i, o)) /\ l.head # i
<1>2. PICK r : r = Insert(l, i, k, v, x)
  OBVIOUS
<1>3. PICK u : u = Pushed(i, o)
  OBVIOUS
<1>4. PICK L \in Nat : L = Len(o)
  OBVIOUS
<1>6. /\ u \in Seq(Idx) /\ Len(u) = L + 1
      /\ \A j \in 1 .. L + 1 : u[j] = IF j = 1 THEN i ELSE o[j - 1]
  <2>1. /\ Pushed(i, o) \in Seq(Idx) /\ Len(Pushed(i, o)) = Len(o) + 1
        /\ \A j \in 1 .. Len(o) + 1 : Pushed(i, o)[j] = IF j = 1 THEN i ELSE o[j - 1]
    <3>1. IsPushed(Pushed(i, o), i, o, Idx)
      BY PushedSeq
    <3> QED
      BY <3>1 DEF IsPushed
  <2> QED
    BY <1>3, <1>4, <2>1, Zenon
<1>8. /\ \A j, g \in 1 .. L : o[j] = o[g] => j = g
      /\ \A j \in 1 .. L : o[j] \in Idx
      /\ \A j \in Idx : l.node[j].used <=> \E g \in 1 .. L : o[g] = j
      /\ l.count = L
      /\ l.head = IF L = 0 THEN Null ELSE o[1]
      /\ l.tail = IF L = 0 THEN Null ELSE o[L]
      /\ \A j \in 1 .. L :
           /\ l.node[o[j]].prev = IF j = 1 THEN Null ELSE o[j - 1]
           /\ l.node[o[j]].next = IF j = L THEN Null ELSE o[j + 1]
  BY <1>4 DEF Chain
<1>9. \A j \in 1 .. L : o[j] # i
  BY <1>8
<1>h. PICK h : h = l.head
  OBVIOUS
<1>10. h # i
  BY <1>8, <1>9, <1>h, IndexRange
<1>7. /\ r \in Shape /\ r.count = l.count + 1 /\ r.head = i
      /\ r.tail = IF l.tail = Null THEN i ELSE l.tail
      /\ \A j \in Idx : j # i =>
           /\ SameData(r.node[j], l.node[j])
           /\ r.node[j].next = l.node[j].next
           /\ r.node[j].prev = IF j = h THEN i ELSE l.node[j].prev
      /\ r.node[i] = [used |-> TRUE, key |-> k, val |-> v, expire |-> x,
                      prev |-> Null, next |-> h]
  <2>1. l.head # i
    BY <1>h, <1>10
  <2>2. Inserted(r, l, i, k, v, x)
    BY <1>2, <2>1, InsertShape
  <2> QED
    BY <1>h, <2>2 DEF Inserted
<1>a. \A j, g \in 1 .. L + 1 : u[j] = u[g] => j = g
  <2>1. ASSUME NEW j \in 1 .. L + 1, NEW g \in 1 .. L + 1, u[j] = u[g]
        PROVE  j = g
    <3>1. CASE j = 1 \/ g = 1
      <4>1. \A f \in 1 .. L + 1 : f # 1 => u[f] # i
        BY <1>6, <1>9
      <4>2. u[1] = i
        BY <1>6
      <4> QED
        BY <2>1, <3>1, <4>1, <4>2
    <3>2. CASE j # 1 /\ g # 1
      <4>1. j - 1 \in 1 .. L /\ g - 1 \in 1 .. L
        BY <3>2
      <4>2. o[j - 1] = o[g - 1]
        BY <1>6, <2>1, <3>2
      <4>3. j - 1 = g - 1
        BY <1>8, <4>1, <4>2
      <4> QED
        BY <4>3
    <3> QED
      BY <3>1, <3>2
  <2> QED
    BY <2>1
<1>b. \A j \in Idx : r.node[j].used <=> \E g \in 1 .. L + 1 : u[g] = j
  <2>1. ASSUME NEW j \in Idx, NEW g \in 1 .. L + 1, u[g] = j
        PROVE  r.node[j].used
    <3>1. CASE j = i
      BY <1>7, <3>1
    <3>2. CASE j # i
      <4>1. g - 1 \in 1 .. L /\ o[g - 1] = j
        BY <1>6, <2>1, <3>2
      <4>2. l.node[j].used
        BY <1>8, <4>1
      <4> QED
        BY <1>7, <3>2, <4>2 DEF SameData
    <3> QED
      BY <3>1, <3>2
  <2>2. ASSUME NEW j \in Idx, r.node[j].used
        PROVE  \E g \in 1 .. L + 1 : u[g] = j
    <3>1. CASE j = i
      <4>1. 1 \in 1 .. L + 1 /\ u[1] = i
        BY <1>6
      <4> QED
        BY <3>1, <4>1
    <3>2. CASE j # i
      <4>1. l.node[j].used
        BY <1>7, <2>2, <3>2 DEF SameData
      <4>2. PICK g \in 1 .. L : o[g] = j
        BY <1>8, <4>1
      <4>3. g + 1 \in 1 .. L + 1 /\ (g + 1) - 1 = g /\ g + 1 # 1
        OBVIOUS
      <4>4. u[g + 1] = o[g]
        BY <1>6, <4>3
      <4> QED
        BY <4>2, <4>3, <4>4
    <3> QED
      BY <3>1, <3>2
  <2> QED
    BY <2>1, <2>2
<1>c. r.head = IF L + 1 = 0 THEN Null ELSE u[1]
  BY <1>6, <1>7
<1>d. r.tail = IF L + 1 = 0 THEN Null ELSE u[L + 1]
  <2>1. CASE L = 0
    BY <1>6, <1>7, <1>8, <2>1
  <2>2. CASE L # 0
    <3>1. l.tail = o[L] /\ o[L] \in Idx /\ u[L + 1] = o[L]
      <4>1. L \in 1 .. L /\ L + 1 \in 1 .. L + 1 /\ L + 1 # 1 /\ (L + 1) - 1 = L
        BY <2>2
      <4>2. u[L + 1] = o[L]
        BY <1>6, <4>1
      <4> QED
        BY <1>8, <2>2, <4>1, <4>2
    <3> QED
      BY <1>7, <3>1, IndexRange
  <2> QED
    BY <2>1, <2>2
<1>e. ASSUME NEW g \in 1 .. L + 1
      PROVE  /\ r.node[u[g]].prev = IF g = 1 THEN Null ELSE u[g - 1]
             /\ r.node[u[g]].next = IF g = L + 1 THEN Null ELSE u[g + 1]
  <2>1. CASE g = 1
    <3>1. u[g] = i /\ r.node[i].prev = Null /\ r.node[i].next = h
      BY <1>6, <1>7, <2>1
    <3>2. CASE L = 0
      BY <1>8, <1>h, <2>1, <3>1, <3>2
    <3>3. CASE L # 0
      <4>1. h = o[1] /\ u[2] = o[1]
        BY <1>6, <1>8, <1>h, <3>3
      <4> QED
        BY <2>1, <3>1, <3>3, <4>1
    <3> QED
      BY <3>2, <3>3
  <2>2. CASE g # 1
    <3>1. PICK f \in 1 .. L : f = g - 1
      BY <2>2
    <3>2. PICK y \in Idx : y = o[f] /\ y = u[g]
      <4>1. o[f] \in Idx /\ u[g] = o[f]
        BY <1>6, <1>8, <2>2, <3>1
      <4> QED
        BY <4>1, Zenon
    <3>3. y # i
      BY <1>9, <3>2
    <3>4. /\ l.node[y].prev = IF f = 1 THEN Null ELSE o[f - 1]
          /\ l.node[y].next = IF f = L THEN Null ELSE o[f + 1]
      <4>1. /\ l.node[o[f]].prev = IF f = 1 THEN Null ELSE o[f - 1]
            /\ l.node[o[f]].next = IF f = L THEN Null ELSE o[f + 1]
        BY <1>8
      <4> QED
        BY <3>2, <4>1, Zenon
    <3>5. /\ r.node[y].next = l.node[y].next
          /\ r.node[y].prev = IF y = h THEN i ELSE l.node[y].prev
      BY <1>7, <3>3
    <3>6. y = h <=> f = 1
      <4>1. 1 \in 1 .. L /\ h = o[1]
        BY <1>8, <1>h
      <4>2. o[f] = o[1] <=> f = 1
        BY <1>8, <4>1
      <4> QED
        BY <3>2, <4>1, <4>2
    <3>7. u[g - 1] = IF f = 1 THEN i ELSE o[f - 1]
      BY <1>6, <2>2, <3>1
    <3>8. g # L + 1 => u[g + 1] = o[f + 1]
      BY <1>6, <2>2, <3>1
    <3> QED
      BY <2>2, <3>1, <3>2, <3>4, <3>5, <3>6, <3>7, <3>8
  <2> QED
    BY <2>1, <2>2
<1>f. Chain(r, u)
  <2>1. r.count = L + 1
    BY <1>7, <1>8
  <2> QED
    BY <1>6, <1>a, <1>b, <1>c, <1>d, <1>e, <2>1 DEF Chain
<1> QED
  BY <1>2, <1>3, <1>f, <1>h, <1>10

\* There is one order of the nodes in use.
LEMMA ChainUnique ==
  ASSUME NEW l \in Shape, NEW o \in Seq(Idx), NEW u \in Seq(Idx), Chain(l, o), Chain(l, u)
  PROVE  o = u
<1>1. PICK L \in Nat : L = Len(o)
  OBVIOUS
<1>2. Len(u) = L
  BY <1>1 DEF Chain
<1> DEFINE Bad == {j \in 1 .. L : o[j] # u[j]}
<1>3. CASE Bad = {}
  <2>1. \A j \in 1 .. Len(o) : o[j] = u[j]
    BY <1>1, <1>3
  <2> QED
    BY <1>1, <1>2, <2>1, SeqEqual
<1>4. CASE Bad # {}
  <2>1. Bad \in SUBSET Nat
    OBVIOUS
  <2>2. PICK j : j = Lowest(Bad)
    OBVIOUS
  <2>3. j \in Bad /\ \A i \in Bad : j <= i
    <3> HIDE DEF Bad
    <3> QED
      BY <1>4, <2>1, <2>2, LowestIs
  <2>4. CASE j = 1
    BY <1>1, <1>2, <2>3, <2>4 DEF Chain
  <2>5. CASE j # 1
    <3>1. PICK i \in 1 .. L : i = j - 1
      BY <2>3, <2>5
    <3>2. o[i] = u[i]
      BY <2>3, <3>1
    <3>a. i \in 1 .. Len(o) /\ i # Len(o) /\ i \in 1 .. Len(u) /\ i # Len(u)
      BY <1>1, <1>2, <2>3, <3>1
    <3>3. l.node[o[i]].next = o[i + 1]
      BY <3>a, ChainAt
    <3>4. l.node[u[i]].next = u[i + 1]
      BY <3>a, ChainAt
    <3>5. i + 1 = j
      BY <2>3, <3>1
    <3>6. o[j] = u[j]
      BY <3>2, <3>3, <3>4, <3>5
    <3> QED
      BY <2>3, <3>6
  <2> QED
    BY <2>4, <2>5
<1> QED
  BY <1>3, <1>4

\* While not all nodes are taken, one is found.
LEMMA AllocFree ==
  ASSUME NEW l \in Shape, NEW o \in Seq(Idx), Chain(l, o), Len(o) < MaxNodes
  PROVE  Alloc(l) \in Idx /\ ~l.node[Alloc(l)].used
<1>1. PICK L \in Nat : L = Len(o)
  OBVIOUS
<1>2. ASSUME Idx \ Used(l) = {}
      PROVE  FALSE
  <2>1. \A i \in Idx : \E j \in 1 .. L : o[j] = i
    BY <1>1, <1>2 DEF Used, Chain
  <2>2. o \in [1 .. L -> Idx]
    BY <1>1
  <2>3. ExistsSurjection(1 .. L, Idx)
    BY <2>1, <2>2, Zenon DEF ExistsSurjection, Surjection
  <2>4. Cardinality(Idx) <= L
    BY <2>3, FS_SurjCardinalityBound
  <2>5. Cardinality(Idx) = MaxNodes
    BY IndexRange, FS_Interval DEF Idx
  <2> QED
    BY <1>1, <2>4, <2>5, IndexRange
<1>3. Idx \ Used(l) \in SUBSET Nat
  BY IndexRange DEF Idx
<1>4. Alloc(l) \in Idx \ Used(l)
  BY <1>2, <1>3, LowestIs DEF Alloc
<1> QED
  BY <1>4 DEF Used

LEMMA FindIs ==
  ASSUME NEW l, NEW k
  PROVE  \/ Find(l, k) = Null /\ \A i \in Idx : l.node[i].used => l.node[i].key # k
         \/ Find(l, k) \in Idx /\ l.node[Find(l, k)].used /\ l.node[Find(l, k)].key = k
<1> DEFINE S == {i \in Used(l) : l.node[i].key = k}
<1>1. S \in SUBSET Nat
  BY IndexRange DEF Idx, Used
<1>2. Find(l, k) = Lowest(S)
  BY DEF Find
<1>3. CASE S = {}
  <2>1. Find(l, k) = Null
    BY <1>1, <1>2, <1>3, LowestIs
  <2> QED
    BY <1>3, <2>1 DEF Used
<1>4. CASE S # {}
  <2>1. Find(l, k) \in S
    <3> HIDE DEF S
    <3> QED
      BY <1>1, <1>2, <1>4, LowestIs
  <2> QED
    BY <2>1 DEF Used
<1> QED
  BY <1>3, <1>4

-----------------------------------------------------------------------------
(* What the operations do to the entries. *)

Entry == [key : Keys \cup {NoVal}, val : Vals \cup {NoVal}, expire : Int]

EntryOf(n) == [key |-> n.key, val |-> n.val, expire |-> n.expire]

LEMMA EntriesSeq ==
  ASSUME NEW l \in Shape, NEW o \in Seq(Idx)
  PROVE  /\ EntriesAlong(l, o) \in Seq(Entry)
         /\ Len(EntriesAlong(l, o)) = Len(o)
         /\ \A j \in 1 .. Len(o) : EntriesAlong(l, o)[j] = EntryOf(l.node[o[j]])
<1>1. Len(o) \in Nat
  OBVIOUS
<1>2. \A j \in 1 .. Len(o) :
        [key |-> l.node[o[j]].key, val |-> l.node[o[j]].val,
         expire |-> l.node[o[j]].expire] \in Entry
  <2>1. ASSUME NEW j \in 1 .. Len(o)
        PROVE  [key |-> l.node[o[j]].key, val |-> l.node[o[j]].val,
                expire |-> l.node[o[j]].expire] \in Entry
    <3>1. o[j] \in Idx
      OBVIOUS
    <3>2. l.node[o[j]] \in Node
      BY <3>1 DEF Shape
    <3> QED
      BY <3>2 DEF Node, Entry
  <2> QED
    BY <2>1
<1> QED
  BY <1>1, <1>2 DEF EntriesAlong, EntryOf

\* The entries are those along any order of the nodes that the links give.
LEMMA OrderIs ==
  ASSUME NEW l \in Shape, NEW o \in Orders, Chain(l, o)
  PROVE  Order(l) = o /\ o \in Seq(Idx)
<1>1. \A u \in Orders : u \in Seq(Idx)
  BY DEF Orders
<1>2. Order(l) \in Orders /\ Chain(l, Order(l))
  BY DEF Order
<1> QED
  BY <1>1, <1>2, ChainUnique

LEMMA InOrders ==
  ASSUME NEW o \in Seq(Idx), Len(o) <= MaxNodes
  PROVE  o \in Orders
<1>1. Len(o) \in 0 .. MaxNodes /\ o \in [1 .. Len(o) -> Idx]
  BY IndexRange
<1> QED
  BY <1>1 DEF Orders

LEMMA CutEntries ==
  ASSUME NEW l \in Shape, NEW o \in Seq(Idx), Chain(l, o), NEW m \in 1 .. Len(o)
  PROVE  EntriesAlong(RemoveNode(l, o[m]), Cut(o, m)) = Cut(EntriesAlong(l, o), m)
<1>1. PICK r : r = RemoveNode(l, o[m])
  OBVIOUS
<1>2. PICK u : u = Cut(o, m)
  OBVIOUS
<1>3. PICK s : s = EntriesAlong(l, o)
  OBVIOUS
<1>4. PICK L \in Nat : L = Len(o)
  OBVIOUS
<1>5. /\ u \in Seq(Idx) /\ Len(u) = L - 1
      /\ \A j \in 1 .. L - 1 : u[j] = IF j < m THEN o[j] ELSE o[j + 1]
  <2>1. IsCut(Cut(o, m), o, m, Idx)
    BY <1>2, <1>4, CutSeq
  <2> QED
    BY <1>2, <1>4, <2>1 DEF IsCut
<1>6. /\ s \in Seq(Entry) /\ Len(s) = L /\ \A j \in 1 .. L : s[j] = EntryOf(l.node[o[j]])
  BY <1>3, <1>4, EntriesSeq
<1>7. /\ Cut(s, m) \in Seq(Entry) /\ Len(Cut(s, m)) = L - 1
      /\ \A j \in 1 .. L - 1 : Cut(s, m)[j] = IF j < m THEN s[j] ELSE s[j + 1]
  <2>1. IsCut(Cut(s, m), s, m, Entry)
    BY <1>4, <1>6, CutSeq
  <2> QED
    BY <1>4, <1>6, <2>1 DEF IsCut
<1>8. /\ r \in Shape
      /\ \A j \in Idx : j # o[m] => SameData(r.node[j], l.node[j])
  <2>1. PICK i : i = o[m]
    OBVIOUS
  <2>2. i \in Idx
    BY <2>1
  <2> QED
    BY <1>1, <2>1, <2>2, RemoveShape
<1>9. /\ EntriesAlong(r, u) \in Seq(Entry) /\ Len(EntriesAlong(r, u)) = L - 1
      /\ \A j \in 1 .. L - 1 : EntriesAlong(r, u)[j] = EntryOf(r.node[u[j]])
  BY <1>5, <1>8, EntriesSeq
<1>10. ASSUME NEW j \in 1 .. L - 1
       PROVE  EntriesAlong(r, u)[j] = Cut(s, m)[j]
  <2>1. PICK g : g = IF j < m THEN j ELSE j + 1
    OBVIOUS
  <2>2. g \in 1 .. L /\ g # m
    BY <1>4, <2>1
  <2>3. PICK x : x = o[g]
    OBVIOUS
  <2>4. x = u[j] /\ x \in Idx
    BY <1>4, <1>5, <2>1, <2>2, <2>3
  <2>5. x # o[m]
    BY <1>4, <2>2, <2>3 DEF Chain
  <2>6. SameData(r.node[x], l.node[x])
    BY <1>8, <2>4, <2>5
  <2>7. EntryOf(r.node[x]) = EntryOf(l.node[x])
    BY <2>6 DEF SameData, EntryOf
  <2>8. s[g] = EntryOf(l.node[x])
    BY <1>6, <2>2, <2>3
  <2>9. Cut(s, m)[j] = s[g]
    BY <1>7, <2>1
  <2>10. EntriesAlong(r, u)[j] = EntryOf(r.node[x])
    BY <1>9, <2>4
  <2> QED
    BY <2>7, <2>8, <2>9, <2>10
<1>11. EntriesAlong(r, u) = Cut(s, m)
  BY <1>7, <1>9, <1>10, SeqEqual
<1> QED
  BY <1>1, <1>2, <1>3, <1>11

LEMMA TouchEntries ==
  ASSUME NEW l \in Shape, NEW o \in Seq(Idx), Chain(l, o), NEW m \in 1 .. Len(o),
         l.head # o[m]
  PROVE  EntriesAlong(Touch(l, o[m]), Fronted(o, m)) = Fronted(EntriesAlong(l, o), m)
<1>1. PICK r : r = Touch(l, o[m])
  OBVIOUS
<1>2. PICK u : u = Fronted(o, m)
  OBVIOUS
<1>3. PICK s : s = EntriesAlong(l, o)
  OBVIOUS
<1>4. PICK L \in Nat : L = Len(o)
  OBVIOUS
<1>5. /\ u \in Seq(Idx) /\ Len(u) = L
      /\ \A j \in 1 .. L :
           u[j] = IF j = 1 THEN o[m] ELSE IF j <= m THEN o[j - 1] ELSE o[j]
  <2>1. IsFronted(Fronted(o, m), o, m, Idx)
    BY <1>2, <1>4, FrontedSeq
  <2> QED
    BY <1>2, <1>4, <2>1 DEF IsFronted
<1>6. /\ s \in Seq(Entry) /\ Len(s) = L /\ \A j \in 1 .. L : s[j] = EntryOf(l.node[o[j]])
  BY <1>3, <1>4, EntriesSeq
<1>7. /\ Fronted(s, m) \in Seq(Entry) /\ Len(Fronted(s, m)) = L
      /\ \A j \in 1 .. L :
           Fronted(s, m)[j] = IF j = 1 THEN s[m] ELSE IF j <= m THEN s[j - 1] ELSE s[j]
  <2>1. s \in Seq(Entry) /\ m \in 1 .. Len(s)
    BY <1>4, <1>6
  <2>2. /\ Fronted(s, m) \in Seq(Entry) /\ Len(Fronted(s, m)) = Len(s)
        /\ \A j \in 1 .. Len(s) :
             Fronted(s, m)[j] = IF j = 1 THEN s[m] ELSE IF j <= m THEN s[j - 1] ELSE s[j]
    <3>1. IsFronted(Fronted(s, m), s, m, Entry)
      BY <2>1, FrontedSeq
    <3> QED
      BY <2>1, <3>1 DEF IsFronted
  <2> QED
    BY <1>6, <2>2, Zenon
<1>8. r \in Shape /\ \A j \in Idx : SameData(r.node[j], l.node[j])
  <2>1. PICK i : i = o[m]
    OBVIOUS
  <2>2. /\ i \in Idx /\ l.head # i
        /\ l.tail # Null /\ (l.tail = i => l.node[i].prev # Null)
    <3>1. /\ l.tail # Null /\ (l.tail = o[m] => l.node[o[m]].prev # Null)
      BY TouchBack
    <3> QED
      BY <2>1, <3>1
  <2> QED
    BY <1>1, <2>1, <2>2, TouchShape
<1>9. /\ EntriesAlong(r, u) \in Seq(Entry) /\ Len(EntriesAlong(r, u)) = L
      /\ \A j \in 1 .. L : EntriesAlong(r, u)[j] = EntryOf(r.node[u[j]])
  BY <1>5, <1>8, EntriesSeq
<1>10. ASSUME NEW j \in 1 .. L
       PROVE  EntriesAlong(r, u)[j] = Fronted(s, m)[j]
  <2>1. PICK g : g = IF j = 1 THEN m ELSE IF j <= m THEN j - 1 ELSE j
    OBVIOUS
  <2>2. g \in 1 .. L
    BY <1>4, <2>1
  <2>3. PICK x : x = o[g]
    OBVIOUS
  <2>4. x = u[j] /\ x \in Idx
    BY <1>4, <1>5, <2>1, <2>2, <2>3
  <2>6. SameData(r.node[x], l.node[x])
    BY <1>8, <2>4
  <2>7. EntryOf(r.node[x]) = EntryOf(l.node[x])
    BY <2>6 DEF SameData, EntryOf
  <2>8. s[g] = EntryOf(l.node[x])
    BY <1>6, <2>2, <2>3
  <2>9. Fronted(s, m)[j] = s[g]
    BY <1>7, <2>1
  <2>10. EntriesAlong(r, u)[j] = EntryOf(r.node[x])
    BY <1>9, <2>4
  <2> QED
    BY <2>7, <2>8, <2>9, <2>10
<1>11. EntriesAlong(r, u) = Fronted(s, m)
  BY <1>7, <1>9, <1>10, SeqEqual
<1> QED
  BY <1>1, <1>2, <1>3, <1>11

LEMMA PushEntries ==
  ASSUME NEW l \in Shape, NEW o \in Seq(Idx), Chain(l, o), NEW i \in Idx, ~l.node[i].used,
         NEW k \in Keys, NEW v \in Vals, NEW x \in Int
  PROVE  EntriesAlong(Insert(l, i, k, v, x), Pushed(i, o))
           = Pushed([key |-> k, val |-> v, expire |-> x], EntriesAlong(l, o))
<1>1. PICK r : r = Insert(l, i, k, v, x)
  OBVIOUS
<1>2. PICK u : u = Pushed(i, o)
  OBVIOUS
<1>3. PICK s : s = EntriesAlong(l, o)
  OBVIOUS
<1>4. PICK L \in Nat : L = Len(o)
  OBVIOUS
<1>0. PICK e : e = [key |-> k, val |-> v, expire |-> x]
  OBVIOUS
<1>5. /\ u \in Seq(Idx) /\ Len(u) = L + 1
      /\ \A j \in 1 .. L + 1 : u[j] = IF j = 1 THEN i ELSE o[j - 1]
  <2>1. /\ Pushed(i, o) \in Seq(Idx) /\ Len(Pushed(i, o)) = Len(o) + 1
        /\ \A j \in 1 .. Len(o) + 1 : Pushed(i, o)[j] = IF j = 1 THEN i ELSE o[j - 1]
    <3>1. IsPushed(Pushed(i, o), i, o, Idx)
      BY PushedSeq
    <3> QED
      BY <3>1 DEF IsPushed
  <2> QED
    BY <1>2, <1>4, <2>1, Zenon
<1>6. /\ s \in Seq(Entry) /\ Len(s) = L /\ \A j \in 1 .. L : s[j] = EntryOf(l.node[o[j]])
  BY <1>3, <1>4, EntriesSeq
<1>e. e \in Entry
  BY <1>0 DEF Entry
<1>7. /\ Pushed(e, s) \in Seq(Entry) /\ Len(Pushed(e, s)) = L + 1
      /\ \A j \in 1 .. L + 1 : Pushed(e, s)[j] = IF j = 1 THEN e ELSE s[j - 1]
  <2>1. s \in Seq(Entry)
    BY <1>6
  <2>2. /\ Pushed(e, s) \in Seq(Entry) /\ Len(Pushed(e, s)) = Len(s) + 1
        /\ \A j \in 1 .. Len(s) + 1 : Pushed(e, s)[j] = IF j = 1 THEN e ELSE s[j - 1]
    <3>1. IsPushed(Pushed(e, s), e, s, Entry)
      BY <1>e, <2>1, PushedSeq
    <3> QED
      BY <1>e, <2>1, <3>1 DEF IsPushed
  <2> QED
    BY <1>6, <2>2, Zenon
<1>8. /\ r \in Shape /\ EntryOf(r.node[i]) = e
      /\ \A j \in Idx : j # i => SameData(r.node[j], l.node[j])
  <2>1. l.head # i
    BY InsertChain
  <2>2. Inserted(r, l, i, k, v, x)
    BY <1>1, <2>1, InsertShape
  <2> QED
    BY <1>0, <2>2 DEF Inserted, EntryOf
<1>9. /\ EntriesAlong(r, u) \in Seq(Entry) /\ Len(EntriesAlong(r, u)) = L + 1
      /\ \A j \in 1 .. L + 1 : EntriesAlong(r, u)[j] = EntryOf(r.node[u[j]])
  BY <1>5, <1>8, EntriesSeq
<1>10. ASSUME NEW j \in 1 .. L + 1
       PROVE  EntriesAlong(r, u)[j] = Pushed(e, s)[j]
  <2>1. CASE j = 1
    BY <1>5, <1>7, <1>8, <1>9, <2>1
  <2>2. CASE j # 1
    <3>1. PICK g \in 1 .. L : g = j - 1
      BY <2>2
    <3>2. PICK y : y = o[g]
      OBVIOUS
    <3>3. y = u[j] /\ y \in Idx
      BY <1>4, <1>5, <2>2, <3>1, <3>2
    <3>4. l.node[y].used
      BY <1>4, <3>2, <3>3 DEF Chain
    <3>5. SameData(r.node[y], l.node[y])
      BY <1>8, <3>3, <3>4
    <3>6. EntryOf(r.node[y]) = EntryOf(l.node[y])
      BY <3>5 DEF SameData, EntryOf
    <3>7. s[g] = EntryOf(l.node[y])
      BY <1>6, <3>2
    <3>8. Pushed(e, s)[j] = s[g]
      BY <1>7, <2>2, <3>1
    <3>9. EntriesAlong(r, u)[j] = EntryOf(r.node[y])
      BY <1>9, <3>3
    <3> QED
      BY <3>6, <3>7, <3>8, <3>9
  <2> QED
    BY <2>1, <2>2
<1>11. EntriesAlong(r, u) = Pushed(e, s)
  BY <1>7, <1>9, <1>10, SeqEqual
<1> QED
  BY <1>0, <1>1, <1>2, <1>3, <1>11

\* Moving an element to the front takes it out and puts it there.
LEMMA FrontedIs ==
  ASSUME NEW T, NEW s \in Seq(T), NEW m \in 1 .. Len(s)
  PROVE  Fronted(s, m) = Pushed(s[m], Cut(s, m))
<1>1. PICK L \in Nat : L = Len(s)
  OBVIOUS
<1>2. PICK a : a = Cut(s, m)
  OBVIOUS
<1>3. /\ a \in Seq(T) /\ Len(a) = L - 1
      /\ \A j \in 1 .. L - 1 : a[j] = IF j < m THEN s[j] ELSE s[j + 1]
  <2>1. IsCut(Cut(s, m), s, m, T)
    BY <1>1, <1>2, CutSeq
  <2> QED
    BY <1>1, <1>2, <2>1 DEF IsCut
<1>4. PICK e \in T : e = s[m]
  OBVIOUS
<1>5. /\ Pushed(e, a) \in Seq(T) /\ Len(Pushed(e, a)) = L
      /\ \A j \in 1 .. L : Pushed(e, a)[j] = IF j = 1 THEN e ELSE a[j - 1]
  <2>1. a \in Seq(T)
    BY <1>3
  <2>2. /\ Pushed(e, a) \in Seq(T) /\ Len(Pushed(e, a)) = Len(a) + 1
        /\ \A j \in 1 .. Len(a) + 1 : Pushed(e, a)[j] = IF j = 1 THEN e ELSE a[j - 1]
    <3>1. IsPushed(Pushed(e, a), e, a, T)
      BY <2>1, PushedSeq
    <3> QED
      BY <2>1, <3>1 DEF IsPushed
  <2>3. Len(a) + 1 = L
    BY <1>1, <1>3
  <2> QED
    BY <2>2, <2>3, Zenon
<1>6. /\ Fronted(s, m) \in Seq(T) /\ Len(Fronted(s, m)) = L
      /\ \A j \in 1 .. L :
           Fronted(s, m)[j] = IF j = 1 THEN s[m] ELSE IF j <= m THEN s[j - 1] ELSE s[j]
  <2>1. IsFronted(Fronted(s, m), s, m, T)
    BY <1>1, FrontedSeq
  <2> QED
    BY <1>1, <2>1 DEF IsFronted
<1>7. ASSUME NEW j \in 1 .. L
      PROVE  Fronted(s, m)[j] = Pushed(e, a)[j]
  <2>1. CASE j = 1
    BY <1>4, <1>5, <1>6, <2>1
  <2>2. CASE j # 1
    <3>1. j - 1 \in 1 .. L - 1 /\ (j - 1) + 1 = j /\ (j - 1 < m <=> j <= m)
      BY <1>1, <2>2
    <3>2. a[j - 1] = IF j <= m THEN s[j - 1] ELSE s[j]
      BY <1>3, <3>1
    <3> QED
      BY <1>5, <1>6, <2>2, <3>2
  <2> QED
    BY <2>1, <2>2
<1>8. Fronted(s, m) = Pushed(e, a)
  BY <1>5, <1>6, <1>7, SeqEqual
<1> QED
  BY <1>2, <1>4, <1>8

-----------------------------------------------------------------------------
(* The same without naming the order. *)

State(l) == l \in Shape /\ l.count \in 0 .. Capacity /\ \E o \in Orders : Chain(l, o)

List(l) == EntriesAlong(l, Order(l))

\* A state has an order of its nodes, and its entries are those along it.
LEMMA StateOrder ==
  ASSUME NEW l, State(l)
  PROVE  \E o \in Seq(Idx) :
           /\ o \in Orders /\ Chain(l, o) /\ l \in Shape
           /\ Len(o) = l.count /\ Len(o) \in 0 .. Capacity
           /\ List(l) = EntriesAlong(l, o)
<1>1. PICK o \in Orders : Chain(l, o)
  BY DEF State
<1>2. l \in Shape /\ l.count \in 0 .. Capacity
  BY DEF State
<1>3. Order(l) = o /\ o \in Seq(Idx)
  BY <1>1, <1>2, OrderIs
<1>4. Len(o) = l.count
  BY <1>1 DEF Chain
<1> QED
  BY <1>1, <1>2, <1>3, <1>4 DEF List

\* What has an order of its nodes is a state.
LEMMA OrderState ==
  ASSUME NEW l \in Shape, NEW o \in Seq(Idx), Chain(l, o), Len(o) <= Capacity
  PROVE  /\ State(l) /\ List(l) = EntriesAlong(l, o) /\ l.count = Len(o)
<1>1. Len(o) \in Nat /\ Len(o) <= MaxNodes
  BY IndexRange
<1>2. o \in Orders
  BY <1>1, InOrders
<1>3. l.count = Len(o)
  BY DEF Chain
<1>4. Order(l) = o
  BY <1>2, OrderIs
<1> QED
  BY <1>1, <1>2, <1>3, <1>4, IndexRange DEF State, List

LEMMA ListSeq ==
  ASSUME NEW l, State(l)
  PROVE  List(l) \in Seq(Entry) /\ Len(List(l)) = l.count /\ l.count \in 0 .. Capacity
BY StateOrder, EntriesSeq

\* Every node in use is an entry.
LEMMA NodeListed ==
  ASSUME NEW l, State(l), NEW o \in Seq(Idx), Chain(l, o), List(l) = EntriesAlong(l, o),
         NEW i \in Idx, l.node[i].used
  PROVE  \E m \in 1 .. Len(o) : o[m] = i /\ List(l)[m] = EntryOf(l.node[i])
<1>1. PICK m \in 1 .. Len(o) : o[m] = i
  BY DEF Chain
<1>2. List(l)[m] = EntryOf(l.node[o[m]])
  BY EntriesSeq DEF State
<1> QED
  BY <1>1, <1>2

\* Every entry is a node in use.
LEMMA EntryHeld ==
  ASSUME NEW l, State(l), NEW m \in 1 .. Len(List(l))
  PROVE  \E i \in Idx : l.node[i].used /\ List(l)[m] = EntryOf(l.node[i])
<1>1. PICK o \in Seq(Idx) : /\ Chain(l, o) /\ l \in Shape
                            /\ Len(o) = l.count /\ List(l) = EntriesAlong(l, o)
  BY StateOrder
<1>2. m \in 1 .. Len(o) /\ List(l)[m] = EntryOf(l.node[o[m]])
  BY <1>1, EntriesSeq
<1>3. o[m] \in Idx /\ l.node[o[m]].used
  BY <1>1, <1>2, ChainAt
<1> QED
  BY <1>2, <1>3

LEMMA Removed ==
  ASSUME NEW l, State(l), NEW i \in Idx, l.node[i].used
  PROVE  /\ State(RemoveNode(l, i))
         /\ ~RemoveNode(l, i).node[i].used
         /\ \A j \in Idx : j # i => SameData(RemoveNode(l, i).node[j], l.node[j])
         /\ \E m \in 1 .. Len(List(l)) :
              /\ List(l)[m] = EntryOf(l.node[i])
              /\ List(RemoveNode(l, i)) = Cut(List(l), m)
<1>1. PICK o \in Seq(Idx) : /\ Chain(l, o) /\ l \in Shape /\ Len(o) = l.count
                            /\ Len(o) \in 0 .. Capacity /\ List(l) = EntriesAlong(l, o)
  BY StateOrder
<1>2. PICK m \in 1 .. Len(o) : o[m] = i /\ List(l)[m] = EntryOf(l.node[i])
  BY <1>1, NodeListed
<1>3. PICK r : r = RemoveNode(l, i)
  OBVIOUS
<1>4. PICK u : u = Cut(o, m)
  OBVIOUS
<1>5. Chain(r, u) /\ EntriesAlong(r, u) = Cut(List(l), m)
  BY <1>1, <1>2, <1>3, <1>4, RemoveChain, CutEntries
<1>6. u \in Seq(Idx) /\ Len(u) = Len(o) - 1
  <2>1. IsCut(Cut(o, m), o, m, Idx)
    BY <1>4, CutSeq
  <2> QED
    BY <1>4, <2>1 DEF IsCut
<1>7. /\ r \in Shape /\ ~r.node[i].used
      /\ \A j \in Idx : j # i => SameData(r.node[j], l.node[j])
  BY <1>1, <1>3, RemoveShape
<1>8. Len(u) <= Capacity
  BY <1>1, <1>6, IndexRange
<1>9. State(r) /\ List(r) = Cut(List(l), m)
  BY <1>5, <1>6, <1>7, <1>8, OrderState
<1>10. m \in 1 .. Len(List(l))
  BY <1>1, ListSeq
<1> QED
  BY <1>2, <1>3, <1>7, <1>9, <1>10

\* Evicting takes out the last entry.
LEMMA Evicted ==
  ASSUME NEW l, State(l), l.count > 0
  PROVE  /\ State(Evict(l)) /\ Evict(l).count = l.count - 1 /\ l.tail # Null
         /\ List(Evict(l)) = Cut(List(l), Len(List(l)))
<1>1. PICK o \in Seq(Idx) : /\ Chain(l, o) /\ l \in Shape /\ Len(o) = l.count
                            /\ Len(o) \in 0 .. Capacity /\ List(l) = EntriesAlong(l, o)
  BY StateOrder
<1>2. PICK m \in 1 .. Len(o) : m = Len(o)
  BY <1>1
<1>3. l.tail = o[m] /\ o[m] \in Idx
  BY <1>1, <1>2 DEF Chain
<1>4. Evict(l) = RemoveNode(l, o[m])
  BY <1>3, IndexRange DEF Evict
<1>5. PICK r : r = RemoveNode(l, o[m])
  OBVIOUS
<1>6. PICK u : u = Cut(o, m)
  OBVIOUS
<1>7. Chain(r, u) /\ EntriesAlong(r, u) = Cut(List(l), m)
  BY <1>1, <1>2, <1>5, <1>6, RemoveChain, CutEntries
<1>8. u \in Seq(Idx) /\ Len(u) = Len(o) - 1
  <2>1. IsCut(Cut(o, m), o, m, Idx)
    BY <1>6, CutSeq
  <2> QED
    BY <1>6, <2>1 DEF IsCut
<1>9. r \in Shape
  BY <1>1, <1>3, <1>5, RemoveShape
<1>10. Len(u) <= Capacity
  BY <1>1, <1>8, IndexRange
<1>11. State(r) /\ List(r) = Cut(List(l), m) /\ r.count = Len(u)
  BY <1>7, <1>8, <1>9, <1>10, OrderState
<1>12. m = Len(List(l))
  BY <1>1, <1>2, ListSeq
<1> QED
  BY <1>1, <1>3, <1>4, <1>5, <1>8, <1>11, <1>12, IndexRange

LEMMA Touched ==
  ASSUME NEW l, State(l), NEW i \in Idx,
         NEW o \in Seq(Idx), Chain(l, o), NEW m \in 1 .. Len(o), o[m] = i
  PROVE  /\ State(Touch(l, i))
         /\ List(Touch(l, i)) = Pushed(List(l)[m], Cut(List(l), m))
<1>1. /\ l \in Shape /\ Len(o) \in Nat /\ Len(o) <= Capacity
  BY DEF State, Chain
<1>2. List(l) = EntriesAlong(l, o) /\ l.count = Len(o)
  BY <1>1, OrderState
<1>3. List(l) \in Seq(Entry) /\ m \in 1 .. Len(List(l))
  BY <1>2, ListSeq
<1>4. Fronted(List(l), m) = Pushed(List(l)[m], Cut(List(l), m))
  BY <1>3, FrontedIs
<1>5. CASE l.head = i
  <2>1. Touch(l, i) = l
    BY <1>5 DEF Touch
  <2>2. m = 1
    BY <1>1, <1>5 DEF Chain
  <2>3. Fronted(List(l), m) = List(l)
    <3>1. /\ Fronted(List(l), m) \in Seq(Entry) /\ Len(Fronted(List(l), m)) = Len(List(l))
          /\ \A j \in 1 .. Len(List(l)) :
               Fronted(List(l), m)[j] = IF j = 1 THEN List(l)[m]
                                        ELSE IF j <= m THEN List(l)[j - 1] ELSE List(l)[j]
      <4>1. IsFronted(Fronted(List(l), m), List(l), m, Entry)
        BY <1>3, FrontedSeq
      <4> QED
        BY <1>3, <4>1 DEF IsFronted
    <3>2. \A j \in 1 .. Len(List(l)) : Fronted(List(l), m)[j] = List(l)[j]
      BY <2>2, <3>1
    <3> QED
      BY <1>3, <3>1, <3>2, SeqEqual
  <2> QED
    BY <1>4, <2>1, <2>3
<1>6. CASE l.head # i
  <2>1. PICK r : r = Touch(l, i)
    OBVIOUS
  <2>2. PICK u : u = Fronted(o, m)
    OBVIOUS
  <2>3. Chain(r, u) /\ EntriesAlong(r, u) = Fronted(List(l), m)
    BY <1>1, <1>2, <1>6, <2>1, <2>2, TouchChain, TouchEntries
  <2>4. u \in Seq(Idx) /\ Len(u) = Len(o)
    <3>1. IsFronted(Fronted(o, m), o, m, Idx)
      BY <2>2, FrontedSeq
    <3> QED
      BY <2>2, <3>1 DEF IsFronted
  <2>5. r \in Shape
    <3>1. l.tail # Null /\ (l.tail = i => l.node[i].prev # Null)
      BY <1>1, <1>6, TouchBack
    <3> QED
      BY <1>1, <1>6, <2>1, <3>1, TouchShape
  <2>6. State(r) /\ List(r) = Fronted(List(l), m)
    BY <1>1, <2>3, <2>4, <2>5, OrderState
  <2> QED
    BY <1>4, <2>1, <2>6
<1> QED
  BY <1>5, <1>6

LEMMA HitList ==
  ASSUME NEW l, State(l), NEW i \in Idx, l.node[i].used
  PROVE  \E m \in 1 .. Len(List(l)) :
           /\ List(l)[m] = EntryOf(l.node[i])
           /\ List(Touch(l, i)) = Pushed(List(l)[m], Cut(List(l), m))
<1>1. PICK o \in Seq(Idx) : /\ Chain(l, o) /\ List(l) = EntriesAlong(l, o)
                            /\ Len(o) = l.count
  BY StateOrder
<1>2. PICK m \in 1 .. Len(o) : o[m] = i /\ List(l)[m] = EntryOf(l.node[i])
  BY <1>1, NodeListed
<1>3. m \in 1 .. Len(List(l))
  BY <1>1, ListSeq
<1> QED
  BY <1>1, <1>2, <1>3, Touched

LEMMA Rewritten ==
  ASSUME NEW l, State(l), NEW i \in Idx, l.node[i].used, NEW v \in Vals, NEW x \in Int
  PROVE  /\ State(Rewrite(l, i, v, x))
         /\ \E m \in 1 .. Len(List(l)) :
              /\ List(l)[m] = EntryOf(l.node[i])
              /\ List(Rewrite(l, i, v, x))
                   = Pushed([key |-> l.node[i].key, val |-> v, expire |-> x], Cut(List(l), m))
<1>1. PICK o \in Seq(Idx) : /\ Chain(l, o) /\ l \in Shape /\ Len(o) = l.count
                            /\ Len(o) \in 0 .. Capacity /\ List(l) = EntriesAlong(l, o)
  BY StateOrder
<1>2. PICK m \in 1 .. Len(o) : o[m] = i /\ List(l)[m] = EntryOf(l.node[i])
  BY <1>1, NodeListed
<1>3. PICK d : d = [l EXCEPT !.node[i].val = v, !.node[i].expire = x]
  OBVIOUS
<1>4. PICK y : y = [l.node[i] EXCEPT !.val = v, !.expire = x]
  OBVIOUS
<1>5. l.node \in [Idx -> Node] /\ l.node[i] \in Node
  BY <1>1 DEF Shape
<1>6. /\ y \in Node /\ y.used = l.node[i].used /\ y.key = l.node[i].key
      /\ y.val = v /\ y.expire = x /\ y.prev = l.node[i].prev /\ y.next = l.node[i].next
  BY <1>4, <1>5 DEF Node
<1>7. d = [l EXCEPT !.node = [l.node EXCEPT ![i] = y]]
  BY <1>1, <1>3, <1>4, <1>5 DEF Shape
<1>8. /\ d \in Shape /\ d.count = l.count /\ d.head = l.head /\ d.tail = l.tail
      /\ d.node[i] = y /\ \A j \in Idx : j # i => d.node[j] = l.node[j]
  BY <1>1, <1>5, <1>6, <1>7 DEF Shape
<1>9. \A j \in Idx : /\ d.node[j].used = l.node[j].used
                     /\ d.node[j].prev = l.node[j].prev /\ d.node[j].next = l.node[j].next
  BY <1>6, <1>8
<1>10. Chain(d, o)
  <2>1. \A j \in 1 .. Len(o) : o[j] \in Idx
    OBVIOUS
  <2>2. /\ \A g, h \in 1 .. Len(o) : o[g] = o[h] => g = h
        /\ \A g \in Idx : l.node[g].used <=> \E j \in 1 .. Len(o) : o[j] = g
        /\ l.count = Len(o)
        /\ l.head = IF Len(o) = 0 THEN Null ELSE o[1]
        /\ l.tail = IF Len(o) = 0 THEN Null ELSE o[Len(o)]
        /\ \A j \in 1 .. Len(o) :
             /\ l.node[o[j]].prev = IF j = 1 THEN Null ELSE o[j - 1]
             /\ l.node[o[j]].next = IF j = Len(o) THEN Null ELSE o[j + 1]
    BY <1>1 DEF Chain
  <2>3. \A g \in Idx : d.node[g].used <=> \E j \in 1 .. Len(o) : o[j] = g
    BY <1>9, <2>2
  <2>4. \A j \in 1 .. Len(o) :
          /\ d.node[o[j]].prev = IF j = 1 THEN Null ELSE o[j - 1]
          /\ d.node[o[j]].next = IF j = Len(o) THEN Null ELSE o[j + 1]
    <3>1. \A j \in 1 .. Len(o) : /\ d.node[o[j]].prev = l.node[o[j]].prev
                                 /\ d.node[o[j]].next = l.node[o[j]].next
      BY <1>9, <2>1
    <3> QED
      BY <2>2, <3>1
  <2> QED
    BY <1>8, <2>2, <2>3, <2>4 DEF Chain
<1>11. State(d) /\ List(d) = EntriesAlong(d, o)
  <2>1. Len(o) <= Capacity
    BY <1>1
  <2> QED
    BY <1>8, <1>10, <2>1, OrderState
<1>12. PICK a : a = List(l)
  OBVIOUS
<1>13. PICK b : b = List(d)
  OBVIOUS
<1>14. /\ a \in Seq(Entry) /\ Len(a) = Len(o)
       /\ \A j \in 1 .. Len(o) : a[j] = EntryOf(l.node[o[j]])
  BY <1>1, <1>12, EntriesSeq
<1>15. /\ b \in Seq(Entry) /\ Len(b) = Len(o)
       /\ \A j \in 1 .. Len(o) : b[j] = EntryOf(d.node[o[j]])
  BY <1>8, <1>11, <1>13, EntriesSeq
<1>16. \A j \in 1 .. Len(o) : j # m => b[j] = a[j]
  <2>1. ASSUME NEW j \in 1 .. Len(o), j # m
        PROVE  b[j] = a[j]
    <3>1. o[j] # i /\ o[j] \in Idx
      BY <1>1, <1>2, <2>1 DEF Chain
    <3>2. d.node[o[j]] = l.node[o[j]]
      BY <1>8, <3>1
    <3> QED
      BY <1>14, <1>15, <3>2
  <2> QED
    BY <2>1
<1>17. b[m] = [key |-> l.node[i].key, val |-> v, expire |-> x]
  BY <1>2, <1>6, <1>8, <1>15 DEF EntryOf
<1>18. Cut(b, m) = Cut(a, m)
  <2>1. /\ Cut(a, m) \in Seq(Entry) /\ Len(Cut(a, m)) = Len(o) - 1
        /\ \A j \in 1 .. Len(o) - 1 : Cut(a, m)[j] = IF j < m THEN a[j] ELSE a[j + 1]
    <3>1. m \in 1 .. Len(a)
      BY <1>14
    <3> QED
      <4>1. IsCut(Cut(a, m), a, m, Entry)
        BY <1>14, <3>1, CutSeq
      <4> QED
        BY <1>14, <3>1, <4>1 DEF IsCut
  <2>2. /\ Cut(b, m) \in Seq(Entry) /\ Len(Cut(b, m)) = Len(o) - 1
        /\ \A j \in 1 .. Len(o) - 1 : Cut(b, m)[j] = IF j < m THEN b[j] ELSE b[j + 1]
    <3>1. m \in 1 .. Len(b)
      BY <1>15
    <3> QED
      <4>1. IsCut(Cut(b, m), b, m, Entry)
        BY <1>15, <3>1, CutSeq
      <4> QED
        BY <1>15, <3>1, <4>1 DEF IsCut
  <2>3. Len(o) \in Nat
    OBVIOUS
  <2>4. ASSUME NEW j \in 1 .. Len(o) - 1
        PROVE  Cut(b, m)[j] = Cut(a, m)[j]
    <3>1. /\ Cut(a, m)[j] = IF j < m THEN a[j] ELSE a[j + 1]
          /\ Cut(b, m)[j] = IF j < m THEN b[j] ELSE b[j + 1]
      BY <2>1, <2>2
    <3>2. CASE j < m
      <4>1. j \in 1 .. Len(o) /\ j # m
        BY <2>3, <3>2
      <4>2. b[j] = a[j]
        BY <1>16, <4>1
      <4> QED
        BY <3>1, <3>2, <4>2
    <3>3. CASE ~(j < m)
      <4>1. j + 1 \in 1 .. Len(o) /\ j + 1 # m
        BY <2>3, <3>3
      <4>2. b[j + 1] = a[j + 1]
        BY <1>16, <4>1
      <4> QED
        BY <3>1, <3>3, <4>2
    <3> QED
      BY <3>2, <3>3
  <2> QED
    BY <2>1, <2>2, <2>4, SeqEqual
<1>19. d.node[i].used
  BY <1>6, <1>8
<1>20. State(Touch(d, i)) /\ List(Touch(d, i)) = Pushed(b[m], Cut(b, m))
  BY <1>2, <1>10, <1>11, <1>13, <1>19, Touched
<1>21. Rewrite(l, i, v, x) = Touch(d, i)
  BY <1>3 DEF Rewrite
<1>22. m \in 1 .. Len(List(l))
  BY <1>12, <1>14
<1> QED
  BY <1>2, <1>12, <1>17, <1>18, <1>20, <1>21, <1>22

\* A new entry goes first; when the cache is full the last one goes.
LEMMA PutNewIs ==
  ASSUME NEW l, State(l), NEW k \in Keys, NEW v \in Vals, NEW x \in Int
  PROVE  LET e == [key |-> k, val |-> v, expire |-> x]
         IN  /\ State(PutNew(l, k, v, x))
             /\ Len(List(l)) < Capacity =>
                  List(PutNew(l, k, v, x)) = Pushed(e, List(l))
             /\ Len(List(l)) = Capacity =>
                  List(PutNew(l, k, v, x)) = Pushed(e, Cut(List(l), Len(List(l))))
<1>1. Len(List(l)) = l.count /\ l.count \in 0 .. Capacity /\ Capacity \in 1 .. MaxNodes
  BY ListSeq, IndexRange
<1>2. PICK room : room = IF l.count >= Capacity THEN Evict(l) ELSE l
  OBVIOUS
<1>3. PICK e : e = [key |-> k, val |-> v, expire |-> x]
  OBVIOUS
<1>4. /\ State(room) /\ room.count < Capacity
      /\ l.count >= Capacity => l.tail # Null
      /\ Len(List(l)) < Capacity => List(room) = List(l)
      /\ Len(List(l)) = Capacity => List(room) = Cut(List(l), Len(List(l)))
  <2>1. CASE l.count >= Capacity
    <3>1. l.count > 0 /\ l.count = Capacity /\ room = Evict(l)
      BY <1>1, <1>2, <2>1
    <3>2. State(room) /\ room.count = l.count - 1 /\ l.tail # Null /\ List(room) = Cut(List(l), Len(List(l)))
      BY <3>1, Evicted
    <3> QED
      BY <1>1, <3>1, <3>2
  <2>2. CASE ~(l.count >= Capacity)
    BY <1>1, <1>2, <2>2
  <2> QED
    BY <2>1, <2>2
<1>5. PICK o \in Seq(Idx) : /\ Chain(room, o) /\ room \in Shape /\ Len(o) = room.count
                            /\ Len(o) \in 0 .. Capacity /\ List(room) = EntriesAlong(room, o)
  BY <1>4, StateOrder
<1>6. PICK i : i = Alloc(room)
  OBVIOUS
<1>7. i \in Idx /\ ~room.node[i].used
  <2>1. Len(o) < MaxNodes
    <3>1. room.count < Capacity /\ Len(o) = room.count /\ room.count \in Int
      BY <1>4, <1>5
    <3> QED
      BY <3>1, IndexRange
  <2> QED
    BY <1>5, <1>6, <2>1, AllocFree
<1>8. PutNew(l, k, v, x) = Insert(room, i, k, v, x)
  BY <1>2, <1>4, <1>6, <1>7, IndexRange DEF PutNew
<1>9. PICK r : r = Insert(room, i, k, v, x)
  OBVIOUS
<1>10. PICK u : u = Pushed(i, o)
  OBVIOUS
<1>11. Chain(r, u) /\ EntriesAlong(r, u) = Pushed(e, List(room)) /\ room.head # i
  BY <1>3, <1>5, <1>7, <1>9, <1>10, InsertChain, PushEntries
<1>12. u \in Seq(Idx) /\ Len(u) = Len(o) + 1
  <2>1. IsPushed(Pushed(i, o), i, o, Idx)
    BY <1>7, <1>10, PushedSeq
  <2> QED
    BY <1>7, <1>10, <2>1 DEF IsPushed
<1>13. r \in Shape
  <2>1. Inserted(r, room, i, k, v, x)
    BY <1>5, <1>7, <1>9, <1>11, InsertShape
  <2> QED
    BY <2>1 DEF Inserted
<1>14. Len(u) <= Capacity
  BY <1>1, <1>4, <1>5, <1>12
<1>15. State(r) /\ List(r) = Pushed(e, List(room))
  BY <1>11, <1>12, <1>13, <1>14, OrderState
<1> QED
  BY <1>3, <1>4, <1>8, <1>9, <1>15

-----------------------------------------------------------------------------
(* The steps. *)

LInv == TypeOK /\ State(c)

\* The conjuncts of TypeOK about the variables but c.
Times ==
  /\ now \in 0 .. MaxNow /\ since \in 0 .. now
  /\ answer \in Vals \cup {NoVal}
  /\ at \in 0 .. MaxNodes \cup {Null}

LEMMA StateTyped ==
  ASSUME NEW l, State(l)
  PROVE  l \in [node : [Idx -> Node], head : Idx \cup {Null}, tail : Idx \cup {Null},
                count : 0 .. Capacity]
<1>1. l \in Shape /\ l.count \in 0 .. Capacity
  BY DEF State
<1> QED
  BY <1>1 DEF Shape

LEMMA LInvIs == State(c) /\ Times => LInv
BY StateTyped DEF LInv, TypeOK, Times

LEMMA LInvGives == LInv => State(c) /\ Times
BY DEF LInv, TypeOK, Times

LEMMA InitState == Init => LInv /\ List(c) = <<>>
<1> SUFFICES ASSUME Init
             PROVE  LInv /\ List(c) = <<>>
  OBVIOUS
<1>1. c \in Shape
  <2>1. Zeroed \in Node
    <3>1. /\ Free \in Node
          /\ 0 \in Idx \cup {Null}
      BY IndexRange DEF Free, Node, Idx
    <3> QED
      BY <3>1 DEF Zeroed, Node
  <2>2. c = [node |-> [i \in Idx |-> Zeroed], head |-> Null, tail |-> Null, count |-> 0]
    BY DEF Init
  <2> QED
    BY <2>1, <2>2 DEF Shape
<1>2. \A i \in Idx : ~c.node[i].used
  BY DEF Init, Zeroed, Free
<1>3. PICK o : o = <<>>
  OBVIOUS
<1>4. o \in Seq(Idx) /\ Len(o) = 0
  BY <1>3
<1>5. c.count = 0 /\ c.head = Null /\ c.tail = Null
  BY DEF Init
<1>6. Chain(c, o)
  BY <1>2, <1>4, <1>5 DEF Chain
<1>7. State(c) /\ List(c) = EntriesAlong(c, o)
  <2>1. Len(o) <= Capacity
    BY <1>4, IndexRange
  <2> QED
    BY <1>1, <1>4, <1>6, <2>1, OrderState
<1>8. List(c) = <<>>
  <2>1. List(c) \in Seq(Entry) /\ Len(List(c)) = 0
    BY <1>1, <1>4, <1>7, EntriesSeq
  <2> QED
    BY <2>1
<1>9. Times
  BY LruConstants DEF Init, Times
<1> QED
  BY <1>7, <1>8, <1>9, LInvIs

LEMMA WithoutIs ==
  ASSUME State(c), NEW m \in 1 .. Len(List(c))
  PROVE  Abstract!Without(m) = Cut(List(c), m)
<1>1. Entries = List(c)
  BY DEF Entries, List
<1>2. List(c) \in Seq(Entry)
  BY ListSeq
<1> QED
  BY <1>1, <1>2, CutIs DEF Abstract!Without

\* A read.
LEMMA GetStep ==
  ASSUME LInv, NEW k \in Keys, Get(k)
  PROVE  LInv' /\ Abstract!Get(k)
<1>1. State(c) /\ Times
  BY LInvGives
<1>2. PICK i : i = Find(c, k)
  OBVIOUS
<1>3. /\ \/ i = Null /\ answer' = NoVal /\ UNCHANGED c
         \/ i # Null /\ Late(c.node[i]) /\ answer' = NoVal /\ c' = RemoveNode(c, i)
         \/ i # Null /\ ~Late(c.node[i]) /\ answer' = c.node[i].val /\ c' = Touch(c, i)
      /\ UNCHANGED <<now, at, since>>
  BY <1>2 DEF Get
<1>4. Entries = List(c) /\ Entries' = List(c')
  BY DEF Entries, List
<1>5. \/ i = Null /\ \A j \in Idx : c.node[j].used => c.node[j].key # k
      \/ i \in Idx /\ c.node[i].used /\ c.node[i].key = k
  BY <1>2, FindIs
<1>6. CASE i = Null
  <2>1. answer' = NoVal /\ c' = c
    BY <1>3, <1>6
  <2>2. ASSUME NEW m \in 1 .. Len(List(c)), List(c)[m].key = k
        PROVE  FALSE
    <3>1. PICK j \in Idx : c.node[j].used /\ List(c)[m] = EntryOf(c.node[j])
      BY <1>1, EntryHeld
    <3>2. c.node[j].key = k
      BY <2>2, <3>1 DEF EntryOf
    <3> QED
      BY <1>5, <1>6, <3>1, <3>2, IndexRange
  <2>3. Abstract!Get(k)
    BY <1>3, <1>4, <2>1, <2>2 DEF Abstract!Get, Abstract!Holds, Abstract!Miss
  <2>4. State(c)' /\ Times'
    BY <1>1, <1>3, <2>1 DEF Times
  <2> QED
    BY <2>3, <2>4, LInvIs, PTL
<1>7. CASE i # Null /\ Late(c.node[i])
  <2>1. i \in Idx /\ c.node[i].used /\ c.node[i].key = k
    BY <1>5, <1>7
  <2>2. answer' = NoVal /\ c' = RemoveNode(c, i)
    BY <1>3, <1>7
  <2>3. State(c') /\ \E m \in 1 .. Len(List(c)) :
                       List(c)[m] = EntryOf(c.node[i]) /\ List(c') = Cut(List(c), m)
    BY <1>1, <2>1, <2>2, Removed
  <2>4. PICK m \in 1 .. Len(List(c)) :
          List(c)[m] = EntryOf(c.node[i]) /\ List(c') = Cut(List(c), m)
    BY <2>3
  <2>5. Abstract!Expired(List(c)[m])
    BY <1>7, <2>4 DEF Abstract!Expired, EntryOf, Late
  <2>6. List(c)[m].key = k
    BY <2>1, <2>4 DEF EntryOf
  <2>7. Entries' = Abstract!Without(m)
    BY <1>1, <1>4, <2>4, WithoutIs
  <2>8. Abstract!Get(k)
    BY <1>3, <1>4, <2>2, <2>5, <2>6, <2>7 DEF Abstract!Get, Abstract!Late
  <2>9. Times'
    BY <1>1, <1>3, <2>2 DEF Times
  <2>10. State(c)'
    BY <2>3
  <2> QED
    BY <2>8, <2>9, <2>10, LInvIs, PTL
<1>8. CASE i # Null /\ ~Late(c.node[i])
  <2>1. i \in Idx /\ c.node[i].used /\ c.node[i].key = k
    BY <1>5, <1>8
  <2>2. answer' = c.node[i].val /\ c' = Touch(c, i)
    BY <1>3, <1>8
  <2>3. PICK m \in 1 .. Len(List(c)) :
          /\ List(c)[m] = EntryOf(c.node[i])
          /\ List(Touch(c, i)) = Pushed(List(c)[m], Cut(List(c), m))
    BY <1>1, <2>1, HitList
  <2>4. State(c')
    <3>1. PICK o \in Seq(Idx) : Chain(c, o)
      BY <1>1, StateOrder
    <3>2. PICK g \in 1 .. Len(o) : o[g] = i
      BY <2>1, <3>1 DEF Chain
    <3> QED
      BY <1>1, <2>1, <2>2, <3>1, <3>2, Touched
  <2>5. ~Abstract!Expired(List(c)[m]) /\ answer' = List(c)[m].val /\ List(c)[m].key = k
    BY <1>8, <2>1, <2>2, <2>3 DEF Abstract!Expired, EntryOf, Late
  <2>6. Entries' = <<List(c)[m]>> \o Abstract!Without(m)
    <3>1. List(c) \in Seq(Entry) /\ List(c)[m] \in Entry
      BY <1>1, ListSeq
    <3>2. Cut(List(c), m) \in Seq(Entry)
      <4>1. IsCut(Cut(List(c), m), List(c), m, Entry)
        BY <3>1, CutSeq
      <4> QED
        BY <3>1, <4>1 DEF IsCut
    <3>3. <<List(c)[m]>> \o Cut(List(c), m) = Pushed(List(c)[m], Cut(List(c), m))
      BY <3>1, <3>2, PushedIs
    <3> QED
      BY <1>1, <1>4, <2>2, <2>3, <3>3, WithoutIs
  <2>7. Abstract!Get(k)
    BY <1>3, <1>4, <2>5, <2>6 DEF Abstract!Get, Abstract!Hit
  <2>8. Times'
    <3>1. answer' \in Vals \cup {NoVal}
      <4>1. c.node[i] \in Node
        BY <1>1, <2>1 DEF State, Shape
      <4> QED
        BY <2>2, <4>1 DEF Node
    <3> QED
      BY <1>1, <1>3, <3>1 DEF Times
  <2>9. State(c)'
    BY <2>4
  <2> QED
    BY <2>7, <2>8, <2>9, LInvIs, PTL
<1> QED
  BY <1>3, <1>6, <1>7, <1>8

\* A deadline that does not reach 2^63 is a time to come.
LEMMA DeadlineIs ==
  ASSUME TtlsFit, Times, NEW ttl \in Ttls
  PROVE  /\ Deadline(ttl) = IF ttl > 0 THEN now + ttl ELSE 0
         /\ Deadline(ttl) \in Nat
<1>1. now \in Nat /\ now <= MaxNow /\ ttl \in Int /\ MaxNow + ttl < Half
  BY LruConstants DEF Times, TtlsFit
<1> QED
  BY <1>1, LruConstants DEF Deadline, Wrapped

LEMMA DeadlineInt ==
  ASSUME Times, NEW ttl \in Ttls
  PROVE  Deadline(ttl) \in Int
<1>1. now \in Int /\ ttl \in Int /\ Half \in Int
  BY LruConstants DEF Times
<1> QED
  BY <1>1 DEF Deadline, Wrapped

\* A write, of a key that has an entry and of one that has none.
LEMMA PutState ==
  ASSUME LInv, NEW k \in Keys, NEW v \in Vals, NEW ttl \in Ttls, Put(k, v, ttl)
  PROVE  LInv' /\ \E e \in Entry :
           /\ e = [key |-> k, val |-> v, expire |-> Deadline(ttl)]
           /\ \/ \E m \in 1 .. Len(List(c)) :
                   List(c)[m].key = k /\ List(c') = Pushed(e, Cut(List(c), m))
              \/ /\ \A m \in 1 .. Len(List(c)) : List(c)[m].key # k
                 /\ Len(List(c)) < Capacity => List(c') = Pushed(e, List(c))
                 /\ Len(List(c)) = Capacity
                      => List(c') = Pushed(e, Cut(List(c), Len(List(c))))
<1>1. State(c) /\ Times
  BY LInvGives
<1>2. PICK i : i = Find(c, k)
  OBVIOUS
<1>3. PICK x : x = Deadline(ttl)
  OBVIOUS
<1>4. x \in Int
  BY <1>1, <1>3, DeadlineInt
<1>5. PICK e : e = [key |-> k, val |-> v, expire |-> x]
  OBVIOUS
<1>6. e \in Entry
  BY <1>4, <1>5 DEF Entry
<1>7. /\ \/ i # Null /\ c' = Rewrite(c, i, v, x)
         \/ i = Null /\ c' = PutNew(c, k, v, x)
      /\ UNCHANGED <<now, answer, at, since>>
  BY <1>2, <1>3 DEF Put
<1>8. \/ i = Null /\ \A j \in Idx : c.node[j].used => c.node[j].key # k
      \/ i \in Idx /\ c.node[i].used /\ c.node[i].key = k
  BY <1>2, FindIs
<1>9. Times'
  BY <1>1, <1>7 DEF Times
<1>10. CASE i # Null
  <2>1. i \in Idx /\ c.node[i].used /\ c.node[i].key = k /\ c' = Rewrite(c, i, v, x)
    BY <1>7, <1>8, <1>10
  <2>2. /\ State(c')
        /\ \E m \in 1 .. Len(List(c)) :
             /\ List(c)[m] = EntryOf(c.node[i])
             /\ List(c') = Pushed([key |-> c.node[i].key, val |-> v, expire |-> x], Cut(List(c), m))
    BY <1>1, <1>4, <2>1, Rewritten
  <2>3. PICK m \in 1 .. Len(List(c)) :
          List(c)[m] = EntryOf(c.node[i]) /\ List(c') = Pushed(e, Cut(List(c), m))
    BY <1>5, <2>1, <2>2
  <2>4. List(c)[m].key = k
    BY <2>1, <2>3 DEF EntryOf
  <2>5. State(c)'
    BY <2>2
  <2>6. LInv'
    BY <1>9, <2>5, LInvIs, PTL
  <2> QED
    BY <1>3, <1>5, <1>6, <2>3, <2>4, <2>6
<1>11. CASE i = Null
  <2>1. c' = PutNew(c, k, v, x)
    BY <1>7, <1>11
  <2>2. ASSUME NEW m \in 1 .. Len(List(c)), List(c)[m].key = k
        PROVE  FALSE
    <3>1. PICK j \in Idx : c.node[j].used /\ List(c)[m] = EntryOf(c.node[j])
      BY <1>1, EntryHeld
    <3>2. c.node[j].key = k
      BY <2>2, <3>1 DEF EntryOf
    <3> QED
      BY <1>8, <1>11, <3>1, <3>2, IndexRange
  <2>3. /\ State(c')
        /\ Len(List(c)) < Capacity => List(c') = Pushed(e, List(c))
        /\ Len(List(c)) = Capacity => List(c') = Pushed(e, Cut(List(c), Len(List(c))))
    BY <1>1, <1>4, <1>5, <2>1, PutNewIs
  <2>4. State(c)'
    BY <2>3
  <2>5. LInv'
    BY <1>9, <2>4, LInvIs, PTL
  <2> QED
    BY <1>3, <1>5, <1>6, <2>2, <2>3, <2>5
<1> QED
  BY <1>10, <1>11

LEMMA PutStep ==
  ASSUME LInv, TtlsFit, NEW k \in Keys, NEW v \in Vals, NEW ttl \in Ttls, Put(k, v, ttl)
  PROVE  Abstract!Put(k, v, ttl)
<1>1. State(c) /\ Times
  BY LInvGives
<1>2. PICK e \in Entry :
        /\ e = [key |-> k, val |-> v, expire |-> Deadline(ttl)]
        /\ \/ \E m \in 1 .. Len(List(c)) :
                List(c)[m].key = k /\ List(c') = Pushed(e, Cut(List(c), m))
           \/ /\ \A m \in 1 .. Len(List(c)) : List(c)[m].key # k
              /\ Len(List(c)) < Capacity => List(c') = Pushed(e, List(c))
              /\ Len(List(c)) = Capacity
                   => List(c') = Pushed(e, Cut(List(c), Len(List(c))))
  BY PutState
<1>3. e = Abstract!NewEntry(k, v, ttl)
  BY <1>1, <1>2, DeadlineIs DEF Abstract!NewEntry
<1>4. Entries = List(c) /\ Entries' = List(c')
  BY DEF Entries, List
<1>5. /\ List(c) \in Seq(Entry) /\ Len(List(c)) = c.count
      /\ c.count \in 0 .. Capacity /\ Capacity \in 1 .. MaxNodes
  BY <1>1, ListSeq, IndexRange
<1>6. UNCHANGED <<now, answer>>
  BY DEF Put
<1>7. ASSUME NEW m \in 1 .. Len(List(c))
      PROVE  Pushed(e, Cut(List(c), m)) = <<e>> \o Abstract!Without(m)
  <2>1. Cut(List(c), m) \in Seq(Entry)
    <3>1. IsCut(Cut(List(c), m), List(c), m, Entry)
      BY <1>5, CutSeq
    <3> QED
      BY <1>5, <3>1 DEF IsCut
  <2>2. <<e>> \o Cut(List(c), m) = Pushed(e, Cut(List(c), m))
    BY <2>1, PushedIs
  <2> QED
    BY <1>1, <2>2, WithoutIs
<1>8. Pushed(e, List(c)) = <<e>> \o List(c)
  BY <1>5, PushedIs
<1>9. CASE \E m \in 1 .. Len(List(c)) :
             List(c)[m].key = k /\ List(c') = Pushed(e, Cut(List(c), m))
  BY <1>3, <1>4, <1>6, <1>7, <1>9 DEF Abstract!Put
<1>10. CASE /\ \A m \in 1 .. Len(List(c)) : List(c)[m].key # k
            /\ Len(List(c)) < Capacity => List(c') = Pushed(e, List(c))
            /\ Len(List(c)) = Capacity
                 => List(c') = Pushed(e, Cut(List(c), Len(List(c))))
  <2>1. ~Abstract!Holds(k)
    BY <1>4, <1>10 DEF Abstract!Holds
  <2>2. CASE Len(List(c)) < Capacity
    BY <1>3, <1>4, <1>6, <1>8, <1>10, <2>1, <2>2 DEF Abstract!Put
  <2>3. CASE Len(List(c)) = Capacity
    <3>1. Len(List(c)) \in 1 .. Len(List(c))
      BY <1>5, <2>3
    <3>2. Entries' = <<e>> \o Abstract!Without(Len(Entries))
      BY <1>4, <1>7, <1>10, <2>3, <3>1
    <3> QED
      BY <1>3, <1>4, <1>6, <2>1, <2>3, <3>2 DEF Abstract!Put
  <2>4. Len(List(c)) < Capacity \/ Len(List(c)) = Capacity
    BY <1>5
  <2> QED
    BY <2>2, <2>3, <2>4
<1> QED
  BY <1>2, <1>9, <1>10

\* A node in use is taken out: by a call to remove, or by a purge.
LEMMA TakeOutStep ==
  ASSUME LInv, NEW i \in Idx, c.node[i].used, c' = RemoveNode(c, i), Times'
  PROVE  /\ LInv'
         /\ \E m \in 1 .. Len(List(c)) :
              /\ List(c)[m] = EntryOf(c.node[i]) /\ Entries = List(c)
              /\ Entries' = Abstract!Without(m)
              /\ List(c') = Cut(List(c), m)
<1>1. State(c)
  BY LInvGives
<1>2. State(c') /\ \E m \in 1 .. Len(List(c)) :
                     List(c)[m] = EntryOf(c.node[i]) /\ List(c') = Cut(List(c), m)
  BY <1>1, Removed
<1>3. PICK m \in 1 .. Len(List(c)) :
        List(c)[m] = EntryOf(c.node[i]) /\ List(c') = Cut(List(c), m)
  BY <1>2
<1>4. Entries = List(c) /\ Entries' = List(c')
  BY DEF Entries, List
<1>5. Entries' = Abstract!Without(m)
  BY <1>1, <1>3, <1>4, WithoutIs
<1>6. State(c)'
  BY <1>2
<1>7. LInv'
  BY <1>6, LInvIs, PTL
<1> QED
  BY <1>3, <1>4, <1>5, <1>7

LEMMA RemoveStep ==
  ASSUME LInv, NEW k \in Keys, Remove(k)
  PROVE  LInv' /\ Abstract!Remove(k)
<1>1. PICK i : i = Find(c, k)
  OBVIOUS
<1>2. i # Null /\ c' = RemoveNode(c, i) /\ UNCHANGED <<now, answer, at, since>>
  BY <1>1 DEF Remove
<1>3. i \in Idx /\ c.node[i].used /\ c.node[i].key = k
  BY <1>1, <1>2, FindIs
<1>4. Times'
  BY <1>2, LInvGives DEF Times
<1>5. LInv' /\ \E m \in 1 .. Len(List(c)) :
                 /\ List(c)[m] = EntryOf(c.node[i]) /\ Entries = List(c)
                 /\ Entries' = Abstract!Without(m)
  BY <1>2, <1>3, <1>4, TakeOutStep
<1>6. PICK m \in 1 .. Len(List(c)) : /\ List(c)[m] = EntryOf(c.node[i]) /\ Entries = List(c)
                                     /\ Entries' = Abstract!Without(m)
  BY <1>5
<1>7. List(c)[m].key = k
  BY <1>3, <1>6 DEF EntryOf
<1> QED
  BY <1>2, <1>5, <1>6, <1>7 DEF Abstract!Remove

LEMMA LooksStep ==
  ASSUME LInv, PurgeLooks
  PROVE  LInv' /\ (Abstract!Expire \/ c' = c)
<1>1. /\ at \in Idx /\ at' = at + 1 /\ UNCHANGED <<now, answer, since>>
      /\ \/ /\ c.node[at].used /\ Late(c.node[at])
            /\ c' = RemoveNode(c, at)
         \/ c' = c
  BY DEF PurgeLooks
<1>2. Times'
  BY <1>1, LInvGives, IndexRange DEF Times, Idx
<1>3. CASE c' = c
  <2>1. State(c)'
    BY <1>3, LInvGives
  <2> QED
    BY <1>2, <1>3, <2>1, LInvIs, PTL
<1>4. CASE c.node[at].used /\ Late(c.node[at]) /\ c' = RemoveNode(c, at)
  <2>1. LInv' /\ \E m \in 1 .. Len(List(c)) :
                   /\ List(c)[m] = EntryOf(c.node[at]) /\ Entries = List(c)
                   /\ Entries' = Abstract!Without(m)
    BY <1>1, <1>2, <1>4, TakeOutStep
  <2>2. PICK m \in 1 .. Len(List(c)) : /\ List(c)[m] = EntryOf(c.node[at])
                                       /\ Entries = List(c)
                                       /\ Entries' = Abstract!Without(m)
    BY <2>1
  <2>3. Abstract!Expired(List(c)[m])
    BY <1>4, <2>2 DEF Abstract!Expired, EntryOf, Late
  <2>4. Abstract!Expire
    BY <1>1, <2>2, <2>3 DEF Abstract!Expire
  <2> QED
    BY <2>1, <2>4
<1> QED
  BY <1>1, <1>3, <1>4

\* A step that leaves the cache alone.
LEMMA QuietStep ==
  ASSUME LInv, PurgeBegins \/ PurgeReturns \/ Tick \/ UNCHANGED vars
  PROVE  LInv' /\ c' = c
<1>1. c' = c
  BY DEF PurgeBegins, PurgeReturns, Tick, vars
<1>2. State(c)'
  BY <1>1, LInvGives
<1>3. Times'
  <2>1. Times /\ MaxNow \in Nat /\ MaxNodes \in Nat
    BY LInvGives, LruConstants
  <2>2. CASE PurgeBegins
    BY <2>1, <2>2 DEF PurgeBegins, Times
  <2>3. CASE PurgeReturns
    BY <2>1, <2>3 DEF PurgeReturns, Times
  <2>4. CASE Tick
    BY <2>1, <2>4 DEF Tick, Times
  <2>5. CASE UNCHANGED vars
    BY <2>1, <2>5 DEF vars, Times
  <2> QED
    BY <2>2, <2>3, <2>4, <2>5
<1> QED
  BY <1>1, <1>2, <1>3, LInvIs, PTL

LEMMA LInvStep == LInv /\ [Next]_vars => LInv'
<1> SUFFICES ASSUME LInv, [Next]_vars
             PROVE  LInv'
  OBVIOUS
<1>1. ASSUME NEW k \in Keys, Get(k)
      PROVE  LInv'
  BY <1>1, GetStep
<1>2. ASSUME NEW k \in Keys, NEW v \in Vals, NEW ttl \in Ttls, Put(k, v, ttl)
      PROVE  LInv'
  BY <1>2, PutState
<1>3. ASSUME NEW k \in Keys, Remove(k)
      PROVE  LInv'
  BY <1>3, RemoveStep
<1>4. CASE PurgeLooks
  BY <1>4, LooksStep
<1>5. CASE PurgeBegins \/ PurgeReturns \/ Tick \/ UNCHANGED vars
  BY <1>5, QuietStep
<1> QED
  BY <1>1, <1>2, <1>3, <1>4, <1>5 DEF Next

LEMMA Step ==
  ASSUME LInv, TtlsFit, [Next]_vars
  PROVE  [Abstract!Next]_(Abstract!vars)
<1>1. ASSUME NEW k \in Keys, Get(k)
      PROVE  Abstract!Next
  BY <1>1, GetStep DEF Abstract!Next
<1>2. ASSUME NEW k \in Keys, NEW v \in Vals, NEW ttl \in Ttls, Put(k, v, ttl)
      PROVE  Abstract!Next
  BY <1>2, PutStep DEF Abstract!Next
<1>3. ASSUME NEW k \in Keys, Remove(k)
      PROVE  Abstract!Next
  BY <1>3, RemoveStep DEF Abstract!Next
<1>4. CASE PurgeLooks
  <2>1. Abstract!Expire \/ c' = c
    BY <1>4, LooksStep
  <2>2. CASE c' = c
    BY <1>4, <2>2 DEF PurgeLooks, Abstract!vars, Entries
  <2> QED
    BY <2>1, <2>2 DEF Abstract!Next
<1>5. CASE Tick
  <2>1. c' = c
    BY <1>5, QuietStep
  <2>2. now' > now
    BY <1>5, LruConstants, LInvGives DEF Tick, Times
  <2>3. Abstract!Tick
    BY <1>5, <2>1, <2>2 DEF Tick, Abstract!Tick, Entries
  <2> QED
    BY <2>3 DEF Abstract!Next
<1>6. CASE PurgeBegins \/ PurgeReturns \/ UNCHANGED vars
  <2>1. c' = c
    BY <1>6, QuietStep
  <2> QED
    BY <1>6, <2>1 DEF PurgeBegins, PurgeReturns, vars, Abstract!vars, Entries
<1> QED
  BY <1>1, <1>2, <1>3, <1>4, <1>5, <1>6 DEF Next

-----------------------------------------------------------------------------
(* No entry has a negative deadline, and so the purge passes over none. *)

InTime(s) == \A m \in 1 .. Len(s) : s[m].expire >= 0

LEMMA InTimeCut ==
  ASSUME NEW s \in Seq(Entry), InTime(s), NEW m \in 1 .. Len(s)
  PROVE  InTime(Cut(s, m))
<1>1. /\ Len(s) \in Nat /\ Len(Cut(s, m)) = Len(s) - 1
      /\ \A j \in 1 .. Len(s) - 1 : Cut(s, m)[j] = IF j < m THEN s[j] ELSE s[j + 1]
  <2>1. IsCut(Cut(s, m), s, m, Entry)
    BY CutSeq
  <2> QED
    BY <2>1 DEF IsCut
<1>2. ASSUME NEW j \in 1 .. Len(s) - 1
      PROVE  Cut(s, m)[j].expire >= 0
  <2>1. CASE j < m
    <3>1. Cut(s, m)[j] = s[j] /\ j \in 1 .. Len(s)
      BY <1>1, <2>1
    <3> QED
      BY <3>1 DEF InTime
  <2>2. CASE ~(j < m)
    <3>1. Cut(s, m)[j] = s[j + 1] /\ j + 1 \in 1 .. Len(s)
      BY <1>1, <2>2
    <3> QED
      BY <3>1 DEF InTime
  <2> QED
    BY <2>1, <2>2
<1> QED
  BY <1>1, <1>2 DEF InTime

LEMMA InTimePushed ==
  ASSUME NEW s \in Seq(Entry), InTime(s), NEW e \in Entry, e.expire >= 0
  PROVE  InTime(Pushed(e, s))
<1>1. /\ Len(s) \in Nat /\ Len(Pushed(e, s)) = Len(s) + 1
      /\ \A j \in 1 .. Len(s) + 1 : Pushed(e, s)[j] = IF j = 1 THEN e ELSE s[j - 1]
  <2>1. Len(s) \in Nat
    OBVIOUS
  <2> QED
    <3>1. IsPushed(Pushed(e, s), e, s, Entry)
      BY <2>1, PushedSeq
    <3> QED
      BY <2>1, <3>1 DEF IsPushed
<1>2. ASSUME NEW j \in 1 .. Len(s) + 1
      PROVE  Pushed(e, s)[j].expire >= 0
  <2>1. CASE j = 1
    BY <1>1, <2>1
  <2>2. CASE j # 1
    <3>1. Pushed(e, s)[j] = s[j - 1] /\ j - 1 \in 1 .. Len(s)
      BY <1>1, <2>2
    <3> QED
      BY <3>1 DEF InTime
  <2> QED
    BY <2>1, <2>2
<1> QED
  BY <1>1, <1>2 DEF InTime

LEMMA InTimeStep ==
  ASSUME LInv, TtlsFit, InTime(List(c)), [Next]_vars
  PROVE  InTime(List(c'))
<1>1. State(c) /\ Times /\ List(c) \in Seq(Entry)
  BY LInvGives, ListSeq
<1>2. Entries = List(c) /\ Entries' = List(c')
  BY DEF Entries, List
<1>3. ASSUME NEW m \in 1 .. Len(List(c))
      PROVE  /\ Cut(List(c), m) \in Seq(Entry) /\ InTime(Cut(List(c), m))
             /\ Abstract!Without(m) = Cut(List(c), m)
  BY <1>1, CutSeq, InTimeCut, WithoutIs DEF IsCut
<1>4. ASSUME NEW k \in Keys, Get(k)
      PROVE  InTime(List(c'))
  <2>1. Abstract!Get(k)
    BY <1>4, GetStep
  <2>2. CASE Abstract!Miss
    BY <1>2, <2>2 DEF Abstract!Miss
  <2>3. ASSUME NEW m \in 1 .. Len(List(c)), Abstract!Late(m)
        PROVE  InTime(List(c'))
    BY <1>2, <1>3, <2>3 DEF Abstract!Late
  <2>4. ASSUME NEW m \in 1 .. Len(List(c)), Abstract!Hit(m)
        PROVE  InTime(List(c'))
    <3>1. PICK e : e = List(c)[m]
      OBVIOUS
    <3>2. e \in Entry /\ e.expire >= 0
      BY <1>1, <3>1 DEF InTime
    <3>3. List(c') = Pushed(e, Cut(List(c), m))
      BY <1>2, <1>3, <2>4, <3>1, <3>2, PushedIs DEF Abstract!Hit
    <3> QED
      BY <1>3, <3>2, <3>3, InTimePushed
  <2> QED
    BY <1>2, <2>1, <2>2, <2>3, <2>4 DEF Abstract!Get
<1>5. ASSUME NEW k \in Keys, NEW v \in Vals, NEW ttl \in Ttls, Put(k, v, ttl)
      PROVE  InTime(List(c'))
  <2>1. PICK e \in Entry :
          /\ e = [key |-> k, val |-> v, expire |-> Deadline(ttl)]
          /\ \/ \E m \in 1 .. Len(List(c)) :
                  List(c)[m].key = k /\ List(c') = Pushed(e, Cut(List(c), m))
             \/ /\ \A m \in 1 .. Len(List(c)) : List(c)[m].key # k
                /\ Len(List(c)) < Capacity => List(c') = Pushed(e, List(c))
                /\ Len(List(c)) = Capacity
                     => List(c') = Pushed(e, Cut(List(c), Len(List(c))))
    BY <1>5, PutState
  <2>2. e.expire >= 0
    <3>1. e.expire = Deadline(ttl)
      BY <2>1
    <3> QED
      BY <1>1, <3>1, DeadlineIs
  <2>3. ASSUME NEW m \in 1 .. Len(List(c))
        PROVE  InTime(Pushed(e, Cut(List(c), m)))
    BY <1>3, <2>2, InTimePushed
  <2>4. InTime(Pushed(e, List(c)))
    BY <1>1, <2>2, InTimePushed
  <2>5. Len(List(c)) < Capacity \/ (Len(List(c)) = Capacity /\ Len(List(c)) \in 1 .. Len(List(c)))
    BY <1>1, ListSeq, IndexRange
  <2> QED
    BY <2>1, <2>3, <2>4, <2>5
<1>6. ASSUME NEW k \in Keys, Remove(k)
      PROVE  InTime(List(c'))
  <2>1. Abstract!Remove(k)
    BY <1>6, RemoveStep
  <2> QED
    BY <1>2, <1>3, <2>1 DEF Abstract!Remove
<1>7. CASE PurgeLooks
  <2>1. CASE c' = c
    BY <2>1
  <2>2. CASE Abstract!Expire
    BY <1>2, <1>3, <2>2 DEF Abstract!Expire
  <2> QED
    BY <1>7, <2>1, <2>2, LooksStep
<1>8. CASE PurgeBegins \/ PurgeReturns \/ Tick \/ UNCHANGED vars
  <2>1. c' = c
    BY <1>8, QuietStep
  <2> QED
    BY <2>1
<1> QED
  BY <1>4, <1>5, <1>6, <1>7, <1>8 DEF Next

LEMMA PurgeStep ==
  ASSUME LInv, InTime(List(c)), PurgeComplete, [Next]_vars
  PROVE  PurgeComplete'
<1>1. State(c) /\ Times /\ c.node \in [Idx -> Node]
  BY LInvGives DEF State, Shape
<1>2. SUFFICES ASSUME NEW i \in Idx, i < at', c'.node[i].used, c'.node[i].expire # 0
               PROVE  since' < c'.node[i].expire
  BY DEF PurgeComplete
<1>3. i \in Nat
  BY IndexRange DEF Idx
<1>4. c.node[i].used /\ c.node[i].expire # 0 /\ i < at => since < c.node[i].expire
  BY DEF PurgeComplete
<1>5. CASE at' = Null \/ at' = 0
  BY <1>2, <1>3, <1>5 DEF Null
<1>6. CASE PurgeLooks
  <2>1. /\ at \in Idx /\ at' = at + 1 /\ since' = since
        /\ \/ c' = RemoveNode(c, at) /\ c.node[at].used
           \/ c' = c /\ ~(c.node[at].used /\ c.node[at].expire > 0 /\ Late(c.node[at]))
    BY <1>6 DEF PurgeLooks
  <2>2. i < at \/ i = at
    BY <1>2, <1>3, <2>1, IndexRange DEF Idx
  <2>3. CASE c' = RemoveNode(c, at) /\ c.node[at].used
    <3>1. /\ ~c'.node[at].used
          /\ \A j \in Idx : j # at => SameData(c'.node[j], c.node[j])
      BY <1>1, <2>1, <2>3, Removed
    <3>2. i < at /\ SameData(c'.node[i], c.node[i])
      BY <1>2, <2>2, <3>1
    <3> QED
      BY <1>2, <1>4, <2>1, <3>2 DEF SameData
  <2>4. CASE c' = c /\ ~(c.node[at].used /\ c.node[at].expire > 0 /\ Late(c.node[at]))
    <3>1. CASE i < at
      BY <1>2, <1>4, <2>1, <2>4, <3>1
    <3>2. CASE i = at
      <4>1. c.node[i].used /\ c.node[i].expire # 0
        BY <1>2, <2>4
      <4>2. PICK m \in 1 .. Len(List(c)) : List(c)[m] = EntryOf(c.node[i])
        BY <1>1, <4>1, HitList
      <4>3. c.node[i].expire >= 0
        BY <4>2 DEF InTime, EntryOf
      <4>4. c.node[i].expire \in Int
        BY <1>1 DEF Node
      <4>5. ~(now >= c.node[i].expire)
        BY <2>4, <3>2, <4>1, <4>3, <4>4 DEF Late
      <4> QED
        BY <1>1, <2>1, <2>4, <4>4, <4>5 DEF Times
    <3> QED
      BY <2>2, <3>1, <3>2
  <2> QED
    BY <2>1, <2>3, <2>4
<1>7. CASE Tick \/ UNCHANGED vars
  BY <1>2, <1>4, <1>7 DEF Tick, vars
<1>8. ASSUME NEW k \in Keys, Get(k)
      PROVE  at' = Null
  BY <1>8 DEF Get, Idle
<1>9. ASSUME NEW k \in Keys, NEW v \in Vals, NEW ttl \in Ttls, Put(k, v, ttl)
      PROVE  at' = Null
  BY <1>9 DEF Put, Idle
<1>10. ASSUME NEW k \in Keys, Remove(k)
       PROVE  at' = Null
  BY <1>10 DEF Remove, Idle
<1>11. CASE PurgeBegins \/ PurgeReturns
  BY <1>5, <1>11 DEF PurgeBegins, PurgeReturns
<1> QED
  BY <1>5, <1>6, <1>7, <1>8, <1>9, <1>10, <1>11 DEF Next

-----------------------------------------------------------------------------
(* The theorems. *)

LEMMA LInvHolds == Spec => []LInv
<1>1. Init => LInv
  BY InitState
<1> QED
  BY <1>1, LInvStep, PTL DEF Spec

\* The array, its counter and the two ends stay what LruCacheMem is made of, and
\* there are never more entries than the capacity asked for.
THEOREM LruTypeCorrect == Spec => []TypeOK
<1>1. LInv => TypeOK
  BY DEF LInv
<1> QED
  BY <1>1, LInvHolds, PTL

\* Whatever calls are made, in whatever order, the links of the nodes in use run
\* through all of them once, from head to tail and back.
THEOREM LinksAgree == Spec => []Linked
<1>1. LInv => Linked
  BY DEF LInv, State, Linked
<1> QED
  BY <1>1, LInvHolds, PTL

\* If no deadline reaches 2^63, a purge that comes to a node leaves there no entry
\* whose time was over when the purge began.
THEOREM PurgesAreComplete ==
  ASSUME TtlsFit
  PROVE  Spec => []PurgeComplete
<1> DEFINE PInv == LInv /\ InTime(List(c)) /\ PurgeComplete
<1>1. Init => PInv
  <2> SUFFICES ASSUME Init
               PROVE  PInv
    OBVIOUS
  <2>1. LInv /\ List(c) = <<>>
    BY InitState
  <2>2. InTime(List(c))
    BY <2>1 DEF InTime
  <2>3. at = -1
    BY DEF Init, Null
  <2>4. PurgeComplete
    BY <2>3, IndexRange DEF PurgeComplete, Idx
  <2> QED
    BY <2>1, <2>2, <2>4
<1>2. PInv /\ [Next]_vars => PInv'
  BY LInvStep, InTimeStep, PurgeStep
<1> QED
  BY <1>1, <1>2, PTL DEF Spec

\* If no deadline reaches 2^63, the cache is the list that LruList specifies.
THEOREM CacheIsLruList ==
  ASSUME TtlsFit
  PROVE  Spec => ListRefined
<1>1. Init => Abstract!Init
  BY InitState, LruConstants DEF Init, Abstract!Init, Entries, List
<1>2. LInv /\ [Next]_vars => [Abstract!Next]_(Abstract!vars)
  BY Step
<1> QED
  BY <1>1, <1>2, LInvHolds, PTL DEF Spec, Abstract!Spec, ListRefined
=============================================================================
