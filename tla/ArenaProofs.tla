----------------------------- MODULE ArenaProofs -----------------------------
(***************************************************************************)
(* What the operations of the arena linked list do to the order of its     *)
(* nodes and to its free list, for a Vec of any length.                    *)
(***************************************************************************)
EXTENDS Arena, Sequences, SequenceTheorems, WellFoundedInduction, TLAPS

Slots(m) == 0..(m - 1)
LinksTo(m) == Slots(m) \union {NoIndex}

NodesOf(m, V) == [before: LinksTo(m), after: LinksTo(m), value: V \union {None}]

\* A list whose Vec has m nodes, for values of V.
Arenas(m, V) ==
  [count: Nat, first: LinksTo(m), last: LinksTo(m), free: LinksTo(m), len: {m},
   nodes: [Slots(m) -> NodesOf(m, V)]]

\* What stands next to place k of q, which has n places.
Previous(q, k)     == IF k > 1 THEN q[k - 1] ELSE NoIndex
Following(q, n, k) == IF k < n THEN q[k + 1] ELSE NoIndex

Apart(q, n) == \A j, k \in 1..n : q[j] = q[k] => j = k

\* The nodes of s and those of f divide the Vec between them.
Divided(a, s, f) ==
  /\ s \in [1..a.count -> Slots(a.len)] /\ Apart(s, a.count)
  /\ f \in [1..(a.len - a.count) -> Slots(a.len)] /\ Apart(f, a.len - a.count)
  /\ \A j \in 1..a.count, k \in 1..(a.len - a.count) : s[j] # f[k]
  /\ \A i \in Slots(a.len) :
       (\E k \in 1..a.count : i = s[k]) \/ (\E k \in 1..(a.len - a.count) : i = f[k])

\* The links go along s, and every node of s has a value.
Chained(a, s) ==
  /\ a.first = Following(s, a.count, 0) /\ a.last = Previous(s, a.count + 1)
  /\ \A k \in 1..a.count :
       /\ a.nodes[s[k]].before = Previous(s, k)
       /\ a.nodes[s[k]].after = Following(s, a.count, k)
       /\ a.nodes[s[k]].value # None

\* The free list goes along f.
FreeChained(a, f) ==
  LET n == a.len - a.count IN
  /\ a.free = Following(f, n, 0)
  /\ \A k \in 1..n : a.nodes[f[k]].after = Following(f, n, k)

\* a holds values of V in the nodes s, in this order, and f is its free list.
ListIs(a, V, s, f) ==
  /\ a.len \in Nat \ {0} /\ a \in Arenas(a.len, V) /\ a.count <= a.len
  /\ Divided(a, s, f) /\ Chained(a, s) /\ FreeChained(a, f)

Inserted(s, n, p, i) ==
  [k \in 1..(n + 1) |-> IF k < p THEN s[k] ELSE IF k = p THEN i ELSE s[k - 1]]

Without(s, n, p) == [k \in 1..(n - 1) |-> IF k < p THEN s[k] ELSE s[k + 1]]

Upwards(m, n) == [k \in 1..n |-> m + k - 1]
-----------------------------------------------------------------------------
\* NoIndex is the index of no node.
LEMMA NoLink == \A m \in Nat : NoIndex \notin Slots(m)
BY DEF NoIndex, Slots

\* A set of numbers that is not empty has a least one: what the inductions below rest on.
LEMMA LeastNatural ==
  ASSUME NEW T \in SUBSET Nat, T # {}
  PROVE  \E n \in T : \A m \in T : ~(m < n)
<1>1. \E x \in T : \A y \in T : ~(<<y, x>> \in OpToRel(<, Nat))
  BY NatLessThanWellFounded, WFMin
<1> QED
  BY <1>1 DEF OpToRel

\* A walk of n steps along the links is determined by where it starts.
Walk(q, n, nodes, start) ==
  q = [k \in 1..n |-> IF k = 1 THEN start ELSE nodes[q[k - 1]].after]

\* Two walks from the same start are the same: at the first place where they
\* differ they would follow the same link.
LEMMA OneWalk ==
  ASSUME NEW n \in Nat, NEW nodes, NEW start,
         NEW q, Walk(q, n, nodes, start), NEW r, Walk(r, n, nodes, start)
  PROVE  q = r
<1>1. /\ DOMAIN q = 1..n /\ q = [k \in 1..n |-> q[k]]
      /\ \A k \in 1..n : q[k] = IF k = 1 THEN start ELSE nodes[q[k - 1]].after
  BY DEF Walk
<1>2. /\ DOMAIN r = 1..n /\ r = [k \in 1..n |-> r[k]]
      /\ \A k \in 1..n : r[k] = IF k = 1 THEN start ELSE nodes[r[k - 1]].after
  BY DEF Walk
<1> DEFINE T == {k \in 1..n : q[k] # r[k]}
<1>3. CASE T # {}
  <2>1. T \in SUBSET Nat
    OBVIOUS
  <2>2. PICK k \in T : \A j \in T : ~(j < k)
    <3> HIDE DEF T
    <3> QED BY <1>3, <2>1, LeastNatural
  <2>3. k # 1 /\ k \in 1..n /\ q[k] # r[k]
    BY <1>1, <1>2, <2>2
  <2>4. k - 1 \in 1..n /\ q[k - 1] = r[k - 1]
    BY <2>2, <2>3
  <2>5. q[k] = nodes[q[k - 1]].after
    BY <1>1, <2>3
  <2>6. r[k] = nodes[r[k - 1]].after
    BY <1>2, <2>3
  <2> QED BY <2>3, <2>4, <2>5, <2>6
<1>4. CASE T = {}
  <2>1. \A k \in 1..n : q[k] = r[k]
    BY <1>4
  <2> QED BY <1>1, <1>2, <2>1
<1> QED
  BY <1>3, <1>4

\* Whatever sequences show that a is a list, they are Order and FreeOrder.
LEMMA OrderIs ==
  ASSUME NEW V, NEW a, NEW s, NEW f, ListIs(a, V, s, f)
  PROVE  s = Order(a) /\ f = FreeOrder(a)
<1>1. a.count \in Nat /\ a.len \in Nat /\ a.len > 0 /\ a.count <= a.len
  BY DEF ListIs, Arenas
<1>2. s = Order(a)
  <2>1. Walk(s, a.count, a.nodes, a.first)
    BY <1>1 DEF ListIs, Divided, Chained, Following, Walk
  <2>2. Walk(Order(a), a.count, a.nodes, a.first)
    BY <2>1 DEF Walk, Order
  <2> QED BY <1>1, <2>1, <2>2, OneWalk
<1>3. f = FreeOrder(a)
  <2>1. Walk(f, a.len - a.count, a.nodes, a.free)
    BY <1>1 DEF ListIs, Divided, FreeChained, Following, Walk
  <2>2. Walk(FreeOrder(a), a.len - a.count, a.nodes, a.free)
    BY <2>1 DEF Walk, FreeOrder
  <2> QED BY <1>1, <2>1, <2>2, OneWalk
<1> QED
  BY <1>2, <1>3

\* The nodes of a list are what WellLinked asks of them.
LEMMA ListIsWellLinked ==
  ASSUME NEW V, NEW a, NEW s, NEW f, ListIs(a, V, s, f)
  PROVE  WellLinked(a)
<1> DEFINE n == a.count
           m == a.len - n
<1>1. n \in Nat /\ a.len \in Nat /\ m \in Nat /\ s = Order(a) /\ f = FreeOrder(a)
  BY OrderIs DEF ListIs, Arenas
<1>2. /\ {s[k] : k \in 1..n} \union {f[k] : k \in 1..m} = 0..(a.len - 1)
      /\ {s[k] : k \in 1..n} \intersect {f[k] : k \in 1..m} = {}
  BY <1>1 DEF ListIs, Divided, Slots
<1>3. \A k \in 1..n : a.nodes[s[k]].before = IF k = 1 THEN NoIndex ELSE s[k - 1]
  BY <1>1 DEF ListIs, Chained, Previous
<1>4. \A k \in 1..n : s[k] # NoIndex
  BY <1>1 DEF ListIs, Divided, Slots, NoIndex
<1>5. /\ a.last = (IF n = 0 THEN NoIndex ELSE s[n])
      /\ a.first = NoIndex <=> n = 0
      /\ n > 0 => a.nodes[a.last].after = NoIndex
  BY <1>1, <1>4 DEF ListIs, Chained, Previous, Following
<1>6. \A i \in {s[k] : k \in 1..n} : a.nodes[i].value # None
  BY <1>1 DEF ListIs, Chained
<1> QED
  BY <1>1, <1>2, <1>3, <1>5, <1>6 DEF WellLinked
-----------------------------------------------------------------------------
(* The operations.                                                         *)

\* fill_free chains n nodes from start on and leaves everything else alone.
LEMMA FilledFree ==
  ASSUME NEW V, NEW m \in Nat \ {0}, NEW a \in Arenas(m, V),
         NEW start \in Slots(m), NEW n \in 1..(m - start)
  PROVE  LET b == FillFree(a, start, n) IN
         /\ b \in Arenas(m, V) /\ b.free = start
         /\ b.count = a.count /\ b.first = a.first /\ b.last = a.last
         /\ \A i \in Slots(m) :
              /\ b.nodes[i].before = a.nodes[i].before /\ b.nodes[i].value = a.nodes[i].value
              /\ b.nodes[i].after = IF i < start \/ i >= start + n THEN a.nodes[i].after
                                    ELSE IF i = start + n - 1 THEN NoIndex ELSE i + 1
<1> DEFINE node(i) == IF i \in start..(start + n - 1)
                      THEN [a.nodes[i] EXCEPT
                              !.after = IF i = start + n - 1 THEN NoIndex ELSE i + 1]
                      ELSE a.nodes[i]
<1>1. ASSUME NEW i \in Slots(m)
      PROVE  /\ node(i) \in NodesOf(m, V)
             /\ node(i).before = a.nodes[i].before /\ node(i).value = a.nodes[i].value
             /\ node(i).after = IF i < start \/ i >= start + n THEN a.nodes[i].after
                                ELSE IF i = start + n - 1 THEN NoIndex ELSE i + 1
  <2> DEFINE x == a.nodes[i]
             y == IF i = start + n - 1 THEN NoIndex ELSE i + 1
  <2>1. x \in NodesOf(m, V)
    BY DEF Arenas
  <2>2. i \in start..(start + n - 1) <=> ~(i < start \/ i >= start + n)
    BY DEF Slots
  <2>3. i \in start..(start + n - 1) => y \in LinksTo(m)
    BY DEF Slots, LinksTo
  <2> HIDE DEF x, y
  <2>4. y \in LinksTo(m) =>
          /\ [x EXCEPT !.after = y] \in NodesOf(m, V)
          /\ [x EXCEPT !.after = y].before = x.before /\ [x EXCEPT !.after = y].value = x.value
          /\ [x EXCEPT !.after = y].after = y
    BY <2>1 DEF NodesOf
  <2> QED BY <2>1, <2>2, <2>3, <2>4 DEF x, y
<1> HIDE DEF node
<1>2. [i \in Slots(m) |-> node(i)] \in [Slots(m) -> NodesOf(m, V)]
  BY <1>1
<1>3. FillFree(a, start, n) = [a EXCEPT !.free = start, !.nodes = [i \in Slots(m) |-> node(i)]]
  BY DEF FillFree, node, Slots, Arenas
<1> DEFINE ns == [i \in Slots(m) |-> node(i)]
<1>4. \A i \in Slots(m) : ns[i] = node(i)
  OBVIOUS
<1> HIDE DEF ns
<1>5. LET b == [a EXCEPT !.free = start, !.nodes = ns] IN
      /\ b \in Arenas(m, V) /\ b.free = start /\ b.nodes = ns
      /\ b.count = a.count /\ b.first = a.first /\ b.last = a.last
  BY <1>2 DEF Arenas, LinksTo, ns
<1> QED
  BY <1>1, <1>3, <1>4, <1>5 DEF ns

\* clear
LEMMA ClearedIs ==
  ASSUME NEW V, NEW m \in Nat \ {0}, NEW a \in Arenas(m, V)
  PROVE  ListIs(Cleared(a), V, Upwards(0, 0), Upwards(0, m)) /\ Cleared(a).len = m
<1> DEFINE g == FillFree(a, 0, a.len)
           b == Cleared(a)
<1>1. a.len = m /\ 0 \in Slots(m) /\ m \in 1..(m - 0)
  BY DEF Arenas, Slots
<1>2. /\ g \in Arenas(m, V) /\ g.free = 0
      /\ \A i \in Slots(m) : g.nodes[i].after = IF i = m - 1 THEN NoIndex ELSE i + 1
  <2>1. \A i \in Slots(m) : ~(i < 0 \/ i >= 0 + m) /\ 0 + m - 1 = m - 1
    BY DEF Slots
  <2> QED BY <1>1, <2>1, FilledFree
<1>3. b = [g EXCEPT !.count = 0, !.first = NoIndex, !.last = NoIndex]
  BY DEF Cleared
<1> HIDE DEF g, b
<1>4. /\ b \in Arenas(m, V) /\ b.len = m /\ b.count = 0 /\ b.first = NoIndex /\ b.last = NoIndex
      /\ b.free = 0 /\ b.nodes = g.nodes
  BY <1>2, <1>3 DEF Arenas, LinksTo
<1> DEFINE s == Upwards(0, 0)
           f == Upwards(0, m)
<1>5. /\ s \in [1..0 -> Slots(m)]
      /\ f \in [1..m -> Slots(m)] /\ \A k \in 1..m : f[k] = k - 1
  BY DEF Upwards, Slots
<1> HIDE DEF s, f
<1>6. Divided(b, s, f)
  <2>1. \A i \in Slots(m) : i + 1 \in 1..m /\ i = f[i + 1]
    BY <1>5 DEF Slots
  <2>2. Apart(s, 0) /\ Apart(f, m)
    BY <1>5 DEF Apart
  <2> QED BY <1>4, <1>5, <2>1, <2>2 DEF Divided
<1>7. Chained(b, s)
  BY <1>4 DEF Chained, Following, Previous
<1>8. FreeChained(b, f)
  <2>1. \A k \in 1..m : b.nodes[f[k]].after = IF k = m THEN NoIndex ELSE f[k + 1]
    BY <1>2, <1>4, <1>5 DEF Slots
  <2> QED BY <1>4, <1>5, <2>1 DEF FreeChained, Following
<1> QED
  BY <1>4, <1>6, <1>7, <1>8 DEF ListIs, s, f, b

\* new_with_capacity
LEMMA NewArenaIs ==
  ASSUME NEW V
  PROVE  ListIs(NewArena, V, Upwards(0, 0), Upwards(0, 1)) /\ NewArena.len = 1
<1> DEFINE a == [count |-> 0, first |-> NoIndex, last |-> NoIndex, free |-> 0, len |-> 1,
                 nodes |-> [i \in 0..0 |-> FreshNode]]
<1>1. a \in Arenas(1, V)
  BY DEF Arenas, LinksTo, Slots, NodesOf, FreshNode
<1> HIDE DEF a
<1> QED
  BY <1>1, ClearedIs DEF NewArena, a

\* The Vec grows when there is no free node, and has one then.
LEMMA GrownIs ==
  ASSUME NEW V, NEW a, NEW s, NEW f, ListIs(a, V, s, f)
  PROVE  /\ \E r : ListIs(Grown(a), V, s, r)
         /\ Grown(a).count = a.count /\ Grown(a).count < Grown(a).len
         /\ Grown(a).len = IF a.count = a.len THEN 2 * a.len ELSE a.len
         /\ \A i \in Slots(a.len) : Grown(a).nodes[i].value = a.nodes[i].value
<1> DEFINE m == a.len
           g == Grown(a)
<1>1. m \in Nat \ {0} /\ a \in Arenas(m, V) /\ a.count \in 0..m
  BY DEF ListIs, Arenas
<1>2. CASE a.count # m
  <2>1. g = a
    BY <1>2 DEF Grown
  <2>2. \E r : ListIs(g, V, s, r)
    BY <2>1
  <2> HIDE DEF g
  <2> QED BY <1>1, <1>2, <2>1, <2>2 DEF g
<1>3. CASE a.count = m
  <2> DEFINE ns == [i \in Slots(2 * m) |-> IF i < m THEN a.nodes[i] ELSE FreshNode]
             e == [a EXCEPT !.len = 2 * @, !.nodes = ns]
             r == Upwards(m, m)
  <2>1. LinksTo(m) \subseteq LinksTo(2 * m) /\ 2 * m \in Nat \ {0}
    BY <1>1 DEF LinksTo, Slots
  <2>2. NodesOf(m, V) \subseteq NodesOf(2 * m, V) /\ FreshNode \in NodesOf(2 * m, V)
    BY <2>1 DEF NodesOf, FreshNode, LinksTo
  <2>3. \A i \in Slots(m) : i \in Slots(2 * m) /\ ns[i] = a.nodes[i]
    BY <1>1 DEF Slots
  <2>4. ns \in [Slots(2 * m) -> NodesOf(2 * m, V)]
    <3>1. \A i \in Slots(2 * m) : i < m => a.nodes[i] \in NodesOf(m, V)
      BY <1>1 DEF Slots, Arenas
    <3> QED BY <2>2, <3>1
  <2>5. g = FillFree(e, m, m)
    BY <1>3 DEF Grown, Slots
  <2> HIDE DEF ns
  <2>6. /\ e \in Arenas(2 * m, V) /\ e.nodes = ns /\ e.len = 2 * m
        /\ e.count = a.count /\ e.first = a.first /\ e.last = a.last
    BY <1>1, <2>1, <2>4 DEF Arenas
  <2> HIDE DEF e, g
  <2>7. m \in Slots(2 * m) /\ m \in 1..(2 * m - m)
    BY <1>1 DEF Slots
  <2>8. /\ g \in Arenas(2 * m, V) /\ g.free = m /\ g.len = 2 * m
        /\ g.count = m /\ g.first = a.first /\ g.last = a.last
        /\ \A i \in Slots(2 * m) :
              /\ g.nodes[i].before = ns[i].before /\ g.nodes[i].value = ns[i].value
              /\ g.nodes[i].after = IF i < m \/ i >= m + m THEN ns[i].after
                                    ELSE IF i = m + m - 1 THEN NoIndex ELSE i + 1
    <3>1. g \in Arenas(2 * m, V) => g.len = 2 * m
      BY DEF Arenas
    <3> HIDE DEF m
    <3>2. /\ g \in Arenas(2 * m, V) /\ g.free = m
          /\ g.count = e.count /\ g.first = e.first /\ g.last = e.last
          /\ \A i \in Slots(2 * m) :
               /\ g.nodes[i].before = e.nodes[i].before /\ g.nodes[i].value = e.nodes[i].value
               /\ g.nodes[i].after = IF i < m \/ i >= m + m THEN e.nodes[i].after
                                     ELSE IF i = m + m - 1 THEN NoIndex ELSE i + 1
      BY <2>1, <2>5, <2>6, <2>7, FilledFree
    <3> QED BY <1>3, <2>6, <3>1, <3>2
  <2>9. \A i \in Slots(m) :
          /\ g.nodes[i].before = a.nodes[i].before /\ g.nodes[i].value = a.nodes[i].value
          /\ g.nodes[i].after = a.nodes[i].after
    <3>1. \A i \in Slots(m) : i \in Slots(2 * m) /\ i < m /\ ns[i] = a.nodes[i]
      BY <1>1, <2>3 DEF Slots
    <3> QED BY <2>8, <3>1
  <2>10. /\ r \in [1..(2 * m - m) -> Slots(2 * m)]
         /\ \A k \in 1..(2 * m - m) : r[k] = m + k - 1
    BY <1>1 DEF Upwards, Slots
  <2> HIDE DEF r
  <2>11. s \in [1..m -> Slots(m)] /\ \A k \in 1..m : s[k] < m /\ s[k] \in Slots(2 * m)
    BY <1>1, <1>3 DEF ListIs, Divided, Slots
  <2>12. Divided(g, s, r)
    <3>1. s \in [1..m -> Slots(2 * m)] /\ Apart(s, m) /\ Apart(r, 2 * m - m)
      BY <1>1, <1>3, <2>10, <2>11 DEF ListIs, Divided, Apart
    <3>2. \A j \in 1..m, k \in 1..(2 * m - m) : s[j] # r[k]
      BY <1>1, <2>10, <2>11
    <3>3. ASSUME NEW i \in Slots(2 * m)
          PROVE  (\E k \in 1..m : i = s[k]) \/ (\E k \in 1..(2 * m - m) : i = r[k])
      <4>1. CASE i < m
        <5>1. i \in Slots(m) /\ a.len - a.count = 0
          BY <1>1, <1>3, <4>1 DEF Slots
        <5> QED BY <1>3, <5>1 DEF ListIs, Divided
      <4>2. CASE ~(i < m)
        <5>1. i - m + 1 \in 1..(2 * m - m) /\ m + (i - m + 1) - 1 = i
          BY <1>1, <4>2 DEF Slots
        <5> QED BY <2>10, <5>1
      <4> QED BY <4>1, <4>2
    <3> QED BY <2>8, <2>10, <3>1, <3>2, <3>3 DEF Divided
  <2>13. Chained(g, s)
    <3>1. \A k \in 1..m : /\ a.nodes[s[k]].before = Previous(s, k)
                          /\ a.nodes[s[k]].after = Following(s, m, k)
                          /\ a.nodes[s[k]].value # None
      BY <1>3 DEF ListIs, Chained
    <3>2. a.first = Following(s, m, 0) /\ a.last = Previous(s, m + 1)
      BY <1>3 DEF ListIs, Chained
    <3> QED BY <2>8, <2>9, <2>11, <3>1, <3>2 DEF Chained
  <2>14. FreeChained(g, r)
    <3>1. \A k \in 1..m : /\ r[k] = m + k - 1 /\ r[k] \in Slots(2 * m)
                          /\ k < m => r[k + 1] = m + k
                          /\ g.nodes[r[k]].after = IF k = m THEN NoIndex ELSE m + k
      BY <1>1, <2>8, <2>10 DEF Slots
    <3>2. r[1] = m /\ 2 * m - m = m
      BY <1>1, <2>10
    <3> QED BY <1>1, <2>8, <3>1, <3>2 DEF FreeChained, Following
  <2>15. ListIs(g, V, s, r)
    BY <1>1, <2>1, <2>8, <2>12, <2>13, <2>14 DEF ListIs
  <2> QED BY <1>1, <1>3, <2>8, <2>9, <2>15 DEF g
<1> QED
  BY <1>2, <1>3

\* c is g with v in the first free node, linked in at place p of s.
Spliced(g, V, s, p, v, c) ==
  /\ c \in Arenas(g.len, V) /\ c.count = g.count + 1 /\ c.free = g.nodes[g.free].after
  /\ c.first = IF p = 1 THEN g.free ELSE g.first
  /\ c.last = IF p = g.count + 1 THEN g.free ELSE g.last
  /\ c.nodes[g.free].before = Previous(s, p) /\ c.nodes[g.free].value = v
  /\ c.nodes[g.free].after = Following(s, g.count, p - 1)
  /\ \A i \in Slots(g.len) \ {g.free} :
       /\ c.nodes[i].value = g.nodes[i].value
       /\ c.nodes[i].before = IF p <= g.count /\ i = s[p] THEN g.free ELSE g.nodes[i].before
       /\ c.nodes[i].after = IF p > 1 /\ i = s[p - 1] THEN g.free ELSE g.nodes[i].after

\* A node of the free list that is linked in at place p is at place p of the list.
LEMMA SplicedIs ==
  ASSUME NEW V, None \notin V, NEW g, NEW s, NEW f, ListIs(g, V, s, f), g.count < g.len,
         NEW v \in V, NEW p \in 1..(g.count + 1), NEW c, Spliced(g, V, s, p, v, c)
  PROVE  \E r : ListIs(c, V, Inserted(s, g.count, p, g.free), r)
<1> DEFINE m == g.len
           n == g.count
           d == m - n
           i == g.free
           t == Inserted(s, n, p, i)
           r == [k \in 1..(d - 1) |-> f[k + 1]]
<1>1. m \in Nat \ {0} /\ n \in Nat /\ n < m /\ d \in Nat \ {0} /\ p \in 1..(n + 1)
  BY DEF ListIs, Arenas
<1>2. /\ s \in [1..n -> Slots(m)] /\ Apart(s, n) /\ f \in [1..d -> Slots(m)] /\ Apart(f, d)
      /\ \A j \in 1..n, k \in 1..d : s[j] # f[k]
      /\ \A x \in Slots(m) : (\E k \in 1..n : x = s[k]) \/ (\E k \in 1..d : x = f[k])
  BY DEF ListIs, Divided
<1>3. i = f[1] /\ i \in Slots(m) /\ \A k \in 1..n : s[k] # i
  BY <1>1, <1>2 DEF ListIs, FreeChained, Following
<1>4. /\ DOMAIN t = 1..(n + 1) /\ t[p] = i
      /\ \A k \in 1..(p - 1) : t[k] = s[k]
      /\ \A k \in (p + 1)..(n + 1) : t[k] = s[k - 1]
  BY <1>1 DEF Inserted
<1>5. t \in [1..(n + 1) -> Slots(m)]
  BY <1>1, <1>2, <1>3 DEF Inserted
<1>6. r \in [1..(d - 1) -> Slots(m)] /\ \A k \in 1..(d - 1) : r[k] = f[k + 1]
  BY <1>1, <1>2
<1>7. /\ c \in Arenas(m, V) /\ c.len = m /\ c.count = n + 1 /\ m - (n + 1) = d - 1
  BY <1>1 DEF Spliced, Arenas
<1> HIDE DEF t, r
<1>8. Divided(c, t, r)
  <2>1. Apart(t, n + 1)
    <3>1. \A j \in 1..(n + 1) : j # p =>
            \E l \in 1..n : t[j] = s[l] /\ l = IF j < p THEN j ELSE j - 1
      BY <1>1, <1>4
    <3> QED BY <1>1, <1>2, <1>3, <1>4, <3>1 DEF Apart
  <2>2. Apart(r, d - 1)
    BY <1>1, <1>2, <1>6 DEF Apart
  <2>3. ASSUME NEW j \in 1..(n + 1), NEW k \in 1..(d - 1) PROVE t[j] # r[k]
    <3>1. r[k] = f[k + 1] /\ k + 1 \in 1..d /\ r[k] # f[1]
      BY <1>1, <1>2, <1>6 DEF Apart
    <3>2. t[j] = i \/ \E l \in 1..n : t[j] = s[l]
      BY <1>1, <1>4
    <3> QED BY <1>2, <1>3, <3>1, <3>2
  <2>4. ASSUME NEW x \in Slots(m)
        PROVE  (\E k \in 1..(n + 1) : x = t[k]) \/ (\E k \in 1..(d - 1) : x = r[k])
    <3>1. ASSUME NEW k \in 1..n, x = s[k] PROVE \E l \in 1..(n + 1) : x = t[l]
      <4>1. CASE k < p
        BY <1>1, <1>4, <3>1, <4>1
      <4>2. CASE ~(k < p)
        <5>1. k + 1 \in (p + 1)..(n + 1) /\ k + 1 \in 1..(n + 1) /\ (k + 1) - 1 = k
          BY <1>1, <4>2
        <5> QED BY <1>4, <3>1, <5>1
      <4> QED BY <4>1, <4>2
    <3>2. ASSUME NEW k \in 1..d, x = f[k]
          PROVE  (\E l \in 1..(n + 1) : x = t[l]) \/ (\E l \in 1..(d - 1) : x = r[l])
      <4>1. CASE k = 1
        BY <1>1, <1>3, <1>4, <3>2, <4>1
      <4>2. CASE k # 1
        <5>1. k - 1 \in 1..(d - 1) /\ (k - 1) + 1 = k
          BY <1>1, <4>2
        <5> QED BY <1>6, <3>2, <5>1
      <4> QED BY <4>1, <4>2
    <3> QED BY <1>2, <3>1, <3>2
  <2> QED BY <1>5, <1>6, <1>7, <2>1, <2>2, <2>3, <2>4 DEF Divided
<1>9. Chained(c, t)
  <2>1. \A k \in 1..n : /\ g.nodes[s[k]].before = Previous(s, k)
                        /\ g.nodes[s[k]].after = Following(s, n, k)
                        /\ g.nodes[s[k]].value # None
    BY DEF ListIs, Chained
  <2>2. \A k \in 1..n :
          /\ c.nodes[s[k]].value # None
          /\ c.nodes[s[k]].before = IF k = p THEN i ELSE Previous(s, k)
          /\ c.nodes[s[k]].after = IF k = p - 1 THEN i ELSE Following(s, n, k)
    <3> TAKE k \in 1..n
    <3>1. s[k] \in Slots(m) \ {i}
      BY <1>2, <1>3
    <3>2. p <= n /\ s[k] = s[p] <=> k = p
      BY <1>1, <1>2 DEF Apart
    <3>3. p > 1 /\ s[k] = s[p - 1] <=> k = p - 1
      BY <1>1, <1>2 DEF Apart
    <3> QED BY <2>1, <3>1, <3>2, <3>3 DEF Spliced
  <2>3. ASSUME NEW k \in 1..(n + 1)
        PROVE  /\ c.nodes[t[k]].before = Previous(t, k)
               /\ c.nodes[t[k]].after = Following(t, n + 1, k)
               /\ c.nodes[t[k]].value # None
    <3>1. CASE k < p
      <4>1. /\ k \in 1..n /\ t[k] = s[k]
            /\ k > 1 => t[k - 1] = s[k - 1]
            /\ k = p - 1 => t[k + 1] = i
            /\ k # p - 1 => t[k + 1] = s[k + 1] /\ k < n
        BY <1>1, <1>4, <3>1
      <4>2. Previous(s, k) = Previous(t, k)
        BY <4>1 DEF Previous
      <4>3. (IF k = p - 1 THEN i ELSE Following(s, n, k)) = Following(t, n + 1, k)
        BY <1>1, <3>1, <4>1 DEF Following
      <4> QED BY <1>1, <2>2, <3>1, <4>1, <4>2, <4>3
    <3>2. CASE k = p
      <4>1. /\ c.nodes[i].before = Previous(s, p) /\ c.nodes[i].after = Following(s, n, p - 1)
            /\ c.nodes[i].value # None
        BY DEF Spliced
      <4>2. Previous(s, p) = Previous(t, p)
        BY <1>1, <1>4 DEF Previous
      <4>3. Following(s, n, p - 1) = Following(t, n + 1, p)
        BY <1>1, <1>4 DEF Following
      <4> QED BY <1>4, <3>2, <4>1, <4>2, <4>3
    <3>3. CASE k > p
      <4>1. /\ k - 1 \in 1..n /\ t[k] = s[k - 1] /\ (k - 1) # p - 1
            /\ k - 1 = p => t[k - 1] = i
            /\ k - 1 # p => t[k - 1] = s[(k - 1) - 1] /\ k - 1 > 1
            /\ k < n + 1 => t[k + 1] = s[(k - 1) + 1]
        BY <1>1, <1>4, <3>3
      <4>2. /\ c.nodes[t[k]].value # None
            /\ c.nodes[t[k]].before = IF k - 1 = p THEN i ELSE Previous(s, k - 1)
            /\ c.nodes[t[k]].after = Following(s, n, k - 1)
        BY <2>2, <4>1
      <4>3. (IF k - 1 = p THEN i ELSE Previous(s, k - 1)) = Previous(t, k)
        BY <1>1, <3>3, <4>1 DEF Previous
      <4>4. Following(s, n, k - 1) = Following(t, n + 1, k)
        BY <1>1, <3>3, <4>1 DEF Following
      <4> QED BY <4>2, <4>3, <4>4
    <3> QED BY <1>1, <3>1, <3>2, <3>3
  <2>4. c.first = Following(t, n + 1, 0)
    <3>1. g.first = Following(s, n, 0)
      BY DEF ListIs, Chained
    <3>2. c.first = IF p = 1 THEN i ELSE g.first
      BY DEF Spliced
    <3> QED BY <1>1, <1>4, <3>1, <3>2 DEF Following
  <2>5. c.last = Previous(t, (n + 1) + 1)
    <3>1. g.last = Previous(s, n + 1)
      BY DEF ListIs, Chained
    <3>2. c.last = IF p = n + 1 THEN i ELSE g.last
      BY DEF Spliced
    <3> QED BY <1>1, <1>4, <3>1, <3>2 DEF Previous
  <2> QED BY <1>7, <2>3, <2>4, <2>5 DEF Chained
<1>10. FreeChained(c, r)
  <2>1. \A k \in 1..d : g.nodes[f[k]].after = Following(f, d, k)
    BY DEF ListIs, FreeChained
  <2>2. \A k \in 1..(d - 1) : c.nodes[r[k]].after = Following(f, d, k + 1)
    <3> TAKE k \in 1..(d - 1)
    <3>1. k + 1 \in 1..d /\ r[k] = f[k + 1] /\ r[k] \in Slots(m) \ {i}
      BY <1>1, <1>2, <1>3, <1>6 DEF Apart
    <3>2. p > 1 => r[k] # s[p - 1]
      BY <1>1, <1>2, <3>1
    <3> QED BY <2>1, <3>1, <3>2 DEF Spliced
  <2>3. c.free = Following(f, d, 1)
    BY <1>1, <1>3, <2>1 DEF Spliced
  <2> QED BY <1>1, <1>6, <1>7, <2>2, <2>3 DEF FreeChained, Following
<1>11. ListIs(c, V, t, r)
  BY <1>1, <1>7, <1>8, <1>9, <1>10 DEF ListIs
<1> QED
  BY <1>11 DEF t

\* Two lists that agree but for the nodes.
SameEnds(b, a) ==
  /\ b.count = a.count /\ b.first = a.first /\ b.last = a.last /\ b.free = a.free
  /\ b.len = a.len

\* Setting one link changes that link and nothing else.
LEMMA AfterSet ==
  ASSUME NEW V, NEW m \in Nat, NEW a \in Arenas(m, V), NEW i \in Slots(m), NEW x \in LinksTo(m),
         NEW b, b = [a EXCEPT !.nodes[i].after = x]
  PROVE  /\ b \in Arenas(m, V) /\ SameEnds(b, a)
         /\ b.nodes[i].value = a.nodes[i].value /\ b.nodes[i].before = a.nodes[i].before
         /\ b.nodes[i].after = x
         /\ \A j \in Slots(m) \ {i} : b.nodes[j] = a.nodes[j]
BY DEF Arenas, NodesOf, SameEnds

LEMMA BeforeSet ==
  ASSUME NEW V, NEW m \in Nat, NEW a \in Arenas(m, V), NEW i \in Slots(m), NEW x \in LinksTo(m),
         NEW b, b = [a EXCEPT !.nodes[i].before = x]
  PROVE  /\ b \in Arenas(m, V) /\ SameEnds(b, a)
         /\ b.nodes[i].value = a.nodes[i].value /\ b.nodes[i].after = a.nodes[i].after
         /\ b.nodes[i].before = x
         /\ \A j \in Slots(m) \ {i} : b.nodes[j] = a.nodes[j]
BY DEF Arenas, NodesOf, SameEnds

\* What remove does to each field of a node that has its neighbours p and s.
LEMMA RemoveFields ==
  ASSUME NEW V, NEW m \in Nat \ {0}, NEW a \in Arenas(m, V), a.count \in Nat \ {0},
         NEW i \in Slots(m), a.nodes[i].before # i, a.nodes[i].after # i
  PROVE  LET c == Remove(a, i)
             p == a.nodes[i].before
             s == a.nodes[i].after
         IN  /\ c \in Arenas(m, V) /\ c.len = m /\ c.count = a.count - 1 /\ c.free = i
             /\ c.first = IF p = NoIndex THEN s ELSE a.first
             /\ c.last = IF s = NoIndex THEN p ELSE a.last
             /\ c.nodes[i].after = a.free /\ c.nodes[i].value = None
             /\ \A x \in Slots(m) \ {i} :
                  /\ c.nodes[x].value = a.nodes[x].value
                  /\ c.nodes[x].before = IF x = s THEN p ELSE a.nodes[x].before
                  /\ c.nodes[x].after = IF x = p THEN s ELSE a.nodes[x].after
<1> DEFINE p == a.nodes[i].before
           s == a.nodes[i].after
           x0 == [FreshNode EXCEPT !.after = a.free]
           freed == [a EXCEPT !.nodes[i] = x0, !.free = i, !.count = @ - 1]
           bridged == IF p = NoIndex THEN [freed EXCEPT !.first = s]
                      ELSE [freed EXCEPT !.nodes[p].after = s]
           c == IF s = NoIndex THEN [bridged EXCEPT !.last = p]
                ELSE [bridged EXCEPT !.nodes[s].before = p]
<1>1. Remove(a, i) = c
  BY DEF Remove
<1>2. /\ p \in LinksTo(m) /\ s \in LinksTo(m) /\ i \in LinksTo(m) /\ a.free \in LinksTo(m)
      /\ \A x \in LinksTo(m) : x # NoIndex => x \in Slots(m)
  BY DEF Arenas, NodesOf, LinksTo
<1>3. /\ x0 \in NodesOf(m, V) /\ x0.after = a.free /\ x0.value = None
  BY <1>2 DEF FreshNode, NodesOf, LinksTo
<1> HIDE DEF p, s, x0
<1>4. /\ freed \in Arenas(m, V) /\ freed.count = a.count - 1 /\ freed.free = i
      /\ freed.first = a.first /\ freed.last = a.last
      /\ freed.nodes[i] = x0 /\ \A x \in Slots(m) \ {i} : freed.nodes[x] = a.nodes[x]
  <2>1. a.count - 1 \in Nat
    OBVIOUS
  <2> QED BY <1>2, <1>3, <2>1 DEF Arenas
<1> HIDE DEF freed
<1>5. /\ bridged \in Arenas(m, V) /\ bridged.count = a.count - 1 /\ bridged.free = i
      /\ bridged.first = (IF p = NoIndex THEN s ELSE a.first) /\ bridged.last = a.last
      /\ bridged.nodes[i] = x0
      /\ \A x \in Slots(m) \ {i} :
           /\ bridged.nodes[x].value = a.nodes[x].value
           /\ bridged.nodes[x].before = a.nodes[x].before
           /\ bridged.nodes[x].after = IF x = p THEN s ELSE a.nodes[x].after
  <2>1. CASE p = NoIndex
    <3>1. \A x \in Slots(m) : x # p
      BY <2>1 DEF Slots, NoIndex
    <3> QED BY <1>2, <1>4, <2>1, <3>1 DEF Arenas
  <2>2. CASE p # NoIndex
    <3>1. p \in Slots(m) /\ p # i
      BY <1>2, <2>2 DEF p
    <3>2. bridged = [freed EXCEPT !.nodes[p].after = s]
      BY <2>2
    <3> HIDE DEF bridged
    <3>3. /\ bridged \in Arenas(m, V) /\ SameEnds(bridged, freed)
          /\ bridged.nodes[p].value = freed.nodes[p].value
          /\ bridged.nodes[p].before = freed.nodes[p].before
          /\ bridged.nodes[p].after = s
          /\ \A x \in Slots(m) \ {p} : bridged.nodes[x] = freed.nodes[x]
      BY <1>2, <1>4, <3>1, <3>2, AfterSet
    <3> QED BY <1>4, <2>2, <3>1, <3>3 DEF SameEnds
  <2> QED BY <2>1, <2>2
<1> HIDE DEF bridged
<1>6. /\ c \in Arenas(m, V) /\ c.count = a.count - 1 /\ c.free = i
      /\ c.first = (IF p = NoIndex THEN s ELSE a.first)
      /\ c.last = (IF s = NoIndex THEN p ELSE a.last)
      /\ c.nodes[i] = x0
      /\ \A x \in Slots(m) \ {i} :
           /\ c.nodes[x].value = a.nodes[x].value
           /\ c.nodes[x].before = IF x = s THEN p ELSE a.nodes[x].before
           /\ c.nodes[x].after = IF x = p THEN s ELSE a.nodes[x].after
  <2>1. CASE s = NoIndex
    <3>1. \A x \in Slots(m) : x # s
      BY <2>1 DEF Slots, NoIndex
    <3> QED BY <1>2, <1>5, <2>1, <3>1 DEF Arenas
  <2>2. CASE s # NoIndex
    <3>1. s \in Slots(m) /\ s # i
      BY <1>2, <2>2 DEF s
    <3>2. c = [bridged EXCEPT !.nodes[s].before = p]
      BY <2>2
    <3> HIDE DEF c
    <3>3. /\ c \in Arenas(m, V) /\ SameEnds(c, bridged)
          /\ c.nodes[s].value = bridged.nodes[s].value
          /\ c.nodes[s].after = bridged.nodes[s].after
          /\ c.nodes[s].before = p
          /\ \A x \in Slots(m) \ {s} : c.nodes[x] = bridged.nodes[x]
      BY <1>2, <1>5, <3>1, <3>2, BeforeSet
    <3> QED BY <1>5, <2>2, <3>1, <3>3 DEF SameEnds
  <2> QED BY <2>1, <2>2
<1> HIDE DEF c
<1>7. c.len = m
  BY <1>6 DEF Arenas
<1> QED
  BY <1>1, <1>3, <1>6, <1>7 DEF p, s

\* remove of the node at place p takes it out of the order; it is the first
\* of the free list.
LEMMA RemoveIs ==
  ASSUME NEW V, None \notin V, NEW a, NEW s, NEW f, ListIs(a, V, s, f), NEW p \in 1..a.count
  PROVE  LET c == Remove(a, s[p]) IN
         /\ CanRemove(a, s[p])
         /\ \E r : ListIs(c, V, Without(s, a.count, p), r)
         /\ c.count = a.count - 1 /\ c.len = a.len
         /\ c.nodes[s[p]].value = None
         /\ \A x \in Slots(a.len) \ {s[p]} : c.nodes[x].value = a.nodes[x].value
<1> DEFINE m == a.len
           n == a.count
           d == m - n
           i == s[p]
           c == Remove(a, i)
           t == Without(s, n, p)
           r == [k \in 1..(d + 1) |-> IF k = 1 THEN i ELSE f[k - 1]]
<1>1. m \in Nat \ {0} /\ n \in Nat \ {0} /\ n <= m /\ d \in Nat /\ p \in 1..n /\ a \in Arenas(m, V)
  BY DEF ListIs, Arenas
<1>2. /\ s \in [1..n -> Slots(m)] /\ Apart(s, n) /\ f \in [1..d -> Slots(m)] /\ Apart(f, d)
      /\ \A j \in 1..n, k \in 1..d : s[j] # f[k]
      /\ \A x \in Slots(m) : (\E k \in 1..n : x = s[k]) \/ (\E k \in 1..d : x = f[k])
  BY DEF ListIs, Divided
<1>3. /\ \A k \in 1..n : /\ a.nodes[s[k]].before = Previous(s, k)
                         /\ a.nodes[s[k]].after = Following(s, n, k)
                         /\ a.nodes[s[k]].value # None
      /\ a.first = Following(s, n, 0) /\ a.last = Previous(s, n + 1)
  BY DEF ListIs, Chained
<1>4. i \in Slots(m) /\ i # NoIndex /\ i < m
  BY <1>1, <1>2 DEF Slots, NoIndex
<1>5. a.nodes[i].before # i /\ a.nodes[i].after # i
  <2>1. Previous(s, p) # i
    BY <1>1, <1>2, <1>4 DEF Previous, Apart
  <2>2. Following(s, n, p) # i
    BY <1>1, <1>2, <1>4 DEF Following, Apart
  <2> QED BY <1>3, <2>1, <2>2
<1>6. CanRemove(a, i)
  BY <1>1, <1>3, <1>4 DEF CanRemove
<1>7. /\ c \in Arenas(m, V) /\ c.len = m /\ c.count = n - 1 /\ c.free = i
      /\ c.first = (IF Previous(s, p) = NoIndex THEN Following(s, n, p) ELSE a.first)
      /\ c.last = (IF Following(s, n, p) = NoIndex THEN Previous(s, p) ELSE a.last)
      /\ c.nodes[i].after = a.free /\ c.nodes[i].value = None
      /\ \A x \in Slots(m) \ {i} :
           /\ c.nodes[x].value = a.nodes[x].value
           /\ c.nodes[x].before = IF x = Following(s, n, p) THEN Previous(s, p) ELSE a.nodes[x].before
           /\ c.nodes[x].after = IF x = Previous(s, p) THEN Following(s, n, p) ELSE a.nodes[x].after
  <2>1. a.nodes[i].before = Previous(s, p) /\ a.nodes[i].after = Following(s, n, p)
    BY <1>3
  <2> HIDE DEF m, n, i, c
  <2> QED BY <1>1, <1>4, <1>5, <2>1, RemoveFields DEF c, n
<1>8. /\ t \in [1..(n - 1) -> Slots(m)]
      /\ \A k \in 1..(n - 1) : t[k] = IF k < p THEN s[k] ELSE s[k + 1]
  BY <1>1, <1>2 DEF Without
<1>9. /\ r \in [1..(d + 1) -> Slots(m)] /\ r[1] = i
      /\ \A k \in 2..(d + 1) : r[k] = f[k - 1]
  BY <1>1, <1>2, <1>4
<1>10. \A j, k \in 1..n : s[j] = s[k] => j = k
  BY <1>2 DEF Apart
<1> HIDE DEF c, t, r
<1>11. \A k \in 1..(n - 1) : \E l \in 1..n : t[k] = s[l] /\ l # p /\ l = IF k < p THEN k ELSE k + 1
  BY <1>1, <1>8
<1>12. Divided(c, t, r)
  <2>1. Apart(t, n - 1)
    BY <1>1, <1>10, <1>11 DEF Apart
  <2>2. Apart(r, d + 1)
    <3>1. \A k \in 1..(d + 1) : k # 1 => k \in 2..(d + 1) /\ k - 1 \in 1..d
      BY <1>1
    <3> QED BY <1>1, <1>2, <1>9, <3>1 DEF Apart
  <2>3. \A j \in 1..(n - 1), k \in 1..(d + 1) : t[j] # r[k]
    <3>1. \A k \in 1..(d + 1) : k # 1 => k \in 2..(d + 1) /\ k - 1 \in 1..d
      BY <1>1
    <3> QED BY <1>1, <1>2, <1>9, <1>10, <1>11, <3>1
  <2>4. ASSUME NEW x \in Slots(m)
        PROVE  (\E k \in 1..(n - 1) : x = t[k]) \/ (\E k \in 1..(d + 1) : x = r[k])
    <3>1. ASSUME NEW k \in 1..n, x = s[k], k # p PROVE \E l \in 1..(n - 1) : x = t[l]
      <4>1. CASE k < p
        BY <1>1, <1>8, <3>1, <4>1
      <4>2. CASE k > p
        <5>1. k - 1 \in 1..(n - 1) /\ ~(k - 1 < p) /\ (k - 1) + 1 = k
          BY <1>1, <4>2
        <5> QED BY <1>8, <3>1, <5>1
      <4> QED BY <1>1, <3>1, <4>1, <4>2
    <3>2. x = s[p] => x = r[1] /\ 1 \in 1..(d + 1)
      BY <1>1, <1>9
    <3>3. ASSUME NEW k \in 1..d, x = f[k] PROVE \E l \in 1..(d + 1) : x = r[l]
      <4>1. k + 1 \in 2..(d + 1) /\ k + 1 \in 1..(d + 1) /\ (k + 1) - 1 = k
        BY <1>1
      <4> QED BY <1>9, <3>3, <4>1
    <3> QED BY <1>2, <3>1, <3>2, <3>3
  <2> QED BY <1>1, <1>7, <1>8, <1>9, <2>1, <2>2, <2>3, <2>4 DEF Divided
<1>13. Chained(c, t)
  <2>1. \A k \in 1..n : Following(s, n, p) = s[k] <=> k = p + 1
    BY <1>1, <1>2, <1>10, NoLink DEF Following
  <2>2. \A k \in 1..n : Previous(s, p) = s[k] <=> k = p - 1
    BY <1>1, <1>2, <1>10, NoLink DEF Previous
  <2>3. \A k \in 1..n : k # p =>
          /\ c.nodes[s[k]].value # None
          /\ c.nodes[s[k]].before = IF k = p + 1 THEN Previous(s, p) ELSE Previous(s, k)
          /\ c.nodes[s[k]].after = IF k = p - 1 THEN Following(s, n, p) ELSE Following(s, n, k)
    <3> TAKE k \in 1..n
    <3> HAVE k # p
    <3>1. s[k] \in Slots(m) \ {i}
      BY <1>2, <1>10
    <3> QED BY <1>3, <1>7, <2>1, <2>2, <3>1
  <2>4. ASSUME NEW k \in 1..(n - 1)
        PROVE  /\ c.nodes[t[k]].before = Previous(t, k)
               /\ c.nodes[t[k]].after = Following(t, n - 1, k)
               /\ c.nodes[t[k]].value # None
    <3> DEFINE l == IF k < p THEN k ELSE k + 1
    <3>1. l \in 1..n /\ l # p /\ t[k] = s[l]
      BY <1>1, <1>8
    <3>2. (IF l = p + 1 THEN Previous(s, p) ELSE Previous(s, l)) = Previous(t, k)
      BY <1>1, <1>8 DEF Previous
    <3>3. (IF l = p - 1 THEN Following(s, n, p) ELSE Following(s, n, l)) = Following(t, n - 1, k)
      BY <1>1, <1>8 DEF Following
    <3> HIDE DEF l
    <3> QED BY <2>3, <3>1, <3>2, <3>3
  <2>5. c.first = Following(t, n - 1, 0)
    <3>1. Previous(s, p) = NoIndex <=> p = 1
      BY <1>1, <1>2, NoLink DEF Previous
    <3> QED BY <1>1, <1>3, <1>7, <1>8, <3>1 DEF Following
  <2>6. c.last = Previous(t, (n - 1) + 1)
    <3>1. Following(s, n, p) = NoIndex <=> p = n
      BY <1>1, <1>2, NoLink DEF Following
    <3> QED BY <1>1, <1>3, <1>7, <1>8, <3>1 DEF Previous
  <2> QED BY <1>7, <2>4, <2>5, <2>6 DEF Chained
<1>14. FreeChained(c, r)
  <2>1. a.free = Following(f, d, 0) /\ \A k \in 1..d : a.nodes[f[k]].after = Following(f, d, k)
    BY DEF ListIs, FreeChained
  <2>2. ASSUME NEW k \in 1..(d + 1) PROVE c.nodes[r[k]].after = Following(f, d, k - 1)
    <3>1. CASE k = 1
      BY <1>7, <1>9, <2>1, <3>1
    <3>2. CASE k # 1
      <4>1. k - 1 \in 1..d /\ r[k] = f[k - 1]
        BY <1>1, <1>9, <3>2
      <4>2. r[k] \in Slots(m) \ {i} /\ r[k] # Previous(s, p)
        BY <1>1, <1>2, <4>1, NoLink DEF Previous
      <4> QED BY <1>7, <2>1, <4>1, <4>2
    <3> QED BY <3>1, <3>2
  <2>3. \A k \in 0..d : Following(f, d, k) = Following(r, d + 1, k + 1)
    BY <1>1, <1>9 DEF Following
  <2>4. \A k \in 1..(d + 1) : k - 1 \in 0..d /\ (k - 1) + 1 = k
    BY <1>1
  <2>5. c.free = Following(r, d + 1, 0) /\ m - (n - 1) = d + 1
    BY <1>1, <1>7, <1>9 DEF Following
  <2> HIDE DEF d
  <2>6. \A k \in 1..(d + 1) : c.nodes[r[k]].after = Following(r, d + 1, k)
    BY <2>2, <2>3, <2>4
  <2> QED BY <1>7, <2>5, <2>6 DEF FreeChained
<1>15. ListIs(c, V, t, r)
  BY <1>1, <1>7, <1>12, <1>13, <1>14 DEF ListIs
<1> QED
  BY <1>6, <1>7, <1>15 DEF c, t

\* create_node: the first free node holds the value, and is not linked yet.
LEMMA WithNodeFields ==
  ASSUME NEW V, NEW a, NEW s, NEW f, ListIs(Grown(a), V, s, f), NEW v \in V,
         Grown(a).count < Grown(a).len
  PROVE  LET g == Grown(a)
             b == WithNode(a, v)
         IN  /\ b \in Arenas(g.len, V) /\ b.count = g.count + 1
             /\ b.first = g.first /\ b.last = g.last /\ b.free = g.nodes[g.free].after
             /\ NewIndex(a) = g.free /\ g.free \in Slots(g.len)
             /\ \A k \in 1..g.count : s[k] # g.free
             /\ b.nodes[g.free].before = NoIndex /\ b.nodes[g.free].after = NoIndex
             /\ b.nodes[g.free].value = v
             /\ \A i \in Slots(g.len) \ {g.free} : b.nodes[i] = g.nodes[i]
<1> DEFINE g == Grown(a)
           m == g.len
           i == g.free
           x == [FreshNode EXCEPT !.value = v]
           y == g.nodes[i].after
           b == [g EXCEPT !.count = @ + 1, !.free = y, !.nodes[i] = x]
<1>1. WithNode(a, v) = b /\ NewIndex(a) = i
  BY DEF WithNode, NewIndex
<1> HIDE DEF g
<1>2. m \in Nat \ {0} /\ g \in Arenas(m, V) /\ g.count \in Nat /\ g.count < m
  BY DEF ListIs, Arenas, g
<1>3. i \in Slots(m) /\ \A k \in 1..g.count : s[k] # i
  <2>1. /\ f \in [1..(m - g.count) -> Slots(m)] /\ i = Following(f, m - g.count, 0)
        /\ \A j \in 1..g.count, k \in 1..(m - g.count) : s[j] # f[k]
    BY DEF ListIs, Divided, FreeChained, g
  <2> QED BY <1>2, <2>1 DEF Following
<1> HIDE DEF m, i
<1>4. y \in LinksTo(m)
  BY <1>2, <1>3 DEF Arenas, NodesOf
<1>5. /\ x \in NodesOf(m, V) /\ x.before = NoIndex /\ x.after = NoIndex /\ x.value = v
  BY DEF FreshNode, NodesOf, LinksTo
<1> HIDE DEF x, y
<1>6. /\ b \in Arenas(m, V) /\ b.count = g.count + 1 /\ b.first = g.first /\ b.last = g.last
      /\ b.free = y /\ b.nodes[i] = x /\ \A j \in Slots(m) \ {i} : b.nodes[j] = g.nodes[j]
  <2>1. g.count + 1 \in Nat
    BY <1>2
  <2> QED BY <1>2, <1>3, <1>4, <1>5, <2>1 DEF Arenas
<1> HIDE DEF b
<1> QED
  BY <1>1, <1>3, <1>5, <1>6 DEF g, m, i, y

\* What the four add functions have in common: v is under a handle that was
\* not in the list, at place p, and the other nodes keep their values.
Gains(a, V, s, p, v, c) ==
  /\ \E r : ListIs(c, V, Inserted(s, a.count, p, NewIndex(a)), r)
  /\ c.count = a.count + 1 /\ c.len = IF a.count = a.len THEN 2 * a.len ELSE a.len
  /\ NewIndex(a) \in Slots(c.len) /\ c.nodes[NewIndex(a)].value = v
  /\ \A k \in 1..a.count :
       /\ s[k] \in Slots(c.len) /\ s[k] # NewIndex(a)
       /\ c.nodes[s[k]].value = a.nodes[s[k]].value

\* The same for a list that may have to grow first.
LEMMA SplicedGains ==
  ASSUME NEW V, None \notin V, NEW a, NEW s, NEW f, ListIs(a, V, s, f),
         NEW v \in V, NEW p \in 1..(a.count + 1),
         NEW c, Spliced(Grown(a), V, s, p, v, c)
  PROVE  Gains(a, V, s, p, v, c)
<1> DEFINE g == Grown(a)
<1>1. PICK r : ListIs(g, V, s, r)
  BY GrownIs
<1>2. /\ g.count = a.count /\ g.count < g.len
      /\ g.len = IF a.count = a.len THEN 2 * a.len ELSE a.len
      /\ \A i \in Slots(a.len) : g.nodes[i].value = a.nodes[i].value
  BY GrownIs
<1>3. /\ NewIndex(a) = g.free /\ g.free \in Slots(g.len)
      /\ \A k \in 1..g.count : s[k] # g.free
  BY <1>1, <1>2, WithNodeFields
<1>4. s \in [1..a.count -> Slots(a.len)] /\ s \in [1..g.count -> Slots(g.len)]
  BY <1>1 DEF ListIs, Divided
<1> HIDE DEF g
<1>5. Spliced(g, V, s, p, v, c)
  BY DEF g
<1>6. /\ c.len = g.len /\ c.count = g.count + 1 /\ c.nodes[g.free].value = v
      /\ \A i \in Slots(g.len) \ {g.free} : c.nodes[i].value = g.nodes[i].value
  BY <1>5 DEF Spliced, Arenas
<1>7. \E q : ListIs(c, V, Inserted(s, g.count, p, g.free), q)
  <2>1. p \in 1..(g.count + 1)
    BY <1>2
  <2> QED BY <1>1, <1>2, <1>5, <2>1, SplicedIs
<1>8. \A k \in 1..a.count :
        /\ s[k] \in Slots(c.len) /\ s[k] # NewIndex(a)
        /\ c.nodes[s[k]].value = a.nodes[s[k]].value
  BY <1>2, <1>3, <1>4, <1>6
<1> QED
  BY <1>2, <1>3, <1>6, <1>7, <1>8 DEF Gains

\* add_before puts a value before the one whose handle it is given.
LEMMA AddBeforeIs ==
  ASSUME NEW V, None \notin V, NEW a, NEW s, NEW f, ListIs(a, V, s, f),
         NEW v \in V, NEW p \in 1..a.count
  PROVE  Gains(a, V, s, p, v, AddBefore(a, v, s[p]))
<1> DEFINE g == Grown(a)
           m == g.len
           n == NewIndex(a)
           i == s[p]
           b == WithNode(a, v)
           q == b.nodes[i].before
           linked == [b EXCEPT !.nodes[n].before = q, !.nodes[n].after = i,
                               !.first = IF @ = i THEN n ELSE @]
           reached == IF q = NoIndex THEN linked ELSE [linked EXCEPT !.nodes[q].after = n]
           c == [reached EXCEPT !.nodes[i].before = n]
<1>1. PICK r : ListIs(g, V, s, r)
  BY GrownIs
<1>2. /\ g.count = a.count /\ g.count < m /\ a.count \in Nat
  BY GrownIs DEF ListIs, Arenas
<1>3. /\ b \in Arenas(m, V) /\ b.count = g.count + 1
      /\ b.first = g.first /\ b.last = g.last /\ b.free = g.nodes[g.free].after
      /\ n = g.free /\ g.free \in Slots(m)
      /\ \A k \in 1..g.count : s[k] # g.free
      /\ b.nodes[n].before = NoIndex /\ b.nodes[n].after = NoIndex /\ b.nodes[n].value = v
      /\ \A j \in Slots(m) \ {n} : b.nodes[j] = g.nodes[j]
  BY <1>1, <1>2, WithNodeFields
<1> HIDE DEF g, m, n, b
<1>4. /\ m \in Nat \ {0} /\ s \in [1..a.count -> Slots(m)] /\ Apart(s, a.count)
      /\ g.first = Following(s, a.count, 0)
      /\ \A k \in 1..a.count : g.nodes[s[k]].before = Previous(s, k) /\ g.nodes[s[k]].value # None
  BY <1>1, <1>2 DEF ListIs, Divided, Chained, m
<1>5. i \in Slots(m) /\ i # n /\ i # NoIndex /\ b.nodes[i] = g.nodes[i]
  BY <1>2, <1>3, <1>4, NoLink
<1>6. AddBefore(a, v, i) = c
  <2>1. IsValid(a, v, i)
    BY <1>4, <1>5 DEF IsValid, b
  <2> QED BY <1>5, <2>1 DEF AddBefore, n, b
<1>7. q = Previous(s, p) /\ q \in LinksTo(m) /\ q # n /\ n \in LinksTo(m) /\ i \in LinksTo(m)
  BY <1>2, <1>3, <1>4, <1>5, NoLink DEF Previous, LinksTo
<1> HIDE DEF i, q
<1>8. /\ linked \in Arenas(m, V) /\ linked.count = b.count /\ linked.last = b.last
      /\ linked.free = b.free /\ linked.first = IF b.first = i THEN n ELSE b.first
      /\ linked.nodes[n].before = q /\ linked.nodes[n].after = i /\ linked.nodes[n].value = v
      /\ \A j \in Slots(m) \ {n} : linked.nodes[j] = b.nodes[j]
  <2> DEFINE y == IF b.first = i THEN n ELSE b.first
             b1 == [b EXCEPT !.nodes[n].before = q]
             b2 == [b1 EXCEPT !.nodes[n].after = i]
             b3 == [b2 EXCEPT !.first = y]
  <2>1. /\ b1 \in Arenas(m, V) /\ SameEnds(b1, b)
        /\ b1.nodes[n].value = b.nodes[n].value /\ b1.nodes[n].after = b.nodes[n].after
        /\ b1.nodes[n].before = q
        /\ \A j \in Slots(m) \ {n} : b1.nodes[j] = b.nodes[j]
    BY <1>3, <1>4, <1>7, BeforeSet
  <2> HIDE DEF b1
  <2>2. /\ b2 \in Arenas(m, V) /\ SameEnds(b2, b1)
        /\ b2.nodes[n].value = b1.nodes[n].value /\ b2.nodes[n].before = b1.nodes[n].before
        /\ b2.nodes[n].after = i
        /\ \A j \in Slots(m) \ {n} : b2.nodes[j] = b1.nodes[j]
    BY <1>3, <1>4, <1>7, <2>1, AfterSet
  <2>3. linked = b3
    BY <2>1, <2>2 DEF b1, SameEnds
  <2>4. y \in LinksTo(m)
    BY <1>3, <1>7 DEF Arenas
  <2> HIDE DEF b2, y
  <2>5. /\ b3 \in Arenas(m, V) /\ b3.count = b2.count /\ b3.last = b2.last /\ b3.free = b2.free
        /\ b3.first = y /\ b3.nodes = b2.nodes
    BY <2>2, <2>4 DEF Arenas
  <2> HIDE DEF b3, linked
  <2> QED BY <1>3, <2>1, <2>2, <2>3, <2>5 DEF SameEnds, y
<1> HIDE DEF linked
<1>9. /\ reached \in Arenas(m, V) /\ SameEnds(reached, linked)
      /\ reached.nodes[n] = linked.nodes[n]
      /\ \A j \in Slots(m) \ {n} :
           /\ reached.nodes[j].before = b.nodes[j].before
           /\ reached.nodes[j].value = b.nodes[j].value
           /\ reached.nodes[j].after = IF j = q THEN n ELSE b.nodes[j].after
  <2>1. CASE q = NoIndex
    BY <1>4, <1>8, <2>1, NoLink DEF SameEnds
  <2>2. CASE q # NoIndex
    <3>1. q \in Slots(m) /\ reached = [linked EXCEPT !.nodes[q].after = n]
      BY <1>7, <2>2 DEF LinksTo
    <3> HIDE DEF reached
    <3>2. /\ reached \in Arenas(m, V) /\ SameEnds(reached, linked)
          /\ reached.nodes[q].value = linked.nodes[q].value
          /\ reached.nodes[q].before = linked.nodes[q].before
          /\ reached.nodes[q].after = n
          /\ \A j \in Slots(m) \ {q} : reached.nodes[j] = linked.nodes[j]
      BY <1>4, <1>7, <1>8, <3>1, AfterSet
    <3> QED BY <1>3, <1>7, <1>8, <3>2
  <2> QED BY <2>1, <2>2
<1> HIDE DEF reached
<1>10. /\ c \in Arenas(m, V) /\ SameEnds(c, reached)
       /\ c.nodes[i].value = reached.nodes[i].value /\ c.nodes[i].after = reached.nodes[i].after
       /\ c.nodes[i].before = n
       /\ \A j \in Slots(m) \ {i} : c.nodes[j] = reached.nodes[j]
  BY <1>4, <1>5, <1>7, <1>9, BeforeSet DEF i
<1> HIDE DEF c
<1>11. c.first = IF p = 1 THEN n ELSE g.first
  <2>1. g.first = i <=> p = 1
    BY <1>2, <1>4 DEF Following, Apart, i
  <2> QED BY <1>3, <1>8, <1>9, <1>10, <2>1 DEF SameEnds
<1>12. /\ c.count = g.count + 1 /\ c.free = g.nodes[g.free].after
       /\ c.last = IF p = g.count + 1 THEN n ELSE g.last
  BY <1>2, <1>3, <1>8, <1>9, <1>10 DEF SameEnds
<1>13. /\ c.nodes[n].before = Previous(s, p) /\ c.nodes[n].value = v
       /\ c.nodes[n].after = Following(s, g.count, p - 1)
  <2>1. Following(s, g.count, p - 1) = i
    BY <1>2 DEF Following, i
  <2> QED BY <1>3, <1>5, <1>7, <1>8, <1>9, <1>10, <2>1 DEF i
<1>14. ASSUME NEW j \in Slots(m) \ {n}
       PROVE  /\ c.nodes[j].value = g.nodes[j].value
              /\ c.nodes[j].before = IF p <= g.count /\ j = s[p] THEN n ELSE g.nodes[j].before
              /\ c.nodes[j].after = IF p > 1 /\ j = s[p - 1] THEN n ELSE g.nodes[j].after
  <2>1. j = q <=> p > 1 /\ j = s[p - 1]
    BY <1>4, <1>7, NoLink DEF Previous
  <2>2. p <= g.count /\ b.nodes[j] = g.nodes[j]
    BY <1>2, <1>3
  <2> QED BY <1>9, <1>10, <2>1, <2>2 DEF i
<1>15. Spliced(g, V, s, p, v, c)
  BY <1>3, <1>10, <1>11, <1>12, <1>13, <1>14 DEF Spliced, m
<1> QED
  BY <1>2, <1>6, <1>15, SplicedGains DEF g, i

\* add_after puts a value after the one whose handle it is given.
LEMMA AddAfterIs ==
  ASSUME NEW V, None \notin V, NEW a, NEW s, NEW f, ListIs(a, V, s, f),
         NEW v \in V, NEW p \in 1..a.count
  PROVE  Gains(a, V, s, p + 1, v, AddAfter(a, v, s[p]))
<1> DEFINE g == Grown(a)
           m == g.len
           n == NewIndex(a)
           i == s[p]
           b == WithNode(a, v)
           q == b.nodes[i].after
           linked == [b EXCEPT !.nodes[n].before = i, !.nodes[n].after = q,
                               !.last = IF @ = i THEN n ELSE @]
           reached == IF q = NoIndex THEN linked ELSE [linked EXCEPT !.nodes[q].before = n]
           c == [reached EXCEPT !.nodes[i].after = n]
<1>1. PICK r : ListIs(g, V, s, r)
  BY GrownIs
<1>2. /\ g.count = a.count /\ g.count < m /\ a.count \in Nat
  BY GrownIs DEF ListIs, Arenas
<1>3. /\ b \in Arenas(m, V) /\ b.count = g.count + 1
      /\ b.first = g.first /\ b.last = g.last /\ b.free = g.nodes[g.free].after
      /\ n = g.free /\ g.free \in Slots(m)
      /\ \A k \in 1..g.count : s[k] # g.free
      /\ b.nodes[n].before = NoIndex /\ b.nodes[n].after = NoIndex /\ b.nodes[n].value = v
      /\ \A j \in Slots(m) \ {n} : b.nodes[j] = g.nodes[j]
  BY <1>1, <1>2, WithNodeFields
<1> HIDE DEF g, m, n, b
<1>4. /\ m \in Nat \ {0} /\ s \in [1..a.count -> Slots(m)] /\ Apart(s, a.count)
      /\ g.last = Previous(s, a.count + 1)
      /\ \A k \in 1..a.count : g.nodes[s[k]].after = Following(s, a.count, k) /\ g.nodes[s[k]].value # None
  BY <1>1, <1>2 DEF ListIs, Divided, Chained, m
<1>5. i \in Slots(m) /\ i # n /\ i # NoIndex /\ b.nodes[i] = g.nodes[i]
  BY <1>2, <1>3, <1>4, NoLink
<1>6. AddAfter(a, v, i) = c
  <2>1. IsValid(a, v, i)
    BY <1>4, <1>5 DEF IsValid, b
  <2> QED BY <1>5, <2>1 DEF AddAfter, n, b
<1>7. q = Following(s, a.count, p) /\ q \in LinksTo(m) /\ q # n /\ n \in LinksTo(m) /\ i \in LinksTo(m)
  BY <1>2, <1>3, <1>4, <1>5, NoLink DEF Following, Apart, LinksTo
<1> HIDE DEF i, q
<1>8. /\ linked \in Arenas(m, V) /\ linked.count = b.count /\ linked.first = b.first
      /\ linked.free = b.free /\ linked.last = IF b.last = i THEN n ELSE b.last
      /\ linked.nodes[n].before = i /\ linked.nodes[n].after = q /\ linked.nodes[n].value = v
      /\ \A j \in Slots(m) \ {n} : linked.nodes[j] = b.nodes[j]
  <2> DEFINE y == IF b.last = i THEN n ELSE b.last
             b1 == [b EXCEPT !.nodes[n].before = i]
             b2 == [b1 EXCEPT !.nodes[n].after = q]
             b3 == [b2 EXCEPT !.last = y]
  <2>1. /\ b1 \in Arenas(m, V) /\ SameEnds(b1, b)
        /\ b1.nodes[n].value = b.nodes[n].value /\ b1.nodes[n].after = b.nodes[n].after
        /\ b1.nodes[n].before = i
        /\ \A j \in Slots(m) \ {n} : b1.nodes[j] = b.nodes[j]
    BY <1>3, <1>4, <1>7, BeforeSet
  <2> HIDE DEF b1
  <2>2. /\ b2 \in Arenas(m, V) /\ SameEnds(b2, b1)
        /\ b2.nodes[n].value = b1.nodes[n].value /\ b2.nodes[n].before = b1.nodes[n].before
        /\ b2.nodes[n].after = q
        /\ \A j \in Slots(m) \ {n} : b2.nodes[j] = b1.nodes[j]
    BY <1>3, <1>4, <1>7, <2>1, AfterSet
  <2>3. linked = b3
    BY <2>1, <2>2 DEF b1, SameEnds
  <2>4. y \in LinksTo(m)
    BY <1>3, <1>7 DEF Arenas
  <2> HIDE DEF b2, y
  <2>5. /\ b3 \in Arenas(m, V) /\ b3.count = b2.count /\ b3.first = b2.first /\ b3.free = b2.free
        /\ b3.last = y /\ b3.nodes = b2.nodes
    BY <2>2, <2>4 DEF Arenas
  <2> HIDE DEF b3, linked
  <2> QED BY <1>3, <2>1, <2>2, <2>3, <2>5 DEF SameEnds, y
<1> HIDE DEF linked
<1>9. /\ reached \in Arenas(m, V) /\ SameEnds(reached, linked)
      /\ reached.nodes[n] = linked.nodes[n]
      /\ \A j \in Slots(m) \ {n} :
           /\ reached.nodes[j].after = b.nodes[j].after
           /\ reached.nodes[j].value = b.nodes[j].value
           /\ reached.nodes[j].before = IF j = q THEN n ELSE b.nodes[j].before
  <2>1. CASE q = NoIndex
    BY <1>4, <1>8, <2>1, NoLink DEF SameEnds
  <2>2. CASE q # NoIndex
    <3>1. q \in Slots(m) /\ reached = [linked EXCEPT !.nodes[q].before = n]
      BY <1>7, <2>2 DEF LinksTo
    <3> HIDE DEF reached
    <3>2. /\ reached \in Arenas(m, V) /\ SameEnds(reached, linked)
          /\ reached.nodes[q].value = linked.nodes[q].value
          /\ reached.nodes[q].after = linked.nodes[q].after
          /\ reached.nodes[q].before = n
          /\ \A j \in Slots(m) \ {q} : reached.nodes[j] = linked.nodes[j]
      BY <1>4, <1>7, <1>8, <3>1, BeforeSet
    <3> QED BY <1>3, <1>7, <1>8, <3>2
  <2> QED BY <2>1, <2>2
<1> HIDE DEF reached
<1>10. /\ c \in Arenas(m, V) /\ SameEnds(c, reached)
       /\ c.nodes[i].value = reached.nodes[i].value /\ c.nodes[i].before = reached.nodes[i].before
       /\ c.nodes[i].after = n
       /\ \A j \in Slots(m) \ {i} : c.nodes[j] = reached.nodes[j]
  BY <1>4, <1>5, <1>7, <1>9, AfterSet DEF i
<1> HIDE DEF c
<1>11. c.last = IF p = g.count THEN n ELSE g.last
  <2>1. g.last = i <=> p = g.count
    BY <1>2, <1>4 DEF Previous, Apart, i
  <2> QED BY <1>3, <1>8, <1>9, <1>10, <2>1 DEF SameEnds
<1>12. /\ c.count = g.count + 1 /\ c.free = g.nodes[g.free].after
       /\ c.first = g.first
  BY <1>2, <1>3, <1>8, <1>9, <1>10 DEF SameEnds
<1>13. /\ c.nodes[n].before = Previous(s, p + 1) /\ c.nodes[n].value = v
       /\ c.nodes[n].after = Following(s, g.count, (p + 1) - 1)
  <2>1. Previous(s, p + 1) = i /\ Following(s, g.count, (p + 1) - 1) = q
    BY <1>2, <1>7 DEF Previous, i
  <2> QED BY <1>3, <1>5, <1>8, <1>9, <1>10, <2>1 DEF i
<1>14. ASSUME NEW j \in Slots(m) \ {n}
       PROVE  /\ c.nodes[j].value = g.nodes[j].value
              /\ c.nodes[j].before = IF p + 1 <= g.count /\ j = s[p + 1] THEN n ELSE g.nodes[j].before
              /\ c.nodes[j].after = IF p + 1 > 1 /\ j = s[(p + 1) - 1] THEN n ELSE g.nodes[j].after
  <2>1. j = q <=> p + 1 <= g.count /\ j = s[p + 1]
    BY <1>2, <1>4, <1>7, NoLink DEF Following
  <2>2. p + 1 > 1 /\ s[(p + 1) - 1] = i /\ b.nodes[j] = g.nodes[j]
    BY <1>2, <1>3 DEF i
  <2> QED BY <1>9, <1>10, <2>1, <2>2
<1>15. Spliced(g, V, s, p + 1, v, c)
  <2>1. p + 1 # 1 /\ (p + 1 = g.count + 1 <=> p = g.count)
    BY <1>2
  <2> QED BY <1>3, <1>10, <1>11, <1>12, <1>13, <1>14, <2>1 DEF Spliced, m
<1>16. p + 1 \in 1..(a.count + 1)
  BY <1>2
<1> QED
  BY <1>6, <1>15, <1>16, SplicedGains DEF g, i

\* The first value of an empty list.
LEMMA AloneIs ==
  ASSUME NEW V, None \notin V, NEW a, NEW s, NEW f, ListIs(a, V, s, f), a.count = 0, NEW v \in V
  PROVE  Gains(a, V, s, 1, v, Alone(WithNode(a, v), NewIndex(a)))
<1> DEFINE g == Grown(a)
           m == g.len
           n == NewIndex(a)
           b == WithNode(a, v)
           c == [b EXCEPT !.first = n, !.last = n]
<1>1. PICK r : ListIs(g, V, s, r)
  BY GrownIs
<1>2. g.count = 0 /\ g.count < m
  BY GrownIs
<1>3. /\ b \in Arenas(m, V) /\ b.count = g.count + 1 /\ b.free = g.nodes[g.free].after
      /\ n = g.free /\ g.free \in Slots(m)
      /\ b.nodes[n].before = NoIndex /\ b.nodes[n].after = NoIndex /\ b.nodes[n].value = v
      /\ \A j \in Slots(m) \ {n} : b.nodes[j] = g.nodes[j]
  BY <1>1, <1>2, WithNodeFields
<1>4. Alone(b, n) = c
  BY DEF Alone
<1> HIDE DEF g, m, n, b
<1>5. /\ c \in Arenas(m, V) /\ c.count = b.count /\ c.free = b.free
      /\ c.first = n /\ c.last = n /\ c.nodes = b.nodes
  BY <1>3 DEF Arenas, LinksTo
<1> HIDE DEF c
<1>6. Previous(s, 1) = NoIndex /\ Following(s, 0, 1 - 1) = NoIndex
  BY DEF Previous, Following
<1>7. Spliced(g, V, s, 1, v, c)
  BY <1>2, <1>3, <1>5, <1>6 DEF Spliced, m
<1> QED
  BY <1>4, <1>7, SplicedGains DEF g, b, n

\* add_first inserts at the first place.
LEMMA AddFirstIs ==
  ASSUME NEW V, None \notin V, NEW a, NEW s, NEW f, ListIs(a, V, s, f), NEW v \in V
  PROVE  Gains(a, V, s, 1, v, AddFirst(a, v))
<1>1. a.first = Following(s, a.count, 0) /\ a.count \in Nat
  BY DEF ListIs, Chained, Arenas
<1>2. CASE a.count = 0
  <2>1. AddFirst(a, v) = Alone(WithNode(a, v), NewIndex(a))
    BY <1>1, <1>2 DEF AddFirst, AddBefore, Following
  <2> QED BY <1>2, <2>1, AloneIs
<1>3. CASE a.count # 0
  <2>1. 1 \in 1..a.count /\ AddFirst(a, v) = AddBefore(a, v, s[1])
    BY <1>1, <1>3 DEF AddFirst, Following
  <2> QED BY <2>1, AddBeforeIs
<1> QED
  BY <1>2, <1>3

\* add_last inserts after the last place.
LEMMA AddLastIs ==
  ASSUME NEW V, None \notin V, NEW a, NEW s, NEW f, ListIs(a, V, s, f), NEW v \in V
  PROVE  Gains(a, V, s, a.count + 1, v, AddLast(a, v))
<1>1. a.last = Previous(s, a.count + 1) /\ a.count \in Nat
  BY DEF ListIs, Chained, Arenas
<1>2. CASE a.count = 0
  <2>1. AddLast(a, v) = Alone(WithNode(a, v), NewIndex(a)) /\ a.count + 1 = 1
    BY <1>1, <1>2 DEF AddLast, AddAfter, Previous
  <2> QED BY <1>2, <2>1, AloneIs
<1>3. CASE a.count # 0
  <2>1. a.count \in 1..a.count /\ AddLast(a, v) = AddAfter(a, v, s[a.count])
    BY <1>1, <1>3 DEF AddLast, Previous
  <2> QED BY <2>1, AddAfterIs
<1> QED
  BY <1>2, <1>3
-----------------------------------------------------------------------------
\* a is a list of values of V, in the order that its links give.
IsList(a, V) == ListIs(a, V, Order(a), FreeOrder(a))

LEMMA IsListOf ==
  ASSUME NEW V, NEW a, NEW s, NEW f, ListIs(a, V, s, f)
  PROVE  IsList(a, V) /\ Order(a) = s
BY OrderIs DEF IsList

\* Without an element the order is empty.
LEMMA EmptyList ==
  ASSUME NEW V, NEW m \in Nat, NEW a, ListIs(a, V, Upwards(0, 0), Upwards(0, m)), a.len = m
  PROVE  IsList(a, V) /\ a.count = 0 /\ {Order(a)[k] : k \in 1..a.count} = {}
<1>1. IsList(a, V) /\ Order(a) = Upwards(0, 0)
  BY IsListOf
<1>2. a.count = 0
  <2>1. a.count \in Nat /\ DOMAIN Upwards(0, 0) = 1..a.count
    BY DEF ListIs, Divided, Arenas
  <2>2. DOMAIN Upwards(0, 0) = 1..0
    BY DEF Upwards
  <2> QED BY <2>1, <2>2
<1> QED
  BY <1>1, <1>2

-----------------------------------------------------------------------------
(* InsertAt and RemoveAt of the community modules are Inserted and Without. *)

LEMMA InsertAtIs ==
  ASSUME NEW S, NEW q \in Seq(S), NEW p \in 1..(Len(q) + 1), NEW e \in S
  PROVE  SubSeq(q, 1, p - 1) \o <<e>> \o SubSeq(q, p, Len(q)) = Inserted(q, Len(q), p, e)
<1> DEFINE n == Len(q)
           l == SubSeq(q, 1, p - 1)
           r == SubSeq(q, p, n)
           t == Inserted(q, n, p, e)
<1>1. n \in Nat /\ p \in Int /\ p - 1 \in Int /\ 1 \in Int /\ n \in Int
  OBVIOUS
<1>2. /\ l \in Seq(S) /\ Len(l) = p - 1
      /\ \A m \in 1..(p - 1) : l[m] = q[m]
  BY <1>1
<1>3. /\ r \in Seq(S) /\ Len(r) = n - (p - 1)
      /\ \A m \in 1..(n - (p - 1)) : r[m] = q[p + m - 1]
  BY <1>1
<1> HIDE DEF l, r, n
<1>4. <<e>> \in Seq(S) /\ Len(<<e>>) = 1 /\ <<e>>[1] = e
  OBVIOUS
<1> DEFINE x == l \o <<e>>
           y == x \o r
<1>5. /\ x \in Seq(S) /\ Len(x) = p /\ x[p] = e
      /\ \A m \in 1..(p - 1) : x[m] = q[m]
  <2>1. /\ x \in Seq(S) /\ Len(x) = (p - 1) + 1
        /\ \A m \in 1..((p - 1) + 1) : x[m] = IF m <= p - 1 THEN l[m] ELSE <<e>>[m - (p - 1)]
    BY <1>2, <1>4, ConcatProperties
  <2> HIDE DEF x
  <2> QED BY <1>1, <1>2, <1>4, <2>1
<1> HIDE DEF x
<1>6. /\ y \in Seq(S) /\ Len(y) = n + 1
      /\ \A m \in 1..(n + 1) : y[m] = IF m <= p THEN x[m] ELSE r[m - p]
  <2>1. /\ y \in Seq(S) /\ Len(y) = p + (n - (p - 1))
        /\ \A m \in 1..(p + (n - (p - 1))) : y[m] = IF m <= p THEN x[m] ELSE r[m - p]
    <3> /\ y \in Seq(S) /\ Len(y) = Len(x) + Len(r)
        /\ \A m \in 1..(Len(x) + Len(r)) : y[m] = IF m <= Len(x) THEN x[m] ELSE r[m - Len(x)]
      BY <1>3, <1>5, ConcatProperties
    <3> HIDE DEF y
    <3> QED BY <1>3, <1>5
  <2>2. p + (n - (p - 1)) = n + 1
    BY <1>1
  <2> HIDE DEF y
  <2> QED BY <2>1, <2>2
<1> HIDE DEF y
<1>7. /\ t \in Seq(S) /\ Len(t) = n + 1
      /\ \A m \in 1..(n + 1) : t[m] = IF m < p THEN q[m] ELSE IF m = p THEN e ELSE q[m - 1]
  BY <1>1 DEF Inserted, n
<1> HIDE DEF t
<1>8. ASSUME NEW m \in 1..(n + 1) PROVE y[m] = t[m]
  <2>1. CASE m < p
    <3>1. m \in 1..(p - 1) /\ m <= p
      BY <1>1, <2>1
    <3>2. x[m] = q[m] /\ y[m] = x[m]
      BY <1>5, <1>6, <3>1
    <3> QED BY <1>7, <2>1, <3>2
  <2>2. CASE m = p
    <3>1. y[m] = x[m] /\ t[m] = e
      BY <1>1, <1>6, <1>7, <2>2
    <3> QED BY <1>5, <2>2, <3>1
  <2>3. CASE m > p
    <3>1. m - p \in 1..(n - (p - 1)) /\ p + (m - p) - 1 = m - 1 /\ ~(m <= p)
      BY <1>1, <2>3
    <3> QED BY <1>3, <1>6, <1>7, <2>3, <3>1
  <2> QED BY <1>1, <2>1, <2>2, <2>3
<1>9. y = t
  BY <1>6, <1>7, <1>8, SeqEqual
<1> QED
  BY <1>9 DEF y, x, l, r, t, n

LEMMA RemoveAtIs ==
  ASSUME NEW S, NEW q \in Seq(S), NEW p \in 1..Len(q)
  PROVE  SubSeq(q, 1, p - 1) \o SubSeq(q, p + 1, Len(q)) = Without(q, Len(q), p)
<1> DEFINE n == Len(q)
           l == SubSeq(q, 1, p - 1)
           r == SubSeq(q, p + 1, n)
           t == Without(q, n, p)
<1>1. n \in Nat /\ p \in Int
  OBVIOUS
<1>2. /\ l \in Seq(S) /\ Len(l) = p - 1
      /\ \A m \in 1..(p - 1) : l[m] = q[m]
  BY <1>1
<1>3. /\ r \in Seq(S) /\ Len(r) = n - p
      /\ \A m \in 1..(n - p) : r[m] = q[p + m]
  BY <1>1
<1> HIDE DEF l, r, n
<1> DEFINE y == l \o r
<1>4. /\ y \in Seq(S) /\ Len(y) = n - 1
      /\ \A m \in 1..(n - 1) : y[m] = IF m <= p - 1 THEN l[m] ELSE r[m - (p - 1)]
  <2>1. /\ y \in Seq(S) /\ Len(y) = (p - 1) + (n - p)
        /\ \A m \in 1..((p - 1) + (n - p)) : y[m] = IF m <= p - 1 THEN l[m] ELSE r[m - (p - 1)]
    <3> /\ y \in Seq(S) /\ Len(y) = Len(l) + Len(r)
        /\ \A m \in 1..(Len(l) + Len(r)) : y[m] = IF m <= Len(l) THEN l[m] ELSE r[m - Len(l)]
      BY <1>2, <1>3, ConcatProperties
    <3> HIDE DEF y
    <3> QED BY <1>2, <1>3
  <2>2. (p - 1) + (n - p) = n - 1
    BY <1>1
  <2> HIDE DEF y
  <2> QED BY <2>1, <2>2
<1> HIDE DEF y
<1>5. /\ t \in Seq(S) /\ Len(t) = n - 1
      /\ \A m \in 1..(n - 1) : t[m] = IF m < p THEN q[m] ELSE q[m + 1]
  BY <1>1 DEF Without, n
<1> HIDE DEF t
<1>6. ASSUME NEW m \in 1..(n - 1) PROVE y[m] = t[m]
  <2>1. CASE m < p
    <3>1. m \in 1..(p - 1) /\ m <= p - 1
      BY <1>1, <2>1
    <3> QED BY <1>2, <1>4, <1>5, <2>1, <3>1
  <2>2. CASE ~(m < p)
    <3>1. m - (p - 1) \in 1..(n - p) /\ p + (m - (p - 1)) = m + 1 /\ ~(m <= p - 1)
      BY <1>1, <2>2
    <3> QED BY <1>3, <1>4, <1>5, <2>2, <3>1
  <2> QED BY <2>1, <2>2
<1>7. y = t
  BY <1>4, <1>5, <1>6, SeqEqual
<1> QED
  BY <1>7 DEF y, l, r, t, n
=============================================================================
