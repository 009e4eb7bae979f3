------------------------------ MODULE LruProofs ------------------------------
(***************************************************************************)
(* Theorems about the LRU cache, for any keys, values, size, expiration    *)
(* and clock.                                                              *)
(***************************************************************************)
EXTENDS LruCache, ArenaProofs, FiniteSetTheorems

Entries == [node_index: Nat, insertion: Clock, value: Values]

\* The keys in the order of the list a.
KeysIn(a) == [n \in 1..a.count |-> a.nodes[Order(a)[n]].value]

\* The list a and the map m have the same keys, and an entry names the node
\* of its key.
Tied(a, m) ==
  /\ IsList(a, Keys) /\ m \in [Keys -> Entries \union {None}]
  /\ \A n \in 1..a.count :
       m[KeysIn(a)[n]] # None /\ m[KeysIn(a)[n]].node_index = Order(a)[n]
  /\ \A k \in Keys : m[k] # None => \E n \in 1..a.count : KeysIn(a)[n] = k

\* An entry is not None.
LEMMA EntryIsSome == None \notin Entries
BY CacheAssumption DEF Entries, Clock

\* What the tie between list and map says of the keys in their order.
LEMMA KeysInFacts ==
  ASSUME NEW a, NEW m, Tied(a, m)
  PROVE  /\ a.count \in Nat /\ a.len \in Nat \ {0} /\ a.count <= a.len
         /\ ListIs(a, Keys, Order(a), FreeOrder(a))
         /\ Order(a) \in [1..a.count -> Slots(a.len)] /\ Apart(Order(a), a.count)
         /\ KeysIn(a) \in [1..a.count -> Keys] /\ Apart(KeysIn(a), a.count)
         /\ KeysIn(a) \in Seq(Keys) /\ Len(KeysIn(a)) = a.count
         /\ \A n \in 1..a.count : KeysIn(a)[n] = a.nodes[Order(a)[n]].value
<1>1. ListIs(a, Keys, Order(a), FreeOrder(a))
  BY DEF Tied, IsList
<1>2. a.count \in Nat /\ a.len \in Nat \ {0} /\ a.count <= a.len
  BY <1>1 DEF ListIs, Arenas
<1>3. Order(a) \in [1..a.count -> Slots(a.len)] /\ Apart(Order(a), a.count)
  BY <1>1 DEF ListIs, Divided
<1>4. \A n \in 1..a.count : a.nodes[Order(a)[n]].value \in Keys
  <2>1. a.nodes \in [Slots(a.len) -> NodesOf(a.len, Keys)]
    BY <1>1 DEF ListIs, Arenas
  <2>2. \A n \in 1..a.count : a.nodes[Order(a)[n]].value # None
    BY <1>1 DEF ListIs, Chained
  <2> QED BY <1>3, <2>1, <2>2 DEF NodesOf
<1>5. /\ KeysIn(a) \in [1..a.count -> Keys]
      /\ \A n \in 1..a.count : KeysIn(a)[n] = a.nodes[Order(a)[n]].value
  BY <1>4 DEF KeysIn
<1>6. Apart(KeysIn(a), a.count)
  BY <1>3 DEF Tied, Apart
<1>7. KeysIn(a) \in Seq(Keys) /\ Len(KeysIn(a)) = a.count
  BY <1>2, <1>5
<1> QED
  BY <1>1, <1>2, <1>3, <1>5, <1>6, <1>7

\* remove_entry and remove together: the key at place p leaves.
LEMMA KeyLeaves ==
  ASSUME NEW a, NEW m, Tied(a, m), NEW k \in Keys, m[k] # None,
         NEW b, b = Remove(a, m[k].node_index), NEW w, w = [m EXCEPT ![k] = None]
  PROVE  /\ Tied(b, w) /\ b.count = a.count - 1
         /\ \E p \in 1..a.count :
              /\ KeysIn(a)[p] = k /\ m[k].node_index = Order(a)[p]
              /\ Order(b) = Without(Order(a), a.count, p)
              /\ KeysIn(b) = Without(KeysIn(a), a.count, p)
<1> DEFINE n == a.count
           s == Order(a)
           q == KeysIn(a)
<1>1. /\ n \in Nat /\ ListIs(a, Keys, s, FreeOrder(a)) /\ s \in [1..n -> Slots(a.len)]
      /\ Apart(s, n) /\ q \in [1..n -> Keys] /\ Apart(q, n)
      /\ \A j \in 1..n : q[j] = a.nodes[s[j]].value
  BY KeysInFacts
<1>2. PICK p \in 1..n : q[p] = k
  BY DEF Tied
<1>3. m[k].node_index = s[p]
  BY <1>2 DEF Tied
<1>4. /\ \E r : ListIs(b, Keys, Without(s, n, p), r)
      /\ b.count = n - 1 /\ b.len = a.len
      /\ \A x \in Slots(a.len) \ {s[p]} : b.nodes[x].value = a.nodes[x].value
  BY <1>1, <1>3, RemoveIs, CacheAssumption
<1>5. IsList(b, Keys) /\ Order(b) = Without(s, n, p)
  BY <1>4, IsListOf
<1> HIDE DEF n, s, q
<1>6. \A j \in 1..(n - 1) : \E l \in 1..n :
        /\ l = (IF j < p THEN j ELSE j + 1) /\ l # p
        /\ Without(s, n, p)[j] = s[l] /\ Without(q, n, p)[j] = q[l]
        /\ b.nodes[s[l]].value = q[l] /\ q[l] # k
  <2> TAKE j \in 1..(n - 1)
  <2> DEFINE l == IF j < p THEN j ELSE j + 1
  <2>1. l \in 1..n /\ l # p /\ Without(s, n, p)[j] = s[l] /\ Without(q, n, p)[j] = q[l]
    BY <1>1 DEF Without
  <2> HIDE DEF l
  <2>2. s[l] \in Slots(a.len) \ {s[p]} /\ q[l] # q[p]
    BY <1>1, <2>1 DEF Apart
  <2>3. b.nodes[s[l]].value = q[l]
    BY <1>1, <1>4, <2>1, <2>2
  <2>4. l = IF j < p THEN j ELSE j + 1
    BY DEF l
  <2> QED BY <1>2, <2>1, <2>2, <2>3, <2>4
<1>7. KeysIn(b) = Without(q, n, p)
  <2>1. KeysIn(b) = [j \in 1..(n - 1) |-> b.nodes[Without(s, n, p)[j]].value]
    BY <1>4, <1>5 DEF KeysIn
  <2>2. \A j \in 1..(n - 1) : b.nodes[Without(s, n, p)[j]].value = Without(q, n, p)[j]
    BY <1>6
  <2>3. Without(q, n, p) = [j \in 1..(n - 1) |-> Without(q, n, p)[j]]
    BY DEF Without
  <2> QED BY <2>1, <2>2, <2>3
<1>8. m \in [Keys -> Entries \union {None}] /\ w \in [Keys -> Entries \union {None}]
  BY DEF Tied
<1>9. \A j \in 1..(n - 1) : w[KeysIn(b)[j]] # None /\ w[KeysIn(b)[j]].node_index = Order(b)[j]
  <2> TAKE j \in 1..(n - 1)
  <2>1. PICK l \in 1..n : Order(b)[j] = s[l] /\ KeysIn(b)[j] = q[l] /\ q[l] # k
    BY <1>5, <1>6, <1>7
  <2>2. m[q[l]] # None /\ m[q[l]].node_index = s[l]
    BY DEF Tied, n, q, s
  <2> QED BY <1>1, <1>8, <2>1, <2>2
<1>10. \A x \in Keys : w[x] # None => \E j \in 1..(n - 1) : KeysIn(b)[j] = x
  <2> TAKE x \in Keys
  <2> HAVE w[x] # None
  <2>1. x # k /\ m[x] # None
    BY <1>8
  <2>2. PICK l \in 1..n : q[l] = x
    BY <2>1 DEF Tied, n, q
  <2>3. l # p
    BY <1>2, <2>1, <2>2
  <2>4. CASE l < p
    <3>1. l \in 1..(n - 1) /\ KeysIn(b)[l] = x
      BY <1>1, <1>7, <2>2, <2>4 DEF Without
    <3> QED BY <3>1
  <2>5. CASE l > p
    <3>1. l - 1 \in 1..(n - 1) /\ ~(l - 1 < p) /\ (l - 1) + 1 = l
      BY <1>1, <2>5
    <3>2. KeysIn(b)[l - 1] = x
      BY <1>7, <2>2, <3>1 DEF Without
    <3> QED BY <3>1, <3>2
  <2> QED BY <1>1, <2>3, <2>4, <2>5
<1>11. Tied(b, w)
  BY <1>4, <1>5, <1>8, <1>9, <1>10 DEF Tied
<1> QED
  BY <1>2, <1>3, <1>4, <1>5, <1>7, <1>11 DEF n, s, q

\* The node that a key gets is a slot of the Vec.
LEMMA NewIndexIsNat ==
  ASSUME NEW a, NEW m, Tied(a, m), NEW k \in Keys
  PROVE  NewIndex(a) \in Nat
<1>1. ListIs(a, Keys, Order(a), FreeOrder(a)) /\ a.len \in Nat
  BY KeysInFacts
<1>2. Gains(a, Keys, Order(a), a.count + 1, k, AddLast(a, k))
  BY <1>1, AddLastIs, CacheAssumption
<1>3. NewIndex(a) \in Slots(AddLast(a, k).len) /\ AddLast(a, k).len \in Nat
  BY <1>1, <1>2 DEF Gains
<1> QED
  BY <1>3 DEF Slots

\* add_last and insert together: the key is the last.
LEMMA KeyEnters ==
  ASSUME NEW a, NEW m, Tied(a, m), NEW k \in Keys, m[k] = None,
         NEW e \in Entries, e.node_index = NewIndex(a),
         NEW b, b = AddLast(a, k), NEW w, w = [m EXCEPT ![k] = e]
  PROVE  /\ Tied(b, w) /\ b.count = a.count + 1
         /\ KeysIn(b) = Append(KeysIn(a), k)
<1> DEFINE n == a.count
           s == Order(a)
           q == KeysIn(a)
           h == NewIndex(a)
<1>1. /\ n \in Nat /\ ListIs(a, Keys, s, FreeOrder(a)) /\ s \in [1..n -> Slots(a.len)]
      /\ Apart(s, n) /\ q \in [1..n -> Keys] /\ q \in Seq(Keys) /\ Len(q) = n
      /\ \A j \in 1..n : q[j] = a.nodes[s[j]].value
  BY KeysInFacts
<1>2. Gains(a, Keys, s, n + 1, k, b)
  BY <1>1, AddLastIs, CacheAssumption
<1>3. /\ \E r : ListIs(b, Keys, Inserted(s, n, n + 1, h), r)
      /\ b.count = n + 1 /\ b.nodes[h].value = k
      /\ \A j \in 1..n : s[j] # h /\ b.nodes[s[j]].value = a.nodes[s[j]].value
  BY <1>2 DEF Gains
<1>4. IsList(b, Keys) /\ Order(b) = Inserted(s, n, n + 1, h)
  BY <1>3, IsListOf
<1> HIDE DEF n, s, q, h
<1>5. /\ Order(b)[n + 1] = h /\ \A j \in 1..n : Order(b)[j] = s[j] /\ n + 1 # j
  BY <1>1, <1>4 DEF Inserted
<1> DEFINE t == Append(q, k)
<1>6. t[n + 1] = k /\ \A j \in 1..n : t[j] = q[j]
  BY <1>1, AppendProperties
<1>14. t = [j \in 1..(n + 1) |-> t[j]]
  <2>1. t \in Seq(Keys) /\ Len(t) = n + 1
    BY <1>1, AppendProperties
  <2> HIDE DEF t
  <2> QED BY <2>1
<1> HIDE DEF t
<1>7. KeysIn(b) = t
  <2>1. KeysIn(b) = [j \in 1..(n + 1) |-> b.nodes[Order(b)[j]].value]
    BY <1>3 DEF KeysIn
  <2>2. \A j \in 1..(n + 1) : b.nodes[Order(b)[j]].value = t[j]
    <3> TAKE j \in 1..(n + 1)
    <3>1. CASE j = n + 1
      BY <1>3, <1>5, <1>6, <3>1
    <3>2. CASE j # n + 1
      <4>1. j \in 1..n
        BY <1>1, <3>2
      <4>2. b.nodes[s[j]].value = q[j]
        BY <1>1, <1>3, <4>1
      <4> QED BY <1>5, <1>6, <4>1, <4>2
    <3> QED BY <3>1, <3>2
  <2> QED BY <1>14, <2>1, <2>2
<1>8. m \in [Keys -> Entries \union {None}] /\ w \in [Keys -> Entries \union {None}]
  BY DEF Tied
<1>9. w[k] = e /\ e # None /\ \A x \in Keys : x # k => w[x] = m[x]
  BY <1>8, EntryIsSome
<1>10. \A j \in 1..n : m[q[j]] # None /\ m[q[j]].node_index = s[j] /\ q[j] \in Keys /\ q[j] # k
  BY <1>1 DEF Tied, n, q, s
<1>11. \A j \in 1..(n + 1) : w[KeysIn(b)[j]] # None /\ w[KeysIn(b)[j]].node_index = Order(b)[j]
  <2> TAKE j \in 1..(n + 1)
  <2>1. CASE j = n + 1
    BY <1>5, <1>6, <1>7, <1>9, <2>1 DEF h
  <2>2. CASE j # n + 1
    <3>1. j \in 1..n
      BY <1>1, <2>2
    <3>2. KeysIn(b)[j] = q[j] /\ Order(b)[j] = s[j]
      BY <1>5, <1>6, <1>7, <3>1
    <3> QED BY <1>9, <1>10, <3>1, <3>2
  <2> QED BY <2>1, <2>2
<1>12. \A x \in Keys : w[x] # None => \E j \in 1..(n + 1) : KeysIn(b)[j] = x
  <2> TAKE x \in Keys
  <2> HAVE w[x] # None
  <2>1. CASE x = k
    <3>1. n + 1 \in 1..(n + 1)
      BY <1>1
    <3> QED BY <1>6, <1>7, <2>1, <3>1
  <2>2. CASE x # k
    <3>1. PICK j \in 1..n : q[j] = x
      BY <1>9, <2>2 DEF Tied, n, q
    <3>2. j \in 1..(n + 1) /\ KeysIn(b)[j] = x
      BY <1>1, <1>6, <1>7, <3>1
    <3> QED BY <3>2
  <2> QED BY <2>1, <2>2
<1>13. Tied(b, w)
  BY <1>3, <1>4, <1>8, <1>11, <1>12 DEF Tied
<1> QED
  BY <1>3, <1>7, <1>13 DEF n, t, q
-----------------------------------------------------------------------------
(* The invariant.                                                          *)

InOrder(q, n, m) == \A i, j \in 1..n : i < j => m[q[i]].insertion <= m[q[j]].insertion

\* The cache between two steps: list and map are tied, trim stands at the
\* first node, and only a key with an entry is touched.
LruInv ==
  /\ Tied(lru_list, map)
  /\ clock \in Clock /\ step \in {"idle", "trim", "touch"} /\ key \in Keys \union {None}
  /\ answer \in Answers /\ expiration_type \in ExpirationType
  /\ \A k \in Keys : map[k] # None => map[k].insertion <= clock
  /\ lru_list.count <= IF step = "trim" THEN MaxSize + 1 ELSE MaxSize
  /\ index = IF step = "trim" THEN lru_list.first ELSE NoIndex
  /\ step = "touch" => key \in Keys /\ map[key] # None
  /\ expiration_type = "Sliding" => InOrder(KeysIn(lru_list), lru_list.count, map)

\* What the invariant says of the parts of the cache.
LEMMA InvFacts ==
  ASSUME LruInv
  PROVE  /\ lru_list.count \in Nat /\ MaxSize \in Nat /\ None \notin Keys
         /\ map \in [Keys -> Entries \union {None}]
         /\ \A k \in Keys : map[k] # None => map[k] \in Entries
         /\ KeysIn(lru_list) \in [1..lru_list.count -> Keys]
         /\ Apart(KeysIn(lru_list), lru_list.count)
         /\ lru_list.first = Following(Order(lru_list), lru_list.count, 0)
         /\ clock \in Int
         /\ \A k \in Keys : map[k] # None => map[k].insertion \in Int
<1>1. ListIs(lru_list, Keys, Order(lru_list), FreeOrder(lru_list))
  BY KeysInFacts DEF LruInv
<1>2. lru_list.first = Following(Order(lru_list), lru_list.count, 0)
  BY <1>1 DEF ListIs, Chained
<1>3. map \in [Keys -> Entries \union {None}]
  BY DEF LruInv, Tied
<1>4. \A k \in Keys : map[k] # None => map[k] \in Entries
  BY <1>3
<1>5. \A k \in Keys : map[k] # None => map[k].insertion \in Int
  BY <1>4 DEF Entries, Clock
<1> QED
  BY <1>2, <1>3, <1>4, <1>5, KeysInFacts, CacheAssumption DEF LruInv, Clock

\* LruCache::new.
LEMMA InitHolds == Init => LruInv
<1> SUFFICES ASSUME Init PROVE LruInv
  OBVIOUS
<1>1. lru_list = NewArena /\ map = [k \in Keys |-> None]
  BY DEF Init
<1>2. ListIs(lru_list, Keys, Upwards(0, 0), Upwards(0, 1)) /\ lru_list.len = 1
  BY <1>1, NewArenaIs
<1>3. IsList(lru_list, Keys) /\ lru_list.count = 0
  BY <1>2, EmptyList
<1>4. Tied(lru_list, map)
  BY <1>1, <1>3 DEF Tied
<1>5. 0 \in Clock /\ 0 <= MaxSize
  BY CacheAssumption DEF Clock
<1>6. answer \in Answers
  BY DEF Init, Answers
<1> QED
  BY <1>1, <1>3, <1>4, <1>5, <1>6 DEF LruInv, Init, InOrder

\* The steps that leave list and map alone keep the invariant.
LEMMA TryAddKeepsKeeps ==
  ASSUME LruInv, NEW k \in Keys, TryAddKeeps(k) PROVE LruInv'
<1>1. answer' \in Answers
  BY DEF TryAddKeeps, Answers
<1> QED
  BY <1>1 DEF LruInv, TryAddKeeps

LEMMA TryGetMissesKeeps ==
  ASSUME LruInv, NEW k \in Keys, TryGetMisses(k) PROVE LruInv'
<1>1. answer' \in Answers
  BY DEF TryGetMisses, Answers
<1> QED
  BY <1>1 DEF LruInv, TryGetMisses

LEMMA TryGetFindsKeeps ==
  ASSUME LruInv, NEW k \in Keys, TryGetFinds(k) PROVE LruInv'
<1>1. map[k] \in Entries
  BY InvFacts DEF TryGetFinds
<1>2. answer' \in Answers
  BY <1>1 DEF TryGetFinds, Answers, Entries
<1> QED
  BY <1>2 DEF LruInv, TryGetFinds

LEMMA TickKeeps ==
  ASSUME LruInv, Tick PROVE LruInv'
<1>1. clock' \in Clock /\ clock' = clock + 1
  BY CacheAssumption DEF Tick, LruInv, Clock
<1>2. \A k \in Keys : map[k] # None => map[k].insertion <= clock'
  BY <1>1, InvFacts DEF LruInv
<1> QED
  BY <1>1, <1>2 DEF LruInv, Tick

\* trim ends when there is no node left, or not one key too many.
LEMMA TrimEndsKeeps ==
  ASSUME LruInv, TrimEnds PROVE LruInv'
<1>1. lru_list.count <= MaxSize
  <2>1. CASE index = NoIndex
    <3>1. Following(Order(lru_list), lru_list.count, 0) = NoIndex
      BY <2>1, InvFacts DEF LruInv, TrimEnds
    <3>2. ASSUME lru_list.count > 0 PROVE FALSE
      <4>1. Order(lru_list)[1] = NoIndex /\ 1 \in 1..lru_list.count
        BY <3>1, <3>2, InvFacts DEF Following
      <4>2. Order(lru_list)[1] \in Slots(lru_list.len) /\ lru_list.len \in Nat
        BY <4>1, KeysInFacts DEF LruInv
      <4> QED BY <4>1, <4>2, NoLink
    <3> QED BY <3>2, InvFacts
  <2>2. CASE index # NoIndex
    BY <2>2, InvFacts DEF TrimEnds, TooMany
  <2> QED BY <2>1, <2>2
<1> QED
  BY <1>1 DEF LruInv, TrimEnds

\* A key that is added is the last, with the latest insertion.
LEMMA TryAddKeepsInv ==
  ASSUME LruInv, NEW k \in Keys, NEW v \in Values, TryAdd(k, v)
  PROVE  LruInv' /\ KeysIn(lru_list') = Append(KeysIn(lru_list), k)
<1> DEFINE n == lru_list.count
           q == KeysIn(lru_list)
           e == [node_index |-> NewIndex(lru_list), insertion |-> clock, value |-> v]
<1>1. NewIndex(lru_list) \in Nat
  BY NewIndexIsNat DEF LruInv
<1>2. e \in Entries /\ e.node_index = NewIndex(lru_list) /\ e.insertion = clock
  BY <1>1 DEF Entries, LruInv
<1>3. map[k] = None /\ lru_list' = AddLast(lru_list, k) /\ map' = [map EXCEPT ![k] = e]
  BY DEF TryAdd
<1> HIDE DEF e
<1>4. Tied(lru_list', map') /\ lru_list'.count = n + 1 /\ KeysIn(lru_list') = Append(q, k)
  BY <1>2, <1>3, KeyEnters DEF LruInv
<1>5. /\ n \in Nat /\ q \in Seq(Keys) /\ Len(q) = n
      /\ \A j \in 1..n : q[j] \in Keys /\ map[q[j]] # None
  BY KeysInFacts DEF LruInv, Tied
<1>6. answer' \in Answers
  BY DEF TryAdd, Answers
<1>7. map'[k] = e /\ \A x \in Keys : x # k => map'[x] = map[x]
  BY <1>3, InvFacts
<1>8. \A x \in Keys : map'[x] # None => map'[x].insertion <= clock
  BY <1>2, <1>7, InvFacts DEF LruInv
<1>9. n + 1 <= MaxSize + 1
  BY <1>5, InvFacts DEF LruInv, TryAdd
<1>10. ASSUME expiration_type = "Sliding"
       PROVE  InOrder(KeysIn(lru_list'), n + 1, map')
  <2> DEFINE r == KeysIn(lru_list')
  <2>1. r[n + 1] = k /\ \A j \in 1..n : r[j] = q[j]
    BY <1>4, <1>5, AppendProperties
  <2>2. \A j \in 1..n : q[j] # k /\ map'[r[j]] = map[q[j]] /\ map[q[j]].insertion <= clock
    BY <1>3, <1>5, <1>7, <2>1 DEF LruInv
  <2>3. map'[r[n + 1]].insertion = clock
    BY <1>2, <1>7, <2>1
  <2>4. InOrder(q, n, map)
    BY <1>10 DEF LruInv
  <2> HIDE DEF r, q, n
  <2>5. SUFFICES ASSUME NEW i \in 1..(n + 1), NEW j \in 1..(n + 1), i < j
                 PROVE  map'[r[i]].insertion <= map'[r[j]].insertion
    BY DEF InOrder, r
  <2>6. i \in 1..n
    BY <1>5, <2>5
  <2>7. CASE j = n + 1
    BY <2>2, <2>3, <2>6, <2>7
  <2>8. CASE j # n + 1
    <3>1. j \in 1..n
      BY <1>5, <2>8
    <3> QED BY <2>2, <2>4, <2>5, <2>6, <3>1 DEF InOrder
  <2> QED BY <2>7, <2>8
<1> QED
  BY <1>4, <1>6, <1>8, <1>9, <1>10 DEF LruInv, TryAdd

\* A key that leaves does not disturb the others.
LEMMA LeavesTidy ==
  ASSUME LruInv, NEW k \in Keys, map[k] # None,
         NEW b, b = Remove(lru_list, map[k].node_index), NEW w, w = [map EXCEPT ![k] = None]
  PROVE  /\ Tied(b, w) /\ b.count = lru_list.count - 1 /\ lru_list.count > 0
         /\ w[k] = None /\ \A x \in Keys : x # k => w[x] = map[x]
         /\ \A x \in Keys : w[x] # None => w[x].insertion <= clock
         /\ InOrder(KeysIn(lru_list), lru_list.count, map) => InOrder(KeysIn(b), b.count, w)
         /\ \E p \in 1..lru_list.count :
              /\ KeysIn(lru_list)[p] = k /\ map[k].node_index = Order(lru_list)[p]
              /\ Order(b) = Without(Order(lru_list), lru_list.count, p)
              /\ KeysIn(b) = Without(KeysIn(lru_list), lru_list.count, p)
<1> DEFINE n == lru_list.count
           q == KeysIn(lru_list)
<1>1. PICK p \in 1..n :
        /\ q[p] = k /\ map[k].node_index = Order(lru_list)[p]
        /\ Order(b) = Without(Order(lru_list), n, p)
        /\ KeysIn(b) = Without(q, n, p)
  BY KeyLeaves DEF LruInv
<1>2. Tied(b, w) /\ b.count = n - 1
  <2>1. Tied(lru_list, map)
    BY DEF LruInv
  <2> HIDE DEF n
  <2>2. Tied(b, w) /\ b.count = lru_list.count - 1
    <3>1. Tied(b, w)
      BY <2>1, KeyLeaves
    <3>2. b.count = lru_list.count - 1
      BY <2>1, KeyLeaves
    <3> QED BY <3>1, <3>2
  <2> QED BY <2>2 DEF n
<1>3. n \in Nat /\ q \in [1..n -> Keys] /\ Apart(q, n)
  BY InvFacts
<1>4. w[k] = None /\ \A x \in Keys : x # k => w[x] = map[x]
  BY InvFacts
<1>5. \A x \in Keys : w[x] # None => w[x].insertion <= clock
  BY <1>4 DEF LruInv
<1> HIDE DEF n, q
<1>6. ASSUME InOrder(q, n, map) PROVE InOrder(KeysIn(b), n - 1, w)
  <2> DEFINE l(j) == IF j < p THEN j ELSE j + 1
  <2>1. ASSUME NEW j \in 1..(n - 1)
        PROVE  l(j) \in 1..n /\ l(j) # p /\ KeysIn(b)[j] = q[l(j)] /\ w[q[l(j)]] = map[q[l(j)]]
    <3>1. l(j) \in 1..n /\ l(j) # p /\ KeysIn(b)[j] = q[l(j)]
      BY <1>1, <1>3 DEF Without
    <3> HIDE DEF l
    <3>2. q[l(j)] # k /\ q[l(j)] \in Keys
      BY <1>1, <1>3, <3>1 DEF Apart
    <3> QED BY <1>4, <3>1, <3>2
  <2>2. \A i, j \in 1..(n - 1) : i < j => l(i) < l(j)
    BY <1>3
  <2> HIDE DEF l
  <2>3. SUFFICES ASSUME NEW i \in 1..(n - 1), NEW j \in 1..(n - 1), i < j
                 PROVE  w[KeysIn(b)[i]].insertion <= w[KeysIn(b)[j]].insertion
    BY DEF InOrder
  <2>4. l(i) < l(j) /\ l(i) \in 1..n /\ l(j) \in 1..n
    BY <2>1, <2>2, <2>3
  <2>5. map[q[l(i)]].insertion <= map[q[l(j)]].insertion
    BY <1>6, <2>4 DEF InOrder
  <2> QED BY <2>1, <2>5
<1> QED
  BY <1>1, <1>2, <1>3, <1>4, <1>5, <1>6 DEF n, q

\* An expired key that is asked for leaves list and map.
LEMMA TryGetExpiredKeeps ==
  ASSUME LruInv, NEW k \in Keys, TryGetExpired(k) PROVE LruInv'
<1>1. /\ map[k] # None /\ lru_list' = Remove(lru_list, map[k].node_index)
      /\ map' = [map EXCEPT ![k] = None]
  BY DEF TryGetExpired
<1>2. /\ Tied(lru_list', map') /\ lru_list'.count = lru_list.count - 1
      /\ \A x \in Keys : map'[x] # None => map'[x].insertion <= clock
      /\ InOrder(KeysIn(lru_list), lru_list.count, map)
           => InOrder(KeysIn(lru_list'), lru_list'.count, map')
  BY <1>1, LeavesTidy
<1>3. answer' \in Answers
  BY DEF TryGetExpired, Answers
<1>4. lru_list'.count <= MaxSize
  BY <1>2, InvFacts DEF LruInv, TryGetExpired
<1> QED
  BY <1>2, <1>3, <1>4 DEF LruInv, TryGetExpired

\* The node at which trim stands is the first.
LEMMA TrimAtFirst ==
  ASSUME LruInv, TrimRemoves
  PROVE  LET k == KeysIn(lru_list)[1] IN
         /\ lru_list.count > 0 /\ k \in Keys /\ map[k] # None
         /\ lru_list.nodes[index].value = k
         /\ lru_list' = Remove(lru_list, map[k].node_index) /\ map' = [map EXCEPT ![k] = None]
         /\ TooMany \/ Expired(k)
         /\ index' = Following(Order(lru_list), lru_list.count, 1)
<1> DEFINE n == lru_list.count
           s == Order(lru_list)
           k == KeysIn(lru_list)[1]
<1>1. index = Following(s, n, 0) /\ index # NoIndex /\ n \in Nat
  BY InvFacts DEF LruInv, TrimRemoves
<1>2. n > 0 /\ index = s[1] /\ 1 \in 1..n
  BY <1>1 DEF Following
<1>3. k = lru_list.nodes[index].value /\ k \in Keys
  BY <1>2, KeysInFacts DEF LruInv
<1>4. map[k] # None /\ map[k].node_index = index
  BY <1>2 DEF LruInv, Tied
<1>5. lru_list.nodes[index].after = Following(s, n, 1)
  <2>1. ListIs(lru_list, Keys, s, FreeOrder(lru_list))
    BY KeysInFacts DEF LruInv
  <2> QED BY <1>2, <2>1 DEF ListIs, Chained
<1> QED
  BY <1>2, <1>3, <1>4, <1>5 DEF TrimRemoves

\* trim takes the first key and goes on to the one that is first then.
LEMMA TrimRemovesKeeps ==
  ASSUME LruInv, TrimRemoves
  PROVE  LruInv' /\ KeysIn(lru_list') = Without(KeysIn(lru_list), lru_list.count, 1)
<1> DEFINE n == lru_list.count
           q == KeysIn(lru_list)
           k == q[1]
<1>1. /\ n > 0 /\ k \in Keys /\ map[k] # None
      /\ lru_list' = Remove(lru_list, map[k].node_index) /\ map' = [map EXCEPT ![k] = None]
      /\ index' = Following(Order(lru_list), n, 1)
  BY TrimAtFirst
<1>2. PICK p \in 1..n :
        /\ q[p] = k /\ Order(lru_list') = Without(Order(lru_list), n, p)
        /\ KeysIn(lru_list') = Without(q, n, p)
  BY <1>1, LeavesTidy
<1>3. /\ Tied(lru_list', map') /\ lru_list'.count = n - 1
      /\ \A x \in Keys : map'[x] # None => map'[x].insertion <= clock
      /\ InOrder(q, n, map) => InOrder(KeysIn(lru_list'), lru_list'.count, map')
  BY <1>1, LeavesTidy
<1>4. p = 1 /\ n \in Nat
  BY <1>1, <1>2, InvFacts DEF Apart
<1>5. lru_list'.first = Following(Order(lru_list'), n - 1, 0)
  <2>1. ListIs(lru_list', Keys, Order(lru_list'), FreeOrder(lru_list'))
    BY <1>3, KeysInFacts
  <2> QED BY <1>3, <2>1 DEF ListIs, Chained
<1>6. index' = lru_list'.first
  BY <1>1, <1>2, <1>4, <1>5 DEF Following, Without
<1>7. lru_list'.count <= MaxSize + 1
  BY <1>3, <1>4, InvFacts DEF LruInv, TrimRemoves
<1> QED
  BY <1>2, <1>3, <1>4, <1>6, <1>7 DEF LruInv, TrimRemoves

\* The key that is used goes to the end of the list.
LEMMA TouchKeeps ==
  ASSUME LruInv, Touch
  PROVE  /\ LruInv' /\ lru_list'.count = lru_list.count
         /\ \E e \in Entries :
              /\ map' = [map EXCEPT ![key] = e]
              /\ e.insertion = Since(key) /\ e.value = map[key].value
         /\ \E p \in 1..lru_list.count :
              /\ KeysIn(lru_list)[p] = key
              /\ KeysIn(lru_list') = Append(Without(KeysIn(lru_list), lru_list.count, p), key)
<1> DEFINE n == lru_list.count
           q == KeysIn(lru_list)
           b == Remove(lru_list, map[key].node_index)
           w == [map EXCEPT ![key] = None]
           e == [node_index |-> NewIndex(b), insertion |-> Since(key), value |-> map[key].value]
<1>1. key \in Keys /\ map[key] # None
  BY DEF LruInv, Touch
<1>16. b = Remove(lru_list, map[key].node_index) /\ w = [map EXCEPT ![key] = None]
  OBVIOUS
<1> HIDE DEF b, w
<1>2. PICK p \in 1..n : q[p] = key /\ KeysIn(b) = Without(q, n, p)
  BY <1>1, <1>16, LeavesTidy
<1>3. /\ Tied(b, w) /\ b.count = n - 1
      /\ w[key] = None /\ \A x \in Keys : x # key => w[x] = map[x]
      /\ \A x \in Keys : w[x] # None => w[x].insertion <= clock
      /\ InOrder(q, n, map) => InOrder(KeysIn(b), n - 1, w)
  <2>1. Tied(b, w) /\ b.count = n - 1
    <3>1. Tied(b, w)
      BY <1>1, <1>16, LeavesTidy
    <3>2. b.count = n - 1
      BY <1>1, <1>16, LeavesTidy
    <3> QED BY <3>1, <3>2
  <2>2. w[key] = None /\ \A x \in Keys : x # key => w[x] = map[x]
    BY <1>1, <1>16, InvFacts
  <2>3. \A x \in Keys : w[x] # None => w[x].insertion <= clock
    BY <1>1, <1>16, LeavesTidy
  <2>4. InOrder(q, n, map) => InOrder(KeysIn(b), b.count, w)
    BY <1>1, <1>16, LeavesTidy
  <2> QED BY <2>1, <2>2, <2>3, <2>4
<1>4. lru_list' = AddLast(b, key) /\ Touched(key).node = NewIndex(b)
  BY DEF Touch, Touched, b
<1>5. map[key] \in Entries
  BY <1>1, InvFacts
<1>6. NewIndex(b) \in Nat
  BY <1>1, <1>3, NewIndexIsNat
<1>7. /\ Since(key) \in Clock /\ Since(key) <= clock
      /\ expiration_type = "Sliding" => Since(key) = clock
  BY <1>1, <1>5, InvFacts DEF Since, LruInv, Entries
<1>8. e \in Entries /\ e.node_index = NewIndex(b)
  BY <1>5, <1>6, <1>7 DEF Entries
<1>9. map' = [map EXCEPT ![key] = e]
  <2>1. map' = [map EXCEPT ![key] = [[map[key] EXCEPT !.node_index = NewIndex(b)]
                                        EXCEPT !.insertion = Since(key)]]
    BY <1>1, <1>4, InvFacts DEF Touch
  <2>2. [[map[key] EXCEPT !.node_index = NewIndex(b)] EXCEPT !.insertion = Since(key)] = e
    <3> DEFINE f == [[map[key] EXCEPT !.node_index = NewIndex(b)] EXCEPT !.insertion = Since(key)]
    <3>1. /\ f \in Entries /\ f.node_index = NewIndex(b) /\ f.insertion = Since(key)
          /\ f.value = map[key].value
      BY <1>5, <1>6, <1>7 DEF Entries
    <3>2. f = [node_index |-> f.node_index, insertion |-> f.insertion, value |-> f.value]
      <4> HIDE DEF f
      <4> QED BY <3>1 DEF Entries
    <3> HIDE DEF f
    <3> QED BY <3>1, <3>2 DEF f
  <2> QED BY <2>1, <2>2
<1>10. map' = [w EXCEPT ![key] = e]
  BY <1>1, <1>9, InvFacts DEF w
<1> HIDE DEF e
<1>11. Tied(lru_list', map') /\ lru_list'.count = n /\ KeysIn(lru_list') = Append(KeysIn(b), key)
  <2>1. n - 1 + 1 = n
    BY InvFacts
  <2> QED BY <1>1, <1>3, <1>4, <1>8, <1>10, <2>1, KeyEnters
<1>12. e.insertion = Since(key) /\ e.value = map[key].value /\ map'[key] = e /\ \A x \in Keys : x # key => map'[x] = w[x]
  BY <1>1, <1>9, <1>3, InvFacts DEF e
<1>13. \A x \in Keys : map'[x] # None => map'[x].insertion <= clock
  BY <1>3, <1>7, <1>12
<1>14. ASSUME expiration_type = "Sliding"
       PROVE  InOrder(KeysIn(lru_list'), n, map')
  <2> DEFINE r == KeysIn(lru_list')
             t == KeysIn(b)
             d == n - 1
  <2>1. /\ d \in Nat /\ n = d + 1 /\ t \in Seq(Keys) /\ Len(t) = d
        /\ \A j \in 1..d : t[j] \in Keys /\ w[t[j]] # None
    <3>1. d \in Nat /\ n = d + 1 /\ b.count = d
      BY <1>3, KeysInFacts, InvFacts
    <3>2. t \in Seq(Keys) /\ Len(t) = d /\ t \in [1..d -> Keys]
      BY <1>3, <3>1, KeysInFacts
    <3>3. \A j \in 1..d : w[t[j]] # None
      BY <1>3, <3>1 DEF Tied
    <3> QED BY <3>1, <3>2, <3>3
  <2>2. r[d + 1] = key /\ \A j \in 1..d : r[j] = t[j]
    BY <1>1, <1>11, <2>1, AppendProperties
  <2> HIDE DEF r, t, d
  <2>3. \A j \in 1..d : map'[r[j]] = w[t[j]] /\ w[t[j]].insertion <= clock
    BY <1>3, <1>12, <2>1, <2>2
  <2>4. map'[r[d + 1]].insertion = clock
    BY <1>7, <1>12, <1>14, <2>2
  <2>5. InOrder(t, d, w)
    BY <1>3, <1>14 DEF LruInv, t, d
  <2>6. SUFFICES ASSUME NEW i \in 1..(d + 1), NEW j \in 1..(d + 1), i < j
                 PROVE  map'[r[i]].insertion <= map'[r[j]].insertion
    BY <2>1 DEF InOrder, r
  <2>7. i \in 1..d
    BY <2>1, <2>6
  <2>8. CASE j = d + 1
    BY <2>3, <2>4, <2>7, <2>8
  <2>9. CASE j # d + 1
    <3>1. j \in 1..d
      BY <2>1, <2>9
    <3> QED BY <2>3, <2>5, <2>6, <2>7, <3>1 DEF InOrder
  <2> QED BY <2>8, <2>9
<1>15. LruInv'
  BY <1>11, <1>13, <1>14, InvFacts DEF LruInv, Touch
<1> QED
  BY <1>2, <1>8, <1>9, <1>11, <1>12, <1>15

\* Every step keeps the invariant.
LEMMA NextKeeps == LruInv /\ [Next]_vars => LruInv'
<1> SUFFICES ASSUME LruInv, [Next]_vars PROVE LruInv'
  OBVIOUS
<1>1. CASE UNCHANGED vars
  BY <1>1 DEF vars, LruInv
<1> QED
  BY <1>1, TryAddKeepsKeeps, TryGetMissesKeeps, TryGetExpiredKeeps, TryGetFindsKeeps,
     TryAddKeepsInv, TrimRemovesKeeps, TrimEndsKeeps, TouchKeeps, TickKeeps DEF Next
-----------------------------------------------------------------------------
(* The theorems.                                                           *)

\* The invariant implies what the theorems state.
LEMMA InvType ==
  ASSUME LruInv PROVE TypeOK
<1> DEFINE m == lru_list.len
<1>1. /\ m \in Nat \ {0} /\ lru_list.count \in 0..m /\ lru_list \in Arenas(m, Keys)
      /\ Order(lru_list) \in [1..lru_list.count -> Slots(m)]
  BY KeysInFacts DEF LruInv, ListIs
<1> HIDE DEF m
<1>2. /\ {lru_list.first, lru_list.last, lru_list.free} \subseteq LinksTo(m)
      /\ lru_list.nodes \in [Slots(m) -> NodesOf(m, Keys)]
  BY <1>1 DEF Arenas
<1>3. ASSUME NEW k \in Keys, map[k] # None
      PROVE  map[k] \in [node_index: Slots(m), insertion: Clock, value: Values]
  <2>1. map[k] \in Entries
    BY <1>3, InvFacts
  <2>2. map[k].node_index \in Slots(m)
    BY <1>1, <1>3 DEF LruInv, Tied
  <2> QED BY <2>1, <2>2 DEF Entries
<1>4. map \in [Keys -> [node_index: Slots(m), insertion: Clock, value: Values] \union {None}]
  BY <1>3, InvFacts
<1>5. index \in LinksTo(m)
  BY <1>2 DEF LruInv, LinksTo
<1>6. /\ clock \in Clock /\ step \in {"idle", "trim", "touch"} /\ key \in Keys \union {None}
      /\ answer \in Answers /\ expiration_type \in ExpirationType
  BY DEF LruInv
<1> QED
  BY <1>1, <1>2, <1>4, <1>5, <1>6 DEF TypeOK, LinksTo, Slots, NodesOf, m

LEMMA InvMatches ==
  ASSUME LruInv PROVE MapMatchesList
<1> DEFINE n == lru_list.count
           q == KeysIn(lru_list)
           K == {k \in Keys : map[k] # None}
<1>1. /\ n \in Nat /\ q \in [1..n -> Keys] /\ Apart(q, n)
      /\ Order(lru_list) \in [1..n -> Slots(lru_list.len)] /\ lru_list.len \in Nat
      /\ \A j \in 1..n : q[j] = lru_list.nodes[Order(lru_list)[j]].value
  BY KeysInFacts DEF LruInv
<1>2. /\ \A j \in 1..n : map[q[j]] # None /\ map[q[j]].node_index = Order(lru_list)[j]
      /\ \A k \in K : \E j \in 1..n : q[j] = k
  BY DEF LruInv, Tied
<1>3. WellLinked(lru_list)
  BY KeysInFacts, ListIsWellLinked DEF LruInv
<1> HIDE DEF n, q
<1>4. \A k \in K : map[k].node_index < lru_list.len /\ lru_list.nodes[map[k].node_index].value = k
  <2> TAKE k \in K
  <2>1. PICK j \in 1..n : q[j] = k
    BY <1>2
  <2> QED BY <1>1, <1>2, <2>1 DEF Slots
<1>5. Cardinality(K) = n
  <2>1. q \in Bijection(1..n, K)
    BY <1>1, <1>2 DEF Bijection, Injection, Surjection, Apart, IsInjective
  <2>2. IsFiniteSet(1..n) /\ Cardinality(1..n) = n
    BY <1>1, FS_Interval
  <2>3. IsFiniteSet(K)
    BY CacheAssumption, FS_Subset
  <2> HIDE DEF K
  <2> QED BY <2>1, <2>2, <2>3, FS_Bijection DEF ExistsBijection
<1> QED
  BY <1>3, <1>4, <1>5 DEF MapMatchesList, n

LEMMA InvSize ==
  ASSUME LruInv PROVE SizeBounded
BY DEF LruInv, SizeBounded

LEMMA InvSliding ==
  ASSUME LruInv PROVE SlidingInOrder
BY DEF LruInv, SlidingInOrder, InOrder, KeysIn

\* Types, and every index that map, list and trim hold is within the Vec.
THEOREM LruType == Spec => []TypeOK
<1>1. LruInv => TypeOK
  BY InvType
<1> QED
  BY InitHolds, NextKeeps, <1>1, PTL DEF Spec

\* Map and list agree after every step of every call: what lru.rs expects
\* when it says that the cache would be corrupted otherwise.
THEOREM LruMapMatchesList == Spec => []MapMatchesList
<1>1. LruInv => MapMatchesList
  BY InvMatches
<1> QED
  BY InitHolds, NextKeeps, <1>1, PTL DEF Spec

\* Between calls there are at most max_size keys.
THEOREM LruSizeBounded == Spec => []SizeBounded
<1>1. LruInv => SizeBounded
  BY InvSize
<1> QED
  BY InitHolds, NextKeeps, <1>1, PTL DEF Spec

\* With sliding expiration the list is in the order of the insertions, so that
\* trim misses no expired key.
THEOREM LruSlidingInOrder == Spec => []SlidingInOrder
<1>1. LruInv => SlidingInOrder
  BY InvSliding
<1> QED
  BY InitHolds, NextKeeps, <1>1, PTL DEF Spec
-----------------------------------------------------------------------------
(* The cache implements LruSpec.                                           *)

ContentOf(m) == [k \in Keys |->
  IF m[k] = None THEN None ELSE [since |-> m[k].insertion, value |-> m[k].value]]

\* RemoveAt at the place of a key is Without.
LEMMA TakenOut ==
  ASSUME NEW n \in Nat, NEW q \in Seq(Keys), Len(q) = n, Apart(q, n),
         NEW p \in 1..n, NEW k, k = q[p]
  PROVE  /\ Seqs!RemoveAt(q, CHOOSE j \in 1..n : q[j] = k) = Without(q, n, p)
         /\ Uses!RemoveAt(q, CHOOSE j \in 1..n : q[j] = k) = Without(q, n, p)
<1>1. \A j \in 1..n : q[j] = k <=> j = p
  BY DEF Apart
<1>2. (CHOOSE j \in 1..n : q[j] = k) = p
  BY <1>1
<1>3. SubSeq(q, 1, p - 1) \o SubSeq(q, p + 1, n) = Without(q, n, p)
  BY RemoveAtIs
<1> QED
  BY <1>2, <1>3 DEF Seqs!RemoveAt, Uses!RemoveAt

\* What recency and content are, now and after the step.
LEMMA SeenNow ==
  /\ step # "touch" => recency = KeysIn(lru_list)
  /\ content = ContentOf(map)
BY DEF recency, Listed, KeysIn, content, ContentOf

LEMMA SeenNext ==
  /\ step' # "touch" => recency' = KeysIn(lru_list')
  /\ content' = ContentOf(map')
BY DEF recency, Listed, KeysIn, content, ContentOf

\* With a call under way that has found a key, the key counts as moved.
LEMMA SeenTouched ==
  ASSUME NEW p \in 1..lru_list.count, Tied(lru_list, map), KeysIn(lru_list)[p] = key,
         step = "touch"
  PROVE  recency = Append(Without(KeysIn(lru_list), lru_list.count, p), key)
<1>1. Listed = KeysIn(lru_list)
  BY DEF Listed, KeysIn
<1>2. /\ lru_list.count \in Nat /\ KeysIn(lru_list) \in Seq(Keys)
      /\ Len(KeysIn(lru_list)) = lru_list.count /\ Apart(KeysIn(lru_list), lru_list.count)
  BY KeysInFacts
<1> DEFINE q == KeysIn(lru_list)
           n == lru_list.count
<1>3. Seqs!RemoveAt(q, CHOOSE j \in 1..n : q[j] = key) = Without(q, n, p)
  BY <1>2, TakenOut
<1> QED
  BY <1>1, <1>3 DEF recency

\* What is stored under a key, and how a change of the map shows there.
LEMMA ContentFacts ==
  ASSUME NEW m \in [Keys -> Entries \union {None}]
  PROVE  /\ \A k \in Keys : ContentOf(m)[k] = None <=> m[k] = None
         /\ \A k \in Keys : m[k] # None =>
              ContentOf(m)[k] = [since |-> m[k].insertion, value |-> m[k].value]
<1>1. SUFFICES ASSUME NEW k \in Keys, m[k] # None
               PROVE  [since |-> m[k].insertion, value |-> m[k].value] # None
  BY DEF ContentOf
<1>2. m[k] \in Entries
  BY <1>1
<1>3. [since |-> m[k].insertion, value |-> m[k].value] \in [since: Nat, value: Values]
  BY <1>2, CacheAssumption DEF Entries, Clock
<1> QED
  BY <1>3, CacheAssumption

LEMMA ContentForgets ==
  ASSUME NEW m \in [Keys -> Entries \union {None}], NEW k \in Keys
  PROVE  ContentOf([m EXCEPT ![k] = None]) = [ContentOf(m) EXCEPT ![k] = None]
BY DEF ContentOf

LEMMA ContentGains ==
  ASSUME NEW m \in [Keys -> Entries \union {None}], NEW k \in Keys, NEW e \in Entries
  PROVE  ContentOf([m EXCEPT ![k] = e])
           = [ContentOf(m) EXCEPT ![k] = [since |-> e.insertion, value |-> e.value]]
BY EntryIsSome DEF ContentOf

\* What LruSpec says of a stored key.
LEMMA StoredFacts ==
  ASSUME LruInv, NEW k \in Keys, map[k] # None
  PROVE  /\ content[k] # None /\ content[k].since = map[k].insertion
         /\ content[k].value = map[k].value
         /\ Uses!Expired(k) <=> Expired(k)
<1>1. content = ContentOf(map) /\ map \in [Keys -> Entries \union {None}]
  BY SeenNow, InvFacts
<1>2. content[k] # None /\ content[k] = [since |-> map[k].insertion, value |-> map[k].value]
  BY <1>1, ContentFacts
<1> QED
  BY <1>2 DEF Uses!Expired, Expired

\* A key that is taken out of the list is the one LruSpec forgets or moves.
LEMMA WithoutIs ==
  ASSUME LruInv, step # "touch", NEW p \in 1..lru_list.count
  PROVE  Uses!Without(KeysIn(lru_list)[p]) = Without(KeysIn(lru_list), lru_list.count, p)
<1> DEFINE q == KeysIn(lru_list)
           n == lru_list.count
<1>1. n \in Nat /\ q \in Seq(Keys) /\ Len(q) = n /\ Apart(q, n) /\ recency = q
  BY KeysInFacts, SeenNow DEF LruInv
<1>2. Uses!RemoveAt(q, CHOOSE j \in 1..n : q[j] = q[p]) = Without(q, n, p)
  BY <1>1, TakenOut
<1> HIDE DEF q, n
<1>3. Uses!Without(q[p]) = Without(q, n, p)
  BY <1>1, <1>2 DEF Uses!Without, Uses!Place
<1> QED BY <1>3 DEF q, n

\* Each step of a call is one of LruSpec.
LEMMA AddImplements ==
  ASSUME LruInv, NEW k \in Keys, NEW v \in Values, TryAdd(k, v)
  PROVE  Uses!Add(k, v)
<1> DEFINE e == [node_index |-> NewIndex(lru_list), insertion |-> clock, value |-> v]
<1>1. step = "idle" /\ step' = "trim" /\ map[k] = None /\ map' = [map EXCEPT ![k] = e]
  BY DEF TryAdd
<1>2. recency = KeysIn(lru_list) /\ recency' = Append(recency, k)
  BY <1>1, SeenNow, SeenNext, TryAddKeepsInv
<1>3. e \in Entries /\ e.insertion = clock /\ e.value = v
  BY NewIndexIsNat DEF Entries, LruInv
<1> HIDE DEF e
<1>4. content[k] = None /\ content' = [content EXCEPT ![k] = [since |-> clock, value |-> v]]
  <2>1. content = ContentOf(map) /\ content' = ContentOf([map EXCEPT ![k] = e])
    BY <1>1, SeenNow, SeenNext
  <2>2. map \in [Keys -> Entries \union {None}]
    BY InvFacts
  <2>3. ContentOf([map EXCEPT ![k] = e])
          = [ContentOf(map) EXCEPT ![k] = [since |-> e.insertion, value |-> e.value]]
    BY <1>3, <2>2, ContentGains
  <2>4. content[k] = None
    BY <1>1, <2>1, <2>2, ContentFacts
  <2> QED BY <1>3, <2>1, <2>3, <2>4
<1>5. Len(recency) <= MaxSize
  BY <1>1, <1>2, KeysInFacts DEF LruInv
<1> QED
  BY <1>2, <1>4, <1>5 DEF Uses!Add, TryAdd

LEMMA KeepImplements ==
  ASSUME LruInv, NEW k \in Keys, TryAddKeeps(k)
  PROVE  Uses!Keep(k)
<1>1. content[k] # None
  BY StoredFacts DEF TryAddKeeps
<1>2. recency' = recency /\ content' = content
  BY SeenNow, SeenNext DEF TryAddKeeps
<1> QED
  BY <1>1, <1>2 DEF Uses!Keep, TryAddKeeps

LEMMA MissImplements ==
  ASSUME LruInv, NEW k \in Keys, TryGetMisses(k)
  PROVE  Uses!Miss(k)
<1>1. content[k] = None
  BY SeenNow, ContentFacts, InvFacts DEF TryGetMisses
<1>2. recency' = recency /\ content' = content
  BY SeenNow, SeenNext DEF TryGetMisses
<1> QED
  BY <1>1, <1>2 DEF Uses!Miss, TryGetMisses

LEMMA ExpiredImplements ==
  ASSUME LruInv, NEW k \in Keys, TryGetExpired(k)
  PROVE  Uses!Miss(k)
<1>1. /\ map[k] # None /\ Expired(k) /\ step = "idle" /\ step' = "idle"
      /\ lru_list' = Remove(lru_list, map[k].node_index) /\ map' = [map EXCEPT ![k] = None]
  BY DEF TryGetExpired
<1>2. PICK p \in 1..lru_list.count :
        /\ KeysIn(lru_list)[p] = k
        /\ KeysIn(lru_list') = Without(KeysIn(lru_list), lru_list.count, p)
  BY <1>1, LeavesTidy
<1>3. recency' = Uses!Without(k)
  BY <1>1, <1>2, SeenNext, WithoutIs
<1>4. content' = [content EXCEPT ![k] = None]
  BY <1>1, SeenNow, SeenNext, ContentForgets, InvFacts
<1>5. content[k] # None /\ Uses!Expired(k)
  BY <1>1, StoredFacts
<1>6. Uses!Forget(k)
  BY <1>3, <1>4 DEF Uses!Forget
<1> QED
  BY <1>5, <1>6 DEF Uses!Miss, TryGetExpired

LEMMA EvictImplements ==
  ASSUME LruInv, TrimRemoves
  PROVE  Uses!Evict
<1> DEFINE q == KeysIn(lru_list)
           k == q[1]
<1>1. /\ lru_list.count > 0 /\ k \in Keys /\ map[k] # None
      /\ map' = [map EXCEPT ![k] = None] /\ (TooMany \/ Expired(k))
      /\ step = "trim" /\ step' = "trim"
  BY TrimAtFirst DEF TrimRemoves
<1>2. /\ recency = q /\ q \in Seq(Keys) /\ Len(q) = lru_list.count /\ lru_list.count \in Nat
      /\ Head(q) = k /\ q # <<>>
  BY <1>1, SeenNow, KeysInFacts DEF LruInv
<1>3. recency' = Uses!Without(k)
  <2>1. recency' = Without(q, lru_list.count, 1) /\ 1 \in 1..lru_list.count
    BY <1>1, <1>2, SeenNext, TrimRemovesKeeps
  <2> QED BY <1>1, <2>1, WithoutIs
<1>4. content' = [content EXCEPT ![k] = None]
  BY <1>1, SeenNow, SeenNext, ContentForgets, InvFacts
<1>5. Len(recency) > MaxSize \/ Uses!Expired(k)
  BY <1>1, <1>2, StoredFacts DEF TooMany
<1>6. Uses!Forget(k)
  BY <1>3, <1>4 DEF Uses!Forget
<1> HIDE DEF q, k
<1> QED
  BY <1>2, <1>5, <1>6 DEF Uses!Evict, TrimRemoves

LEMMA UseImplements ==
  ASSUME LruInv, NEW k \in Keys, TryGetFinds(k)
  PROVE  Uses!Use(k)
<1>1. /\ map[k] # None /\ ~Expired(k) /\ step = "idle" /\ step' = "touch" /\ key' = k
      /\ lru_list' = lru_list /\ map' = map
  BY DEF TryGetFinds
<1>2. PICK p \in 1..lru_list.count : KeysIn(lru_list)[p] = k
  BY <1>1 DEF LruInv, Tied
<1>3. recency' = Append(Uses!Without(k), k)
  <2> DEFINE q == KeysIn(lru_list)
             n == lru_list.count
  <2>1. recency' = Append(Seqs!RemoveAt(q, CHOOSE j \in 1..n : q[j] = k), k)
    BY <1>1 DEF recency, Listed, KeysIn
  <2>2. n \in Nat /\ q \in Seq(Keys) /\ Len(q) = n /\ Apart(q, n)
    BY KeysInFacts DEF LruInv
  <2>3. Seqs!RemoveAt(q, CHOOSE j \in 1..n : q[j] = k) = Without(q, n, p)
    BY <1>2, <2>2, TakenOut
  <2> QED BY <1>1, <1>2, <2>1, <2>3, WithoutIs
<1>4. content' = content
  BY <1>1, SeenNow, SeenNext
<1>5. content[k] # None /\ ~Uses!Expired(k) /\ content[k].value = map[k].value
  BY <1>1, StoredFacts
<1> QED
  BY <1>3, <1>4, <1>5 DEF Uses!Use, TryGetFinds

LEMMA TouchImplements ==
  ASSUME LruInv, Touch
  PROVE  /\ recency' = recency
         /\ Uses!Refresh \/ content' = content
<1> DEFINE q == KeysIn(lru_list)
           n == lru_list.count
<1>1. key \in Keys /\ map[key] # None /\ step = "touch" /\ step' = "idle"
  BY DEF LruInv, Touch
<1>2. LruInv' /\ lru_list'.count = n
  BY TouchKeeps
<1>3. PICK p \in 1..n : q[p] = key /\ KeysIn(lru_list') = Append(Without(q, n, p), key)
  BY TouchKeeps
<1>4. recency = Append(Without(q, n, p), key) /\ recency' = KeysIn(lru_list')
  BY <1>1, <1>3, SeenTouched, SeenNext DEF LruInv
<1>5. recency' = recency
  BY <1>3, <1>4
<1>6. recency # <<>> /\ recency[Len(recency)] = key
  <2>1. /\ recency \in Seq(Keys) /\ Len(recency) = n /\ n \in Nat /\ n > 0
    <3>1. Tied(lru_list', map') /\ Tied(lru_list, map)
      BY <1>2 DEF LruInv
    <3>2. KeysIn(lru_list') \in Seq(Keys) /\ Len(KeysIn(lru_list')) = n
      BY <1>2, <3>1, KeysInFacts
    <3>3. n \in Nat
      BY <3>1, KeysInFacts
    <3> QED BY <1>3, <1>4, <3>2, <3>3
  <2>2. Without(q, n, p) \in Seq(Keys) /\ Len(Without(q, n, p)) = n - 1
    <3>1. q \in [1..n -> Keys] /\ n \in Nat
      BY KeysInFacts DEF LruInv
    <3>2. Without(q, n, p) \in [1..(n - 1) -> Keys] /\ n - 1 \in Nat
      BY <3>1 DEF Without
    <3> HIDE DEF q, n
    <3> QED BY <3>2
  <2> HIDE DEF q, n
  <2> QED BY <1>1, <1>4, <2>1, <2>2, AppendProperties
<1>7. PICK e \in Entries :
        /\ map' = [map EXCEPT ![key] = e]
        /\ e.insertion = Since(key) /\ e.value = map[key].value
  BY TouchKeeps
<1>8. content' = [content EXCEPT ![key] = [since |-> Since(key), value |-> map[key].value]]
  <2>1. content' = ContentOf([map EXCEPT ![key] = e])
    BY <1>7, SeenNext
  <2>2. map \in [Keys -> Entries \union {None}]
    BY InvFacts
  <2>3. ContentOf([map EXCEPT ![key] = e])
          = [ContentOf(map) EXCEPT ![key] = [since |-> e.insertion, value |-> e.value]]
    BY <1>1, <1>7, <2>2, ContentGains
  <2> QED BY <1>7, <2>1, <2>3, SeenNow
<1>9. content[key] = [since |-> map[key].insertion, value |-> map[key].value]
  BY <1>1, SeenNow, ContentFacts, InvFacts
<1>10. CASE expiration_type = "Sliding"
  <2>1. content' = [content EXCEPT ![key].since = clock]
    <3>1. [content[key] EXCEPT !.since = clock] = [since |-> clock, value |-> map[key].value]
      BY <1>9
    <3>2. Since(key) = clock
      BY <1>10 DEF Since
    <3> QED BY <1>8, <3>1, <3>2
  <2> QED BY <1>5, <1>6, <1>10, <2>1 DEF Uses!Refresh, Touch
<1>11. CASE expiration_type # "Sliding"
  <2>1. content' = [content EXCEPT ![key] = content[key]]
    BY <1>8, <1>9, <1>11 DEF Since
  <2>2. content = [k \in Keys |-> content[k]]
    BY DEF content
  <2> HIDE DEF content
  <2> QED BY <1>1, <1>5, <2>1, <2>2
<1> QED
  BY <1>10, <1>11

LEMMA InitImplements == Init => Uses!Init
<1> SUFFICES ASSUME Init PROVE Uses!Init
  OBVIOUS
<1>1. lru_list.count = 0 /\ step = "idle"
  BY NewArenaIs, EmptyList DEF Init
<1>2. recency = <<>>
  BY <1>1 DEF recency, Listed
<1>3. content = [k \in Keys |-> None]
  BY DEF content, Init
<1>4. (expiration_type = "Sliding") \in BOOLEAN
  OBVIOUS
<1> QED
  BY <1>2, <1>3, <1>4 DEF Uses!Init, Init

UsesVars == <<recency, content, clock, answer, expiration_type = "Sliding">>

\* Every step of the cache is one of LruSpec, or none that a caller sees.
LEMMA NextImplements ==
  ASSUME LruInv, [Next]_vars
  PROVE  [Uses!Next]_UsesVars
<1>1. CASE UNCHANGED vars
  <2>1. recency' = recency /\ content' = content
    BY <1>1 DEF vars, recency, Listed, content
  <2> QED BY <1>1, <2>1 DEF vars, UsesVars
<1>2. ASSUME Next, Uses!Call PROVE Uses!Next
  <2>1. expiration_type' = expiration_type
    BY <1>2 DEF Next, TryAddKeeps, TryGetMisses, TryGetExpired, TryGetFinds, TryAdd,
                TrimRemoves, TrimEnds, Touch, Tick
  <2> QED BY <1>2, <2>1 DEF Uses!Next
<1>3. ASSUME NEW k \in Keys, NEW v \in Values, TryAdd(k, v) PROVE Uses!Call
  BY <1>3, AddImplements DEF Uses!Call
<1>4. ASSUME NEW k \in Keys, TryAddKeeps(k) PROVE Uses!Call
  BY <1>4, KeepImplements DEF Uses!Call
<1>5. ASSUME NEW k \in Keys, TryGetMisses(k) \/ TryGetExpired(k) PROVE Uses!Call
  BY <1>5, MissImplements, ExpiredImplements DEF Uses!Call
<1>6. ASSUME NEW k \in Keys, TryGetFinds(k) PROVE Uses!Call
  BY <1>6, UseImplements DEF Uses!Call
<1>7. ASSUME TrimRemoves PROVE Uses!Call
  BY <1>7, EvictImplements DEF Uses!Call
<1>8. ASSUME TrimEnds PROVE UNCHANGED UsesVars
  <2>1. recency' = recency /\ content' = content
    BY <1>8, SeenNow, SeenNext DEF TrimEnds
  <2> QED BY <1>8, <2>1 DEF TrimEnds, UsesVars
<1>9. ASSUME Touch PROVE Uses!Call \/ UNCHANGED UsesVars
  <2>1. recency' = recency /\ (Uses!Refresh \/ content' = content)
    BY <1>9, TouchImplements
  <2>2. UNCHANGED <<clock, answer, expiration_type>>
    BY <1>9 DEF Touch
  <2>3. CASE Uses!Refresh
    BY <2>3 DEF Uses!Call
  <2>4. CASE content' = content
    BY <2>1, <2>2, <2>4 DEF UsesVars
  <2> QED BY <2>1, <2>3, <2>4
<1>10. ASSUME Tick PROVE Uses!Call
  <2>1. recency' = recency /\ content' = content
    BY <1>10 DEF Tick, recency, Listed, content
  <2> QED BY <1>10, <2>1 DEF Tick, Uses!Call, Uses!Pass
<1> QED
  BY <1>1, <1>2, <1>3, <1>4, <1>5, <1>6, <1>7, <1>8, <1>9, <1>10 DEF Next

\* The cache forgets the key that was used least recently, or one that has
\* expired, and no other; a key that is found counts as used.
THEOREM LruEvictsLeastRecent == Spec => EvictsLeastRecent
<1>1. Init => Uses!Init
  BY InitImplements
<1>2. LruInv /\ [Next]_vars => [Uses!Next]_UsesVars
  BY NextImplements
<1> QED
  BY InitHolds, NextKeeps, <1>1, <1>2, PTL DEF Spec, EvictsLeastRecent, Uses!Spec, Uses!vars, UsesVars
=============================================================================
