------------------------------ MODULE ListProofs ------------------------------
(***************************************************************************)
(* Theorems about the arena linked list and its callers, for any values    *)
(* and any number of them.                                                 *)
(***************************************************************************)
EXTENDS ArenaLinkedList, ArenaProofs, SequenceTheorems

\* What the calls of the list preserve: links and free list are those of a
\* sequence of nodes, and the handles are its nodes.
ListInv ==
  /\ IsList(list, Values) /\ list.len <= 2 * MaxNodes
  /\ HandlesListed
  /\ answer \in Answers

\* What the invariant says of the list and of the handles.
LEMMA ListInvFacts ==
  ASSUME ListInv
  PROVE  /\ ListIs(list, Values, Order(list), FreeOrder(list))
         /\ list.len \in 1..(2 * MaxNodes) /\ list.count \in 0..list.len
         /\ Order(list) \in [1..list.count -> Slots(list.len)]
         /\ Slots(list.len) \subseteq Indices
         /\ \A i \in handles : \E k \in 1..list.count : i = Order(list)[k]
         /\ handles \subseteq Slots(list.len)
<1>1. ListIs(list, Values, Order(list), FreeOrder(list))
  BY DEF ListInv, IsList
<1>2. list.len \in 1..(2 * MaxNodes) /\ list.count \in 0..list.len
  BY <1>1, ListAssumption DEF ListInv, ListIs, Arenas
<1>3. Order(list) \in [1..list.count -> Slots(list.len)]
  BY <1>1 DEF ListIs, Divided
<1>4. Slots(list.len) \subseteq Indices
  BY <1>2, ListAssumption DEF Slots, Indices
<1>5. \A i \in handles : \E k \in 1..list.count : i = Order(list)[k]
  BY DEF ListInv, HandlesListed
<1> QED
  BY <1>1, <1>2, <1>3, <1>4, <1>5

\* The invariant implies the types and the links.
LEMMA InvImplies ==
  ASSUME ListInv
  PROVE  TypeOK /\ Linked
<1>1. Linked
  BY ListInvFacts, ListIsWellLinked DEF Linked
<1>2. list \in Arenas(list.len, Values)
  BY ListInvFacts DEF ListIs
<1>3. TypeOK
  BY <1>2, ListInvFacts DEF TypeOK, ListInv, Arenas, NodesOf, LinksTo, Slots
<1> QED
  BY <1>1, <1>3

\* A value that an add function has put at place p.
LEMMA AddKeeps ==
  ASSUME ListInv, NEW op, op \in {"add_first", "add_last", "add_before", "add_after"},
         NEW v \in Values, NEW at \in Links, NEW a, Adds(op, v, at, a),
         NEW p \in 1..(list.count + 1), Gains(list, Values, Order(list), p, v, a)
  PROVE  ListInv'
<1> DEFINE n == list.count
           h == NewIndex(list)
           s == Order(list)
           t == Inserted(s, n, p, h)
<1>1. /\ n < MaxNodes /\ list' = a /\ handles' = handles \union {h}
      /\ answer' = Answer(op, v, at, h)
  BY DEF Adds
<1>2. PICK r : ListIs(a, Values, t, r)
  BY DEF Gains
<1>3. IsList(list', Values) /\ Order(list') = t
  BY <1>1, <1>2, IsListOf
<1>4. n \in Nat /\ list.len \in Nat /\ list.len <= 2 * MaxNodes /\ MaxNodes \in Nat
  BY ListInvFacts, ListAssumption
<1>5. /\ list'.len <= 2 * MaxNodes /\ list'.count = n + 1 /\ list'.len \in Nat
      /\ h \in Slots(list'.len)
  BY <1>1, <1>4 DEF Gains
<1>6. h \in Links
  BY <1>4, <1>5 DEF Links, Indices, Slots
<1>7. answer' \in Answers
  BY <1>1, <1>6 DEF Answer, Answers
<1>8. \A k \in 1..(n + 1) : t[k] = IF k < p THEN s[k] ELSE IF k = p THEN h ELSE s[k - 1]
  BY DEF Inserted
<1>9. handles = {s[k] : k \in 1..n}
  BY DEF ListInv, HandlesListed
<1> HIDE DEF t, s, h
<1>10. handles' = {t[k] : k \in 1..(n + 1)}
  <2>1. ASSUME NEW k \in 1..n PROVE \E l \in 1..(n + 1) : t[l] = s[k]
    <3>1. CASE k < p
      BY <1>4, <1>8, <3>1
    <3>2. CASE ~(k < p)
      <4>1. k + 1 \in 1..(n + 1) /\ ~(k + 1 < p) /\ k + 1 # p /\ (k + 1) - 1 = k
        BY <1>4, <3>2
      <4> QED BY <1>8, <4>1
    <3> QED BY <3>1, <3>2
  <2>2. ASSUME NEW k \in 1..(n + 1) PROVE t[k] = h \/ \E l \in 1..n : t[k] = s[l]
    BY <1>4, <1>8
  <2>3. t[p] = h /\ p \in 1..(n + 1)
    BY <1>4, <1>8
  <2> QED BY <1>1, <1>9, <2>1, <2>2, <2>3 DEF h
<1> QED
  BY <1>3, <1>5, <1>7, <1>10 DEF ListInv, HandlesListed

\* Where a call with handle `at` puts its value.
Puts(op, at, p) ==
  \/ op = "add_first" /\ at = NoIndex /\ p = 1
  \/ op = "add_last" /\ at = NoIndex /\ p = list.count + 1
  \/ \E k \in 1..list.count :
       /\ at = Order(list)[k]
       /\ \/ op = "add_before" /\ p = k
          \/ op = "add_after" /\ p = k + 1

\* Whichever way a value is added, it is put at the place the operation names.
LEMMA AddPuts ==
  ASSUME ListInv, NEW v \in Values, Add(v)
  PROVE  \E op \in {"add_first", "add_last", "add_before", "add_after"}, at \in Links,
            p \in 1..(list.count + 1) : \E a :
           Adds(op, v, at, a) /\ Puts(op, at, p) /\ Gains(list, Values, Order(list), p, v, a)
<1> DEFINE s == Order(list)
<1>1. ListIs(list, Values, s, FreeOrder(list)) /\ None \notin Values /\ list.count \in Nat
  BY ListInvFacts, ListAssumption
<1>2. NoIndex \in Links
  BY DEF Links
<1> HIDE DEF s
<1>3. CASE Adds("add_first", v, NoIndex, AddFirst(list, v))
  <2>1. Gains(list, Values, s, 1, v, AddFirst(list, v)) /\ 1 \in 1..(list.count + 1)
    BY <1>1, AddFirstIs
  <2> QED BY <1>2, <1>3, <2>1 DEF Puts, s
<1>4. CASE Adds("add_last", v, NoIndex, AddLast(list, v))
  <2>1. /\ Gains(list, Values, s, list.count + 1, v, AddLast(list, v))
        /\ list.count + 1 \in 1..(list.count + 1)
    BY <1>1, AddLastIs
  <2> QED BY <1>2, <1>4, <2>1 DEF Puts, s
<1>5. ASSUME NEW i \in handles, Adds("add_before", v, i, AddBefore(list, v, i))
      PROVE  \E op \in {"add_first", "add_last", "add_before", "add_after"}, at \in Links,
                p \in 1..(list.count + 1) : \E a :
               Adds(op, v, at, a) /\ Puts(op, at, p) /\ Gains(list, Values, s, p, v, a)
  <2>1. PICK k \in 1..list.count : i = s[k]
    BY ListInvFacts DEF s
  <2>2. Gains(list, Values, s, k, v, AddBefore(list, v, i)) /\ k \in 1..(list.count + 1)
    BY <1>1, <2>1, AddBeforeIs
  <2>3. i \in Links
    BY ListInvFacts DEF Links
  <2>4. Puts("add_before", i, k)
    BY <2>1 DEF Puts, s
  <2> QED BY <1>5, <2>2, <2>3, <2>4
<1>6. ASSUME NEW i \in handles, Adds("add_after", v, i, AddAfter(list, v, i))
      PROVE  \E op \in {"add_first", "add_last", "add_before", "add_after"}, at \in Links,
                p \in 1..(list.count + 1) : \E a :
               Adds(op, v, at, a) /\ Puts(op, at, p) /\ Gains(list, Values, s, p, v, a)
  <2>1. PICK k \in 1..list.count : i = s[k]
    BY ListInvFacts DEF s
  <2>2. Gains(list, Values, s, k + 1, v, AddAfter(list, v, i)) /\ k + 1 \in 1..(list.count + 1)
    BY <1>1, <2>1, AddAfterIs
  <2>3. i \in Links
    BY ListInvFacts DEF Links
  <2>4. Puts("add_after", i, k + 1)
    BY <2>1 DEF Puts, s
  <2> QED BY <1>6, <2>2, <2>3, <2>4
<1> QED
  BY <1>3, <1>4, <1>5, <1>6 DEF Add, s

\* A handle of the list can be removed, and no other that a caller passes.
LEMMA RemoveOkTakes ==
  ASSUME ListInv, NEW i \in handles \union Removed \union {NoIndex}, RemoveOk(i)
  PROVE  \E p \in 1..list.count :
           /\ i = Order(list)[p] /\ list' = Remove(list, i)
           /\ Order(list') = Without(Order(list), list.count, p)
           /\ IsList(list', Values)
           /\ list'.count = list.count - 1 /\ list'.len = list.len
           /\ \A x \in Slots(list.len) \ {i} : list'.nodes[x].value = list.nodes[x].value
<1>1. CanRemove(list, i) /\ list' = Remove(list, i)
  BY DEF RemoveOk
<1>2. i \in handles
  BY <1>1 DEF CanRemove, Removed
<1>3. PICK p \in 1..list.count : i = Order(list)[p]
  BY <1>2, ListInvFacts
<1>4. /\ \E r : ListIs(list', Values, Without(Order(list), list.count, p), r)
      /\ list'.count = list.count - 1 /\ list'.len = list.len
      /\ \A x \in Slots(list.len) \ {i} : list'.nodes[x].value = list.nodes[x].value
  BY <1>1, <1>3, ListInvFacts, ListAssumption, RemoveIs
<1> QED
  BY <1>1, <1>3, <1>4, IsListOf

\* A node that is removed leaves its handle behind.
LEMMA RemoveOkKeeps ==
  ASSUME ListInv, NEW i \in handles \union Removed \union {NoIndex}, RemoveOk(i)
  PROVE  ListInv'
<1> DEFINE n == list.count
           s == Order(list)
           t == Order(list')
<1>1. PICK p \in 1..n :
        /\ i = s[p] /\ t = Without(s, n, p) /\ IsList(list', Values)
        /\ list'.count = n - 1 /\ list'.len = list.len
  BY RemoveOkTakes
<1>2. n \in Nat /\ list.len <= 2 * MaxNodes /\ i \in Slots(list.len)
  BY <1>1, ListInvFacts DEF ListInv
<1>3. i \in Links
  BY <1>2, ListInvFacts DEF Links
<1>4. answer' \in Answers
  BY <1>3 DEF RemoveOk, Answer, Answers
<1>5. \A k \in 1..(n - 1) : t[k] = IF k < p THEN s[k] ELSE s[k + 1]
  BY <1>1 DEF Without
<1>6. \A j, k \in 1..n : s[j] = s[k] => j = k
  BY ListInvFacts DEF ListIs, Divided, Apart
<1>7. handles = {s[k] : k \in 1..n} /\ handles' = handles \ {i}
  BY DEF ListInv, HandlesListed, RemoveOk
<1> HIDE DEF t, s
<1>8. handles' = {t[k] : k \in 1..(n - 1)}
  <2>1. ASSUME NEW k \in 1..n, k # p PROVE \E l \in 1..(n - 1) : t[l] = s[k]
    <3>1. CASE k < p
      BY <1>2, <1>5, <3>1
    <3>2. CASE ~(k < p)
      <4>1. k - 1 \in 1..(n - 1) /\ ~(k - 1 < p) /\ (k - 1) + 1 = k
        BY <1>2, <2>1, <3>2
      <4> QED BY <1>5, <4>1
    <3> QED BY <3>1, <3>2
  <2>2. ASSUME NEW k \in 1..(n - 1) PROVE \E l \in 1..n : t[k] = s[l] /\ l # p
    BY <1>2, <1>5
  <2> QED BY <1>1, <1>6, <1>7, <2>1, <2>2
<1> QED
  BY <1>1, <1>2, <1>4, <1>8 DEF ListInv, HandlesListed, t

\* The new list.
LEMMA InitHolds == Init => ListInv
<1> SUFFICES ASSUME Init PROVE ListInv
  OBVIOUS
<1>1. list = NewArena /\ handles = {} /\ answer = Answer("new", None, NoIndex, NoIndex)
  BY DEF Init
<1>2. ListIs(list, Values, Upwards(0, 0), Upwards(0, 1)) /\ list.len = 1
  BY <1>1, NewArenaIs
<1>3. IsList(list, Values) /\ {Order(list)[k] : k \in 1..list.count} = {}
  BY <1>2, EmptyList
<1>4. answer \in Answers
  BY <1>1 DEF Answer, Answers, Links
<1> QED
  BY <1>1, <1>2, <1>3, <1>4, ListAssumption DEF ListInv, HandlesListed

\* clear leaves an empty list with all nodes free.
LEMMA ClearKeeps ==
  ASSUME ListInv, Clear
  PROVE  ListInv' /\ list'.count = 0
<1>1. list.len \in Nat \ {0} /\ list \in Arenas(list.len, Values)
  BY ListInvFacts DEF ListIs
<1>2. ListIs(list', Values, Upwards(0, 0), Upwards(0, list.len)) /\ list'.len = list.len
  BY <1>1, ClearedIs DEF Clear
<1>3. IsList(list', Values) /\ list'.count = 0 /\ {Order(list')[k] : k \in 1..list'.count} = {}
  BY <1>1, <1>2, EmptyList
<1>4. answer' \in Answers /\ handles' = {}
  BY DEF Clear, Answer, Answers, Links
<1> QED
  BY <1>2, <1>3, <1>4 DEF ListInv, HandlesListed

\* Every call keeps the invariant.
LEMMA NextKeeps == ListInv /\ [Next]_vars => ListInv'
<1> SUFFICES ASSUME ListInv, [Next]_vars PROVE ListInv'
  OBVIOUS
<1>1. ASSUME NEW v \in Values, Add(v) PROVE ListInv'
  BY <1>1, AddPuts, AddKeeps
<1>2. ASSUME NEW i \in handles \union Removed \union {NoIndex}, RemoveOk(i) PROVE ListInv'
  BY <1>2, RemoveOkKeeps
<1>3. ASSUME NEW i \in handles \union Removed \union {NoIndex}, RemoveErr(i) PROVE ListInv'
  <2>1. i \in Links
    <3>1. list.nodes \in [Slots(list.len) -> NodesOf(list.len, Values)]
      BY ListInvFacts DEF ListIs, Arenas
    <3>2. i \in Slots(list.len) \union {NoIndex}
      BY <3>1, ListInvFacts DEF Removed
    <3> QED BY <3>2, ListInvFacts DEF Links
  <2>2. answer' \in Answers /\ list' = list /\ handles' = handles
    BY <1>3, <2>1 DEF RemoveErr, Answer, Answers, Links
  <2> QED BY <2>2 DEF ListInv, HandlesListed
<1>4. CASE Clear
  BY <1>4, ClearKeeps
<1>5. CASE UNCHANGED vars
  BY <1>5 DEF vars, ListInv, HandlesListed
<1> QED
  BY <1>1, <1>2, <1>3, <1>4, <1>5 DEF Next

\* Every index that the list stores is within the Vec, whatever was added,
\* removed and cleared before (what remove and the add functions index
\* without a check of their own).
THEOREM ListType == Spec => []TypeOK
<1>1. ListInv => TypeOK
  BY InvImplies
<1> QED
  BY InitHolds, NextKeeps, <1>1, PTL DEF Spec

\* Links and free list divide the nodes of the Vec between them, through
\* growth, reuse and clear.
THEOREM ListLinked == Spec => []Linked
<1>1. ListInv => Linked
  BY InvImplies
<1> QED
  BY InitHolds, NextKeeps, <1>1, PTL DEF Spec

\* The handles that add functions gave and remove did not take back are those
\* of the list: no value is lost, and none is in the list without a handle.
THEOREM ListHandles == Spec => []HandlesListed
<1>1. ListInv => HandlesListed
  BY DEF ListInv
<1> QED
  BY InitHolds, NextKeeps, <1>1, PTL DEF Spec
-----------------------------------------------------------------------------
(* The list implements ListSpec.                                           *)

\* The elements that ListSpec sees in the nodes q of a.
Elements(a, n, q) == [k \in 1..n |-> <<q[k], a.nodes[q[k]].value>>]

Items == Elements(list, list.count, Order(list))

\* The items that a caller sees, by their place.
LEMMA ItemsAre ==
  ASSUME ListInv
  PROVE  /\ Items \in Seq(Indices \X (Values \union {None})) /\ Len(Items) = list.count
         /\ \A k \in 1..list.count : /\ Items[k] = <<Order(list)[k], list.nodes[Order(list)[k]].value>>
                                     /\ Items[k][1] = Order(list)[k]
<1> DEFINE n == list.count
           s == Order(list)
           e(k) == <<s[k], list.nodes[s[k]].value>>
<1>1. n \in Nat /\ s \in [1..n -> Slots(list.len)] /\ Slots(list.len) \subseteq Indices
  BY ListInvFacts
<1>2. list.nodes \in [Slots(list.len) -> NodesOf(list.len, Values)]
  BY ListInvFacts DEF ListIs, Arenas
<1> HIDE DEF n, s
<1>3. \A k \in 1..n : e(k) \in Indices \X (Values \union {None}) /\ e(k)[1] = s[k]
  BY <1>1, <1>2 DEF NodesOf
<1>4. Items = [k \in 1..n |-> e(k)]
  BY DEF Items, Elements, n, s
<1> HIDE DEF e
<1> QED
  BY <1>1, <1>3, <1>4 DEF n, s, e

\* An addition inserts its value at the place it names.
LEMMA AddImplements ==
  ASSUME ListInv, NEW v \in Values, Add(v)
  PROVE  Sequence!Add(v)
<1> DEFINE n == list.count
           s == Order(list)
           h == NewIndex(list)
           q == Items
<1>1. PICK op \in {"add_first", "add_last", "add_before", "add_after"}, at \in Links,
           p \in 1..(n + 1) :
        \E a : Adds(op, v, at, a) /\ Puts(op, at, p) /\ Gains(list, Values, s, p, v, a)
  BY AddPuts
<1>2. /\ Puts(op, at, p) /\ Gains(list, Values, s, p, v, list')
      /\ answer' = Answer(op, v, at, h) /\ n < MaxNodes
  BY <1>1 DEF Adds
<1>3. PICK r : ListIs(list', Values, Inserted(s, n, p, h), r)
  BY <1>2 DEF Gains
<1>4. Order(list') = Inserted(s, n, p, h)
  BY <1>3, IsListOf
<1>5. /\ q \in Seq(Indices \X (Values \union {None})) /\ Len(q) = n
      /\ \A k \in 1..n : q[k] = <<s[k], list.nodes[s[k]].value>> /\ q[k][1] = s[k]
  BY ItemsAre
<1>6. /\ list'.count = n + 1 /\ h \in Slots(list'.len) /\ list'.nodes[h].value = v
      /\ \A k \in 1..n : s[k] # h /\ list'.nodes[s[k]].value = list.nodes[s[k]].value
      /\ list'.len = IF n = list.len THEN 2 * list.len ELSE list.len
  BY <1>2 DEF Gains
<1>7. h \in Indices
  BY <1>2, <1>6, ListInvFacts, ListAssumption DEF Indices, Slots
<1>8. n \in Nat /\ p \in 1..(n + 1)
  BY ListInvFacts
<1> HIDE DEF h, q, s, n
<1>9. Items' = Inserted(q, n, p, <<h, v>>)
  <2>1. Items' = [k \in 1..(n + 1) |-> <<Inserted(s, n, p, h)[k], list'.nodes[Inserted(s, n, p, h)[k]].value>>]
    BY <1>4, <1>6 DEF Items, Elements
  <2>2. ASSUME NEW k \in 1..(n + 1)
        PROVE  <<Inserted(s, n, p, h)[k], list'.nodes[Inserted(s, n, p, h)[k]].value>>
                 = IF k < p THEN q[k] ELSE IF k = p THEN <<h, v>> ELSE q[k - 1]
    <3>1. Inserted(s, n, p, h)[k] = IF k < p THEN s[k] ELSE IF k = p THEN h ELSE s[k - 1]
      BY DEF Inserted
    <3>2. k < p => k \in 1..n
      BY <1>8
    <3>3. k > p => k - 1 \in 1..n
      BY <1>8
    <3>4. CASE k < p
      BY <1>5, <1>6, <3>1, <3>2, <3>4
    <3>5. CASE k = p
      BY <1>6, <1>8, <3>1, <3>5
    <3>6. CASE k > p
      <4>1. q[k - 1] = <<s[k - 1], list.nodes[s[k - 1]].value>>
        BY <1>5, <3>3, <3>6
      <4>2. Inserted(s, n, p, h)[k] = s[k - 1]
        BY <1>8, <3>1, <3>6
      <4> QED BY <1>6, <1>8, <3>3, <3>6, <4>1, <4>2
    <3> QED BY <1>8, <3>4, <3>5, <3>6
  <2> QED BY <2>1, <2>2 DEF Inserted
<1>10. Sequence!InsertAt(q, p, <<h, v>>) = Inserted(q, n, p, <<h, v>>)
  <2>1. <<h, v>> \in Indices \X (Values \union {None})
    BY <1>7
  <2> QED BY <1>5, <1>8, <2>1, InsertAtIs DEF Sequence!InsertAt
<1>11. Sequence!Enter(op, v, at, p)
  <2>1. h \notin {q[k][1] : k \in 1..Len(q)}
    BY <1>5, <1>6
  <2> QED BY <1>2, <1>7, <1>9, <1>10, <2>1
        DEF Sequence!Enter, Sequence!HandlesIn, Sequence!Answer, Answer, Items, Elements, q
<1>12. \/ op = "add_first" /\ at = NoIndex /\ p = 1
       \/ op = "add_last" /\ at = NoIndex /\ p = Len(q) + 1
       \/ \E k \in 1..Len(q) : at = q[k][1] /\ op = "add_before" /\ p = k
       \/ \E k \in 1..Len(q) : at = q[k][1] /\ op = "add_after" /\ p = k + 1
  BY <1>2, <1>5 DEF Puts, n, s
<1>13. \/ Sequence!Enter("add_first", v, NoIndex, 1)
       \/ Sequence!Enter("add_last", v, NoIndex, Len(q) + 1)
       \/ \E k \in 1..Len(q) : \/ Sequence!Enter("add_before", v, q[k][1], k)
                               \/ Sequence!Enter("add_after", v, q[k][1], k + 1)
  <2>1. CASE op = "add_first" /\ at = NoIndex /\ p = 1
    BY <1>11, <2>1, Zenon
  <2>2. CASE op = "add_last" /\ at = NoIndex /\ p = Len(q) + 1
    <3>1. Sequence!Enter("add_last", v, NoIndex, p)
      BY <1>11, <2>2, Zenon
    <3>2. Sequence!Enter("add_last", v, NoIndex, Len(q) + 1)
      BY <2>2, <3>1 DEF Sequence!Enter
    <3> QED BY <3>2
  <2>3. ASSUME NEW k \in 1..Len(q), at = q[k][1], op = "add_before", p = k
        PROVE  Sequence!Enter("add_before", v, q[k][1], k)
    BY <1>11, <2>3, Zenon
  <2>4. ASSUME NEW k \in 1..Len(q), at = q[k][1], op = "add_after", p = k + 1
        PROVE  Sequence!Enter("add_after", v, q[k][1], k + 1)
    BY <1>11, <2>4, Zenon
  <2> QED BY <1>12, <2>1, <2>2, <2>3, <2>4, Zenon
<1> QED
  BY <1>13 DEF Sequence!Add, q, Items, Elements

\* A removal takes out the element of its handle.
LEMMA RemoveOkImplements ==
  ASSUME ListInv, NEW i \in handles \union Removed \union {NoIndex}, RemoveOk(i)
  PROVE  i \in Indices /\ Sequence!Leave(i)
<1> DEFINE n == list.count
           s == Order(list)
           q == Items
<1>1. PICK p \in 1..n :
        /\ i = s[p] /\ list' = Remove(list, i) /\ Order(list') = Without(s, n, p)
        /\ list'.count = n - 1 /\ list'.len = list.len
        /\ \A x \in Slots(list.len) \ {i} : list'.nodes[x].value = list.nodes[x].value
  BY RemoveOkTakes
<1>2. /\ q \in Seq(Indices \X (Values \union {None})) /\ Len(q) = n
      /\ \A k \in 1..n : q[k] = <<s[k], list.nodes[s[k]].value>> /\ q[k][1] = s[k]
  BY ItemsAre
<1>3. /\ n \in Nat /\ s \in [1..n -> Slots(list.len)] /\ Slots(list.len) \subseteq Indices
      /\ \A j, k \in 1..n : s[j] = s[k] => j = k
  BY ListInvFacts DEF ListIs, Divided, Apart
<1> HIDE DEF q, s, n
<1>4. Items' = Without(q, n, p)
  <2>1. Items' = [k \in 1..(n - 1) |-> <<Without(s, n, p)[k], list'.nodes[Without(s, n, p)[k]].value>>]
    BY <1>1 DEF Items, Elements
  <2>2. ASSUME NEW k \in 1..(n - 1)
        PROVE  <<Without(s, n, p)[k], list'.nodes[Without(s, n, p)[k]].value>>
                 = IF k < p THEN q[k] ELSE q[k + 1]
    <3> DEFINE l == IF k < p THEN k ELSE k + 1
    <3>1. Without(s, n, p)[k] = s[l] /\ l \in 1..n /\ l # p
      BY <1>3 DEF Without
    <3>2. (IF k < p THEN q[k] ELSE q[k + 1]) = q[l]
      OBVIOUS
    <3> HIDE DEF l
    <3>3. s[l] \in Slots(list.len) \ {i}
      BY <1>1, <1>3, <3>1
    <3> QED BY <1>1, <1>2, <3>1, <3>2, <3>3
  <2> QED BY <2>1, <2>2 DEF Without
<1>5. Sequence!RemoveAt(q, p) = Without(q, n, p)
  BY <1>2, RemoveAtIs DEF Sequence!RemoveAt
<1>6. answer' = Answer("remove", None, i, i)
  BY DEF RemoveOk
<1>7. \E k \in 1..Len(q) : q[k][1] = i /\ Items' = Sequence!RemoveAt(q, k)
  BY <1>1, <1>2, <1>4, <1>5
<1> QED
  BY <1>1, <1>3, <1>6, <1>7
     DEF Sequence!Leave, Sequence!Answer, Answer, Items, Elements, q

\* A node that was removed, and usize::MAX, are handles of no element.
LEMMA RemoveErrImplements ==
  ASSUME ListInv, NEW i \in handles \union Removed \union {NoIndex}, RemoveErr(i)
  PROVE  i \in Indices \union {NoIndex} /\ Sequence!Refuse(i)
<1> DEFINE n == list.count
           s == Order(list)
           q == Items
<1>1. /\ Len(q) = n /\ \A k \in 1..n : q[k][1] = s[k]
  BY ItemsAre
<1>2. /\ s \in [1..n -> Slots(list.len)] /\ ListIs(list, Values, s, FreeOrder(list))
      /\ Slots(list.len) \subseteq Indices /\ list.len \in Nat /\ n \in Nat
  BY ListInvFacts
<1>3. ASSUME NEW k \in 1..n, s[k] = i PROVE FALSE
  <2>1. list.nodes[i].value # None
    BY <1>2, <1>3 DEF ListIs, Chained
  <2>2. CanRemove(list, i)
    BY <1>2, <1>3, <2>1, NoLink DEF CanRemove, Slots
  <2> QED BY <2>2 DEF RemoveErr
<1>4. i \in Indices \union {NoIndex}
  <2>1. list.nodes \in [Slots(list.len) -> NodesOf(list.len, Values)]
    BY <1>2 DEF ListIs, Arenas
  <2>2. i \in Slots(list.len) \union {NoIndex}
    BY <2>1, ListInvFacts DEF Removed
  <2> QED BY <1>2, <2>2
<1>5. /\ list' = list /\ answer' = Answer("remove", None, i, NoIndex)
  BY DEF RemoveErr
<1> HIDE DEF q, s, n
<1>6. i \notin {q[k][1] : k \in 1..Len(q)}
  BY <1>1, <1>3
<1>7. Items' = Items
  BY <1>5 DEF Items, Elements
<1> QED
  BY <1>4, <1>5, <1>6, <1>7
     DEF Sequence!Refuse, Sequence!HandlesIn, Sequence!Answer, Answer, Items, Elements, q

LEMMA NoItems ==
  ASSUME list.count = 0
  PROVE  Items = <<>>
BY DEF Items, Elements

LEMMA InitImplements == Init => Sequence!Init
<1> SUFFICES ASSUME Init PROVE Sequence!Init
  OBVIOUS
<1>1. list.count = 0 /\ answer = Answer("new", None, NoIndex, NoIndex)
  <2>1. ListIs(list, Values, Upwards(0, 0), Upwards(0, 1)) /\ list.len = 1
    BY NewArenaIs DEF Init
  <2> QED BY <2>1, EmptyList DEF Init
<1>2. Items = <<>>
  BY <1>1, NoItems
<1> QED
  BY <1>1, <1>2 DEF Sequence!Init, Sequence!Answer, Answer, Items, Elements

\* Every step is one of the sequence, or none.
LEMMA NextImplements ==
  ASSUME ListInv, [Next]_vars
  PROVE  [Sequence!Next]_<<Items, answer>>
<1>1. ASSUME NEW v \in Values, Add(v) PROVE Sequence!Next
  BY <1>1, AddImplements DEF Sequence!Next
<1>2. ASSUME NEW i \in handles \union Removed \union {NoIndex}, RemoveOk(i)
      PROVE  Sequence!Next
  BY <1>2, RemoveOkImplements DEF Sequence!Next
<1>3. ASSUME NEW i \in handles \union Removed \union {NoIndex}, RemoveErr(i)
      PROVE  Sequence!Next
  BY <1>3, RemoveErrImplements DEF Sequence!Next
<1>4. ASSUME Clear PROVE Sequence!Next
  <2>1. list'.count = 0 /\ answer' = Answer("clear", None, NoIndex, NoIndex)
    BY <1>4, ClearKeeps DEF Clear
  <2>2. Items' = <<>>
    BY <2>1 DEF Items, Elements
  <2>3. Sequence!Clear
    BY <2>1, <2>2 DEF Sequence!Clear, Sequence!Answer, Answer, Items, Elements
  <2> QED BY <2>3 DEF Sequence!Next
<1>5. CASE UNCHANGED vars
  BY <1>5 DEF vars, Items, Elements
<1> QED
  BY <1>1, <1>2, <1>3, <1>4, <1>5 DEF Next

\* Seen from outside the list is a sequence of values under distinct handles:
\* each call inserts, removes or clears exactly what it names and answers the
\* handle that it gave.
THEOREM ListIsASequence == Spec => IsASequence
<1>1. Init => Sequence!Init
  BY InitImplements
<1>2. ListInv /\ [Next]_vars => [Sequence!Next]_<<Items, answer>>
  BY NextImplements
<1> QED
  BY InitHolds, NextKeeps, <1>1, <1>2, PTL DEF Spec, IsASequence, Sequence!Spec, Items, Elements
=============================================================================
