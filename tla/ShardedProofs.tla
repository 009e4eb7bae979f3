--------------------------- MODULE ShardedProofs ---------------------------
(***************************************************************************)
(* Theorems about the sharded cache, for any number of threads, keys and   *)
(* shards and all sizes.                                                   *)
(***************************************************************************)
EXTENDS ShardedCache, FiniteSetTheorems, SequenceTheorems, WellFoundedInduction, TLAPS

-----------------------------------------------------------------------------
(* One LRU cache.                                                          *)

\* Every set of natural numbers that is not empty has a least one.
LEMMA LeastNatural ==
  ASSUME NEW T \in SUBSET Nat, T # {}
  PROVE  \E n \in T : \A m \in T : ~(m < n)
<1>1. \E x \in T : \A y \in T : ~(<<y, x>> \in OpToRel(<, Nat))
  BY NatLessThanWellFounded, WFMin
<1> QED
  BY <1>1 DEF OpToRel

\* The loop of trim ends, at the latest when nothing is left.
LEMMA TrimmedFits ==
  ASSUME NEW q \in Seq(Entries), NEW size \in Nat
  PROVE  \E n \in 0..Len(q) : Trimmed(q, size) = Dropped(q, n) /\ Fits(Dropped(q, n), size)
<1> DEFINE T == {n \in 0..Len(q) : Fits(Dropped(q, n), size)}
<1>1. Dropped(q, Len(q)) = <<>>
  BY DEF Dropped
<1>2. Len(q) \in T /\ T \in SUBSET Nat
  BY <1>1 DEF Fits
<1>3. PICK n \in T : \A m \in T : ~(m < n)
  BY <1>2, LeastNatural
<1>4. /\ n \in 0..Len(q) /\ Fits(Dropped(q, n), size)
      /\ \A m \in 0..(n - 1) : ~Fits(Dropped(q, m), size)
  BY <1>3
<1> HIDE DEF T
<1> QED
  BY <1>4 DEF Trimmed

LEMMA DroppedEntries ==
  ASSUME NEW q \in Seq(Entries), NEW n \in 0..Len(q)
  PROVE  /\ Dropped(q, n) \in Seq(Entries) /\ Len(Dropped(q, n)) = Len(q) - n
         /\ \A m \in 1..(Len(q) - n) : Dropped(q, n)[m] = q[m + n]
  BY DEF Dropped

LEMMA WithoutEntries ==
  ASSUME NEW q \in Seq(Entries), NEW k \in KeysOf(q)
  PROVE  /\ IndexOf(q, k) \in 1..Len(q) /\ q[IndexOf(q, k)].key = k
         /\ Without(q, k) \in Seq(Entries) /\ Len(Without(q, k)) = Len(q) - 1
         /\ \A m \in 1..(Len(q) - 1) :
              Without(q, k)[m] = IF m < IndexOf(q, k) THEN q[m] ELSE q[m + 1]
<1>1. IndexOf(q, k) \in 1..Len(q) /\ q[IndexOf(q, k)].key = k
  BY DEF KeysOf, IndexOf
<1> DEFINE i == IndexOf(q, k)
           l == SubSeq(q, 1, i - 1)
           r == SubSeq(q, i + 1, Len(q))
<1>2. /\ l \in Seq(Entries) /\ Len(l) = i - 1 /\ \A m \in 1..(i - 1) : l[m] = q[m]
      /\ r \in Seq(Entries) /\ Len(r) = Len(q) - i /\ \A m \in 1..(Len(q) - i) : r[m] = q[m + i]
  BY <1>1
<1>3. Without(q, k) = l \o r
  BY DEF Without, RemoveAt
<1> HIDE DEF l, r, i
<1>4. /\ l \o r \in Seq(Entries) /\ Len(l \o r) = Len(l) + Len(r)
      /\ \A m \in 1..(Len(l) + Len(r)) :
           (l \o r)[m] = IF m <= Len(l) THEN l[m] ELSE r[m - Len(l)]
  BY <1>2, ConcatProperties
<1>5. i \in 1..Len(q) /\ Len(q) \in Nat
  BY <1>1 DEF i
<1>6. Len(l \o r) = Len(q) - 1
  BY <1>2, <1>4, <1>5
<1>7. ASSUME NEW m \in 1..(Len(q) - 1)
      PROVE  (l \o r)[m] = IF m < i THEN q[m] ELSE q[m + 1]
  <2>1. CASE m < i
    BY <1>2, <1>4, <1>5, <2>1
  <2>2. CASE ~(m < i)
    <3>1. (l \o r)[m] = r[m - (i - 1)]
      BY <1>2, <1>4, <1>5, <2>2
    <3>2. m - (i - 1) \in 1..(Len(q) - i) /\ (m - (i - 1)) + i = m + 1
      BY <1>5, <2>2
    <3> QED BY <1>2, <2>2, <3>1, <3>2
  <2> QED BY <2>1, <2>2
<1> QED
  BY <1>1, <1>3, <1>4, <1>6, <1>7 DEF i

\* An entry that was there before is the same, but for the time of its use.
Kept(q, r) ==
  \A m \in DOMAIN r, n \in DOMAIN q : r[m].key = q[n].key =>
    /\ r[m].value = q[n].value
    /\ r[m].since # q[n].since => expiration_type = "Sliding" /\ r[m].since = clock

\* An LRU cache of shard i.
Cache(q, i, size) == q \in Seq(Entries) /\ WellFormed(q, i, size)

LEMMA AddedKeeps ==
  ASSUME NEW i, NEW size \in Nat, NEW q, Cache(q, i, size), clock \in Clock,
         NEW k \in Keys, ShardOf[k] = i, NEW v \in Values \union {None}
  PROVE  /\ Cache(Added(q, k, v, size), i, size)
         /\ KeysOf(Added(q, k, v, size)) \subseteq KeysOf(q) \union {k}
         /\ Kept(q, Added(q, k, v, size))
<1>1. q \in Seq(Entries) /\ WellFormed(q, i, size)
  BY DEF Cache
<1>2. CASE k \in KeysOf(q)
  BY <1>1, <1>2 DEF Added, Kept, Cache, WellFormed
<1>3. CASE k \notin KeysOf(q)
  <2> DEFINE e == [key |-> k, value |-> v, since |-> clock]
             p == Append(q, e)
             r == Trimmed(p, size)
  <2>1. /\ p \in Seq(Entries) /\ Len(p) = Len(q) + 1
        /\ \A m \in 1..Len(q) : p[m] = q[m] /\ p[m].key # k
        /\ p[Len(q) + 1] = e
    BY <1>1, <1>3 DEF Entries, KeysOf
  <2>2. Len(q) \in Nat /\ DOMAIN q = 1..Len(q)
    BY <1>1
  <2>3. /\ \A m, n \in 1..Len(p) : p[m].key = p[n].key => m = n
        /\ \A m \in 1..Len(p) : ShardOf[p[m].key] = i
    BY <1>1, <2>1, <2>2 DEF WellFormed
  <2> HIDE DEF p
  <2>4. PICK n \in 0..Len(p) : r = Dropped(p, n) /\ Fits(r, size)
    BY <2>1, TrimmedFits
  <2>5. /\ r \in Seq(Entries) /\ Len(r) = Len(p) - n /\ Len(r) <= size
        /\ \A m \in 1..(Len(p) - n) : r[m] = p[m + n]
    BY <2>1, <2>4, DroppedEntries DEF Fits
  <2> HIDE DEF r, e
  <2>6. DOMAIN r = 1..(Len(p) - n) /\ Len(p) \in Nat
    BY <2>1, <2>2, <2>5
  <2>7. \A m \in DOMAIN r : m + n \in 1..Len(p) /\ r[m] = p[m + n]
    BY <2>5, <2>6
  <2>8. WellFormed(r, i, size)
    <3>1. \A a, b \in DOMAIN r : r[a].key = r[b].key => a = b
      BY <2>3, <2>6, <2>7
    <3>2. \A a \in DOMAIN r : ShardOf[r[a].key] = i
      BY <2>3, <2>7
    <3> QED BY <2>5, <3>1, <3>2 DEF WellFormed
  <2>9. KeysOf(r) \subseteq KeysOf(q) \union {k}
    BY <2>1, <2>2, <2>7 DEF KeysOf, e
  <2>10. Kept(q, r)
    <3> SUFFICES ASSUME NEW m \in DOMAIN r, NEW j \in DOMAIN q, r[m].key = q[j].key
                 PROVE  r[m] = q[j]
      BY DEF Kept
    <3>1. p[j] = q[j] /\ j \in 1..Len(p)
      BY <2>1, <2>2
    <3> QED BY <2>3, <2>7, <3>1
  <2>11. Added(q, k, v, size) = r
    BY <1>3 DEF Added, r, p, e
  <2> QED BY <2>5, <2>8, <2>9, <2>10, <2>11 DEF Cache
<1> QED
  BY <1>2, <1>3

LEMMA GottenKeeps ==
  ASSUME NEW i, NEW size \in Nat, NEW q, Cache(q, i, size), clock \in Clock, NEW k \in Keys
  PROVE  /\ Cache(Gotten(q, k), i, size)
         /\ KeysOf(Gotten(q, k)) \subseteq KeysOf(q)
         /\ Kept(q, Gotten(q, k))
<1>1. q \in Seq(Entries) /\ WellFormed(q, i, size) /\ Len(q) \in Nat /\ DOMAIN q = 1..Len(q)
  BY DEF Cache
<1>2. CASE k \notin KeysOf(q)
  BY <1>1, <1>2 DEF Gotten, Kept, Cache, WellFormed
<1>3. CASE k \in KeysOf(q)
  <2> DEFINE d == IndexOf(q, k)
             w == Without(q, k)
  <2>1. /\ d \in 1..Len(q) /\ q[d].key = k /\ w \in Seq(Entries) /\ Len(w) = Len(q) - 1
        /\ \A m \in 1..(Len(q) - 1) : w[m] = IF m < d THEN q[m] ELSE q[m + 1]
    BY <1>1, <1>3, WithoutEntries
  <2> HIDE DEF d, w
  <2>2. DOMAIN w = 1..(Len(q) - 1)
    BY <1>1, <2>1
  <2>3. \A m \in DOMAIN w : \E j \in DOMAIN q : w[m] = q[j] /\ j # d /\ j = IF m < d THEN m ELSE m + 1
    BY <1>1, <2>1, <2>2
  <2>4. WellFormed(w, i, size)
    <3>1. \A a, b \in DOMAIN w : w[a].key = w[b].key => a = b
      BY <1>1, <2>1, <2>2, <2>3 DEF WellFormed
    <3>2. \A a \in DOMAIN w : ShardOf[w[a].key] = i
      BY <1>1, <2>3 DEF WellFormed
    <3>3. Len(w) <= size
      BY <1>1, <2>1 DEF WellFormed
    <3> QED BY <3>1, <3>2, <3>3 DEF WellFormed
  <2>5. KeysOf(w) \subseteq KeysOf(q) \ {k}
    BY <1>1, <2>1, <2>3 DEF KeysOf, WellFormed
  <2>6. Kept(q, w)
    BY <1>1, <2>3 DEF Kept, WellFormed
  <2>7. CASE Expired(EntryOf(q, k))
    BY <1>3, <2>1, <2>4, <2>5, <2>6, <2>7 DEF Gotten, Cache, w
  <2>8. CASE ~Expired(EntryOf(q, k))
    <3> DEFINE e == IF expiration_type = "Sliding" THEN [q[d] EXCEPT !.since = clock] ELSE q[d]
               r == Append(w, e)
    <3>1. /\ e \in Entries /\ e.key = k /\ e.value = q[d].value
          /\ e.since # q[d].since => expiration_type = "Sliding" /\ e.since = clock
      <4>1. q[d] \in Entries
        BY <1>1, <2>1
      <4> QED BY <2>1, <4>1 DEF Entries
    <3> HIDE DEF e
    <3>2. /\ r \in Seq(Entries) /\ Len(r) = Len(q) /\ DOMAIN r = 1..Len(q)
          /\ \A m \in 1..(Len(q) - 1) : r[m] = w[m]
          /\ r[Len(q)] = e
      <4>1. /\ r \in Seq(Entries) /\ Len(r) = Len(w) + 1
            /\ \A m \in 1..Len(w) : r[m] = w[m]
            /\ r[Len(w) + 1] = e
        BY <2>1, <3>1, AppendProperties
      <4> HIDE DEF r
      <4> QED BY <1>1, <2>1, <4>1
    <3> HIDE DEF r
    <3>3. WellFormed(r, i, size)
      <4>1. \A m \in DOMAIN w : w[m].key # k
        BY <2>5 DEF KeysOf
      <4>2. \A a, b \in DOMAIN r : r[a].key = r[b].key => a = b
        BY <1>1, <2>2, <2>4, <3>1, <3>2, <4>1 DEF WellFormed
      <4>3. ShardOf[k] = i
        BY <1>1, <2>1 DEF WellFormed
      <4>4. \A a \in DOMAIN r : ShardOf[r[a].key] = i
        <5> SUFFICES ASSUME NEW a \in DOMAIN r PROVE ShardOf[r[a].key] = i
          OBVIOUS
        <5>1. CASE a = Len(q)
          BY <3>1, <3>2, <4>3, <5>1
        <5>2. CASE a # Len(q)
          BY <1>1, <2>2, <2>4, <3>2, <5>2 DEF WellFormed
        <5> QED BY <5>1, <5>2
      <4> QED BY <1>1, <3>2, <4>2, <4>4 DEF WellFormed
    <3>4. KeysOf(r) \subseteq KeysOf(q)
      <4>1. \A m \in DOMAIN w : w[m].key \in KeysOf(q)
        BY <2>5 DEF KeysOf
      <4>2. ASSUME NEW m \in DOMAIN r PROVE r[m].key \in KeysOf(q)
        <5>1. CASE m = Len(q)
          BY <1>3, <3>1, <3>2, <5>1
        <5>2. CASE m # Len(q)
          BY <1>1, <2>2, <3>2, <4>1, <5>2
        <5> QED BY <5>1, <5>2
      <4> QED BY <4>2 DEF KeysOf
    <3>5. Kept(q, r)
      <4> SUFFICES ASSUME NEW m \in DOMAIN r, NEW j \in DOMAIN q, r[m].key = q[j].key
                   PROVE  /\ r[m].value = q[j].value
                          /\ r[m].since # q[j].since =>
                               expiration_type = "Sliding" /\ r[m].since = clock
        BY DEF Kept
      <4>1. CASE m = Len(q)
        <5>1. j = d
          BY <1>1, <2>1, <3>1, <3>2, <4>1 DEF WellFormed
        <5> QED BY <3>1, <3>2, <4>1, <5>1
      <4>2. CASE m # Len(q)
        BY <1>1, <2>2, <2>6, <3>2, <4>2 DEF Kept
      <4> QED BY <4>1, <4>2
    <3>6. Gotten(q, k) = r
      BY <1>3, <2>8 DEF Gotten, Used, EntryOf, r, e, d, w
    <3> QED BY <3>2, <3>3, <3>4, <3>5, <3>6 DEF Cache
  <2> QED BY <2>7, <2>8
<1> QED
  BY <1>2, <1>3
-----------------------------------------------------------------------------
(* The calls of the threads.                                               *)

Pairs == [probatory: Seq(Entries), resident: Seq(Entries)]

LEMMA ShardChanges ==
  ASSUME NEW s \in [Shards -> Pairs], NEW i \in Shards, NEW q \in Seq(Entries), NEW r,
         \/ r = [s EXCEPT ![i].resident = q]
         \/ r = [s EXCEPT ![i].probatory = q]
  PROVE  /\ r \in [Shards -> Pairs]
         /\ \A j \in Shards \ {i} : r[j] = s[j]
         /\ r = [s EXCEPT ![i].resident = q] =>
              r[i].resident = q /\ r[i].probatory = s[i].probatory
         /\ r = [s EXCEPT ![i].probatory = q] =>
              r[i].probatory = q /\ r[i].resident = s[i].resident
  BY DEF Pairs

\* What a call leaves in its shard; the other shards stay as they are.
Effect(k) ==
  LET i == ShardOf[k] IN
  /\ i \in Shards
  /\ shards' \in [Shards -> Pairs]
  /\ \A j \in Shards \ {i} : shards'[j] = shards[j]
  /\ Cache(shards'[i].probatory, i, probatory_size)
  /\ Cache(shards'[i].resident, i, ResidentSize)
  /\ Kept(shards[i].resident, shards'[i].resident)

LEMMA GetEffect ==
  ASSUME TypeOK, NEW k \in Keys, TryGet(k)
  PROVE  /\ Effect(k)
         /\ shards'[ShardOf[k]].probatory = shards[ShardOf[k]].probatory
         /\ KeysOf(shards'[ShardOf[k]].resident) \subseteq KeysOf(shards[ShardOf[k]].resident)
<1> DEFINE i == ShardOf[k]
           g == Gotten(shards[i].resident, k)
<1>1. /\ i \in Shards /\ shards \in [Shards -> Pairs] /\ ResidentSize \in Nat /\ clock \in Clock
      /\ Cache(shards[i].probatory, i, probatory_size)
      /\ Cache(shards[i].resident, i, ResidentSize)
  BY ShardedAssumption DEF TypeOK, Cache, Pairs
<1>2. shards' = [shards EXCEPT ![i].resident = g]
  BY DEF TryGet
<1> HIDE DEF i
<1>3. /\ Cache(g, i, ResidentSize) /\ Kept(shards[i].resident, g)
      /\ KeysOf(g) \subseteq KeysOf(shards[i].resident)
  BY <1>1, GottenKeeps
<1>4. g \in Seq(Entries)
  BY <1>3 DEF Cache
<1> HIDE DEF g
<1>5. /\ shards' \in [Shards -> Pairs] /\ \A j \in Shards \ {i} : shards'[j] = shards[j]
      /\ shards'[i].resident = g /\ shards'[i].probatory = shards[i].probatory
  BY <1>1, <1>2, <1>4, ShardChanges
<1> QED
  BY <1>1, <1>3, <1>5 DEF Effect, i

LEMMA AddEffect ==
  ASSUME TypeOK, NEW k \in Keys, NEW v \in Values, TryAdd(k, v)
  PROVE  /\ Effect(k)
         /\ KeysOf(shards'[ShardOf[k]].probatory)
              \subseteq KeysOf(shards[ShardOf[k]].probatory) \union {k}
         /\ KeysOf(shards'[ShardOf[k]].resident)
              \subseteq KeysOf(shards[ShardOf[k]].resident) \union {k}
         /\ NewToProbatory(k) =>
              KeysOf(shards'[ShardOf[k]].resident) = KeysOf(shards[ShardOf[k]].resident)
         /\ ~NewToProbatory(k) =>
              KeysOf(shards'[ShardOf[k]].probatory) = KeysOf(shards[ShardOf[k]].probatory)
<1> DEFINE i == ShardOf[k]
           p == Added(shards[i].probatory, k, None, probatory_size)
           r == Added(shards[i].resident, k, v, ResidentSize)
<1>1. /\ i \in Shards /\ shards \in [Shards -> Pairs] /\ clock \in Clock
      /\ probatory_size \in Nat /\ ResidentSize \in Nat
      /\ Cache(shards[i].probatory, i, probatory_size)
      /\ Cache(shards[i].resident, i, ResidentSize)
  BY ShardedAssumption DEF TypeOK, Cache, Pairs
<1>2. shards' = IF NewToProbatory(k) THEN [shards EXCEPT ![i].probatory = p]
                ELSE [shards EXCEPT ![i].resident = r]
  BY DEF TryAdd
<1>3. ShardOf[k] = i
  OBVIOUS
<1> HIDE DEF i
<1>4. Cache(p, i, probatory_size) /\ KeysOf(p) \subseteq KeysOf(shards[i].probatory) \union {k}
  BY <1>1, <1>3, AddedKeeps
<1>5. /\ Cache(r, i, ResidentSize) /\ Kept(shards[i].resident, r)
      /\ KeysOf(r) \subseteq KeysOf(shards[i].resident) \union {k}
  <2>1. v \in Values \union {None}
    OBVIOUS
  <2> QED BY <1>1, <1>3, <2>1, AddedKeeps, Zenon
<1>6. p \in Seq(Entries) /\ r \in Seq(Entries)
  BY <1>4, <1>5 DEF Cache
<1> HIDE DEF p, r
<1>7. CASE NewToProbatory(k)
  <2>1. /\ shards' \in [Shards -> Pairs] /\ \A j \in Shards \ {i} : shards'[j] = shards[j]
        /\ shards'[i].probatory = p /\ shards'[i].resident = shards[i].resident
    BY <1>1, <1>2, <1>6, <1>7, ShardChanges
  <2>2. Kept(shards[i].resident, shards[i].resident)
    BY <1>1 DEF Kept, Cache, WellFormed
  <2> QED BY <1>1, <1>3, <1>4, <1>7, <2>1, <2>2 DEF Effect
<1>8. CASE ~NewToProbatory(k)
  <2>1. /\ shards' \in [Shards -> Pairs] /\ \A j \in Shards \ {i} : shards'[j] = shards[j]
        /\ shards'[i].resident = r /\ shards'[i].probatory = shards[i].probatory
    BY <1>1, <1>2, <1>6, <1>8, ShardChanges
  <2> QED BY <1>1, <1>3, <1>5, <1>8, <2>1 DEF Effect
<1> QED
  BY <1>7, <1>8
-----------------------------------------------------------------------------
(* The keys of all shards.                                                 *)

\* Each shard has the keys of its own.
LEMMA ResidentByShard ==
  ASSUME TypeOK
  PROVE  /\ Resident(shards) \subseteq Keys
         /\ \A i \in Shards : KeysOf(shards[i].resident) = {k \in Resident(shards) : ShardOf[k] = i}
<1>1. ASSUME NEW i \in Shards, NEW k \in KeysOf(shards[i].resident)
      PROVE  k \in Keys /\ ShardOf[k] = i
  <2>1. shards[i].resident \in Seq(Entries) /\ WellFormed(shards[i].resident, i, ResidentSize)
    BY DEF TypeOK
  <2>2. PICK n \in DOMAIN shards[i].resident : k = shards[i].resident[n].key
    BY DEF KeysOf
  <2>3. shards[i].resident[n] \in Entries
    BY <2>1
  <2> QED BY <2>1, <2>2, <2>3 DEF WellFormed, Entries
<1>2. \A k \in Resident(shards) : \E i \in Shards : k \in KeysOf(shards[i].resident)
  BY DEF Resident
<1>3. \A i \in Shards : KeysOf(shards[i].resident) \subseteq Resident(shards)
  BY DEF Resident
<1> QED
  BY <1>1, <1>2, <1>3

\* A call moves keys in one shard.
LEMMA EffectTyped ==
  ASSUME TypeOK, NEW k \in Keys, Effect(k), probatory_size' = probatory_size
  PROVE  /\ shards' \in [Shards -> Pairs]
         /\ \A i \in Shards : /\ WellFormed(shards'[i].probatory, i, probatory_size')
                              /\ WellFormed(shards'[i].resident, i, ResidentSize)
                              /\ Kept(shards[i].resident, shards'[i].resident)
<1> SUFFICES ASSUME NEW i \in Shards
             PROVE  /\ WellFormed(shards'[i].probatory, i, probatory_size')
                    /\ WellFormed(shards'[i].resident, i, ResidentSize)
                    /\ Kept(shards[i].resident, shards'[i].resident)
  BY DEF Effect
<1>1. CASE i = ShardOf[k]
  BY <1>1 DEF Effect, Cache
<1>2. CASE i # ShardOf[k]
  <2>1. shards'[i] = shards[i]
    BY <1>2 DEF Effect
  <2> QED BY <2>1 DEF TypeOK, WellFormed, Kept
<1> QED
  BY <1>1, <1>2

\* The number of entries is that of the keys.
LEMMA LenIsCardinality ==
  ASSUME NEW q \in Seq(Entries), \A m, n \in DOMAIN q : q[m].key = q[n].key => m = n
  PROVE  Len(q) \in Nat /\ IsFiniteSet(KeysOf(q)) /\ Cardinality(KeysOf(q)) = Len(q)
<1> DEFINE f == [n \in 1..Len(q) |-> q[n].key]
<1>1. Len(q) \in Nat /\ DOMAIN q = 1..Len(q)
  OBVIOUS
<1>2. f \in [1..Len(q) -> KeysOf(q)]
  BY <1>1 DEF KeysOf
<1>3. f \in Bijection(1..Len(q), KeysOf(q))
  BY <1>1, <1>2 DEF Bijection, Injection, Surjection, IsInjective, KeysOf
<1>4. ExistsBijection(1..Len(q), KeysOf(q))
  BY <1>3 DEF ExistsBijection
<1>5. IsFiniteSet(1..Len(q)) /\ Cardinality(1..Len(q)) = Len(q)
  BY <1>1, FS_Interval
<1> QED
  BY <1>1, <1>4, <1>5, FS_Bijection
-----------------------------------------------------------------------------
(* Counting.                                                               *)

\* The keys of the shards that have been counted.
Seen(n) == {k \in Keys : ShardOf[k] < n}

\* What a thread has counted lies between the keys of the shards it has seen
\* that were there from the start on, and those that were there at some time.
Plausible(t) ==
  counting[t] # None =>
    /\ throughout[t] \subseteq Resident(shards) /\ Resident(shards) \subseteq sometime[t]
    /\ Cardinality(throughout[t] \intersect Seen(counting[t].next)) <= counting[t].sum
    /\ counting[t].sum <= Cardinality(sometime[t] \intersect Seen(counting[t].next))

Counts == TypeOK /\ \A t \in Threads : Plausible(t)

LEMMA Larger ==
  ASSUME NEW S \in SUBSET Keys, NEW T \in SUBSET Keys, S \subseteq T
  PROVE  /\ Cardinality(S) \in Nat /\ Cardinality(T) \in Nat
         /\ IsFiniteSet(S) /\ Cardinality(S) <= Cardinality(T)
<1>1. IsFiniteSet(T) /\ IsFiniteSet(S)
  BY FS_Subset, ShardedAssumption
<1>2. Cardinality(S) <= Cardinality(T)
  BY <1>1, FS_Subset
<1> QED
  BY <1>1, <1>2, FS_CardinalityType

\* One more shard is seen: K are its resident keys, among those of S.
LEMMA OneMoreShard ==
  ASSUME NEW n \in Shards, NEW S \in SUBSET Keys
  PROVE  Cardinality(S \intersect Seen(n + 1))
           = Cardinality(S \intersect Seen(n)) + Cardinality({k \in S : ShardOf[k] = n})
<1> DEFINE A == S \intersect Seen(n)
           B == {k \in S : ShardOf[k] = n}
<1>1. A \in SUBSET Keys /\ B \in SUBSET Keys
  OBVIOUS
<1>2. IsFiniteSet(A) /\ IsFiniteSet(B) /\ Cardinality(A) \in Nat /\ Cardinality(B) \in Nat
  BY <1>1, Larger
<1>3. S \intersect Seen(n + 1) = A \union B /\ A \intersect B = {}
  BY ShardedAssumption DEF Seen, Shards
<1> HIDE DEF A, B
<1>4. Cardinality(A \union B) = Cardinality(A) + Cardinality(B) - Cardinality(A \intersect B)
  BY <1>2, FS_Union
<1>5. Cardinality(A \union B) = Cardinality(A) + Cardinality(B)
  BY <1>2, <1>3, <1>4, FS_EmptySet
<1> QED
  BY <1>3, <1>5 DEF A, B

LEMMA CountsInit == Init => Counts
<1> SUFFICES ASSUME Init PROVE TypeOK /\ \A t \in Threads : counting[t] = None
  BY DEF Counts, Plausible
<1>1. \A i \in Shards : shards[i].probatory = <<>> /\ shards[i].resident = <<>>
  BY DEF Init
<1>2. \A i \in Shards, size \in Nat : WellFormed(<<>>, i, size)
  BY DEF WellFormed
<1>3. probatory_size \in Nat /\ ResidentSize \in Nat
  BY ShardedAssumption DEF Init
<1>4. /\ shards \in [Shards -> [probatory: Seq(Entries), resident: Seq(Entries)]]
      /\ \A i \in Shards : /\ WellFormed(shards[i].probatory, i, probatory_size)
                           /\ WellFormed(shards[i].resident, i, ResidentSize)
  BY <1>1, <1>2, <1>3 DEF Init
<1> QED
  BY <1>4, ShardedAssumption DEF Init, TypeOK, Clock

\* The types that a call may change besides those of the shards.
LEMMA ObservedTyped ==
  ASSUME TypeOK, Observed, UNCHANGED counting, Resident(shards') \subseteq Keys
  PROVE  throughout' \in [Threads -> SUBSET Keys] /\ sometime' \in [Threads -> SUBSET Keys]
  BY DEF TypeOK, Observed

LEMMA EffectCounts ==
  ASSUME Counts, NEW k \in Keys, Effect(k), Observed, added' \in [Keys -> 0..2],
         UNCHANGED <<probatory_size, expiration_type, clock, counting, counted>>
  PROVE  Counts'
<1>1. /\ shards' \in [Shards -> [probatory: Seq(Entries), resident: Seq(Entries)]]
      /\ \A i \in Shards : /\ WellFormed(shards'[i].probatory, i, probatory_size')
                           /\ WellFormed(shards'[i].resident, i, ResidentSize)
  BY EffectTyped DEF Counts, Pairs
<1>2. Resident(shards') \subseteq Keys
  <2> SUFFICES ASSUME NEW i \in Shards, NEW n \in DOMAIN shards'[i].resident
               PROVE  shards'[i].resident[n].key \in Keys
    BY DEF Resident, KeysOf
  <2>1. shards'[i].resident \in Seq(Entries)
    BY <1>1
  <2>2. shards'[i].resident[n] \in Entries
    BY <2>1
  <2> QED BY <2>2 DEF Entries
<1>3. throughout' \in [Threads -> SUBSET Keys] /\ sometime' \in [Threads -> SUBSET Keys]
  BY <1>2, ObservedTyped DEF Counts
<1>4. TypeOK'
  BY <1>1, <1>3 DEF Counts, TypeOK, Clock
<1>5. ASSUME NEW t \in Threads PROVE Plausible(t)'
  <2> SUFFICES ASSUME counting[t] # None
               PROVE  /\ throughout'[t] \subseteq Resident(shards')
                      /\ Resident(shards') \subseteq sometime'[t]
                      /\ Cardinality(throughout'[t] \intersect Seen(counting[t].next)) <= counting[t].sum
                      /\ counting[t].sum <= Cardinality(sometime'[t] \intersect Seen(counting[t].next))
    BY DEF Plausible
  <2> DEFINE s == Seen(counting[t].next)
  <2>1. /\ throughout'[t] = throughout[t] \intersect Resident(shards')
        /\ sometime'[t] = sometime[t] \union Resident(shards')
    BY DEF Observed
  <2>2. /\ throughout[t] \in SUBSET Keys /\ sometime'[t] \in SUBSET Keys
        /\ counting[t] \in [next: 0..NumShards, sum: Nat]
    BY <1>3 DEF Counts, TypeOK
  <2>3. Cardinality(throughout[t] \intersect s) <= counting[t].sum
        /\ counting[t].sum <= Cardinality(sometime[t] \intersect s)
    BY DEF Counts, Plausible
  <2>4. s \in SUBSET Keys
    BY DEF Seen
  <2> HIDE DEF s
  <2>5. /\ Cardinality(throughout'[t] \intersect s) <= Cardinality(throughout[t] \intersect s)
        /\ Cardinality(throughout'[t] \intersect s) \in Nat
        /\ Cardinality(throughout[t] \intersect s) \in Nat
    BY <2>1, <2>2, <2>4, Larger
  <2>6. /\ Cardinality(sometime[t] \intersect s) <= Cardinality(sometime'[t] \intersect s)
        /\ Cardinality(sometime[t] \intersect s) \in Nat
        /\ Cardinality(sometime'[t] \intersect s) \in Nat
    BY <2>1, <2>2, <2>4, Larger
  <2>7. counting[t].sum \in Nat
    BY <2>2
  <2>8. /\ Cardinality(throughout'[t] \intersect s) <= counting[t].sum
        /\ counting[t].sum <= Cardinality(sometime'[t] \intersect s)
    BY <2>3, <2>5, <2>6, <2>7
  <2> QED BY <2>1, <2>8 DEF s
<1> QED
  BY <1>4, <1>5 DEF Counts

LEMMA LenStartsCounts ==
  ASSUME Counts, NEW t \in Threads, LenStarts(t)
  PROVE  Counts'
<1>1. Resident(shards) \in SUBSET Keys /\ Resident(shards') = Resident(shards)
  BY ResidentByShard DEF Counts, LenStarts
<1>2. TypeOK'
  BY <1>1, ShardedAssumption DEF Counts, TypeOK, LenStarts, Clock
<1>3. ASSUME NEW u \in Threads PROVE Plausible(u)'
  <2>1. CASE u = t
    <3>1. /\ counting'[u] = [next |-> 0, sum |-> 0]
          /\ throughout'[u] = Resident(shards) /\ sometime'[u] = Resident(shards)
      BY <2>1 DEF Counts, TypeOK, LenStarts
    <3>2. Seen(0) = {}
      BY ShardedAssumption DEF Seen, Shards
    <3>3. Cardinality(Resident(shards) \intersect Seen(0)) = 0
      BY <3>2, FS_EmptySet
    <3> QED BY <1>1, <3>1, <3>3 DEF Plausible
  <2>2. CASE u # t
    <3>1. /\ counting'[u] = counting[u] /\ throughout'[u] = throughout[u]
          /\ sometime'[u] = sometime[u] /\ shards' = shards
      BY <2>2 DEF Counts, TypeOK, LenStarts
    <3> QED BY <3>1 DEF Counts, Plausible
  <2> QED BY <2>1, <2>2
<1> QED
  BY <1>2, <1>3 DEF Counts

LEMMA LenCountsCounts ==
  ASSUME Counts, NEW t \in Threads, LenCounts(t)
  PROVE  Counts'
<1> DEFINE n == counting[t].next
           K == KeysOf(shards[n].resident)
           lo == throughout[t]
           hi == sometime[t]
<1>1. /\ counting[t] \in [next: 0..NumShards, sum: Nat] /\ n \in Shards /\ n + 1 \in 0..NumShards
      /\ lo \in SUBSET Keys /\ hi \in SUBSET Keys
  <2>1. counting[t] \in [next: 0..NumShards, sum: Nat] /\ n < NumShards
    BY DEF Counts, TypeOK, LenCounts
  <2>2. lo \in SUBSET Keys /\ hi \in SUBSET Keys
    BY DEF Counts, TypeOK
  <2> QED BY <2>1, <2>2, ShardedAssumption DEF Shards
<1>2. Len(shards[n].resident) = Cardinality(K) /\ Len(shards[n].resident) \in Nat
  BY <1>1, LenIsCardinality DEF Counts, TypeOK, WellFormed
<1>3. counting'[t] = [next |-> n + 1, sum |-> counting[t].sum + Len(shards[n].resident)]
  BY DEF Counts, TypeOK, LenCounts
<1>4. TypeOK'
  <2>1. counting'[t] \in [next: 0..NumShards, sum: Nat]
    BY <1>1, <1>2, <1>3
  <2>2. counting' \in [Threads -> [next: 0..NumShards, sum: Nat] \union {None}]
    BY <2>1 DEF Counts, TypeOK, LenCounts
  <2> QED BY <2>2 DEF Counts, TypeOK, LenCounts, Clock
<1>5. ASSUME NEW u \in Threads PROVE Plausible(u)'
  <2>1. CASE u = t
    <3>1. /\ lo \subseteq Resident(shards) /\ Resident(shards) \subseteq hi
          /\ Cardinality(lo \intersect Seen(n)) <= counting[t].sum
          /\ counting[t].sum <= Cardinality(hi \intersect Seen(n))
      BY DEF Counts, Plausible, LenCounts
    <3>2. /\ {k \in lo : ShardOf[k] = n} \subseteq K /\ K \subseteq {k \in hi : ShardOf[k] = n}
          /\ K \in SUBSET Keys
      BY <1>1, <3>1, ResidentByShard DEF Counts
    <3>3. /\ Cardinality({k \in lo : ShardOf[k] = n}) <= Cardinality(K)
          /\ Cardinality(K) <= Cardinality({k \in hi : ShardOf[k] = n})
          /\ Cardinality({k \in lo : ShardOf[k] = n}) \in Nat
          /\ Cardinality({k \in hi : ShardOf[k] = n}) \in Nat
      <4>1. {k \in lo : ShardOf[k] = n} \in SUBSET Keys /\ {k \in hi : ShardOf[k] = n} \in SUBSET Keys
        BY <1>1
      <4> HIDE DEF K, lo, hi, n
      <4> QED BY <3>2, <4>1, Larger
    <3>4. /\ Cardinality(lo \intersect Seen(n)) \in Nat
          /\ Cardinality(hi \intersect Seen(n)) \in Nat
      <4>1. lo \intersect Seen(n) \in SUBSET Keys /\ hi \intersect Seen(n) \in SUBSET Keys
        BY <1>1
      <4> HIDE DEF lo, hi, n
      <4> QED BY <4>1, Larger
    <3>5. /\ Cardinality(lo \intersect Seen(n + 1))
               = Cardinality(lo \intersect Seen(n)) + Cardinality({k \in lo : ShardOf[k] = n})
          /\ Cardinality(hi \intersect Seen(n + 1))
               = Cardinality(hi \intersect Seen(n)) + Cardinality({k \in hi : ShardOf[k] = n})
      BY <1>1, OneMoreShard
    <3>6. counting[t].sum \in Nat
      BY <1>1
    <3> DEFINE sum == counting[t].sum + Len(shards[n].resident)
    <3>7. /\ Cardinality(lo \intersect Seen(n + 1)) <= sum
          /\ sum <= Cardinality(hi \intersect Seen(n + 1))
      <4> HIDE DEF K, lo, hi, n
      <4> QED BY <1>2, <3>1, <3>3, <3>4, <3>5, <3>6
    <3>8. /\ counting'[u].next = n + 1 /\ counting'[u].sum = sum
          /\ throughout'[u] = lo /\ sometime'[u] = hi /\ shards' = shards
      BY <1>3, <2>1 DEF LenCounts
    <3> HIDE DEF K, lo, hi, n, sum
    <3> QED BY <3>1, <3>7, <3>8 DEF Plausible
  <2>2. CASE u # t
    <3>1. /\ counting'[u] = counting[u] /\ throughout'[u] = throughout[u]
          /\ sometime'[u] = sometime[u] /\ shards' = shards
      BY <2>2 DEF Counts, TypeOK, LenCounts
    <3> QED BY <3>1 DEF Counts, Plausible
  <2> QED BY <2>1, <2>2
<1> QED
  BY <1>4, <1>5 DEF Counts

\* What len() returns is as the property asks.
LEMMA LenReturnsCounts ==
  ASSUME Counts, NEW t \in Threads, LenReturns(t)
  PROVE  /\ Counts'
         /\ counted'[t] \in Cardinality(throughout[t])..Cardinality(sometime[t])
<1>1. /\ counting[t] \in [next: 0..NumShards, sum: Nat] /\ counting[t].next = NumShards
      /\ throughout[t] \in SUBSET Keys /\ sometime[t] \in SUBSET Keys
      /\ counted'[t] = counting[t].sum
  BY DEF Counts, TypeOK, LenReturns
<1>2. throughout[t] \intersect Seen(NumShards) = throughout[t]
      /\ sometime[t] \intersect Seen(NumShards) = sometime[t]
  <2>1. Keys \subseteq Seen(NumShards)
    BY ShardedAssumption DEF Seen, Shards
  <2> QED BY <1>1, <2>1
<1>3. Cardinality(throughout[t]) <= counting[t].sum /\ counting[t].sum <= Cardinality(sometime[t])
  BY <1>1, <1>2 DEF Counts, Plausible, LenReturns
<1>4. /\ Cardinality(throughout[t]) \in Nat /\ Cardinality(sometime[t]) \in Nat
      /\ Cardinality(Keys) \in Nat /\ Cardinality(sometime[t]) <= Cardinality(Keys)
  BY <1>1, Larger
<1>5. counting[t].sum \in 0..Cardinality(Keys)
  BY <1>1, <1>3, <1>4
<1>6. TypeOK'
  BY <1>5 DEF Counts, TypeOK, LenReturns, Clock
<1>7. ASSUME NEW u \in Threads PROVE Plausible(u)'
  <2>1. CASE u = t
    BY <2>1 DEF Counts, TypeOK, LenReturns, Plausible
  <2>2. CASE u # t
    <3>1. /\ counting'[u] = counting[u] /\ throughout'[u] = throughout[u]
          /\ sometime'[u] = sometime[u] /\ shards' = shards
      BY <2>2 DEF Counts, TypeOK, LenReturns
    <3> QED BY <3>1 DEF Counts, Plausible
  <2> QED BY <2>1, <2>2
<1> QED
  BY <1>1, <1>3, <1>4, <1>6, <1>7 DEF Counts

LEMMA AddCounts ==
  ASSUME Counts, NEW k \in Keys,
         TryGet(k) \/ \E v \in Values : TryAdd(k, v)
  PROVE  Effect(k) /\ Counts'
<1>1. Effect(k)
  BY GetEffect, AddEffect DEF Counts
<1>2. added' \in [Keys -> 0..2]
  <2>1. added \in [Keys -> 0..2]
    BY DEF Counts, TypeOK
  <2>2. added' = added \/ added' = [added EXCEPT ![k] = IF @ = 2 THEN 2 ELSE @ + 1]
    BY DEF TryGet, TryAdd
  <2> QED BY <2>1, <2>2
<1> QED
  BY <1>1, <1>2, EffectCounts DEF TryGet, TryAdd

LEMMA CountsNext == Counts /\ [Next]_vars => Counts'
<1> SUFFICES ASSUME Counts, [Next]_vars PROVE Counts'
  OBVIOUS
<1>1. CASE Tick \/ UNCHANGED vars
  <2>1. UNCHANGED <<shards, probatory_size, expiration_type, counting, counted, added, throughout,
                    sometime>> /\ clock' \in Clock
    BY <1>1, ShardedAssumption DEF Counts, TypeOK, Tick, vars, Clock
  <2>2. TypeOK'
    BY <2>1 DEF Counts, TypeOK, WellFormed, Clock
  <2> QED BY <2>1, <2>2 DEF Counts, Plausible
<1> QED
  BY <1>1, AddCounts, LenStartsCounts, LenCountsCounts, LenReturnsCounts DEF Next

\* Types, sizes and keys of every cache, for any number of threads and shards.
THEOREM ShardedTypeCorrect == Spec => []TypeOK
<1>1. Counts => TypeOK
  BY DEF Counts
<1> QED
  BY <1>1, CountsInit, CountsNext, PTL DEF Spec

\* What len() returns is no less than the number of keys that were there all
\* the time, and no more than those that were there at some time.
THEOREM LensArePlausible == Spec => LenIsPlausible
<1>1. ASSUME Counts, [Next]_vars, NEW t \in Threads, counting[t] # None, counting'[t] = None
      PROVE  counted'[t] \in Cardinality(throughout[t])..Cardinality(sometime[t])
  <2>1. LenReturns(t)
    <3>1. counting' # counting
      BY <1>1
    <3>2. PICK u \in Threads : LenStarts(u) \/ LenCounts(u) \/ LenReturns(u)
      BY <1>1, <3>1 DEF Next, TryGet, TryAdd, Tick, vars
    <3>3. u = t
      BY <1>1, <3>2 DEF Counts, TypeOK, LenStarts, LenCounts, LenReturns
    <3>4. CASE LenStarts(t) \/ LenCounts(t)
      <4>1. counting'[t] \in [next: 0..NumShards, sum: Nat]
        <5>1. CASE LenStarts(t)
          BY <1>1, <5>1 DEF LenStarts
        <5>2. CASE LenCounts(t)
          <6>1. counting[t] \in [next: 0..NumShards, sum: Nat] /\ counting[t].next \in Shards
            BY <1>1, <5>2, ShardedAssumption DEF Counts, TypeOK, LenCounts, Shards
          <6>2. Len(shards[counting[t].next].resident) \in Nat
            BY <1>1, <6>1 DEF Counts, TypeOK
          <6>3. counting'[t] = [next |-> counting[t].next + 1,
                  sum |-> counting[t].sum + Len(shards[counting[t].next].resident)]
            BY <1>1, <5>2 DEF Counts, TypeOK, LenCounts
          <6> QED BY <5>2, <6>1, <6>2, <6>3, ShardedAssumption DEF LenCounts
        <5> QED BY <3>4, <5>1, <5>2
      <4> QED BY <1>1, <4>1, ShardedAssumption
    <3> QED BY <3>2, <3>3, <3>4
  <2> QED BY <1>1, <2>1, LenReturnsCounts
<1>2. Counts /\ [Next]_vars =>
        [\A t \in Threads : counting[t] # None /\ counting'[t] = None =>
           counted'[t] \in Cardinality(throughout[t])..Cardinality(sometime[t])]_vars
  BY <1>1
<1> QED
  BY <1>2, CountsInit, CountsNext, PTL DEF Spec, LenIsPlausible
-----------------------------------------------------------------------------
(* Admission.                                                              *)

\* The probatory caches know keys that were added, the resident ones keys
\* that were added again.
Admitted ==
  probatory_size > 0 =>
    \A i \in Shards : /\ \A k \in KeysOf(shards[i].probatory) : added[k] # 0
                      /\ \A k \in KeysOf(shards[i].resident) : added[k] = 2

LEMMA GetAdmits ==
  ASSUME Counts, Admitted, NEW k \in Keys, TryGet(k)
  PROVE  Admitted'
<1>1. /\ Effect(k) /\ shards'[ShardOf[k]].probatory = shards[ShardOf[k]].probatory
      /\ KeysOf(shards'[ShardOf[k]].resident) \subseteq KeysOf(shards[ShardOf[k]].resident)
  BY GetEffect DEF Counts
<1>2. added' = added /\ probatory_size' = probatory_size
  BY DEF TryGet
<1>3. \A i \in Shards : /\ shards'[i].probatory = shards[i].probatory
                        /\ KeysOf(shards'[i].resident) \subseteq KeysOf(shards[i].resident)
  BY <1>1 DEF Effect
<1> QED
  BY <1>2, <1>3 DEF Admitted

LEMMA AddAdmits ==
  ASSUME Counts, Admitted, NEW k \in Keys, NEW v \in Values, TryAdd(k, v)
  PROVE  Admitted'
<1> DEFINE i == ShardOf[k]
<1>1. /\ Effect(k)
      /\ KeysOf(shards'[i].probatory) \subseteq KeysOf(shards[i].probatory) \union {k}
      /\ KeysOf(shards'[i].resident) \subseteq KeysOf(shards[i].resident) \union {k}
      /\ NewToProbatory(k) => KeysOf(shards'[i].resident) = KeysOf(shards[i].resident)
  BY AddEffect DEF Counts
<1>2. added \in [Keys -> 0..2] /\ added' = [added EXCEPT ![k] = IF @ = 2 THEN 2 ELSE @ + 1]
  BY DEF Counts, TypeOK, TryAdd
<1>3. /\ added'[k] # 0 /\ (added[k] # 0 => added'[k] = 2)
      /\ \A j \in Keys \ {k} : added'[j] = added[j]
  <2>1. added[k] \in 0..2
    BY <1>2
  <2> QED BY <1>2, <2>1
<1>4. ASSUME probatory_size > 0, NEW j \in Shards
      PROVE  /\ \A x \in KeysOf(shards'[j].probatory) : added'[x] # 0
             /\ \A x \in KeysOf(shards'[j].resident) : added'[x] = 2
  <2>1. /\ \A x \in KeysOf(shards[j].probatory) : added[x] # 0
        /\ \A x \in KeysOf(shards[j].resident) : added[x] = 2
    BY <1>4 DEF Admitted
  <2>2. /\ KeysOf(shards[j].probatory) \subseteq Keys /\ KeysOf(shards[j].resident) \subseteq Keys
    <3>1. shards[j].probatory \in Seq(Entries) /\ shards[j].resident \in Seq(Entries)
      BY DEF Counts, TypeOK
    <3>2. /\ \A n \in DOMAIN shards[j].probatory : shards[j].probatory[n] \in Entries
          /\ \A n \in DOMAIN shards[j].resident : shards[j].resident[n] \in Entries
      BY <3>1
    <3> QED BY <3>2 DEF KeysOf, Entries
  <2>3. /\ \A x \in KeysOf(shards[j].probatory) : added'[x] # 0
        /\ \A x \in KeysOf(shards[j].resident) : added'[x] = 2
    BY <1>3, <2>1, <2>2
  <2>4. CASE j # i
    <3>1. shards'[j] = shards[j]
      BY <1>1, <2>4 DEF Effect
    <3> QED BY <2>3, <3>1
  <2>5. CASE j = i
    <3>1. ~NewToProbatory(k) => added[k] # 0
      BY <1>4, <2>1, <2>5 DEF NewToProbatory
    <3> HIDE DEF i
    <3> QED BY <1>1, <1>3, <2>3, <2>5, <3>1
  <2> QED BY <2>4, <2>5
<1>5. probatory_size' = probatory_size
  BY DEF TryAdd
<1> QED
  BY <1>4, <1>5 DEF Admitted

\* With a probatory cache, what is resident was added at least twice.
THEOREM SecondAddsAdmit == Spec => []SecondAddAdmits
<1>1. Init => Admitted
  BY DEF Init, Admitted, KeysOf
<1>2. Counts /\ Admitted /\ [Next]_vars => Admitted'
  <2> SUFFICES ASSUME Counts, Admitted, [Next]_vars PROVE Admitted'
    OBVIOUS
  <2>1. CASE Tick \/ UNCHANGED vars \/ \E t \in Threads : LenStarts(t) \/ LenCounts(t) \/ LenReturns(t)
    <3>1. UNCHANGED <<shards, probatory_size, added>>
      BY <2>1 DEF Tick, vars, LenStarts, LenCounts, LenReturns
    <3> QED BY <3>1 DEF Admitted
  <2> QED BY <2>1, GetAdmits, AddAdmits DEF Next
<1>3. Admitted => SecondAddAdmits
  BY DEF Admitted, SecondAddAdmits, Resident
<1> QED
  BY <1>1, <1>2, <1>3, CountsInit, CountsNext, PTL DEF Spec
-----------------------------------------------------------------------------
(* Values.                                                                 *)

\* The entry of a key is the one at the index where the key is.
LEMMA EntryIs ==
  ASSUME NEW q, NEW k \in KeysOf(q)
  PROVE  IndexOf(q, k) \in DOMAIN q /\ EntryOf(q, k) = q[IndexOf(q, k)] /\ EntryOf(q, k).key = k
  BY DEF KeysOf, IndexOf, EntryOf

\* A key keeps its value until it leaves, and only sliding expiration gives
\* it time, whatever the threads do.
THEOREM ValuesStay == Spec => ValueStays
<1> DEFINE Stays(k) ==
             LET old == EntryOf(shards[ShardOf[k]].resident, k)
                 new == EntryOf(shards'[ShardOf[k]].resident, k)
             IN  /\ new.value = old.value
                 /\ new.since # old.since => expiration_type = "Sliding" /\ new.since = clock
<1>1. ASSUME Counts, Counts', [Next]_vars, NEW k \in Resident(shards) \intersect Resident(shards')
      PROVE  Stays(k)
  <2> DEFINE i == ShardOf[k]
  <2>1. /\ i \in Shards
        /\ k \in KeysOf(shards[i].resident) /\ k \in KeysOf(shards'[i].resident)
    <3>1. TypeOK /\ TypeOK'
      BY <1>1 DEF Counts
    <3>2. k \in Keys /\ i \in Shards
      BY <3>1, ResidentByShard, ShardedAssumption
    <3>3. k \in KeysOf(shards[i].resident)
      BY <3>1, <3>2, ResidentByShard
    <3>4. k \in KeysOf(shards'[i].resident)
      <4>1. PICK j \in Shards : k \in KeysOf(shards'[j].resident)
        BY DEF Resident
      <4>2. PICK n \in DOMAIN shards'[j].resident : k = shards'[j].resident[n].key
        BY <4>1 DEF KeysOf
      <4>3. WellFormed(shards'[j].resident, j, ResidentSize)
        BY <3>1 DEF TypeOK, WellFormed
      <4>4. j = i
        BY <4>2, <4>3 DEF WellFormed
      <4> QED BY <4>1, <4>4
    <3> QED BY <3>2, <3>3, <3>4
  <2>2. Kept(shards[i].resident, shards'[i].resident)
    <3>1. ASSUME NEW j \in Keys, TryGet(j) \/ \E v \in Values : TryAdd(j, v)
          PROVE  Kept(shards[i].resident, shards'[i].resident)
      <4>1. Effect(j) /\ probatory_size' = probatory_size
        BY <1>1, <3>1, AddCounts DEF TryGet, TryAdd
      <4> QED BY <1>1, <2>1, <4>1, EffectTyped DEF Counts
    <3>2. CASE shards' = shards
      BY <1>1, <2>1, <3>2 DEF Counts, TypeOK, WellFormed, Kept
    <3>3. \/ shards' = shards
          \/ \E j \in Keys : TryGet(j) \/ \E v \in Values : TryAdd(j, v)
      BY <1>1 DEF Next, LenStarts, LenCounts, LenReturns, Tick, vars
    <3> QED BY <3>1, <3>2, <3>3
  <2> HIDE DEF i
  <2>3. /\ IndexOf(shards[i].resident, k) \in DOMAIN shards[i].resident
        /\ EntryOf(shards[i].resident, k) = shards[i].resident[IndexOf(shards[i].resident, k)]
        /\ EntryOf(shards[i].resident, k).key = k
    BY <2>1, EntryIs
  <2>4. /\ IndexOf(shards'[i].resident, k) \in DOMAIN shards'[i].resident
        /\ EntryOf(shards'[i].resident, k) = shards'[i].resident[IndexOf(shards'[i].resident, k)]
        /\ EntryOf(shards'[i].resident, k).key = k
    BY <2>1, EntryIs
  <2> QED BY <2>2, <2>3, <2>4 DEF Kept, i
<1>2. Counts /\ Counts' /\ [Next]_vars =>
        [\A k \in Resident(shards) \intersect Resident(shards') : Stays(k)]_vars
  BY <1>1
<1> QED
  BY <1>2, CountsInit, CountsNext, PTL DEF Spec, ValueStays
=============================================================================
