---------------------------- MODULE ShardedCache ----------------------------
(***************************************************************************)
(* ShardedCache (src/caches/sharded.rs): an array of locked caches, each   *)
(* an LRU cache or a ProbatoryCache (src/caches/probatory.rs), which lets  *)
(* a key into its resident cache when it is added a second time.  Threads  *)
(* call it through a shared reference; what one of them does under the     *)
(* lock of a shard is one step.  An LRU cache is the sequence of its       *)
(* entries in the order of their use, which is how its callers see it      *)
(* (LruCache!EvictsLeastRecent).                                           *)
(***************************************************************************)
EXTENDS Integers, FiniteSets, SequencesExt

CONSTANTS
  Threads, Keys, Values, None,
  NumShards,      \* how many shards
  ShardOf,        \* per key, hash % shards.len()
  ProbatorySize, ResidentSize, Expiration,
  MaxClock        \* bound: the clock stays in 0..MaxClock

Shards == 0..(NumShards - 1)

ASSUME ShardedAssumption ==
  /\ NumShards \in Nat \ {0} /\ ShardOf \in [Keys -> Shards]
  /\ ProbatorySize \in Nat \ {0} /\ ResidentSize \in Nat \ {0}
  /\ Expiration \in Nat /\ MaxClock \in Nat
  /\ IsFiniteSet(Keys) /\ None \notin Values \union [next: 0..NumShards, sum: Nat]

VARIABLES
  shards,           \* per shard, its two LRU caches
  probatory_size,   \* 0 when the shards have no probatory cache
  expiration_type,  \* of the resident caches
  clock,            \* Instant::now()
  counting,         \* per thread, where its call of len() stands
  counted,          \* per thread, what its last call of len() returned
  added,            \* history: the calls of try_add, the last of them for each key
  throughout,       \* history: per thread, the keys there from the start of its len() on
  sometime          \* history: per thread, the keys there at some time since

vars == <<shards, probatory_size, expiration_type, clock, counting, counted, added,
          throughout, sometime>>

Clock   == 0..MaxClock
Entries == [key: Keys, value: Values \union {None}, since: Clock]

KeysOf(q)   == {q[i].key : i \in DOMAIN q}
Resident(s) == UNION {KeysOf(s[i].resident) : i \in Shards}

\* Every cache holds keys of its shard only, each once, and not too many.
WellFormed(q, i, size) ==
  /\ Len(q) <= size
  /\ \A m, n \in DOMAIN q : q[m].key = q[n].key => m = n
  /\ \A n \in DOMAIN q : ShardOf[q[n].key] = i

TypeOK ==
  /\ probatory_size \in {0, ProbatorySize}
  /\ expiration_type \in {"Absolute", "Sliding"}
  /\ clock \in Clock
  /\ shards \in [Shards -> [probatory: Seq(Entries), resident: Seq(Entries)]]
  /\ \A i \in Shards : /\ WellFormed(shards[i].probatory, i, probatory_size)
                       /\ WellFormed(shards[i].resident, i, ResidentSize)
  /\ counting \in [Threads -> [next: 0..NumShards, sum: Nat] \union {None}]
  /\ counted \in [Threads -> 0..Cardinality(Keys) \union {None}]
  /\ added \in [Keys -> 0..2]
  /\ throughout \in [Threads -> SUBSET Keys] /\ sometime \in [Threads -> SUBSET Keys]

Init ==
  /\ shards = [i \in Shards |-> [probatory |-> <<>>, resident |-> <<>>]]
  /\ probatory_size \in {0, ProbatorySize}
  /\ expiration_type \in {"Absolute", "Sliding"}
  /\ clock = 0
  /\ counting = [t \in Threads |-> None] /\ counted = [t \in Threads |-> None]
  /\ added = [k \in Keys |-> 0]
  /\ throughout = [t \in Threads |-> {}] /\ sometime = [t \in Threads |-> {}]
-----------------------------------------------------------------------------
(* One LRU cache.                                                          *)

Expired(entry)  == clock - entry.since > Expiration
IndexOf(q, k)   == CHOOSE n \in DOMAIN q : q[n].key = k
EntryOf(q, k)   == q[IndexOf(q, k)]
Without(q, k)   == RemoveAt(q, IndexOf(q, k))
Dropped(q, n)   == SubSeq(q, n + 1, Len(q))

\* Mutant of Fits: one key more than max_size stays.
FitsWithOneMore(q, size) == Len(q) <= size + 1 /\ (q # <<>> => ~Expired(q[1]))

Fits(q, size) == Len(q) <= size /\ (q # <<>> => ~Expired(q[1]))

\* The loop of trim takes keys from the front until the rest fits.
Trimmed(q, size) ==
  Dropped(q, CHOOSE n \in 0..Len(q) :
               /\ Fits(Dropped(q, n), size)
               /\ \A m \in 0..(n - 1) : ~Fits(Dropped(q, m), size))

\* Mutant of Added: the value of a key that is there is replaced.
AddedAnyway(q, k, v, size) ==
  Trimmed(Append(IF k \in KeysOf(q) THEN Without(q, k) ELSE q,
                 [key |-> k, value |-> v, since |-> clock]), size)

Added(q, k, v, size) ==
  IF k \in KeysOf(q) THEN q
  ELSE Trimmed(Append(q, [key |-> k, value |-> v, since |-> clock]), size)

\* The entry of a key that is used goes to the end.
Used(q, k) ==
  LET entry == EntryOf(q, k) IN
  Append(Without(q, k),
         IF expiration_type = "Sliding" THEN [entry EXCEPT !.since = clock] ELSE entry)

Gotten(q, k) ==
  IF k \notin KeysOf(q) THEN q
  ELSE IF Expired(EntryOf(q, k)) THEN Without(q, k) ELSE Used(q, k)
-----------------------------------------------------------------------------
(* The calls.                                                              *)

\* What a call leaves behind for the threads that are counting.
Observed ==
  /\ throughout' = [t \in Threads |-> throughout[t] \intersect Resident(shards')]
  /\ sometime' = [t \in Threads |->
       IF counting[t] = None THEN {} ELSE sometime[t] \union Resident(shards')]

NewToProbatory(k) == probatory_size > 0 /\ k \notin KeysOf(shards[ShardOf[k]].probatory)

\* Mutant of TryAdd: the key that is new goes into both caches.
TryAddBoth(k, v) ==
  LET i == ShardOf[k] IN
  /\ shards' = [shards EXCEPT
       ![i].probatory = IF NewToProbatory(k) THEN Added(@, k, None, probatory_size) ELSE @,
       ![i].resident = Added(@, k, v, ResidentSize)]
  /\ added' = [added EXCEPT ![k] = IF @ = 2 THEN 2 ELSE @ + 1]
  /\ Observed
  /\ UNCHANGED <<probatory_size, expiration_type, clock, counting, counted>>

\* A key that is new to the probatory cache goes there, another one into the
\* resident cache unless it is there already.
TryAdd(k, v) ==
  LET i == ShardOf[k] IN
  /\ shards' = IF NewToProbatory(k)
               THEN [shards EXCEPT ![i].probatory = Added(@, k, None, probatory_size)]
               ELSE [shards EXCEPT ![i].resident = Added(@, k, v, ResidentSize)]
  /\ added' = [added EXCEPT ![k] = IF @ = 2 THEN 2 ELSE @ + 1]
  /\ Observed
  /\ UNCHANGED <<probatory_size, expiration_type, clock, counting, counted>>

TryGet(k) ==
  /\ shards' = [shards EXCEPT ![ShardOf[k]].resident = Gotten(@, k)]
  /\ Observed
  /\ UNCHANGED <<probatory_size, expiration_type, clock, counting, counted, added>>

LenStarts(t) ==
  /\ counting[t] = None
  /\ counting' = [counting EXCEPT ![t] = [next |-> 0, sum |-> 0]]
  /\ throughout' = [throughout EXCEPT ![t] = Resident(shards)]
  /\ sometime' = [sometime EXCEPT ![t] = Resident(shards)]
  /\ UNCHANGED <<shards, probatory_size, expiration_type, clock, counted, added>>

\* Mutant of LenCounts: probatory keys are counted too.
LenCountsAll(t) ==
  /\ counting[t] # None /\ counting[t].next < NumShards
  /\ counting' = [counting EXCEPT ![t] =
       [next |-> @.next + 1,
        sum |-> @.sum + Len(shards[@.next].resident) + Len(shards[@.next].probatory)]]
  /\ UNCHANGED <<shards, probatory_size, expiration_type, clock, counted, added, throughout,
                 sometime>>

\* len() locks one shard after the other.
LenCounts(t) ==
  /\ counting[t] # None /\ counting[t].next < NumShards
  /\ counting' = [counting EXCEPT ![t] =
       [next |-> @.next + 1, sum |-> @.sum + Len(shards[@.next].resident)]]
  /\ UNCHANGED <<shards, probatory_size, expiration_type, clock, counted, added, throughout,
                 sometime>>

LenReturns(t) ==
  /\ counting[t] # None /\ counting[t].next = NumShards
  /\ counted' = [counted EXCEPT ![t] = counting[t].sum]
  /\ counting' = [counting EXCEPT ![t] = None]
  /\ throughout' = [throughout EXCEPT ![t] = {}] /\ sometime' = [sometime EXCEPT ![t] = {}]
  /\ UNCHANGED <<shards, probatory_size, expiration_type, clock, added>>

Tick ==
  /\ clock < MaxClock
  /\ clock' = clock + 1
  /\ UNCHANGED <<shards, probatory_size, expiration_type, counting, counted, added, throughout,
                 sometime>>

Next ==
  \/ \E k \in Keys : TryGet(k) \/ \E v \in Values : TryAdd(k, v)
  \/ \E t \in Threads : LenStarts(t) \/ LenCounts(t) \/ LenReturns(t)
  \/ Tick

Spec == Init /\ [][Next]_vars
-----------------------------------------------------------------------------
\* len() is no snapshot: while it goes from shard to shard other threads add
\* and remove keys behind and ahead of it.  What it returns is no less than
\* the keys that were there all the time, and no more than those that were
\* there at some time.
LenIsPlausible ==
  [][\A t \in Threads : counting[t] # None /\ counting'[t] = None =>
       counted'[t] \in Cardinality(throughout[t])..Cardinality(sometime[t])]_vars

\* With a probatory cache a key that is resident was added at least twice:
\* what is asked for once does not push out what is in use.
SecondAddAdmits ==
  probatory_size > 0 => \A k \in Resident(shards) : added[k] = 2

\* A key keeps the value it was admitted with until it leaves the cache,
\* whichever thread adds it again; and only sliding expiration gives it time.
ValueStays ==
  [][\A k \in Resident(shards) \intersect Resident(shards') :
       LET old == EntryOf(shards[ShardOf[k]].resident, k)
           new == EntryOf(shards'[ShardOf[k]].resident, k)
       IN  /\ new.value = old.value
           /\ new.since # old.since => expiration_type = "Sliding" /\ new.since = clock]_vars
=============================================================================
