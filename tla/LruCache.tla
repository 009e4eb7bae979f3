------------------------------ MODULE LruCache ------------------------------
(***************************************************************************)
(* LruCache (src/caches/lru.rs): a map from keys to entries and an arena   *)
(* linked list of the keys, the least recently used one first.  The cache  *)
(* is behind &mut self, so there is one call at a time; but a call reads   *)
(* the monotonic clock more than once, and time passes between its steps.  *)
(***************************************************************************)
EXTENDS Arena, Sequences, FiniteSets

CONSTANTS
  Keys, Values,
  MaxSize,     \* max_size
  Expiration,  \* expiration
  MaxClock     \* bound: the clock stays in 0..MaxClock

ASSUME CacheAssumption ==
  /\ MaxSize \in Nat \ {0} /\ Expiration \in Nat /\ MaxClock \in Nat
  /\ IsFiniteSet(Keys) /\ None \notin Keys
  /\ None \notin [node_index: Nat, insertion: Nat, value: Values]   \* Some is not None
  /\ None \notin [since: Nat, value: Values]

VARIABLES
  lru_list,  \* the arena linked list of the keys
  map,       \* per key, its entry
  clock,     \* Instant::now()
  step,      \* where the call that runs stands: "idle" when there is none
  index,     \* in trim, the node it is at
  key,       \* in try_get, the key that was found
  answer,    \* what the last call decided
  expiration_type

vars == <<lru_list, map, clock, step, index, key, answer, expiration_type>>

ExpirationType == {"Absolute", "Sliding"}

Clock   == 0..MaxClock
Answers == [op: {"new"}]
             \union [op: {"try_add"}, key: Keys, added: BOOLEAN]
             \union [op: {"try_get"}, key: Keys, found: Values \union {None}]

TypeOK ==
  LET InUse == 0..(lru_list.len - 1)
      Links == InUse \union {NoIndex}
  IN  /\ {lru_list.first, lru_list.last, lru_list.free} \subseteq Links
      /\ lru_list.len \in Nat \ {0} /\ lru_list.count \in 0..lru_list.len
      /\ lru_list.nodes \in [InUse -> [before: Links, after: Links, value: Keys \union {None}]]
      /\ map \in [Keys -> [node_index: InUse, insertion: Clock, value: Values]
                           \union {None}]
      /\ clock \in Clock
      /\ step \in {"idle", "trim", "touch"}
      /\ index \in Links
      /\ key \in Keys \union {None}
      /\ answer \in Answers
      /\ expiration_type \in ExpirationType

Init ==
  /\ lru_list = NewArena
  /\ map = [k \in Keys |-> None]
  /\ clock = 0
  /\ step = "idle" /\ index = NoIndex /\ key = None
  /\ answer = [op |-> "new"]
  /\ expiration_type \in ExpirationType

Expired(k) == clock - map[k].insertion > Expiration
-----------------------------------------------------------------------------
\* try_add of a key that has an entry, expired or not.
TryAddKeeps(k) ==
  /\ step = "idle" /\ map[k] # None
  /\ answer' = [op |-> "try_add", key |-> k, added |-> FALSE]
  /\ UNCHANGED <<lru_list, map, clock, step, index, key, expiration_type>>

TryAdd(k, v) ==
  /\ step = "idle" /\ map[k] = None
  /\ lru_list' = AddLast(lru_list, k)
  /\ map' = [map EXCEPT ![k] =
               [node_index |-> NewIndex(lru_list), insertion |-> clock, value |-> v]]
  /\ answer' = [op |-> "try_add", key |-> k, added |-> TRUE]
  /\ step' = "trim" /\ index' = lru_list'.first
  /\ UNCHANGED <<clock, key, expiration_type>>

\* Mutant of TooMany: one key more than max_size stays.
TooManyByOne == lru_list.count > MaxSize + 1

TooMany == lru_list.count > MaxSize

\* A turn of the loop in trim, which goes on to the node that followed.
TrimRemoves ==
  /\ step = "trim" /\ index # NoIndex
  /\ LET k == lru_list.nodes[index].value IN
       /\ TooMany \/ Expired(k)
       /\ map' = [map EXCEPT ![k] = None]
  /\ lru_list' = Remove(lru_list, index)
  /\ index' = lru_list.nodes[index].after
  /\ UNCHANGED <<clock, step, key, answer, expiration_type>>

TrimEnds ==
  /\ step = "trim"
  /\ index # NoIndex => ~TooMany /\ ~Expired(lru_list.nodes[index].value)
  /\ step' = "idle" /\ index' = NoIndex
  /\ UNCHANGED <<lru_list, map, clock, key, answer, expiration_type>>

TryGetMisses(k) ==
  /\ step = "idle" /\ map[k] = None
  /\ answer' = [op |-> "try_get", key |-> k, found |-> None]
  /\ UNCHANGED <<lru_list, map, clock, step, index, key, expiration_type>>

\* Mutant of TryGetExpired: the key stays in the list.
TryGetExpiredLeavesNode(k) ==
  /\ step = "idle" /\ map[k] # None /\ Expired(k)
  /\ map' = [map EXCEPT ![k] = None]
  /\ answer' = [op |-> "try_get", key |-> k, found |-> None]
  /\ UNCHANGED <<lru_list, clock, step, index, key, expiration_type>>

TryGetExpired(k) ==
  /\ step = "idle" /\ map[k] # None /\ Expired(k)
  /\ lru_list' = Remove(lru_list, map[k].node_index)
  /\ map' = [map EXCEPT ![k] = None]
  /\ answer' = [op |-> "try_get", key |-> k, found |-> None]
  /\ UNCHANGED <<clock, step, index, key, expiration_type>>

TryGetFinds(k) ==
  /\ step = "idle" /\ map[k] # None /\ ~Expired(k)
  /\ step' = "touch" /\ key' = k
  /\ answer' = [op |-> "try_get", key |-> k, found |-> map[k].value]
  /\ UNCHANGED <<lru_list, map, clock, index, expiration_type>>

\* Mutant of Touched: the key keeps its place.
TouchedInPlace(k) == [arena |-> lru_list, node |-> map[k].node_index]

\* The key is taken out of the list and put at its end.
Touched(k) ==
  LET a == Remove(lru_list, map[k].node_index) IN
  [arena |-> AddLast(a, k), node |-> NewIndex(a)]

\* Mutant of Since: every use counts as a new start.
SinceLastUse(k) == clock

\* The insertion of a key that is used.
Since(k) == IF expiration_type = "Sliding" THEN clock ELSE map[k].insertion

Touch ==
  /\ step = "touch"
  /\ lru_list' = Touched(key).arena
  /\ map' = [map EXCEPT ![key].node_index = Touched(key).node,
                        ![key].insertion = Since(key)]
  /\ step' = "idle" /\ key' = None
  /\ UNCHANGED <<clock, index, answer, expiration_type>>

Tick ==
  /\ clock < MaxClock
  /\ clock' = clock + 1
  /\ UNCHANGED <<lru_list, map, step, index, key, answer, expiration_type>>

Next ==
  \/ \E k \in Keys :
       \/ TryAddKeeps(k) \/ TryGetMisses(k) \/ TryGetExpired(k) \/ TryGetFinds(k)
       \/ \E v \in Values : TryAdd(k, v)
  \/ TrimRemoves \/ TrimEnds \/ Touch
  \/ Tick

Spec == Init /\ [][Next]_vars
-----------------------------------------------------------------------------
\* Map and list agree at every step: each key with an entry has one node,
\* the one its entry names, and no other node is in use.  The expects of
\* lru.rs ("cache is likely corrupted") rest on it.
MapMatchesList ==
  /\ WellLinked(lru_list)
  /\ \A k \in Keys : map[k] # None =>
       map[k].node_index < lru_list.len /\ lru_list.nodes[map[k].node_index].value = k
  /\ lru_list.count = Cardinality({k \in Keys : map[k] # None})

\* Between calls there are at most max_size keys.
SizeBounded == step = "idle" => lru_list.count <= MaxSize

\* With sliding expiration the keys are in the order of their insertions: the
\* first one expires first, and trim, which stops at the first key that has
\* not expired, misses none.  (With absolute expiration it may.)
SlidingInOrder ==
  expiration_type = "Sliding" =>
    \A i, j \in 1..lru_list.count : i < j =>
      LET k(n) == lru_list.nodes[Order(lru_list)[n]].value IN
      map[k(i)].insertion <= map[k(j)].insertion

Seqs == INSTANCE SequencesExt   \* which has a Remove of its own

\* The keys in the order of the list.  Seen by its callers that is the order
\* of use: a key that was found counts as used at once, though it moves a step
\* later.
Listed == [n \in 1..lru_list.count |-> lru_list.nodes[Order(lru_list)[n]].value]

recency ==
  IF step # "touch" THEN Listed
  ELSE Append(Seqs!RemoveAt(Listed, CHOOSE n \in 1..lru_list.count : Listed[n] = key), key)

content == [k \in Keys |->
  IF map[k] = None THEN None ELSE [since |-> map[k].insertion, value |-> map[k].value]]

Uses == INSTANCE LruSpec WITH sliding <- expiration_type = "Sliding"

EvictsLeastRecent == Uses!Spec
=============================================================================
