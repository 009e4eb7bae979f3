------------------------------- MODULE LruSpec -------------------------------
(***************************************************************************)
(* A cache that forgets the least recently used key first: the keys in the *)
(* order of their last use, and what is stored under each since when.  A   *)
(* key is forgotten when it is the first and there are too many or it has  *)
(* expired, or when somebody asks for it after it has expired.             *)
(***************************************************************************)
EXTENDS Integers, Sequences, SequencesExt

CONSTANTS
  Keys, Values, None,
  MaxSize,     \* how many keys stay
  Expiration   \* how long a key stays

VARIABLES
  recency,   \* the keys, the least recently used one first
  content,   \* per key, since when it is stored and what is stored
  clock,
  answer,    \* what the last call was and answered
  sliding    \* whether a use counts as a new start

vars == <<recency, content, clock, answer, sliding>>

\* Where a key that is stored is, and the others in their order.
Place(k)   == CHOOSE n \in 1..Len(recency) : recency[n] = k
Without(k) == RemoveAt(recency, Place(k))
Expired(k) == clock - content[k].since > Expiration

Init ==
  /\ recency = <<>>
  /\ content = [k \in Keys |-> None]
  /\ clock = 0
  /\ answer = [op |-> "new"]
  /\ sliding \in BOOLEAN

Forget(k) ==
  /\ recency' = Without(k)
  /\ content' = [content EXCEPT ![k] = None]

Add(k, v) ==
  /\ content[k] = None /\ Len(recency) <= MaxSize
  /\ recency' = Append(recency, k)
  /\ content' = [content EXCEPT ![k] = [since |-> clock, value |-> v]]
  /\ answer' = [op |-> "try_add", key |-> k, added |-> TRUE]
  /\ UNCHANGED clock

Keep(k) ==
  /\ content[k] # None
  /\ answer' = [op |-> "try_add", key |-> k, added |-> FALSE]
  /\ UNCHANGED <<recency, content, clock>>

Evict ==
  /\ recency # <<>>
  /\ Len(recency) > MaxSize \/ Expired(Head(recency))
  /\ Forget(Head(recency))
  /\ UNCHANGED <<clock, answer>>

Use(k) ==
  /\ content[k] # None /\ ~Expired(k)
  /\ recency' = Append(Without(k), k)
  /\ answer' = [op |-> "try_get", key |-> k, found |-> content[k].value]
  /\ UNCHANGED <<content, clock>>

\* With sliding expiration the last key used starts anew.
Refresh ==
  /\ sliding /\ recency # <<>>
  /\ content' = [content EXCEPT ![recency[Len(recency)]].since = clock]
  /\ UNCHANGED <<recency, clock, answer>>

Miss(k) ==
  /\ \/ content[k] = None /\ UNCHANGED <<recency, content>>
     \/ content[k] # None /\ Expired(k) /\ Forget(k)
  /\ answer' = [op |-> "try_get", key |-> k, found |-> None]
  /\ UNCHANGED clock

Pass ==
  /\ clock' = clock + 1
  /\ UNCHANGED <<recency, content, answer>>

Call ==
  \/ \E k \in Keys : Keep(k) \/ Use(k) \/ Miss(k) \/ \E v \in Values : Add(k, v)
  \/ Evict \/ Refresh \/ Pass

Next == Call /\ UNCHANGED sliding

Spec == Init /\ [][Next]_vars
=============================================================================
