------------------------------ MODULE Pipeline ------------------------------
(***************************************************************************)
(* The read-through path of Cacheus: CacheusServer::call_async runs every  *)
(* HTTP request through the configured chain of middlewares, forwards      *)
(* (on_request) until one of them produces a response, then backwards      *)
(* (on_response) from that one.  Calls run concurrently on the tokio       *)
(* runtime; what they share is the caches and the wall clock.  One action  *)
(* is one handler, split where it awaits or where another thread can get   *)
(* between two of its accesses to shared state.                            *)
(***************************************************************************)
EXTENDS Integers, Sequences, Conditions

CONSTANTS
  Calls,         \* the executions of call_async, one per request received
  Requests,      \* records with the fields path (None in a CONNECT), query, body
                 \* and headers, which maps names to values
  Chain,         \* configuration.middlewares, in order
  Caches,        \* the names under configuration.caches
  HashedParts,   \* per cache, the parts its hash_* flags select
  Ttl,           \* per cache, ttl_seconds
  Statuses,      \* HTTP status codes
  OriginBodies,  \* the kinds of body the origin sends
  MaxEpoch,      \* bound: the clock stays in 0..MaxEpoch seconds
  EpochModulus   \* 2^64: epochs are u64, their difference wraps

Parts  == {"path", "query", "body"}
Kinds  == {"block", "cache", "forward", "add_header", "replace_body", "log"}
Bodies == {"text", "json", "rewritten", "garbled"}
Labels == {"na", "miss", "hit", "stale"}   \* $cache_status, "na" when it is not set
Shown  == {"$cache_status", "miss", "hit", "stale"}   \* the values of an added header
Epochs == 0..MaxEpoch
Places == 0..(Len(Chain) + 1)   \* positions in the chain, and one on either side

\* A response remembers the call whose chain produced it, to tell where
\* content comes from; `header` is the value of an added response header.
Responses == [status: Statuses, call: Calls, header: Shown \union {None}, body: Bodies]
Entries   == [epoch: Epochs, response: Responses]   \* CachedResponse

\* Mutant of KeyOf: the query adds nothing to the hash.
KeyOfWithoutQuery(n, r) == [p \in HashedParts[n] |-> IF p = "query" THEN "" ELSE r[p]]

KeyOf(n, r) == [p \in HashedParts[n] |-> r[p]]
Slot(n, r)  == <<n, KeyOf(n, r)>>
Slots       == {Slot(n, r) : n \in Caches, r \in Requests}

ASSUME ChainAssumption ==
  /\ Chain \in Seq([kind: Kinds, when: ConditionIds \union {None}, cache: STRING,
                    status: Statuses, target: BOOLEAN, legal: BOOLEAN])
  /\ HashedParts \in [Caches -> SUBSET Parts]

ASSUME ClockAssumption ==
  /\ MaxEpoch \in Nat /\ EpochModulus \in Nat
  /\ Ttl \in [Caches -> Nat]
  /\ \A n \in Caches : Ttl[n] + MaxEpoch < EpochModulus

ASSUME ValueAssumption ==
  /\ None \notin Requests /\ None \notin Responses /\ None \notin Entries
  /\ OriginBodies \subseteq Bodies

VARIABLES
  pc,             \* per call, where its task stands
  pos,            \* per call, the middleware it is at (i and j of the two loops)
  request,        \* per call, the buffered request
  response,       \* per call, the response so far
  cacheStatus,    \* per call, context.variables["$cache_status"]
  staleResponse,  \* per call, context.stale_response
  held,           \* per call, the cache entry a handler holds between two steps
  store,          \* the contents of the caches, shared
  now,            \* SystemTime in whole seconds, shared
  produced,       \* history: the calls whose own chain produced a response
  missed,         \* history: per call, the positions whose lookup gave no fresh entry
  staleFrom       \* history: per call, the position that recorded staleResponse

context == <<cacheStatus, staleResponse, missed, staleFrom>>
vars == <<pc, pos, request, response, cacheStatus, staleResponse, held, store, now,
          produced, missed, staleFrom>>

Ended == {"answered", "failed", "panicked", "cancelled"}
Steps == {"new", "receiving", "request", "found", "awaiting", "response", "store"} \union Ended

TypeOK ==
  /\ pc \in [Calls -> Steps]
  /\ pos \in [Calls -> Places]
  /\ request \in [Calls -> Requests \union {None}]
  /\ response \in [Calls -> Responses \union {None}]
  /\ cacheStatus \in [Calls -> Labels]
  /\ staleResponse \in [Calls -> Responses \union {None}]
  /\ held \in [Calls -> Entries \union {None}]
  /\ store \in [Slots -> Entries \union {None}]
  /\ now \in Epochs
  /\ produced \subseteq Calls
  /\ missed \in [Calls -> SUBSET (1..Len(Chain))]
  /\ staleFrom \in [Calls -> 0..Len(Chain)]

Init ==
  /\ pc = [c \in Calls |-> "new"]
  /\ pos = [c \in Calls |-> 0]
  /\ request = [c \in Calls |-> None]
  /\ response = [c \in Calls |-> None]
  /\ cacheStatus = [c \in Calls |-> "na"]
  /\ staleResponse = [c \in Calls |-> None]
  /\ held = [c \in Calls |-> None]
  /\ store = [s \in Slots |-> None]
  /\ now = 0
  /\ produced = {}
  /\ missed = [c \in Calls |-> {}]
  /\ staleFrom = [c \in Calls |-> 0]
-----------------------------------------------------------------------------
(* The request phase: middlewares in order until one returns a response.   *)

Current(c) == Chain[pos[c]]

\* The condition of the middleware is evaluated, and the unwrap in it unwinds.
Unwinding(c) ==
  /\ pos[c] \in 1..Len(Chain)
  /\ CASE pc[c] = "request"  -> /\ Current(c).kind \in {"block", "cache", "forward"}
                                /\ EvaluateUnwinds(Current(c), request[c])
       [] pc[c] = "response" -> /\ Current(c).kind \in {"cache", "add_header", "replace_body"}
                                /\ EvaluateWithResponseUnwinds(Current(c), request[c], response[c])
       [] OTHER -> FALSE

At(c, step) == pc[c] = step /\ pos[c] \in 1..Len(Chain) /\ ~Unwinding(c)
OnRequest(c, kind)  == At(c, "request") /\ Current(c).kind = kind
OnResponse(c, kind) == At(c, "response") /\ Current(c).kind = kind

Goto(c, step, i) ==
  /\ pc' = [pc EXCEPT ![c] = step]
  /\ pos' = [pos EXCEPT ![c] = i]

\* on_request returned Some(resp): the loop breaks, on_response starts here.
Respond(c, resp) ==
  /\ response' = [response EXCEPT ![c] = resp]
  /\ Goto(c, "response", pos[c])

\* call_async starts; the body is still to be collected.
Receive(c) ==
  /\ pc[c] = "new"
  /\ \E r \in Requests : request' = [request EXCEPT ![c] = r]
  /\ Goto(c, "receiving", 0)
  /\ UNCHANGED <<response, context, held, store, now, produced>>

BodyCollected(c) ==
  /\ pc[c] = "receiving"
  /\ Goto(c, "request", 1)
  /\ UNCHANGED <<request, response, context, held, store, now, produced>>

\* The unwrap of a body that could not be read.
BodyFails(c) ==
  /\ pc[c] = "receiving"
  /\ Goto(c, "panicked", pos[c])
  /\ UNCHANGED <<request, response, context, held, store, now, produced>>

\* on_request returned None without a lookup: the default of the trait, or
\* the early return of a handler whose condition does not hold.
Skip(c) ==
  /\ At(c, "request")
  /\ \/ Current(c).kind \in {"add_header", "replace_body", "log"}
     \/ ~Applies(Current(c), request[c])
  /\ Goto(c, "request", pos[c] + 1)
  /\ UNCHANGED <<request, response, context, held, store, now, produced>>

ConditionPanics(c) ==
  /\ Unwinding(c)
  /\ Goto(c, "panicked", pos[c])
  /\ UNCHANGED <<request, response, context, held, store, now, produced>>

Block(c) ==
  /\ OnRequest(c, "block") /\ Applies(Current(c), request[c])
  /\ Respond(c, [status |-> Current(c).status, call |-> c, header |-> None, body |-> "text"])
  /\ produced' = produced \union {c}
  /\ UNCHANGED <<request, context, held, store, now>>

\* A lookup without a fresh entry sets the status and falls through.
Miss(c) ==
  /\ cacheStatus' = [cacheStatus EXCEPT ![c] = "miss"]
  /\ missed' = [missed EXCEPT ![c] = @ \union {pos[c]}]
  /\ Goto(c, "request", pos[c] + 1)

\* No such cache, or no entry under the key.
LookupMisses(c) ==
  /\ OnRequest(c, "cache") /\ Applies(Current(c), request[c])
  /\ Current(c).cache \in Caches => store[Slot(Current(c).cache, request[c])] = None
  /\ Miss(c)
  /\ UNCHANGED <<request, response, staleResponse, staleFrom, held, store, now, produced>>

\* The cache engine answered Err.
LookupErrs(c) ==
  /\ OnRequest(c, "cache") /\ Applies(Current(c), request[c])
  /\ Current(c).cache \in Caches
  /\ Miss(c)
  /\ UNCHANGED <<request, response, staleResponse, staleFrom, held, store, now, produced>>

\* The await of the lookup ends with an entry; the clock is read later.
LookupFinds(c) ==
  /\ OnRequest(c, "cache") /\ Applies(Current(c), request[c])
  /\ Current(c).cache \in Caches
  /\ LET s == Slot(Current(c).cache, request[c]) IN
       /\ store[s] # None
       /\ held' = [held EXCEPT ![c] = store[s]]
  /\ Goto(c, "found", pos[c])
  /\ UNCHANGED <<request, response, context, store, now, produced>>

\* Mutant of Age: the difference saturates at 0.
AgeSaturating(epoch) == IF epoch <= now THEN now - epoch ELSE 0

\* current_epoch - insertion_epoch on u64.
Age(epoch) == IF epoch <= now THEN now - epoch ELSE now - epoch + EpochModulus

Expired(n, entry) == Age(entry.epoch) > Ttl[n]

Hit(c) ==
  /\ pc[c] = "found" /\ ~Expired(Current(c).cache, held[c])
  /\ cacheStatus' = [cacheStatus EXCEPT ![c] = "hit"]
  /\ Respond(c, held[c].response)
  /\ held' = [held EXCEPT ![c] = None]
  /\ UNCHANGED <<request, staleResponse, missed, staleFrom, store, now, produced>>

\* The expired response is kept in the context, replacing an earlier one.
StaleHit(c) ==
  /\ pc[c] = "found" /\ Expired(Current(c).cache, held[c])
  /\ staleResponse' = [staleResponse EXCEPT ![c] = held[c].response]
  /\ staleFrom' = [staleFrom EXCEPT ![c] = pos[c]]
  /\ held' = [held EXCEPT ![c] = None]
  /\ Miss(c)
  /\ UNCHANGED <<request, response, store, now, produced>>

\* The header of the request comes before the configuration, whatever is in
\* it: "" stands for all values that make no authority, on which one of the
\* unwraps, the panic or the expect unwinds.
HasTarget(c) ==
  /\ request[c].path # None
  /\ IF "x-target-host" \in DOMAIN request[c].headers
     THEN request[c].headers["x-target-host"] # "" ELSE Current(c).target

ForwardSends(c) ==
  /\ OnRequest(c, "forward") /\ Applies(Current(c), request[c]) /\ HasTarget(c)
  /\ Goto(c, "awaiting", pos[c])
  /\ UNCHANGED <<request, response, context, held, store, now, produced>>

ForwardHasNoTarget(c) ==
  /\ OnRequest(c, "forward") /\ Applies(Current(c), request[c]) /\ ~HasTarget(c)
  /\ Goto(c, "panicked", pos[c])
  /\ UNCHANGED <<request, response, context, held, store, now, produced>>

OriginAnswers(c) ==
  /\ pc[c] = "awaiting"
  /\ \E status \in Statuses, body \in OriginBodies :
       Respond(c, [status |-> status, call |-> c, header |-> None, body |-> body])
  /\ produced' = produced \union {c}
  /\ UNCHANGED <<request, context, held, store, now>>

\* send() or bytes() returned Err: expect() unwinds the task.
OriginFails(c) ==
  /\ pc[c] = "awaiting"
  /\ Goto(c, "panicked", pos[c])
  /\ UNCHANGED <<request, response, context, held, store, now, produced>>

\* Every middleware returned None: on_response runs on the whole chain.
ChainExhausted(c) ==
  /\ pc[c] = "request" /\ pos[c] = Len(Chain) + 1
  /\ Goto(c, "response", Len(Chain))
  /\ UNCHANGED <<request, response, context, held, store, now, produced>>
-----------------------------------------------------------------------------
(* The response phase: from the middleware that responded back to the      *)
(* first one.                                                              *)

WhenApplies(c) == AppliesToResponse(Current(c), request[c], response[c])

\* Handlers without on_response, Log, and handlers whose condition fails or
\* that have nothing to work on.
PassBack(c) ==
  /\ At(c, "response")
  /\ \/ Current(c).kind \in {"block", "forward", "log"}
     \/ /\ Current(c).kind = "add_header"
        /\ WhenApplies(c) => response[c] = None
     \/ /\ Current(c).kind = "replace_body"
        /\ WhenApplies(c) /\ response[c] # None => response[c].body = "text"
  /\ Goto(c, "response", pos[c] - 1)
  /\ UNCHANGED <<request, response, context, held, store, now, produced>>

\* Mutant of AddHeader: a stale answer is shown as a miss.
AddHeaderStaleAsMiss(c) ==
  /\ OnResponse(c, "add_header") /\ WhenApplies(c) /\ response[c] # None /\ Current(c).legal
  /\ response' = [response EXCEPT ![c].header = IF cacheStatus[c] = "hit" THEN "hit" ELSE "miss"]
  /\ Goto(c, "response", pos[c] - 1)
  /\ UNCHANGED <<request, context, held, store, now, produced>>

\* The variables that are set are replaced in the value: of a call that no
\* cache has looked up the name of the variable is left.
AddHeader(c) ==
  /\ OnResponse(c, "add_header") /\ WhenApplies(c) /\ response[c] # None /\ Current(c).legal
  /\ response' = [response EXCEPT
       ![c].header = IF cacheStatus[c] = "na" THEN "$cache_status" ELSE cacheStatus[c]]
  /\ Goto(c, "response", pos[c] - 1)
  /\ UNCHANGED <<request, context, held, store, now, produced>>

\* The configured name or value may not stand in a header: unwrap unwinds.
AddHeaderPanics(c) ==
  /\ OnResponse(c, "add_header") /\ WhenApplies(c) /\ response[c] # None /\ ~Current(c).legal
  /\ Goto(c, "panicked", pos[c])
  /\ UNCHANGED <<request, response, context, held, store, now, produced>>

ReplaceBody(c) ==
  /\ OnResponse(c, "replace_body") /\ WhenApplies(c) /\ response[c] # None
  /\ response[c].body \in {"json", "rewritten"}
  /\ response' = [response EXCEPT ![c].body = "rewritten"]
  /\ Goto(c, "response", pos[c] - 1)
  /\ UNCHANGED <<request, context, held, store, now, produced>>

\* A JSON content type over bytes that are not UTF-8: unwrap unwinds.
ReplaceBodyPanics(c) ==
  /\ OnResponse(c, "replace_body") /\ WhenApplies(c) /\ response[c] # None
  /\ response[c].body = "garbled"
  /\ Goto(c, "panicked", pos[c])
  /\ UNCHANGED <<request, response, context, held, store, now, produced>>

\* Mutant of ServesStale: the stale response wins when the condition holds.
ServesStaleWhenApplies(c) ==
  /\ response[c] = None \/ WhenApplies(c)
  /\ staleResponse[c] # None

\* The stale response steps in, whichever middleware recorded it.
ServesStale(c) ==
  /\ response[c] = None \/ ~WhenApplies(c)
  /\ staleResponse[c] # None

\* Mutant of Stores: the status is not looked at.
StoresHitsToo(c) ==
  /\ WhenApplies(c)
  /\ response[c] # None
  /\ Current(c).cache \in Caches

\* Mutant of Stores: an entry that expired is not replaced.
StoresFirstOnly(c) ==
  /\ WhenApplies(c)
  /\ response[c] # None
  /\ cacheStatus[c] # "hit" /\ staleResponse[c] = None
  /\ Current(c).cache \in Caches

Stores(c) ==
  /\ WhenApplies(c)
  /\ response[c] # None
  /\ cacheStatus[c] # "hit"
  /\ Current(c).cache \in Caches

\* Mutant of ServeStale: the status is left as it was.
ServeStaleUnlabelled(c) ==
  /\ OnResponse(c, "cache") /\ ServesStale(c)
  /\ response' = [response EXCEPT ![c] = staleResponse[c]]
  /\ staleResponse' = [staleResponse EXCEPT ![c] = None]
  /\ Goto(c, "response", pos[c] - 1)
  /\ UNCHANGED <<request, cacheStatus, missed, staleFrom, held, store, now, produced>>

ServeStale(c) ==
  /\ OnResponse(c, "cache") /\ ServesStale(c)
  /\ cacheStatus' = [cacheStatus EXCEPT ![c] = "stale"]
  /\ response' = [response EXCEPT ![c] = staleResponse[c]]
  /\ staleResponse' = [staleResponse EXCEPT ![c] = None]
  /\ Goto(c, "response", pos[c] - 1)
  /\ UNCHANGED <<request, missed, staleFrom, held, store, now, produced>>

\* Mutant of Stamp: the epoch is rounded up.
StampRoundsUp(c) ==
  /\ OnResponse(c, "cache") /\ ~ServesStale(c) /\ Stores(c)
  /\ held' = [held EXCEPT ![c] = [epoch |-> now + 1, response |-> response[c]]]
  /\ Goto(c, "store", pos[c])
  /\ UNCHANGED <<request, response, context, store, now, produced>>

\* The epoch of the entry is read before the entry is inserted.
Stamp(c) ==
  /\ OnResponse(c, "cache") /\ ~ServesStale(c) /\ Stores(c)
  /\ held' = [held EXCEPT ![c] = [epoch |-> now, response |-> response[c]]]
  /\ Goto(c, "store", pos[c])
  /\ UNCHANGED <<request, response, context, store, now, produced>>

Insert(c) ==
  /\ pc[c] = "store"
  /\ store' = [store EXCEPT ![Slot(Current(c).cache, request[c])] = held[c]]
  /\ held' = [held EXCEPT ![c] = None]
  /\ Goto(c, "response", pos[c] - 1)
  /\ UNCHANGED <<request, response, context, now, produced>>

\* Mutant of LeaveCacheAlone: j is not decremented.
LeaveCacheAloneStays(c) ==
  /\ OnResponse(c, "cache") /\ ~ServesStale(c) /\ ~Stores(c)
  /\ Goto(c, "response", pos[c])
  /\ UNCHANGED <<request, response, context, held, store, now, produced>>

LeaveCacheAlone(c) ==
  /\ OnResponse(c, "cache") /\ ~ServesStale(c) /\ ~Stores(c)
  /\ Goto(c, "response", pos[c] - 1)
  /\ UNCHANGED <<request, response, context, held, store, now, produced>>

\* The first middleware is done: the response is sent, or CacheusError.  The
\* status was read for the metrics, the rest of the context is dropped.
Finish(c) ==
  /\ pc[c] = "response" /\ pos[c] = 0
  /\ Goto(c, IF response[c] # None THEN "answered" ELSE "failed", 0)
  /\ staleResponse' = [staleResponse EXCEPT ![c] = None]
  /\ missed' = [missed EXCEPT ![c] = {}]
  /\ staleFrom' = [staleFrom EXCEPT ![c] = 0]
  /\ UNCHANGED <<request, response, cacheStatus, held, store, now, produced>>
-----------------------------------------------------------------------------
(* The environment.                                                        *)

\* The client goes away: hyper drops the future at an await.
Cancel(c) ==
  /\ \/ pc[c] \in {"receiving", "awaiting"}
     \/ OnRequest(c, "cache") /\ Applies(Current(c), request[c]) /\ Current(c).cache \in Caches
  /\ Goto(c, "cancelled", pos[c])
  /\ UNCHANGED <<request, response, context, held, store, now, produced>>

\* The cache engine drops an entry to make room.
Evict(s) ==
  /\ store[s] # None
  /\ store' = [store EXCEPT ![s] = None]
  /\ UNCHANGED <<pc, pos, request, response, context, held, now, produced>>

Tick ==
  /\ now < MaxEpoch
  /\ now' = now + 1
  /\ UNCHANGED <<pc, pos, request, response, context, held, store, produced>>

\* SystemTime is not monotonic: the clock of the host may be set back.
SetClockBack ==
  /\ \E t \in Epochs : t < now /\ now' = t
  /\ UNCHANGED <<pc, pos, request, response, context, held, store, produced>>

\* Every call has ended; nothing but time remains.
Quiescent == (\A c \in Calls : pc[c] \in Ended) /\ UNCHANGED vars

\* What the runtime, the cache engine and the origin owe a call once started.
CallStep(c) ==
  \/ BodyCollected(c) \/ BodyFails(c) \/ Skip(c) \/ Block(c)
  \/ LookupMisses(c) \/ LookupErrs(c) \/ LookupFinds(c) \/ Hit(c) \/ StaleHit(c)
  \/ ForwardSends(c) \/ ForwardHasNoTarget(c) \/ OriginAnswers(c) \/ OriginFails(c)
  \/ ChainExhausted(c)
  \/ PassBack(c) \/ AddHeader(c) \/ AddHeaderPanics(c) \/ ReplaceBody(c)
  \/ ReplaceBodyPanics(c) \/ ConditionPanics(c)
  \/ ServeStale(c) \/ Stamp(c) \/ Insert(c) \/ LeaveCacheAlone(c) \/ Finish(c)

Next ==
  \/ \E c \in Calls : Receive(c) \/ CallStep(c) \/ Cancel(c)
  \/ \E s \in Slots : Evict(s)
  \/ Tick \/ SetClockBack
  \/ Quiescent

Spec == Init /\ [][Next]_vars

\* Tokio polls every task that can run; the origin and the client body are
\* assumed to end one way or the other (the code sets no timeout on either).
FairSpec == Spec /\ \A c \in Calls : WF_vars(CallStep(c))
=============================================================================
