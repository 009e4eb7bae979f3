------------------------- MODULE PipelineProperties -------------------------
(***************************************************************************)
(* What the read-through path is meant to guarantee.  Some properties hold *)
(* for every chain of middlewares; some need a chain with a single cache   *)
(* middleware, and say so.                                                 *)
(***************************************************************************)
EXTENDS Pipeline

\* The parts of a request that every cache of the configuration hashes.
CommonParts == {p \in Parts : \A n \in Caches : p \in HashedParts[n]}

SameResource(r1, r2) == \A p \in CommonParts : r1[p] = r2[p]

\* A response reaches only calls whose request agrees, on every part that
\* all caches hash, with the request it was produced for: neither shared
\* keys, nor the stale response kept across middlewares, nor interleaved
\* insertions mix resources up.
Isolation ==
  \A c \in Calls :
    pc[c] = "answered" => SameResource(request[c], request[response[c].call])

\* $cache_status, which labels the metrics and the response headers, tells
\* the truth: "miss" or no status goes with the response this call's chain
\* produced, "hit" and "stale" with a response of an earlier call.
LabelTellsSource ==
  \A c \in Calls :
    pc[c] = "answered" => (response[c].call = c <=> cacheStatus[c] \in {"na", "miss"})

\* A lookup turns into a hit only within the ttl of the entry, measured on a
\* clock that may have been set back since the entry was stamped: an entry
\* from the future is not fresh.
HitsAreFresh ==
  [][\A c \in Calls :
       (pc[c] = "found" /\ pc'[c] = "response") =>
         held[c].epoch \in (now - Ttl[Current(c).cache])..now]_vars

\* A handler inserts only what its own call fetched, never a response it got
\* from a cache: expired content cannot be stamped again and served as fresh.
StoredIsOwn ==
  \A c \in Calls : pc[c] = "store" => held[c].response.call = c

\* With caches stacked behind each other, what one of them stores of another
\* call's content is an expired response that a cache behind it recorded and
\* that stepped in on the way back, never a hit: the one status that all of
\* them share keeps those in front from stamping a fresh entry anew.
OnlyStaleIsRestamped ==
  \A c \in Calls : pc[c] = "store" =>
    /\ cacheStatus[c] # "hit"
    /\ held[c].response.call # c <=> cacheStatus[c] = "stale"

\* The stale response steps in only if the middleware that recorded it did
\* not get an acceptable response: a successful refetch is not discarded.
FreshResponseKept ==
  [][\A c \in Calls :
       (cacheStatus[c] # "stale" /\ cacheStatus'[c] = "stale") =>
         \/ response[c] = None
         \/ ~AppliesToResponse(Chain[staleFrom[c]], request[c], response[c])]_vars

\* A cache middleware whose lookup missed stores the response that comes
\* back, if its condition accepts it.
MissFillsCache ==
  [][\A c \in Calls :
       (/\ OnResponse(c, "cache") /\ pos[c] \in missed[c] /\ Current(c).cache \in Caches
        /\ response[c] # None /\ WhenApplies(c)
        /\ <<pc[c], pos[c]>>' # <<pc[c], pos[c]>>)
       => pc'[c] = "store"]_vars

\* What a cache middleware stores, the next request like this one looks up:
\* its condition, which may test the status, has then no response to go by.
StoredIsLookedUp ==
  [][\A c \in Calls :
       (pc[c] = "response" /\ pc'[c] = "store") => Applies(Current(c), request[c])]_vars

\* No status test is negated: there is a set of conditions, with what is inside
\* them and no status test among them, that all negated conditions belong to.
StatusNotNegated ==
  \E plain \in SUBSET ConditionIds :
    /\ \A w \in plain : Children(w) \subseteq plain /\ Condition[w].kind # "status_code_is"
    /\ \A w \in ConditionIds : Condition[w].kind = "not" => Condition[w].of \in plain

\* A response header that shows $cache_status, added in front of every cache
\* middleware, shows the status of this call, not one cached with the body, and
\* the name of the variable if no cache was asked: what a client reads there
\* tells whether its answer was made for another call.
HeaderTellsStatus ==
  \A c \in Calls : pc[c] = "answered" =>
    /\ response[c].header = IF cacheStatus[c] = "na" THEN "$cache_status" ELSE cacheStatus[c]
    /\ response[c].header \in {"hit", "stale"} <=> response[c].call # c

\* Some add_header that no condition restricts comes before every middleware
\* that may respond or set the status.
ShownInFront ==
  \E h \in 1..Len(Chain) :
    /\ Chain[h].kind = "add_header" /\ Chain[h].when = None
    /\ \A i \in 1..h : Chain[i].kind \notin {"block", "cache", "forward"}

\* The comment above CacheMiddleware: when the lookup found an expired entry
\* and the fetch fails, the expired response is served.
StaleCoversFailedFetch ==
  \A c \in Calls : pc[c] = "panicked" => staleResponse[c] = None

\* Where the content a call works with comes from.  The parts are inductive
\* together; Isolation, LabelTellsSource and OnlyStaleIsRestamped are read off
\* them.
EarlySteps == {"new", "receiving", "request", "found", "awaiting"}

\* A handler that holds an entry is that of a configured cache.
HoldsEntry(c) ==
  /\ pos[c] \in 1..Len(Chain) /\ Current(c).kind = "cache" /\ Current(c).cache \in Caches
  /\ held[c] # None

\* resp was produced, for a request that agrees with that of call c.
ComesFrom(resp, c) == resp.call \in produced /\ SameResource(request[c], request[resp.call])

\* A call that has not reached a response has none, and no one has its own.
NoResponseYet(c) ==
  c \notin produced /\ response[c] = None /\ cacheStatus[c] \in {"na", "miss"}

NotStarted(c) == request[c] = None /\ staleResponse[c] = None /\ held[c] = None

\* The status tells whether the response is the call's own.
StatusMatches(c) ==
  response[c] # None => (response[c].call = c <=> cacheStatus[c] \in {"na", "miss"})

CallProvenance(c) ==
  /\ pc[c] \in {"found", "store"} => HoldsEntry(c)
  /\ pc[c] \in EarlySteps => NoResponseYet(c)
  /\ pc[c] = "new" => NotStarted(c)
  /\ pc[c] # "new" => request[c] # None
  /\ pc[c] = "store" => held[c].response = response[c] /\ cacheStatus[c] # "hit"
  /\ pc[c] = "answered" => response[c] # None
  /\ response[c] # None => ComesFrom(response[c], c)
  /\ staleResponse[c] # None =>
       ComesFrom(staleResponse[c], c) /\ staleResponse[c].call # c
  /\ held[c] # None => ComesFrom(held[c].response, c)
  /\ pc[c] \in {"response", "store", "answered"} => StatusMatches(c)

SlotProvenance(s) ==
  store[s] # None =>
    /\ store[s].response.call \in produced
    /\ \A p \in CommonParts : s[2][p] = request[store[s].response.call][p]

\* Whatever a call holds or a cache stores was produced by some call for the
\* same resource, and the status of a call knows whether it was its own.
Provenance ==
  /\ \A c \in Calls : CallProvenance(c)
  /\ \A s \in Slots : SlotProvenance(s)

\* The chain consults one cache.
SingleCache ==
  \A i, j \in 1..Len(Chain) : Chain[i].kind = "cache" /\ Chain[j].kind = "cache" => i = j

\* The context of a call on such a chain.
ContextIsOwn(c) ==
  /\ \A i \in missed[c] : Chain[i].kind = "cache" /\ (pc[c] \in EarlySteps => i < pos[c])
  /\ pc[c] \in {"new", "receiving"} => missed[c] = {}
  /\ staleResponse[c] # None =>
       staleFrom[c] \in 1..Len(Chain) /\ Chain[staleFrom[c]].kind = "cache"
  /\ cacheStatus[c] = "hit" => missed[c] = {}
  /\ pc[c] \in {"response", "store"} /\ cacheStatus[c] = "stale" =>
       \A i \in 1..Len(Chain) : i <= pos[c] => Chain[i].kind # "cache"

\* What the properties of a chain with one cache rest on: the stale response
\* and the status are there only for it, and a call that hit has not missed.
OwnContext == \A c \in Calls : ContextIsOwn(c)

\* Every call that was received ends.
CallCompletes == \A c \in Calls : pc[c] = "receiving" ~> pc[c] \in Ended

\* The pipeline implements the promise of ReadThrough.
answerOf == [c \in Calls |->
  IF pc[c] = "answered" THEN [from |-> response[c].call, label |-> cacheStatus[c]]
  ELSE IF pc[c] \in Ended THEN [from |-> None, label |-> "lost"]
  ELSE [from |-> None, label |-> "pending"]]

Promise == INSTANCE ReadThrough
  WITH KeyParts <- CommonParts, asked <- request, answer <- answerOf

\* Seen from the clients, every behaviour of the pipeline is one of ReadThrough.
KeepsPromise == Promise!Spec
=============================================================================
