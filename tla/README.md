# A TLA+ development for Cacheus

Cacheus is a caching HTTP proxy: a server that runs every request through a
configured chain of middlewares, some of which answer it, some of which look
it up in or store it into caches, and one of which forwards it to an origin.
This directory holds TLA+ modules that model it, configurations that let TLC
check them on small instances, and proofs, checked by TLAPS, of what matters
most for every value of the constants. Paths below are relative to the
repository.

## Inventory

| component | state | operations | works with |
|---|---|---|---|
| call pipeline, `src/lib.rs:197-268` | per call: the buffered request, the position in the chain, the response so far, `CallContext` (`variables`, `stale_response`) | `call_async`, `call_internal_async`: forward loop, backward loop | calls the middlewares; one task or one future per call, cancelled when the client goes away |
| middlewares, `src/config/middleware.rs` | none of their own, they work on the context and the response | `on_request`, `on_response` of `Block`, `Cache`, `Forward`, `AddHeader`, `ReplaceResponseBody`, `Log` | conditions, caches, HTTP client, clock |
| conditions, `src/config/conditions.rs` | none | `evaluate`, `evaluate_with_response`, `contains_wildcard` | called by every middleware |
| cache configuration and keys, `src/config/cache.rs:183-263` | name, sizes, ttl, what is hashed | `create_key`, `add_cache` | the engine (the foyer crate) |
| cache engine (external) | entries by key, in memory and, for a hybrid cache, on disk | `obtain`/`get`, `insert`, eviction, recovery | shared by all calls |
| entry codec, `src/config/cache.rs:85-181` | none | `encode`, `decode`, `estimated_size` | called by the engine |
| buffered bodies, `src/buffered_body.rs` | bytes, trailers | `collect_buffered`, `push_frame`, `poll_frame`, `to_bytes`, `from_bytes`, `replace_strings` | requests, responses, codec |
| server, `src/lib.rs:60-195`, `src/executor.rs` | configuration, caches, metrics; three listeners | three accept loops joined in one task, one task per connection, on HTTP/2 one more per call | pipeline, metrics |
| metrics, `src/metrics.rs` | calls by `cache_status` and code, a histogram by `cache_status`, resets | `inc`, `observe`, `encode` | updated at the end of a call and of a connection |
| configuration, `src/config/configuration.rs` | the deserialized file | none | read by all |
| arena linked list, `src/collections/arena_linked_list.rs` | nodes in an array, a doubly linked list and a free list through them | `add_first/last/before/after`, `remove`, `get`, `clear`, `iter`, growth | exported by the crate; used by the LRU cache |
| LRU, probatory and sharded caches, `src/caches/` | a map and the list of its keys in order of use; two LRU caches; an array of locked caches | `try_add`, `try_get`, `len`, trimming | `lib.rs:5` keeps them out of the build at this commit |

What is hard here, and what correctness means for each part:

* **Pipeline and middlewares.** Calls run concurrently on a multi-threaded
  runtime and share the caches and the wall clock. A lookup, a fetch and an
  insertion are separated by awaits, so that entries are replaced, dropped or
  expire in between. Handlers of one call communicate through a context with
  *one* status and *one* stale response for all cache middlewares. Any handler
  may panic (a failed fetch, a body that is no UTF-8), any await may be the
  last one. Correct: content never reaches another resource; the cache status
  tells where a response comes from; hits are fresh; a miss fills the cache, with
  what will be looked up; expired content does not become fresh again, or,
  where caches are stacked, only when it steps in as a stale response; a stale
  response steps in only for what its cache rejects; every call ends.
* **Conditions.** Evaluated twice, on different knowledge; patterns with
  stars. Correct: a text that matches is accepted, and one that is accepted
  contains what the pattern asks for.
* **Server, engine.** One failed `accept` unwinds the task of all three loops
  and ends the process, wherever connections and calls stand. A panic or an
  error of a call ends the connection on HTTP/1 and only the stream on
  HTTP/2. A call has two metrics, and a panic or a cancellation comes before
  them. Correct: the metrics are the calls that ended with a response or an error; a
  call shares the fate of its connection and of no other; entries that come
  back from disk keep their resource and their epoch.
* **Bodies and codec.** Bodies arrive in any number of frames, are replaced under
  headers made for another body, and take a detour through the disk. Correct:
  the client gets the same from disk and from memory, and the origin gets all that
  the client sent, unless it redirects the request to where no body goes.
* **Arena, LRU.** Long sequences of legal calls; free list and links share the
  nodes. Correct: the list is a sequence; map and list agree; the size is
  bounded; the least recently used key goes first.
* **Probatory and sharded.** Locks are taken one shard at a time; which call is
  the second one for a key depends on what others did in between. Correct: what
  `len` returns is plausible; only what was asked for twice gets in.

Every hazard is listed with its line in `PROJECT.json`, with the properties
that cover it, or with the reason why none does.

## The modules

| module | what it is | code |
|---|---|---|
| `Conditions` | both evaluations of a condition tree, given as a table of nodes | `conditions.rs:7-37` |
| `Pipeline` | the calls: one action per handler, split where it awaits or reads shared state twice | `lib.rs:197-268`, `middleware.rs`, `cache.rs:79-83, 183-220` |
| `PipelineProperties` | the properties, the inductive invariants, the mapping to `ReadThrough` | |
| `ReadThrough` | what a client may rely on, without middleware, cache, connection or clock | |
| `Server` | extends the calls with connections, metrics, disk, the end of the process and its restart | `lib.rs:60-195`, `executor.rs`, `metrics.rs`, `cache.rs:222-263` |
| `Codec` | what a hybrid cache writes for an entry, and reading it back field by field | `cache.rs:85-181`, `buffered_body.rs:66-127` |
| `Exchange` | the bytes of one exchange from the frames of the request to those of the response, through `Forward`, `ReplaceResponseBody` and the codec | `buffered_body.rs`, `middleware.rs:209-301, 340-360` |
| `Wildcard` | `contains_wildcard` and the meaning of a pattern | `conditions.rs:40-78` |
| `Arena` | the operations of the arena linked list, on a record | `arena_linked_list.rs` |
| `ArenaLinkedList` | a list and the callers that keep its handles | `arena_linked_list.rs` |
| `ListSpec` | a list as a sequence of handles and values | |
| `LruCache` | the LRU cache on top of the arena, a call at a time, with its loop and its clock readings as steps | `lru.rs` |
| `LruSpec` | keys in order of use | |
| `ShardedCache` | locked caches that threads call, each an LRU cache or a probatory cache | `sharded.rs`, `probatory.rs` |
| `MCPipeline`, `MCServer`, `MCExchange`, `MCWildcard`, `MCShardedCache` | the instances of the runs; `MCWildcard` is a machine that feeds `Wildcard` all short inputs | `README.md`, `examples/` |
| `PipelineProofs`, `ServerProofs`, `ExchangeProofs`, `WildcardProofs`, `ListProofs`, `LruProofs`, `ShardedProofs` | the theorems about each component, and their proofs | |
| `ArenaProofs` | lemmas about the operations of the arena, which `ListProofs` and `LruProofs` both rest on | |

`Server` extends `Pipeline`: its actions are those of the calls in their
surroundings. `Exchange` extends `Codec`. `LruCache` works on records of `Arena`
and implements `LruSpec`, which is how `ShardedCache` sees an LRU cache.

### State and actions of `Pipeline`

`pc[c]` and `pos[c]` are where the task of call `c` stands: the handler and
the loop variable (`i` forward, `j` backward). `cacheStatus` is
`variables["$cache_status"]`, `staleResponse` is `context.stale_response`,
`held` is the entry in a local variable of a handler between two steps, `store`
is the content of all caches, `now` the system time in seconds. Four variables
carry history that the code does not keep: `produced` (whose chain produced a
response, by a block or the origin), `missed` and `staleFrom` (which position of
the chain missed, and which one recorded the stale response), and the field
`call` of a response. They occur in no guard.

| code | actions |
|---|---|
| `call_async` to the buffered body | `Receive`, `BodyCollected`, `BodyFails` (the unwrap) |
| `Block::on_request` | `Block`, `Skip` |
| `CacheMiddleware::on_request` | `LookupMisses`, `LookupErrs`, `LookupFinds`, then `Hit` or `StaleHit`, where the clock is read; `Skip` |
| `Forward::on_request` | `ForwardSends`, then `OriginAnswers` or `OriginFails` (the expects); `ForwardHasNoTarget` (what `x-target-host` says comes before the configured host, also when it makes no authority); `Skip` |
| end of the forward loop | `ChainExhausted` |
| `CacheMiddleware::on_response` | `ServeStale`, `Stamp` then `Insert`, `LeaveCacheAlone` |
| `AddHeader`, `ReplaceResponseBody`, `Log`, the default of the trait | `AddHeader`, `AddHeaderPanics` (a name or value that may not stand in a header), `ReplaceBody`, `ReplaceBodyPanics`, `PassBack` |
| `path_and_query().unwrap()` in a condition, on the way there or back | `ConditionPanics`, for a CONNECT request whose condition gets to a path test |
| end of `call_async` | `Finish` |
| hyper drops the future of a call | `Cancel`, at an await |
| engine and clock | `Evict`, `Tick`, `SetClockBack` |

A key is the tuple of the parts that are hashed: collisions of the 128-bit hash
are not modelled. A body is one of four kinds, told apart by
what `replace_strings` does with them. Of all headers a response has, the
model keeps the one that `AddHeader` sets, with the value `$cache_status` in the
configuration: the variables that are set are replaced, so it becomes the status, or
stays the name of the variable for a call that no cache has looked up (which the
metrics count under `na`).

Epochs are `u64` and their difference is computed in the release build, where
it wraps; `EpochModulus` stands for 2^64. (A debug build panics instead when
the clock was set back.)

### State and actions of `Server`

`server` is where the task of `CacheusServer::start` stands, `connection[k]`
whether the task of a connection runs and how it ended, `via[c]` the connection
that brought call `c`, `disk` what the hybrid caches have written, and there is a
variable for each of the three metrics. `observed` are the calls between their
two metrics. The history variable `earlier` has the calls and connections that ended
before the last start, when the metrics were set up anew.

| code | actions |
|---|---|
| `start`: the caches are built, metrics are created | `Start`, with any part of what is on disk (`RecoverMode::Quiet` skips what it cannot read) |
| the three loops, joined in one task | `Accept`; `LoopPanics` (the unwraps of `bind` and `accept`); `Exit`, when the runtime has dropped all tasks |
| a request on a connection | `Request`: on HTTP/1 when the connection is free |
| the call | `Proceed`, `Panic`, then `Observe` and `Answer` or `Fail` with the two metrics |
| `serve_connection` ends | `Disconnect` with the calls that the connection carried (`LeavesCalls`), `DropConnection` |
| streams of HTTP/2 (`TokioExecutor` spawns a task for each) | `CancelStream` |
| hybrid cache | `Write`, some time after the insertion; `Reload`, a lookup that finds on disk what memory dropped |

While the runtime is being dropped (`unwinding`), tasks that are being polled
get as far as their next await: calls still answer and count.

### State and actions of `Exchange` and `Codec`

`stage` is where the exchange stands. `Collect` and its ends are the loop of
`BufferBody::poll`, `Send` attaches the body, `Redirect`, `SendFails` and
`Answer` are what the client of `Forward` does and what becomes of the response,
`KeepBody`, `ReplaceBody` and `ReplaceBodyPanics` are the middleware. Then the
steps of `Codec`: `Encode`, and one step per field that `decode` reads, of all
prefixes of the bytes. `PollData` and `PollEnd` hand the body out. `arrived` and
`out` are what went in and came out.

### `Arena`, `LruCache`, `ShardedCache`

The nodes are a function on `0..n-1`, `NoIndex` stands for `usize::MAX`, `None`
for a value that is absent, and every operation of the arena is an operator from a
record to a record. `ArenaLinkedList` adds the callers: `Next` is what a caller
that keeps its handles in order may do (and `remove` may be given those of nodes
removed before, as the test of the list does), `StrayNext` also passes the
handle of the node removed last to `add_before`. The LRU cache is behind `&mut self`, so
there is one call at a time; but it reads the clock again and again, so `Tick`
is possible between the steps of a call: `TryAdd` inserts and starts to trim,
`TrimRemoves` and `TrimEnds` are a turn of the loop, `TryGetFinds` looks
up and decides, `Touch` moves the key to the end.

In `ShardedCache` an LRU cache is the sequence of its entries in order of use. What a
thread does under the lock of one shard is one step: `TryAdd`, `TryGet`, and
for `len`, which goes from lock to lock, `LenStarts`, `LenCounts` for each
shard, and `LenReturns`. The clock stands still within such a step; that it
does not is what `LruCache` is for. `added`, `throughout` and `sometime` are
history.

## The runs

| run | shows |
|---|---|
| `readme` | the chain of README.md (block all but downloads, cache, forward) with the log, the header `$cache_status` in front of the cache and the condition on status 200 that `examples/deviceatlas` adds; three calls on four requests, one of which reaches the cache through its query, and one is a CONNECT, which panics in the condition of the block. Hits are within the ttl whatever the clock does; a miss stores every acceptable response; a stale response replaces only what the condition rejects; nothing out of a cache is stored again; the header shows the status of this call, or that no cache was asked, so that it tells an answer made for another call; the pipeline implements `ReadThrough`. |
| `tiered` | a cache in front of another that hashes less, so that responses move from cache to cache, behind a cache that is not configured and a body replacement that may panic, with calls that no middleware answers, a header that is none and a forward without a host; the conditions of the caches combine the status with the login of a request. No mix-up of resources, the status tells the source, no hit is stored again and what is stored of another call's content is a stale response, what is stored is looked up by the next request like it, clients still see `ReadThrough`, and every call received ends (liveness). |
| `server` | a hybrid cache and an origin, two calls on two connections, HTTP/1 and HTTP/2, loops that panic at any time, a restart: the metrics are the calls and connections that ended, calls share the fate of their connection, the disk has what was inserted with its epoch. |
| `exchange` | requests in up to three frames of data and trailers, responses with repeated headers, trailers and lengths, entries that are cut off after every byte: bodies go through whole and in order, but for a redirect that leaves the body out, the client gets the same after a detour over the disk, what is cut off is an error, `estimated_size` is exact, and `content-length` follows a replacement. |
| `wildcard` | all texts of up to four letters of two, against all patterns of up to three parts of up to two letters and four parts of up to one: matching texts are accepted; literals, prefixes and suffixes are decided exactly. |
| `arena` | callers that keep their handles in order see a sequence, and links and free list never share a node, through growth and reuse. |
| `lru` | both kinds of expiration: map and list agree at every step (what every `expect` of `lru.rs` rests on), the size is bounded between calls, with sliding expiration the first key of the list is the first to expire, and callers see the keys in order of use (`LruSpec`). |
| `sharded` | two shards, with and without a probatory cache, both kinds of expiration: what `len` returns while others add and remove, that only the second call of `try_add` gets a key into a resident cache, that a key keeps its value. |

Runs that end in a counterexample, each one a finding:

| run | shows |
|---|---|
| `wildcard_contains` | `*x*` accepts every text: the first literal of a pattern is not searched although the pattern starts with a star. |
| `failed_fetch` | a failed fetch unwinds the call although an expired response is at hand, against the comment above `CacheMiddleware`. |
| `split_refresh` | the stale response of one cache is taken by the other, whose condition does not hold for the request, and a successful refetch is discarded. |
| `arena_stray` | `add_before` with the handle of a removed node is not rejected: it takes that very node for the new value and links it to itself. |

### Bounds

* Two or three calls: a filler and a reader of an entry, and a third that
  replaces the entry between the steps of one of them. Every hazard listed
  involves at most three parties (two calls and the engine or the clock).
* `MaxEpoch` 1 or 2 with a ttl of 0 or 1: enough for an entry to be fresh, to
  expire, to be stamped again, and to come from the future.
* `EpochModulus` 8: larger than every ttl plus every epoch, as 2^64 is for
  every configuration and date that makes sense; this is what
  `ClockAssumption` says.
* Requests: two that agree on a key and two that do not, for each cache of the
  chain, and one per branch of the conditions and of the choice of the host. Status 200 and another one.
* `server`: two calls, so that one can outlive the other's panic on its
  connection or wait for it; two connections, so that one ends and the other must
  not; `MaxStarts` 2, so that an entry written by the first process is found by the
  second. Every action is reached: what the proofs show for more is below.
* Arena: four nodes, so that it grows twice and wraps through the free list.
  LRU: three keys and a size of two, so that something is trimmed, and a clock
  from 0 to 3 with an expiration of one.
* `sharded`: three keys on two shards of sizes one, so that keys push each other
  out and one shard changes while another is counted; one thread counts, all
  others are the steps `TryAdd` and `TryGet`, which any thread may take at any
  time. `added` stops at two: more calls make no difference to what is said of it.
* `exchange`: an epoch that uses more than two bytes; bodies shorter than ten
  bytes, so that `MCDecimal`, the text of a length, is one digit; three frames,
  so that trailers can come between data.
* Calls are interchangeable and are declared symmetric in `readme`, where no
  property is a liveness property.

### Fairness

`FairSpec` of `Pipeline` has weak fairness of `CallStep(c)` for every call: tokio polls a
task that has been woken, and a handler that is polled goes on to its next await. It
covers the origin and the body of the client too, which end one way or the
other; the code sets no timeout on either, so this is an assumption about
the environment. There is none on `Receive`, `Cancel`, `Evict`, `Tick` and
`SetClockBack`. `tiered` uses it. No other run needs fairness: `Server` may be
killed at any step and its properties are safety properties, in `readme`,
`lru`, `arena` and `sharded` callers may stop calling, and the exchange ends.

Deadlock is checked except in `exchange` and `wildcard`, which are finished at
some point.

## What is proved

Everything for every number of calls, connections, threads, keys, nodes and
shards, every set of requests, every chain, all conditions, caches, sizes, flags
and times to live, every text and pattern, and bodies and headers of any length.
The theorems cover every property that the passing runs check except
`CallCompletes`, which is liveness. Assumed are the named assumptions of the
modules, which TLC evaluates in the runs:

| assumption | says |
|---|---|
| `ConditionAssumption` | conditions are one of the six kinds, and trees |
| `ChainAssumption` | the shape of the chain |
| `ClockAssumption` | ttl plus clock stay below 2^64 |
| `ValueAssumption` | `None` is none of the values |
| `ServerAssumption` | finitely many calls and connections, which are different things |
| `ExchangeAssumption` | frames and answers are what they are called; what is written as an integer of four or eight bytes fits it, with room for one header more and for a body of twice the length, which is what a replacement may need |
| `WildcardAssumption` | texts and parts are sequences of characters, and a pattern has a part |
| `ListAssumption`, `CacheAssumption` | a Vec, a size and times are numbers; finitely many keys; `None` is none of the values |
| `ShardedAssumption` | at least one shard, positive sizes and finitely many keys |

Three theorems about the calls, their counterparts about the server and `DiskHolds`
ask for a chain with one cache (`SingleCache`); `HeaderShowsStatus`, `StoredAreLookedUp` (with their
counterparts about the server) and `LengthsStayRight` have a hypothesis of their
own, explained below. Each hypothesis is needed, and holds in the run that checks
the property.

Several models define things by recursion: over a condition tree, the parts of a
pattern, the headers of an entry, the nodes along a chain of links. The
library's induction theorems cannot be used, since they take an operator as a
parameter. Induction goes through a set instead: of a set of natural numbers
that is not empty there is a least one (`LeastNatural`, `Upto`), and of a
set of conditions there is one that has none of the others inside
(`ConditionInduction`). For each recursive function it is proved first that
there is a function that satisfies its equations (`SolutionExists`,
`CourseExists`, `PositionsOf`, `OrderIs`).

**The calls** (`PipelineProofs`).

* `TypeCorrect`: `TypeOK`.
* `ProvenanceHolds`: the invariant `Provenance`, which is inductive over
  `TypeOK`. `Isolation` says something about answered calls only and is not
  inductive: a response goes from a call into a cache, from there into another
  call, from the response into the stale response and back. `Provenance`
  states for each place a response can be in (`response`, `staleResponse`,
  `held`, `store`) that it was produced for a request with the same common
  parts, and for each stage of a call how its status goes with whose response
  it has. Each action touches one call or one slot; the lemmas show that the
  others keep their part because `produced` only grows and a request never
  changes once it is there.
* `IsolationHolds`, `LabelsTellSource`: read off `Provenance`.
* `PromiseKept`: every step of the pipeline is a step of `ReadThrough` or leaves
  its variables unchanged, by `Provenance`.
* `FreshHits`: `HitsAreFresh`, from the types and `ClockAssumption`: a wrapped
  difference is above every ttl.
* `OnlyStaleRestamped`: `OnlyStaleIsRestamped`, on every chain. All caches of a
  chain share one status: `Provenance` says that it is no hit while a response is
  being stored, that the response stored is the one of the call, and that the status
  tells whether the call made it itself; what is left is a stale one.
* `StoredIsOwnHolds`, `FreshResponseIsKept`, `MissesFillCache`: on a chain with one
  cache middleware (`SingleCache`), where the context that all middlewares share is
  as good as the cache's own (`OwnContext`, an invariant of the proofs alone). The assumption is needed: on
  `SplitChain`, `FreshResponseKept` fails (run `split_refresh`); on that
  of `tiered`, a hit of the inner cache overwrites the miss of the outer one,
  which then does not store (`MissFillsCache`), and the stale response of the inner
  cache is stored in the outer one with a new epoch (`StoredIsOwn`): on stacked caches
  expired content does become fresh again, and the outer one serves it as a hit. For the
  latter two, put the property into a copy of `tiered.cfg`.
* `HeaderShowsStatus`: with an unconditional `add_header` in front of all
  middlewares that may respond (`ShownInFront`), the header of every answer is the
  status of this call, or `$cache_status` if no cache was asked, and it says `hit` or
  `stale` exactly on the responses of other calls. The invariant `Shows` says where a call can be when it gets
  a response or changes its status, behind that place, and that in front of it
  response and status agree; whose response it is then follows from `Provenance`. Behind a cache the header would be stored with the body.
* `StoredAreLookedUp`: if no status test is negated (`StatusNotNegated`), then what
  a cache stores, the next request like it looks up. Both evaluations of a
  condition follow the same rules and differ at the leaves (`EvaluateIs`,
  `EvaluateWithResponseIs`); by induction over the tree, a condition that holds
  with a response holds without one (`ResponseIsStricter`), where below a negation
  the two are equal.

**The server** (`ServerProofs`). A step of the server is a step of the pipeline,
or leaves its variables alone, or moves entries between the disk and the caches
(`PipelineSteps`); so the lemmas above carry over, with one new case.

* `ServerTypeCorrect`: `ServerTypeOK`.
* `ProvenanceSurvives`, `IsolationSurvives`, `LabelsSurvive`,
  `OnlyStaleIsStillRestamped`, `ServerKeepsPromise`, `HitsStayFresh`: what is proved of the calls holds through
  panics of the loops and restarts. `Provenance` is not inductive any more, since
  what a restart puts into the caches comes from the disk; `Sourced` adds that what is
  on disk was produced for its key.
* `ConnectionsHold`: `ConnectionCarriesOne` with the calls that a connection
  still carries (`ConnectionInv`).
* `MetricsHold`: `MetricsTellCalls`. The counters are cardinalities of sets of
  calls; `MetricsInv` adds where the calls between their metrics stand, and each
  action that ends a call adds this one call to one set.
* `HeaderStillShowsStatus`, `StoredAreStillLookedUp`, under the hypotheses of their
  counterparts above; `FreshResponseStaysKept`, `MissesStillFillCache`, with `SingleCache`.
* `DiskHolds`, `StoredStaysOwn`, with `SingleCache`: `DiskIsTrue` needs that no
  response is inserted twice; `DiskInv` says that a call which may still store has not
  stored anything. With two cache middlewares on the same cache a call
  stores its response twice, with two epochs, and the disk may have
  the older one.

**Bodies and entries** (`ExchangeProofs`). The invariant `Inv` has the types
and, in four parts, what has been collected from the request (`RequestInv`), that
what is about to be stored can be read back (`StoredInv`: `Storable`, no header
name twice, no trailers, all lengths within their integers), how far `decode` has
come and what it has by then (`ReadingInv`: `Progress`), and the length in the headers
(`ToldInv`). TLC has checked `Inv` on the run.

* Integers: `RoundTrip` (the bytes of a number, read back, are the number, as long as it
  fits). Layout: `EncodingAt` says at which place of an encoding each field lies,
  the places of the headers being given by a recursive sum of their sizes
  (`HeaderSizes`, which is also what `estimated_size` adds up), and `NumberHere` and
  `FieldHere` what a read at such a place returns from a prefix of it: the field, or an error
  if the prefix ends before. `HeaderIsRead` and the like are one step of `decode`
  each.
* `DecodeInvertsEncode`, `CutsAreNoticed`, `EstimateIsTheLength`: `SameFromDisk`,
  `OnlyWholeIsDecoded`, `EstimateIsExact`, read off `Inv`.
* `ExchangeType`, `WholeBodies`: `TypeOK`, `BodiesGoThrough`. The origin has got all of
  the data, or after a redirect none of it: `RequestInv` says so of what is under way.
* `LengthsStayRight`: `LengthTells`, if the lengths that origins send are right
  (`LengthsRight`). A replacement inserts `content-length`, which takes the place of one that is
  there (`InsertedIn`, `Kept`).

**Patterns** (`WildcardProofs`). Every step of the loop leaves the search
at or before the place where a given match has this part (`Accepted`): the part
occurs there, so its first place from the current position on is no later.

* `MatchesAreAccepted`: `MatchesAccepted`. The converse does not hold (run
  `wildcard_contains`).
* `EndsAreDecided`: `EndsAreExact`, for patterns without a part to search.

**The arena linked list** (`ArenaProofs`, `ListProofs`). `ListIs(a, V, s, f)` says
that a sequence `s` of nodes is the list of arena `a` and `f` its free list: the
links lead through both, and each node of the Vec is in exactly one of them. Each
operation maps this to a sequence with one element more or less (`AddBeforeIs`,
`AddAfterIs`, `AddFirstIs`, `AddLastIs`, `RemoveIs`, also through growth, `GrownIs`, and
`ClearedIs`); `OneWalk` and `OrderIs` show that the sequence is the one that
following the links gives. No history variable is needed.

* `ListType`, `ListLinked`, `ListHandles`: `TypeOK`, `Linked`, `HandlesListed`, by
  the invariant `ListInv`, that handles are the nodes of the list.
* `ListIsASequence`: every call implements the same call of `ListSpec`, at the same
  place.

**The LRU cache** (`LruProofs`). `LruInv` ties map and list (`Tied`): each key of the
map is the value of the node that its entry names, and the other way round; it says
where `trim` stands in the list, and, for sliding expiration, that the list is
in the order of the insertion times (`InOrder`), which the clock between two steps of a
call cannot upset. The lemmas on the arena carry over.

* `LruType`, `LruMapMatchesList`, `LruSizeBounded`, `LruSlidingInOrder`: the
  invariants of the run. `MapMatchesList` is what every `expect` of `lru.rs` rests on.
* `LruEvictsLeastRecent`: the cache implements `LruSpec`, a turn of the
  trimming loop being an eviction and `touch` a refresh. While a key is being moved,
  `recency` already has it at the end.

**The sharded cache** (`ShardedProofs`). First that trimming ends with a queue that
fits (by the least number of keys that have to go), and what `Added` and `Gotten` do to
one queue: keys stay distinct and in their shard, entries that stay are the same
but for the time of their use (`AddedKeeps`, `GottenKeeps`).

* `ShardedTypeCorrect`, `LensArePlausible`: the invariant `Plausible` says what a
  thread has counted up to now lies between two cardinalities, those of the keys of
  the shards it has seen; a further shard adds its own keys to all three.
  `TypeOK` needs it to bound what `len` returns.
* `SecondAddsAdmit`: by `Admitted`, which also speaks of the probatory keys.
* `ValuesStay`.

## What is only model-checked

* `CallCompletes`, that every call received ends: it rests on fairness, and neither
  liveness under fairness nor ENABLED is in the prover's reach.
* The four runs that end in a counterexample refute their property, so there is
  nothing to prove; what the theorems state beside them is listed above.

## Not modelled, and why

* Hash collisions, TLS, HTTP framing, sockets: outside of the program.
* The internals of the cache engine (regions, flushers, admission): a library. It is
  modelled by what the code relies on.
* Logging and the wording of headers and errors: no property is about them.
* Deserialization and defaults of the configuration. Of its switches the model has
  `http2_only`, `max_redirects` and what is in the chain; TLS, Nagle and the host
  of the origin do not matter to any property.
* The headers of the forwarded request (`Forward` copies and drops some), and
  the two other services of the server, which answer with the metrics or with a constant.
* The serialization of trailers, which panics: no body that has them gets there,
  because every response of a server is built by `from_body`, which sets none. In
  `Exchange` it is an assignment, so there is no property that says it.
* `cache_entries`, a metric that is registered and never set.
* Generated code (`src/proto`, `src/build.rs`), examples, benches.

Modelled, but with no property of its own, since it would restate the code:

* `max_redirects` is 0 or anything else: every other number is taken as 3
  (`middleware.rs:214`, against the comment at line 184).
* The client of `Forward` follows redirects, and on 301, 302 and 303 it leaves the body
  out; the response is then stored for the request that had the body. `BodiesGoThrough`
  allows it.
* Trailers are dropped on both ways, although `README.md:8` names gRPC, whose status is
  in the trailers; headers of the origin that are repeated are reduced to the last one
  (`insert` where `append` would keep them).
* A cache whose condition negates a status test is never looked up and stores
  all the same: before there is a response the status test is true. On such a chain
  `StoredIsLookedUp` fails.
* `try_add` of an LRU cache refuses a key whose entry has expired, and the next
  `try_get` removes it. `try_add` of a probatory cache returns true for a key that is
  new there although it may be resident already.
* Indices from before a `clear` of the arena are accepted by `remove` and `get`, and
  `remove` panics on an index one past the end (`RemovePanics`), which no caller has.
* The origin may keep a call as long as it likes: fairness assumes that it ends.

## Plan

1. `ShardedCache` over `LruSpec` instead of its own sequences, so that the theorems
   about the LRU cache and about the sharded one meet.
2. The refinement of `ReadThrough` with liveness: a promise that calls end, which the
   runs check today as `CallCompletes`.
