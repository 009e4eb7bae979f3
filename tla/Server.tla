------------------------------- MODULE Server -------------------------------
(***************************************************************************)
(* The server around the read-through path (CacheusServer::start): a task  *)
(* that accepts connections on three ports, a task per connection that     *)
(* runs the calls of Pipeline, the metrics of a call, and the process,     *)
(* which ends when one of the three loops panics and starts again with     *)
(* what its hybrid caches find on disk.                                    *)
(***************************************************************************)
EXTENDS PipelineProperties, FiniteSets

CONSTANTS
  Connections,  \* the connections clients make to the service port
  Hybrid,       \* the caches that are configured as hybrid
  MaxStarts     \* bound: the process is started at most so often

ASSUME ServerAssumption ==
  /\ IsFiniteSet(Calls) /\ IsFiniteSet(Connections)
  /\ Hybrid \subseteq Caches /\ MaxStarts \in Nat
  /\ None \notin Connections \union Statuses /\ Calls \cap Connections = {}

VARIABLES
  server,            \* where the task of CacheusServer::start stands
  connection,        \* per connection, whether it is served and how it ended
  via,               \* per call, the connection that brought it
  http2_only,        \* configuration.http2_only
  disk,              \* what the hybrid caches have written
  request_duration,  \* metrics: per cache_status, the number of observations
  requests,          \* metrics: per cache_status and outcome, the number of calls
  connection_reset,  \* metrics
  observed,          \* the calls between their two metrics
  starts,            \* how often the process was started
  earlier            \* history: the calls and connections that ended before the last start

metrics    == <<request_duration, requests, connection_reset, observed>>
serverVars == <<server, connection, via, http2_only, disk, metrics, starts, earlier>>
allVars    == <<vars, serverVars>>

Outcomes == Statuses \union {None}   \* None: counted under "error"
Gone     == {"closed", "reset", "panicked", "dropped"}   \* how a connection ends

InProgress(c) == pc[c] \notin Ended \union {"new"}

ServerTypeOK ==
  /\ TypeOK
  /\ server \in {"down", "up", "unwinding"}
  /\ connection \in [Connections -> {"none", "open"} \union Gone]
  /\ via \in [Calls -> Connections \union {None}]
  /\ http2_only \in BOOLEAN
  /\ disk \in [Slots -> Entries \union {None}]
  /\ request_duration \in [Labels -> Nat]
  /\ requests \in [Labels \X Outcomes -> Nat]
  /\ connection_reset \in Nat
  /\ observed \subseteq Calls
  /\ starts \in 0..MaxStarts
  /\ earlier \subseteq Calls \union Connections

ServerInit ==
  /\ Init
  /\ server = "down"
  /\ connection = [k \in Connections |-> "none"]
  /\ via = [c \in Calls |-> None]
  /\ http2_only \in BOOLEAN
  /\ disk = [s \in Slots |-> None]
  /\ request_duration = [l \in Labels |-> 0]
  /\ requests = [x \in Labels \X Outcomes |-> 0]
  /\ connection_reset = 0
  /\ observed = {} /\ starts = 0 /\ earlier = {}
-----------------------------------------------------------------------------
(* The process.                                                            *)

\* Mutant of Recovered: an entry found on disk counts as inserted now.
RecoveredAnew(found) ==
  [s \in Slots |-> IF s \in found THEN [disk[s] EXCEPT !.epoch = now] ELSE None]

\* What the caches hold when they have been built: of what is on disk, the
\* entries that can be read; the others are skipped (RecoverMode::Quiet).
Recovered(found) == [s \in Slots |-> IF s \in found THEN disk[s] ELSE None]

\* start: the caches are built, the metrics are new.
Start ==
  /\ server = "down" /\ starts < MaxStarts
  /\ server' = "up" /\ starts' = starts + 1
  /\ \E found \in SUBSET {s \in Slots : disk[s] # None} :
       /\ store' = Recovered(found)
       /\ disk' = [s \in Slots |-> IF s \in found THEN disk[s] ELSE None]
  /\ request_duration' = [l \in Labels |-> 0]
  /\ requests' = [x \in Labels \X Outcomes |-> 0]
  /\ connection_reset' = 0 /\ observed' = {}
  /\ earlier' = {c \in Calls : pc[c] \in Ended} \union {k \in Connections : connection[k] \in Gone}
  /\ UNCHANGED <<pc, pos, request, response, context, held, now, produced,
                 connection, via, http2_only>>

\* One of the binds and accepts of the three loops fails: the unwrap unwinds
\* the task that runs all of them, main with it, and the runtime is dropped.
LoopPanics ==
  /\ server = "up"
  /\ server' = "unwinding"
  /\ UNCHANGED <<vars, connection, via, http2_only, disk, metrics, starts, earlier>>

\* The runtime has dropped every task.
Exit ==
  /\ server = "unwinding"
  /\ \A k \in Connections : connection[k] # "open"
  /\ \A c \in Calls : ~InProgress(c)
  /\ server' = "down"
  /\ UNCHANGED <<vars, connection, via, http2_only, disk, metrics, starts, earlier>>

\* The service loop: accept and spawn.
Accept(k) ==
  /\ server = "up" /\ connection[k] = "none"
  /\ connection' = [connection EXCEPT ![k] = "open"]
  /\ UNCHANGED <<vars, server, via, http2_only, disk, metrics, starts, earlier>>
-----------------------------------------------------------------------------
(* Calls.  On HTTP/1 the task of the connection polls the one call that it *)
(* carries; on HTTP/2 every call has a task of its own (TokioExecutor).    *)

Carries(k, c) == InProgress(c) /\ via[c] = k

\* Mutant of Free: HTTP/1 takes the next request before it has answered.
FreeAlways(k) == connection[k] = "open"

Free(k) == connection[k] = "open" /\ (http2_only \/ \A c \in Calls : ~Carries(k, c))

Request(c, k) ==
  /\ Free(k) /\ Receive(c)
  /\ via' = [via EXCEPT ![c] = k]
  /\ UNCHANGED <<server, connection, http2_only, disk, metrics, starts, earlier>>

\* A step after which the call goes on.
Proceed(c) ==
  /\ CallStep(c) /\ pc'[c] \notin Ended
  /\ UNCHANGED serverVars

\* Mutant of Panic: the connection outlives its task.
PanicLeavesConnection(c) ==
  /\ CallStep(c) /\ pc'[c] = "panicked"
  /\ UNCHANGED serverVars

\* A panic unwinds the task of the call: on HTTP/1 that of the connection.
Panic(c) ==
  /\ CallStep(c) /\ pc'[c] = "panicked"
  /\ connection' = IF http2_only THEN connection ELSE [connection EXCEPT ![via[c]] = "panicked"]
  /\ UNCHANGED <<server, via, http2_only, disk, metrics, starts, earlier>>

Outcome(c) == IF response[c] = None THEN None ELSE response[c].status

\* The first metric of a call whose chain is done.
Observe(c) ==
  /\ pc[c] = "response" /\ pos[c] = 0 /\ c \notin observed
  /\ request_duration' = [request_duration EXCEPT ![cacheStatus[c]] = @ + 1]
  /\ observed' = observed \union {c}
  /\ UNCHANGED <<vars, server, connection, via, http2_only, disk, requests, connection_reset,
                 starts, earlier>>

\* Mutant of Counted: an error leaves through the question mark, uncounted.
CountedWhenOk(c) ==
  /\ c \in observed /\ observed' = observed \ {c}
  /\ requests' = IF response[c] = None THEN requests
                 ELSE [requests EXCEPT ![<<cacheStatus[c], Outcome(c)>>] = @ + 1]

Counted(c) ==
  /\ c \in observed /\ observed' = observed \ {c}
  /\ requests' = [requests EXCEPT ![<<cacheStatus[c], Outcome(c)>>] = @ + 1]

\* The second metric, and the response goes out.
Answer(c) ==
  /\ Counted(c) /\ Finish(c) /\ response[c] # None
  /\ UNCHANGED <<server, connection, via, http2_only, disk, request_duration, connection_reset,
                 starts, earlier>>

\* Mutant of Fail: the error of a call is not one of its connection.
FailKeepsConnection(c) ==
  /\ Counted(c) /\ Finish(c) /\ response[c] = None
  /\ connection_reset' = connection_reset + 1
  /\ UNCHANGED <<server, connection, via, http2_only, disk, request_duration, starts, earlier>>

\* CacheusError: on HTTP/1 the connection ends with it and is counted as
\* reset; on HTTP/2 only the stream ends.
Fail(c) ==
  /\ Counted(c) /\ Finish(c) /\ response[c] = None
  /\ \/ http2_only /\ UNCHANGED <<connection, connection_reset>>
     \/ /\ ~http2_only
        /\ connection' = [connection EXCEPT ![via[c]] = "reset"]
        /\ connection_reset' = connection_reset + 1
  /\ UNCHANGED <<server, via, http2_only, disk, request_duration, starts, earlier>>
-----------------------------------------------------------------------------
(* The end of connections.                                                 *)

\* The task of k is done: what it carried on HTTP/1 is cancelled with it.
LeavesCalls(k) ==
  IF http2_only \/ \A c \in Calls : ~Carries(k, c)
  THEN UNCHANGED vars
  ELSE \E c \in Calls : Carries(k, c) /\ Cancel(c)

\* The client goes away; serve_connection ends with Ok, or with an error,
\* which is counted.
Disconnect(k) ==
  /\ connection[k] = "open"
  /\ \/ connection' = [connection EXCEPT ![k] = "closed"] /\ UNCHANGED connection_reset
     \/ /\ connection' = [connection EXCEPT ![k] = "reset"]
        /\ connection_reset' = connection_reset + 1
  /\ LeavesCalls(k)
  /\ UNCHANGED <<server, via, http2_only, disk, request_duration, requests, observed, starts,
                 earlier>>

\* The runtime drops the task of a connection.
DropConnection(k) ==
  /\ server = "unwinding" /\ connection[k] = "open"
  /\ connection' = [connection EXCEPT ![k] = "dropped"]
  /\ LeavesCalls(k)
  /\ UNCHANGED <<server, via, http2_only, disk, metrics, starts, earlier>>

\* HTTP/2: the client resets a stream, its connection is gone, or the runtime
\* drops the task of the call.
CancelStream(c) ==
  /\ http2_only /\ Cancel(c)
  /\ UNCHANGED serverVars
-----------------------------------------------------------------------------
(* The cache engine and the clock.                                         *)

Running == server # "down"

\* A hybrid cache writes what was inserted, some time later.
Write(s) ==
  /\ Running /\ s[1] \in Hybrid /\ store[s] # None
  /\ disk' = [disk EXCEPT ![s] = store[s]]
  /\ UNCHANGED <<vars, server, connection, via, http2_only, metrics, starts, earlier>>

\* A lookup finds on disk what memory has dropped.
Reload(s) ==
  /\ Running /\ store[s] = None /\ disk[s] # None
  /\ store' = [store EXCEPT ![s] = disk[s]]
  /\ UNCHANGED <<pc, pos, request, response, context, held, now, produced, serverVars>>

Environment ==
  /\ (Running /\ \E s \in Slots : Evict(s)) \/ Tick \/ SetClockBack
  /\ UNCHANGED serverVars

\* The process is down for good.
Stopped == server = "down" /\ starts = MaxStarts /\ UNCHANGED allVars

CallMoves(c) == Proceed(c) \/ Panic(c) \/ Observe(c) \/ Answer(c) \/ Fail(c)

ServerNext ==
  \/ Start \/ LoopPanics \/ Exit
  \/ \E k \in Connections :
       Accept(k) \/ Disconnect(k) \/ DropConnection(k) \/ \E c \in Calls : Request(c, k)
  \/ \E c \in Calls : CallMoves(c) \/ CancelStream(c)
  \/ \E s \in Slots : Write(s) \/ Reload(s)
  \/ Environment \/ Stopped

ServerSpec == ServerInit /\ [][ServerNext]_allVars
-----------------------------------------------------------------------------
\* The calls since the last start that got as far as their metrics.
Done(l, o) == {c \in Calls \ earlier :
                 pc[c] \in {"answered", "failed"} /\ cacheStatus[c] = l /\ Outcome(c) = o}
DoneWith(l) == {c \in Calls \ earlier :
                 (pc[c] \in {"answered", "failed"} \/ c \in observed) /\ cacheStatus[c] = l}

\* The metrics tell which calls were answered or failed since the last start,
\* under the status and the code they ended with: none twice, none of those
\* that panicked or were cancelled, and between the two metrics of a call no
\* more than this call is missing.
MetricsTellCalls ==
  /\ \A l \in Labels, o \in Outcomes : requests[<<l, o>>] = Cardinality(Done(l, o))
  /\ \A l \in Labels : request_duration[l] = Cardinality(DoneWith(l))
  /\ connection_reset = Cardinality({k \in Connections \ earlier : connection[k] = "reset"})

\* On HTTP/1 a connection carries one call at a time, which is cancelled with
\* it; a call that panics or fails takes its own connection along, and every
\* other one stays as it is.
ConnectionCarriesOne ==
  ~http2_only =>
    /\ \A c \in Calls : InProgress(c) => connection[via[c]] = "open"
    /\ \A c, d \in Calls : InProgress(c) /\ InProgress(d) /\ via[c] = via[d] => c = d
    /\ \A c \in Calls : pc[c] = "panicked" => connection[via[c]] = "panicked"
    /\ \A c \in Calls : pc[c] = "failed" => connection[via[c]] = "reset"
    /\ \A c \in Calls : pc[c] = "cancelled" => connection[via[c]] \in {"closed", "reset", "dropped"}

\* What a hybrid cache has written was produced for the same key, and an
\* entry keeps the epoch it was inserted with on the way to the disk and back,
\* across a restart: it does not become fresh again.
DiskIsTrue ==
  \A s \in Slots : disk[s] # None =>
    /\ disk[s].response.call \in produced
    /\ \A p \in CommonParts : s[2][p] = request[disk[s].response.call][p]
    /\ (store[s] # None /\ store[s].response = disk[s].response) => store[s].epoch = disk[s].epoch
=============================================================================
