---------------------------- MODULE ServerProofs ----------------------------
(***************************************************************************)
(* Theorems about the server: what PipelineProofs proves of the calls goes *)
(* on holding when the process ends and starts again with what is on disk, *)
(* and the connections, the metrics and the disk are as they should be.    *)
(***************************************************************************)
EXTENDS Server, PipelineProofs, FiniteSetTheorems

\* The steps that are not the pipeline's: the caches get entries back from
\* disk, the calls stay where they are.
StoreMoves ==
  /\ UNCHANGED <<pc, pos, request, response, context, held, now, produced>>
  /\ store' \in [Slots -> Entries \union {None}]
  /\ \A s \in Slots : store'[s] \in {store[s], disk[s], None}

ServerTyped == Typed /\ ServerTypeOK

LEMMA PipelineSteps ==
  ASSUME ServerTyped, [ServerNext]_allVars
  PROVE  [Next]_vars \/ StoreMoves
<1>1. CASE Start
  BY <1>1 DEF Start, Recovered, StoreMoves, ServerTyped, ServerTypeOK
<1>2. CASE \E s \in Slots : Reload(s)
  BY <1>2 DEF Reload, StoreMoves, ServerTyped, ServerTypeOK, TypeOK
<1>3. CASE \/ LoopPanics \/ Exit \/ Stopped \/ UNCHANGED allVars
           \/ \E k \in Connections : Accept(k)
           \/ \E c \in Calls : Observe(c)
           \/ \E s \in Slots : Write(s)
  BY <1>3 DEF LoopPanics, Exit, Stopped, allVars, Accept, Observe, Write
<1>4. CASE \E k \in Connections : Disconnect(k) \/ DropConnection(k)
  BY <1>4 DEF Disconnect, DropConnection, LeavesCalls, Next
<1>5. ASSUME NEW c \in Calls,
             \/ CallMoves(c) /\ ~Observe(c)
             \/ CancelStream(c)
             \/ \E k \in Connections : Request(c, k)
      PROVE  Next
  <2>1. Receive(c) \/ CallStep(c) \/ Cancel(c)
    BY <1>5 DEF CallMoves, Proceed, Panic, Answer, Fail, CancelStream, Request, CallStep
  <2> QED BY <2>1 DEF Next
<1>6. CASE Environment
  BY <1>6 DEF Environment, Next
<1> QED
  BY <1>1, <1>2, <1>3, <1>4, <1>5, <1>6 DEF ServerNext

LEMMA StoreMovesTyped == ServerTyped /\ StoreMoves => Typed'
  BY DEF ServerTyped, Typed, TypeOK, Grounded, StoreMoves, HoldsEntry, Current, context

LEMMA ServerTypedInit == ServerInit => ServerTyped
<1> SUFFICES ASSUME ServerInit PROVE ServerTyped
  OBVIOUS
<1>1. Typed
  BY TypedInit DEF ServerInit
<1>2. /\ server = "down" /\ starts = 0 /\ http2_only \in BOOLEAN
      /\ connection \in [Connections -> {"none", "open"} \union Gone]
      /\ via \in [Calls -> Connections \union {None}]
      /\ disk \in [Slots -> Entries \union {None}]
      /\ request_duration \in [Labels -> Nat]
      /\ requests \in [Labels \X Outcomes -> Nat]
      /\ connection_reset = 0 /\ observed = {} /\ earlier = {}
  BY DEF ServerInit
<1> QED
  BY <1>1, <1>2, ServerAssumption DEF ServerTyped, ServerTypeOK, Typed

LEMMA ServerTypedNext == ServerTyped /\ [ServerNext]_allVars => ServerTyped'
<1> SUFFICES ASSUME ServerTyped, [ServerNext]_allVars PROVE ServerTyped'
  OBVIOUS
<1>1. Typed'
  BY PipelineSteps, StoreMovesTyped, TypedNext DEF ServerTyped
<1>2. TypeOK'
  BY <1>1 DEF Typed
<1> SUFFICES ServerTypeOK'
  BY <1>1 DEF ServerTyped
<1> USE <1>2, ServerAssumption DEF ServerTyped, ServerTypeOK, metrics, serverVars, Gone
<1>3. CASE Start
  BY <1>3 DEF Start
<1>4. CASE LoopPanics \/ Exit
  BY <1>4 DEF LoopPanics, Exit
<1>5. ASSUME NEW k \in Connections, Accept(k) \/ Disconnect(k) \/ DropConnection(k)
      PROVE  ServerTypeOK'
  BY <1>5 DEF Accept, Disconnect, DropConnection
<1>6. ASSUME NEW k \in Connections, NEW c \in Calls, Request(c, k) PROVE ServerTypeOK'
  BY <1>6 DEF Request
<1>7. ASSUME NEW c \in Calls, Proceed(c) \/ CancelStream(c) PROVE ServerTypeOK'
  BY <1>7 DEF Proceed, CancelStream
<1>8. ASSUME NEW c \in Calls, Panic(c) PROVE ServerTypeOK'
  BY <1>8 DEF Panic
<1>9. ASSUME NEW c \in Calls, Observe(c) PROVE ServerTypeOK'
  <2>1. cacheStatus[c] \in Labels
    BY DEF TypeOK
  <2> QED BY <1>9, <2>1 DEF Observe
<1>10. ASSUME NEW c \in Calls, Answer(c) \/ Fail(c) PROVE ServerTypeOK'
  <2>1. Counted(c)
    BY <1>10 DEF Answer, Fail
  <2>2. requests' \in [Labels \X Outcomes -> Nat]
    <3>1. cacheStatus[c] \in Labels /\ Outcome(c) \in Outcomes
      BY DEF TypeOK, Outcome, Outcomes, Responses
    <3> QED BY <2>1, <3>1 DEF Counted
  <2>3. observed' \subseteq Calls
    BY <2>1 DEF Counted
  <2> QED BY <1>10, <2>2, <2>3 DEF Answer, Fail
<1>11. ASSUME NEW s \in Slots, Write(s) \/ Reload(s) PROVE ServerTypeOK'
  BY <1>11 DEF Write, Reload, TypeOK
<1>12. CASE Environment \/ Stopped \/ UNCHANGED allVars
  BY <1>12 DEF Environment, Stopped, allVars
<1> QED
  BY <1>3, <1>4, <1>5, <1>6, <1>7, <1>8, <1>9, <1>10, <1>11, <1>12 DEF ServerNext, CallMoves

\* Every variable of the server keeps to its type.
THEOREM ServerTypeCorrect == ServerSpec => []ServerTypeOK
<1>1. ServerTyped => ServerTypeOK
  BY DEF ServerTyped
<1> QED
  BY ServerTypedInit, ServerTypedNext, <1>1, PTL DEF ServerSpec
-----------------------------------------------------------------------------
(* Provenance, on the way to the disk and back.                            *)

\* What SlotProvenance says of a cache, said of the disk.
DiskProvenance ==
  \A s \in Slots : disk[s] # None =>
    /\ disk[s].response.call \in produced
    /\ \A p \in CommonParts : s[2][p] = request[disk[s].response.call][p]

\* No step forgets what was produced, and for which request.
LEMMA ProducedIsKept ==
  ASSUME ServerTyped, Provenance, [ServerNext]_allVars
  PROVE  produced \subseteq produced' /\ \A c \in produced : request'[c] = request[c]
<1>1. ASSUME NEW c \in Calls, Receive(c) \/ CallStep(c) \/ Cancel(c)
      PROVE  produced \subseteq produced' /\ \A d \in produced : request'[d] = request[d]
  BY <1>1, StepsAreLocal DEF StepOf, ServerTyped
<1>2. CASE StoreMoves \/ UNCHANGED vars \/ Tick \/ SetClockBack \/ \E s \in Slots : Evict(s)
  BY <1>2 DEF StoreMoves, vars, Tick, SetClockBack, Evict
<1> QED
  BY <1>1, <1>2, PipelineSteps DEF Next, Quiescent

\* Only Write puts something on disk; a start may lose what is there.
LEMMA DiskChanges ==
  ASSUME ServerTyped, [ServerNext]_allVars
  PROVE  \/ disk' = disk
         \/ \E s \in Slots : Write(s)
         \/ Start
  BY DEF ServerNext, CallMoves, LoopPanics, Exit, Accept, Disconnect, DropConnection, Request,
         Proceed, Panic, Observe, Answer, Fail, CancelStream, Reload, Environment, Stopped,
         allVars, serverVars

LEMMA DiskProvenanceNext ==
  ASSUME ServerTyped, Provenance, DiskProvenance, [ServerNext]_allVars
  PROVE  DiskProvenance'
<1>1. \A s \in Slots : disk'[s] \in {disk[s], store[s], None}
  BY DiskChanges DEF Write, Start, ServerTyped, ServerTypeOK
<1>2. ASSUME NEW s \in Slots, disk'[s] # None
      PROVE  /\ disk'[s].response.call \in produced
             /\ \A p \in CommonParts : s[2][p] = request[disk'[s].response.call][p]
  BY <1>1, <1>2 DEF DiskProvenance, Provenance, SlotProvenance
<1> QED
  BY <1>2, ProducedIsKept DEF DiskProvenance

LEMMA ServerProvenanceNext ==
  ASSUME ServerTyped, Provenance, DiskProvenance, [ServerNext]_allVars
  PROVE  Provenance'
<1>1. CASE [Next]_vars
  BY <1>1, ProvenanceNext DEF ServerTyped
<1>2. CASE StoreMoves
  <2>1. ASSUME NEW c \in Calls PROVE CallProvenance(c)'
    <3>1. CallProvenance(c)
      BY DEF Provenance
    <3> QED BY <1>2, <3>1 DEF StoreMoves, CallProvenance, HoldsEntry, NoResponseYet, NotStarted,
                              ComesFrom, StatusMatches, SameResource, Current, context
  <2>2. ASSUME NEW s \in Slots PROVE SlotProvenance(s)'
    <3>1. store'[s] \in {store[s], disk[s], None} /\ request' = request /\ produced' = produced
      BY <1>2 DEF StoreMoves
    <3> QED BY <3>1 DEF SlotProvenance, Provenance, DiskProvenance
  <2> QED BY <2>1, <2>2 DEF Provenance
<1> QED
  BY <1>1, <1>2, PipelineSteps

Sourced == ServerTyped /\ Provenance /\ DiskProvenance

LEMMA SourcedInit == ServerInit => Sourced
  BY ServerTypedInit, ProvenanceInit DEF ServerInit, Sourced, DiskProvenance

LEMMA SourcedNext == Sourced /\ [ServerNext]_allVars => Sourced'
  BY ServerTypedNext, ServerProvenanceNext, DiskProvenanceNext DEF Sourced

\* Provenance outlives the process: what a hybrid cache finds on disk after a
\* start was produced, before it, for the resource it is served for.
THEOREM ProvenanceSurvives == ServerSpec => []Provenance
<1>1. Sourced => Provenance
  BY DEF Sourced
<1> QED
  BY SourcedInit, SourcedNext, <1>1, PTL DEF ServerSpec

\* Nor does a restart mix up resources.
THEOREM IsolationSurvives == ServerSpec => []Isolation
<1>1. Provenance => Isolation
  BY DEF Provenance, CallProvenance, ComesFrom, Isolation
<1> QED
  BY ProvenanceSurvives, <1>1, PTL

\* A response that a restart brought back is not labelled as fetched.
THEOREM LabelsSurvive == ServerSpec => []LabelTellsSource
<1>1. Provenance => LabelTellsSource
  BY DEF Provenance, CallProvenance, StatusMatches, LabelTellsSource
<1> QED
  BY ProvenanceSurvives, <1>1, PTL

\* On stacked caches, restarts included, a hit is never stored again, and what
\* is stored of another call's content is a stale response.
THEOREM OnlyStaleIsStillRestamped == ServerSpec => []OnlyStaleIsRestamped
<1>1. Sourced => OnlyStaleIsRestamped
  BY RestampedIsStale DEF Sourced, ServerTyped
<1> QED
  BY SourcedInit, SourcedNext, <1>1, PTL DEF ServerSpec

\* Seen from the clients, the whole server, restarts included, is ReadThrough.
THEOREM ServerKeepsPromise == ServerSpec => KeepsPromise
<1>1. ServerInit => Promise!Init
  BY PromiseInit DEF ServerInit
<1>2. Sourced /\ [ServerNext]_allVars => [Promise!Next]_<<request, produced, answerOf>>
  <2> SUFFICES ASSUME Sourced, [ServerNext]_allVars
               PROVE  [Promise!Next]_<<request, produced, answerOf>>
    OBVIOUS
  <2>1. CASE [Next]_vars
    BY <2>1, PromiseNext DEF Sourced, ServerTyped
  <2>2. CASE StoreMoves
    BY <2>2 DEF StoreMoves, context, answerOf
  <2> QED
    BY <2>1, <2>2, PipelineSteps DEF Sourced
<1> QED
  BY <1>1, <1>2, SourcedInit, SourcedNext, PTL DEF ServerSpec, KeepsPromise, Promise!Spec

\* A hit is within the ttl of the entry, also of one that was on disk while
\* the process was down.
THEOREM HitsStayFresh == ServerSpec => HitsAreFresh
<1>1. Sourced /\ [ServerNext]_allVars =>
        [\A c \in Calls : (pc[c] = "found" /\ pc'[c] = "response") =>
           held[c].epoch \in (now - Ttl[Current(c).cache])..now]_vars
  <2> SUFFICES ASSUME Sourced, [ServerNext]_allVars,
                      NEW c \in Calls, pc[c] = "found", pc'[c] = "response"
               PROVE  held[c].epoch \in (now - Ttl[Current(c).cache])..now
    OBVIOUS
  <2>1. ~StoreMoves
    BY DEF StoreMoves
  <2> QED
    BY <2>1, PipelineSteps, FreshHitStep DEF Sourced, ServerTyped
<1> QED
  BY <1>1, SourcedInit, SourcedNext, PTL DEF ServerSpec, HitsAreFresh
-----------------------------------------------------------------------------
(* Connections.                                                            *)

\* Where a call can get to in one step.
LEMMA CallEnds ==
  ASSUME Typed, NEW c \in Calls
  PROVE  /\ Receive(c) => pc[c] = "new" /\ pc'[c] = "receiving"
         /\ CallStep(c) => /\ pc[c] \notin Ended \union {"new"} /\ pc'[c] # "new"
                           /\ pc'[c] # "cancelled"
                           /\ pc'[c] \in {"answered", "failed"} => Finish(c)
                           /\ pc[c] = "response" /\ pos[c] = 0 => Finish(c)
         /\ Finish(c) => /\ pc[c] = "response" /\ pos[c] = 0
                         /\ pc'[c] = IF response[c] # None THEN "answered" ELSE "failed"
                         /\ response' = response /\ cacheStatus' = cacheStatus
         /\ Cancel(c) => /\ pc[c] \notin Ended \union {"new", "response"}
                         /\ pc'[c] = "cancelled"
<1>1. CallStep(c) => /\ pc[c] \notin Ended \union {"new"} /\ pc'[c] # "new"
                     /\ pc'[c] # "cancelled"
                     /\ pc'[c] \in {"answered", "failed"} => Finish(c)
                     /\ pc[c] = "response" /\ pos[c] = 0 => Finish(c)
  BY ChainIsTyped
     DEF Typed, TypeOK, CallStep, Ended, Goto, Respond, Miss, OnRequest, OnResponse,
         At, Unwinding,
         BodyCollected, BodyFails, Skip, Block, LookupMisses, LookupErrs,
         LookupFinds, Hit, StaleHit, ForwardSends, ForwardHasNoTarget, OriginAnswers,
         OriginFails, ChainExhausted, PassBack, AddHeader, AddHeaderPanics, ReplaceBody,
         ReplaceBodyPanics, ConditionPanics, ServeStale, Stamp, Insert, LeaveCacheAlone, Finish
<1> QED
  BY <1>1 DEF Typed, TypeOK, Receive, Finish, Cancel, Goto, Ended, OnRequest, At

\* Of a call that has started the connection is known; on HTTP/1 a
\* connection that is no longer open carries nothing.
ConnectionInv ==
  /\ \A c \in Calls : pc[c] # "new" => via[c] \in Connections
  /\ ConnectionCarriesOne

\* What a step of call c leaves to every other call.
LEMMA OnlyOneMoves ==
  ASSUME ServerTyped, Provenance, NEW c \in Calls, Receive(c) \/ CallStep(c) \/ Cancel(c)
  PROVE  \A d \in Calls \ {c} :
           pc'[d] = pc[d] /\ response'[d] = response[d] /\ cacheStatus'[d] = cacheStatus[d]
  BY StepsAreLocal DEF ServerTyped, StepOf

LEMMA ConnectionNext ==
  ASSUME ServerTyped, Provenance, ConnectionInv, [ServerNext]_allVars
  PROVE  ConnectionInv'
<1> USE DEF ServerTyped, ConnectionInv, ConnectionCarriesOne, InProgress, ServerTypeOK, Gone
<1>1. ASSUME pc' = pc, via' = via, http2_only' = http2_only, connection' = connection
      PROVE  ConnectionInv'
  BY <1>1
<1>2. ASSUME NEW k \in Connections, Accept(k) PROVE ConnectionInv'
  BY <1>2 DEF Accept, vars, Ended
<1>3. ASSUME NEW k \in Connections, NEW c \in Calls, Request(c, k) PROVE ConnectionInv'
  <2>1. Receive(c) /\ Free(k) /\ via' = [via EXCEPT ![c] = k]
        /\ connection' = connection /\ http2_only' = http2_only
    BY <1>3 DEF Request
  <2> QED BY <2>1, CallEnds, OnlyOneMoves DEF Free, Carries, Ended
<1>4. ASSUME NEW c \in Calls, Proceed(c) PROVE ConnectionInv'
  <2>1. CallStep(c) /\ pc'[c] \notin Ended /\ UNCHANGED <<via, http2_only, connection>>
    BY <1>4 DEF Proceed, serverVars
  <2>2. pc[c] \notin Ended \union {"new"} /\ pc'[c] # "new"
    BY <2>1, CallEnds
  <2>3. \A d \in Calls \ {c} : pc'[d] = pc[d]
    BY <2>1, OnlyOneMoves
  <2> QED BY <2>1, <2>2, <2>3 DEF Ended
<1>5. ASSUME NEW c \in Calls, Panic(c) PROVE ConnectionInv'
  <2>1. /\ CallStep(c) /\ pc'[c] = "panicked" /\ UNCHANGED <<via, http2_only>>
        /\ connection' = IF http2_only THEN connection
                         ELSE [connection EXCEPT ![via[c]] = "panicked"]
    BY <1>5 DEF Panic
  <2>2. pc[c] \notin Ended \union {"new"}
    BY <2>1, CallEnds
  <2>3. \A d \in Calls \ {c} : pc'[d] = pc[d]
    BY <2>1, OnlyOneMoves
  <2>4. CASE http2_only
    BY <2>1, <2>2, <2>3, <2>4
  <2>5. CASE ~http2_only
    <3>1. connection[via[c]] = "open" /\ connection'[via[c]] = "panicked"
      BY <2>1, <2>2, <2>5
    <3>2. \A d \in Calls \ {c} : InProgress(d) => via[d] # via[c]
      BY <2>2, <2>5
    <3>3. \A k \in Connections \ {via[c]} : connection'[k] = connection[k]
      BY <2>1
    <3>4. ~InProgress(c)'
      BY <2>1 DEF Ended
    <3> QED BY <2>1, <2>2, <2>3, <2>5, <3>1, <3>2, <3>3, <3>4
  <2> QED BY <2>4, <2>5
<1>6. ASSUME NEW c \in Calls, Answer(c) PROVE ConnectionInv'
  BY <1>6, CallEnds, OnlyOneMoves DEF Answer, Ended, CallStep
<1>7. ASSUME NEW c \in Calls, Fail(c) PROVE ConnectionInv'
  <2>1. /\ Finish(c) /\ UNCHANGED <<via, http2_only>>
        /\ \/ http2_only /\ connection' = connection
           \/ ~http2_only /\ connection' = [connection EXCEPT ![via[c]] = "reset"]
    BY <1>7 DEF Fail
  <2>2. pc[c] = "response" /\ pc'[c] \in {"answered", "failed"}
    BY <2>1, CallEnds
  <2>3. \A d \in Calls \ {c} : pc'[d] = pc[d]
    BY <2>1, OnlyOneMoves DEF CallStep
  <2> QED BY <2>1, <2>2, <2>3 DEF Ended
<1>8. ASSUME NEW c \in Calls, CancelStream(c) PROVE ConnectionInv'
  BY <1>8, CallEnds, OnlyOneMoves DEF CancelStream, serverVars, Ended
<1>9. ASSUME NEW k \in Connections, Disconnect(k) \/ DropConnection(k) PROVE ConnectionInv'
  <2>1. /\ connection[k] = "open" /\ LeavesCalls(k) /\ via' = via /\ http2_only' = http2_only
        /\ \E e \in {"closed", "reset", "dropped"} : connection' = [connection EXCEPT ![k] = e]
    BY <1>9 DEF Disconnect, DropConnection
  <2>2. CASE http2_only
    <3>1. pc' = pc
      BY <2>1, <2>2, <1>9 DEF LeavesCalls, vars
    <3> QED BY <2>1, <2>2, <3>1
  <2>3. CASE ~http2_only /\ \A c \in Calls : ~Carries(k, c)
    <3>1. pc' = pc
      BY <2>1, <2>3 DEF LeavesCalls, vars
    <3> QED BY <2>1, <2>3, <3>1 DEF Carries
  <2>4. ASSUME ~http2_only, NEW c \in Calls, Carries(k, c), Cancel(c) PROVE ConnectionInv'
    BY <2>1, <2>4, CallEnds, OnlyOneMoves DEF Carries, Ended
  <2> QED BY <2>1, <2>2, <2>3, <2>4 DEF LeavesCalls
<1>10. CASE \/ Start \/ LoopPanics \/ Exit \/ Environment \/ Stopped \/ UNCHANGED allVars
            \/ \E c \in Calls : Observe(c)
            \/ \E s \in Slots : Write(s) \/ Reload(s)
  BY <1>1, <1>10 DEF Start, LoopPanics, Exit, Environment, Evict, Tick, SetClockBack, Stopped,
                     Observe, Write, Reload, allVars, serverVars, vars
<1> QED
  BY <1>2, <1>3, <1>4, <1>5, <1>6, <1>7, <1>8, <1>9, <1>10 DEF ServerNext, CallMoves

LEMMA ConnectionInit == ServerInit => ConnectionInv
  BY DEF ServerInit, Init, ConnectionInv, ConnectionCarriesOne, InProgress, Ended

\* On HTTP/1 a connection carries one call at a time and shares its fate.
THEOREM ConnectionsHold == ServerSpec => []ConnectionCarriesOne
<1>1. ConnectionInv => ConnectionCarriesOne
  BY DEF ConnectionInv
<1>2. Sourced /\ ConnectionInv /\ [ServerNext]_allVars => ConnectionInv'
  BY ConnectionNext DEF Sourced
<1> QED
  BY <1>1, <1>2, ConnectionInit, SourcedInit, SourcedNext, PTL DEF ServerSpec
-----------------------------------------------------------------------------
(* Metrics.                                                                *)

Over(c) == pc[c] \in {"answered", "failed"}
Resets  == {k \in Connections \ earlier : connection[k] = "reset"}

\* A call is between its two metrics only when its chain is done, and what
\* ended before the last start stays as it ended.
MetricsInv ==
  /\ \A c \in observed : pc[c] = "response" /\ pos[c] = 0
  /\ \A c \in Calls \cap earlier : pc[c] \in Ended
  /\ \A k \in Connections \cap earlier : connection[k] \in Gone
  /\ MetricsTellCalls

LEMMA OneMore ==
  ASSUME NEW S, NEW x, IsFiniteSet(S), x \notin S
  PROVE  Cardinality(S \union {x}) = Cardinality(S) + 1
  BY FS_AddElement

LEMMA FiniteCounts ==
  ASSUME NEW l, NEW o
  PROVE  /\ IsFiniteSet(Done(l, o)) /\ IsFiniteSet(DoneWith(l)) /\ IsFiniteSet(Resets)
<1>1. Done(l, o) \in SUBSET Calls /\ DoneWith(l) \in SUBSET Calls /\ Resets \in SUBSET Connections
  BY DEF Done, DoneWith, Resets
<1> QED
  BY <1>1, ServerAssumption, FS_Subset

\* What the metrics look at does not change.
CallsKept ==
  /\ UNCHANGED <<requests, request_duration, observed, earlier>>
  /\ \A c \in Calls :
       /\ Over(c)' <=> Over(c)
       /\ pc[c] \in Ended => pc'[c] = pc[c]
       /\ Over(c) \/ c \in observed =>
            /\ response'[c] = response[c] /\ cacheStatus'[c] = cacheStatus[c]
            /\ pc'[c] = pc[c] /\ pos'[c] = pos[c]

\* Most steps leave the metrics alone, and the calls they count.
LEMMA QuietCalls ==
  ASSUME ServerTyped, Provenance, MetricsInv, [ServerNext]_allVars,
         ~Start, \A c \in Calls : ~(Observe(c) \/ Answer(c) \/ Fail(c))
  PROVE  CallsKept
<1>1. ASSUME UNCHANGED <<requests, request_duration, observed, earlier>>,
             UNCHANGED <<pc, pos, response, cacheStatus>>
      PROVE  CallsKept
  BY <1>1 DEF CallsKept, Over
<1>2. ASSUME UNCHANGED <<requests, request_duration, observed, earlier>>, NEW c \in Calls,
             \/ Receive(c) \/ Cancel(c)
             \/ CallStep(c) /\ pc'[c] \notin {"answered", "failed"}
      PROVE  CallsKept
  <2>1. pc[c] \notin Ended /\ ~(pc[c] = "response" /\ pos[c] = 0) /\ ~Over(c)'
    BY <1>2, CallEnds DEF Over, Ended, ServerTyped
  <2>2. \A d \in Calls \ {c} : /\ pc'[d] = pc[d] /\ pos'[d] = pos[d]
                               /\ response'[d] = response[d] /\ cacheStatus'[d] = cacheStatus[d]
    BY <1>2, StepsAreLocal DEF ServerTyped, StepOf
  <2> QED BY <1>2, <2>1, <2>2 DEF CallsKept, Over, Ended, MetricsInv
<1>3. ASSUME NEW c \in Calls, Proceed(c) \/ Panic(c) \/ CancelStream(c) PROVE CallsKept
  BY <1>2, <1>3 DEF Proceed, Panic, CancelStream, serverVars, metrics, Ended
<1>4. ASSUME NEW c \in Calls, NEW k \in Connections, Request(c, k) PROVE CallsKept
  BY <1>2, <1>4 DEF Request, metrics
<1>5. ASSUME NEW k \in Connections, Disconnect(k) \/ DropConnection(k) PROVE CallsKept
  BY <1>1, <1>2, <1>5 DEF Disconnect, DropConnection, LeavesCalls, metrics, vars
<1>6. CASE \/ LoopPanics \/ Exit \/ Environment \/ Stopped \/ UNCHANGED allVars
           \/ \E k \in Connections : Accept(k)
           \/ \E s \in Slots : Write(s) \/ Reload(s)
  BY <1>1, <1>6 DEF LoopPanics, Exit, Environment, Evict, Tick, SetClockBack, Stopped, Accept,
                    Write, Reload, allVars, serverVars, metrics, vars, context
<1> QED
  BY <1>3, <1>4, <1>5, <1>6 DEF ServerNext, CallMoves

\* The resets are counted one by one, whichever step it is.
LEMMA ResetsCounted ==
  ASSUME ServerTyped, Provenance, ConnectionInv, MetricsInv, [ServerNext]_allVars, ~Start
  PROVE  /\ connection_reset' = Cardinality(Resets')
         /\ \A k \in Connections \cap earlier : connection'[k] \in Gone
         /\ earlier' = earlier
<1> USE DEF ServerTyped, ServerTypeOK, MetricsInv, Gone
<1>1. connection_reset = Cardinality(Resets)
  BY DEF MetricsTellCalls, Resets
<1>2. ASSUME connection' = connection, connection_reset' = connection_reset, earlier' = earlier
      PROVE  /\ connection_reset' = Cardinality(Resets')
             /\ \A k \in Connections \cap earlier : connection'[k] \in Gone
  <2>1. Resets' = Resets
    BY <1>2 DEF Resets
  <2> QED BY <1>1, <1>2, <2>1
<1>3. ASSUME NEW k \in Connections, connection[k] \in {"none", "open"}, earlier' = earlier,
             NEW e \in {"open", "closed", "panicked", "dropped"},
             connection' = [connection EXCEPT ![k] = e], connection_reset' = connection_reset
      PROVE  /\ connection_reset' = Cardinality(Resets')
             /\ \A j \in Connections \cap earlier : connection'[j] \in Gone
  <2>1. Resets' = Resets
    BY <1>3 DEF Resets
  <2> QED BY <1>1, <1>3, <2>1
<1>4. ASSUME NEW k \in Connections, connection[k] = "open", earlier' = earlier,
             connection' = [connection EXCEPT ![k] = "reset"],
             connection_reset' = connection_reset + 1
      PROVE  /\ connection_reset' = Cardinality(Resets')
             /\ \A j \in Connections \cap earlier : connection'[j] \in Gone
  <2>1. Resets' = Resets \union {k} /\ k \notin Resets
    BY <1>4 DEF Resets
  <2>2. IsFiniteSet(Resets)
    BY FiniteCounts
  <2>3. Cardinality(Resets') = Cardinality(Resets) + 1
    BY <2>1, <2>2, OneMore
  <2> QED BY <1>1, <1>4, <2>3
<1>5. ASSUME NEW c \in Calls, Panic(c)
      PROVE  /\ connection_reset' = Cardinality(Resets')
             /\ \A k \in Connections \cap earlier : connection'[k] \in Gone
             /\ earlier' = earlier
  <2>1. CallStep(c) /\ UNCHANGED <<connection_reset, earlier>>
        /\ connection' = IF http2_only THEN connection
                         ELSE [connection EXCEPT ![via[c]] = "panicked"]
    BY <1>5 DEF Panic, metrics
  <2>2. ~http2_only => via[c] \in Connections /\ connection[via[c]] = "open"
    BY <2>1, CallEnds DEF ConnectionInv, ConnectionCarriesOne, InProgress, Ended
  <2> QED BY <1>2, <1>3, <2>1, <2>2
<1>6. ASSUME NEW c \in Calls, Fail(c)
      PROVE  /\ connection_reset' = Cardinality(Resets')
             /\ \A k \in Connections \cap earlier : connection'[k] \in Gone
             /\ earlier' = earlier
  <2>1. /\ Finish(c) /\ earlier' = earlier
        /\ \/ http2_only /\ UNCHANGED <<connection, connection_reset>>
           \/ /\ ~http2_only
              /\ connection' = [connection EXCEPT ![via[c]] = "reset"]
              /\ connection_reset' = connection_reset + 1
    BY <1>6 DEF Fail
  <2>2. ~http2_only => via[c] \in Connections /\ connection[via[c]] = "open"
    BY <2>1, CallEnds DEF ConnectionInv, ConnectionCarriesOne, InProgress, Ended
  <2> QED BY <1>2, <1>4, <2>1, <2>2
<1>7. ASSUME NEW k \in Connections, Accept(k) \/ Disconnect(k) \/ DropConnection(k)
      PROVE  /\ connection_reset' = Cardinality(Resets')
             /\ \A j \in Connections \cap earlier : connection'[j] \in Gone
             /\ earlier' = earlier
  BY <1>3, <1>4, <1>7 DEF Accept, Disconnect, DropConnection, metrics
<1>8. CASE \/ LoopPanics \/ Exit \/ Environment \/ Stopped \/ UNCHANGED allVars
           \/ \E c \in Calls : Proceed(c) \/ Observe(c) \/ Answer(c) \/ CancelStream(c)
           \/ \E c \in Calls, k \in Connections : Request(c, k)
           \/ \E s \in Slots : Write(s) \/ Reload(s)
  BY <1>2, <1>8 DEF LoopPanics, Exit, Environment, Stopped, Proceed, Observe, Answer, CancelStream,
                    Request, Write, Reload, allVars, serverVars, metrics
<1> QED
  BY <1>5, <1>6, <1>7, <1>8 DEF ServerNext, CallMoves

\* Observing a call and counting it adds the call to what is counted.
LEMMA MetricsAdd ==
  ASSUME ServerTyped, Provenance, MetricsInv, NEW c \in Calls,
         Observe(c) \/ Answer(c) \/ Fail(c)
  PROVE  /\ \A l \in Labels, o \in Outcomes : requests'[<<l, o>>] = Cardinality(Done(l, o)')
         /\ \A l \in Labels : request_duration'[l] = Cardinality(DoneWith(l)')
         /\ \A d \in observed' : pc'[d] = "response" /\ pos'[d] = 0
         /\ \A d \in Calls \cap earlier : pc'[d] \in Ended
<1> USE DEF ServerTyped, ServerTypeOK, MetricsInv, MetricsTellCalls
<1>1. cacheStatus[c] \in Labels /\ Outcome(c) \in Outcomes
  BY DEF TypeOK, Outcome, Outcomes, Responses
<1>2. CASE Observe(c)
  <2>1. /\ UNCHANGED <<pc, pos, response, cacheStatus, requests, earlier>>
        /\ observed' = observed \union {c} /\ c \notin observed
        /\ pc[c] = "response" /\ pos[c] = 0
        /\ request_duration' = [request_duration EXCEPT ![cacheStatus[c]] = @ + 1]
    BY <1>2 DEF Observe, vars
  <2>2. \A l, o : Done(l, o)' = Done(l, o)
    BY <2>1 DEF Done, Outcome
  <2>3. c \notin earlier
    BY <2>1 DEF Ended
  <2>4. ASSUME NEW l \in Labels PROVE request_duration'[l] = Cardinality(DoneWith(l)')
    <3>1. CASE l = cacheStatus[c]
      <4>1. DoneWith(l)' = DoneWith(l) \union {c} /\ c \notin DoneWith(l)
        BY <2>1, <2>3, <3>1 DEF DoneWith
      <4>2. IsFiniteSet(DoneWith(l))
        BY FiniteCounts
      <4>3. Cardinality(DoneWith(l)') = Cardinality(DoneWith(l)) + 1
        BY <4>1, <4>2, OneMore
      <4> QED BY <2>1, <3>1, <4>3
    <3>2. CASE l # cacheStatus[c]
      <4>1. DoneWith(l)' = DoneWith(l)
        BY <2>1, <3>2 DEF DoneWith
      <4> QED BY <2>1, <3>2, <4>1
    <3> QED BY <3>1, <3>2
  <2> QED BY <2>1, <2>2, <2>4
<1>3. CASE Answer(c) \/ Fail(c)
  <2> DEFINE l1 == cacheStatus[c]
             o1 == Outcome(c)
  <2>1. /\ c \in observed /\ observed' = observed \ {c}
        /\ requests' = [requests EXCEPT ![<<l1, o1>>] = @ + 1]
        /\ Finish(c) /\ UNCHANGED <<request_duration, earlier>>
    BY <1>3 DEF Answer, Fail, Counted
  <2>2. /\ pc[c] = "response" /\ pc'[c] \in {"answered", "failed"}
        /\ response' = response /\ cacheStatus' = cacheStatus
    BY <2>1, CallEnds
  <2>3. \A d \in Calls \ {c} : pc'[d] = pc[d] /\ pos'[d] = pos[d]
    BY <2>1, StepsAreLocal DEF CallStep, StepOf
  <2>4. c \notin earlier
    BY <2>2 DEF Ended
  <2>5. \A l : DoneWith(l)' = DoneWith(l)
    BY <2>1, <2>2, <2>3 DEF DoneWith
  <2>6. ASSUME NEW l \in Labels, NEW o \in Outcomes
        PROVE  requests'[<<l, o>>] = Cardinality(Done(l, o)')
    <3>1. CASE l = l1 /\ o = o1
      <4>1. Done(l, o)' = Done(l, o) \union {c} /\ c \notin Done(l, o)
        BY <2>2, <2>3, <2>1, <2>4, <3>1 DEF Done, Outcome
      <4>2. IsFiniteSet(Done(l, o))
        BY FiniteCounts
      <4>3. Cardinality(Done(l, o)') = Cardinality(Done(l, o)) + 1
        BY <4>1, <4>2, OneMore
      <4> QED BY <2>1, <3>1, <4>3
    <3>2. CASE ~(l = l1 /\ o = o1)
      <4>1. Done(l, o)' = Done(l, o)
        BY <2>1, <2>2, <2>3, <3>2 DEF Done, Outcome
      <4>2. requests'[<<l, o>>] = requests[<<l, o>>]
        BY <2>1, <3>2
      <4> QED BY <4>1, <4>2
    <3> QED BY <3>1, <3>2
  <2> QED BY <2>1, <2>3, <2>4, <2>5, <2>6
<1> QED
  BY <1>2, <1>3

\* A start clears the metrics; what has ended is not counted any more.
LEMMA StartClears ==
  ASSUME ServerTyped, MetricsInv, Start
  PROVE  MetricsInv'
<1>1. /\ requests' = [x \in Labels \X Outcomes |-> 0]
      /\ request_duration' = [l \in Labels |-> 0]
      /\ connection_reset' = 0 /\ observed' = {}
      /\ earlier' = {c \in Calls : pc[c] \in Ended}
                      \union {k \in Connections : connection[k] \in Gone}
      /\ UNCHANGED <<pc, pos, response, cacheStatus, connection>>
  BY DEF Start, context
<1>2. /\ \A c \in Calls : c \in earlier' <=> pc[c] \in Ended
      /\ \A k \in Connections : k \in earlier' <=> connection[k] \in Gone
  BY <1>1, ServerAssumption
<1>3. \A l, o : Done(l, o)' = {} /\ DoneWith(l)' = {}
  BY <1>1, <1>2 DEF Done, DoneWith, Ended
<1>4. {k \in Connections \ earlier' : connection'[k] = "reset"} = {}
  BY <1>1, <1>2 DEF Gone
<1>5. MetricsTellCalls'
  BY <1>1, <1>3, <1>4, FS_EmptySet DEF MetricsTellCalls
<1> QED
  BY <1>1, <1>2, <1>5 DEF MetricsInv

LEMMA MetricsNext ==
  ASSUME ServerTyped, Provenance, ConnectionInv, MetricsInv, [ServerNext]_allVars
  PROVE  MetricsInv'
<1>1. CASE Start
  BY <1>1, StartClears
<1>2. ASSUME ~Start,
             \A l \in Labels, o \in Outcomes : requests'[<<l, o>>] = Cardinality(Done(l, o)'),
             \A l \in Labels : request_duration'[l] = Cardinality(DoneWith(l)'),
             \A d \in observed' : pc'[d] = "response" /\ pos'[d] = 0,
             \A d \in Calls \cap earlier : pc'[d] \in Ended
      PROVE  MetricsInv'
  BY <1>2, ResetsCounted DEF MetricsInv, MetricsTellCalls, Resets
<1>3. ASSUME ~Start, NEW c \in Calls, Observe(c) \/ Answer(c) \/ Fail(c)
      PROVE  MetricsInv'
  BY <1>2, <1>3, MetricsAdd
<1>4. CASE CallsKept /\ ~Start
  <2>1. \A l, o : Done(l, o)' = Done(l, o)
    BY <1>4 DEF CallsKept, Done, Over, Outcome
  <2>2. \A l : DoneWith(l)' = DoneWith(l)
    BY <1>4 DEF CallsKept, DoneWith, Over
  <2>3. /\ \A d \in observed' : pc'[d] = "response" /\ pos'[d] = 0
        /\ \A d \in Calls \cap earlier : pc'[d] \in Ended
    BY <1>4 DEF CallsKept, MetricsInv, ServerTyped, ServerTypeOK
  <2>4. /\ \A l \in Labels, o \in Outcomes : requests'[<<l, o>>] = Cardinality(Done(l, o)')
        /\ \A l \in Labels : request_duration'[l] = Cardinality(DoneWith(l)')
    BY <1>4, <2>1, <2>2 DEF CallsKept, MetricsInv, MetricsTellCalls
  <2> QED BY <1>2, <1>4, <2>3, <2>4
<1> QED
  BY <1>1, <1>3, <1>4, QuietCalls

LEMMA MetricsInit == ServerInit => MetricsInv
<1> SUFFICES ASSUME ServerInit PROVE MetricsInv
  OBVIOUS
<1>1. \A l, o : Done(l, o) = {} /\ DoneWith(l) = {}
  BY DEF ServerInit, Init, Done, DoneWith
<1>2. {k \in Connections \ earlier : connection[k] = "reset"} = {}
  BY DEF ServerInit
<1> QED
  BY <1>1, <1>2, FS_EmptySet DEF ServerInit, MetricsInv, MetricsTellCalls

\* Every call that was answered or failed since the last start is counted
\* once, under what it ended with, and so is every reset connection.
THEOREM MetricsHold == ServerSpec => []MetricsTellCalls
<1>1. MetricsInv => MetricsTellCalls
  BY DEF MetricsInv
<1>2. Sourced /\ ConnectionInv /\ [ServerNext]_allVars => ConnectionInv'
  BY ConnectionNext DEF Sourced
<1>3. Sourced /\ ConnectionInv /\ MetricsInv /\ [ServerNext]_allVars => MetricsInv'
  BY MetricsNext DEF Sourced
<1> QED
  BY <1>1, <1>2, <1>3, ConnectionInit, MetricsInit, SourcedInit, SourcedNext, PTL DEF ServerSpec
-----------------------------------------------------------------------------
(* The disk, on a chain with one cache: there a call stores once.          *)

\* The cache middleware is still ahead of c, on the way back.
MayStore(c) ==
  /\ pc[c] \in {"response", "store"}
  /\ \E i \in 1..Len(Chain) : i <= pos[c] /\ Chain[i].kind = "cache"

\* Nothing that c produced is in a cache or on disk.
NotStored(c) ==
  \A s \in Slots : /\ store[s] # None => store[s].response.call # c
                   /\ disk[s] # None => disk[s].response.call # c

EpochsAgree ==
  \A s \in Slots :
    (disk[s] # None /\ store[s] # None /\ store[s].response = disk[s].response)
      => store[s].epoch = disk[s].epoch

\* A call that may still store has not stored yet: two entries with the same
\* response are the same entry, and have the same epoch.
DiskInv == EpochsAgree /\ \A c \in Calls : MayStore(c) => NotStored(c)

LEMMA UnproducedIsNotStored ==
  ASSUME Provenance, DiskProvenance, NEW c, c \notin produced
  PROVE  NotStored(c)
  BY DEF Provenance, SlotProvenance, DiskProvenance, NotStored

\* A call on the way back does not go forwards again, and only Insert stores.
LEMMA BackwardSteps ==
  ASSUME Typed, NEW c \in Calls, Receive(c) \/ CallStep(c) \/ Cancel(c)
  PROVE  /\ pc'[c] \in {"response", "store"} =>
              \/ pc[c] \in EarlySteps
              \/ pc[c] \in {"response", "store"} /\ pos'[c] <= pos[c]
         /\ Insert(c) \/ store' = store
<1> USE ChainIsTyped DEF Typed, TypeOK, Goto, Respond, Miss, OnRequest, OnResponse, At,
        Unwinding, context
<1>1. CASE \/ Receive(c) \/ BodyCollected(c) \/ BodyFails(c) \/ Skip(c) \/ Block(c)
           \/ LookupMisses(c) \/ LookupErrs(c) \/ LookupFinds(c) \/ Hit(c) \/ StaleHit(c)
           \/ ForwardSends(c) \/ ForwardHasNoTarget(c) \/ OriginAnswers(c) \/ OriginFails(c)
           \/ ChainExhausted(c) \/ Cancel(c)
  BY <1>1 DEF Receive, BodyCollected, BodyFails, Skip, Block, LookupMisses, LookupErrs,
              LookupFinds, Hit, StaleHit, ForwardSends, ForwardHasNoTarget, OriginAnswers,
              OriginFails, ChainExhausted, Cancel, EarlySteps
<1>2. CASE \/ PassBack(c) \/ AddHeader(c) \/ AddHeaderPanics(c) \/ ReplaceBody(c)
           \/ ReplaceBodyPanics(c) \/ ConditionPanics(c)
           \/ ServeStale(c) \/ Stamp(c) \/ LeaveCacheAlone(c) \/ Finish(c)
  BY <1>2 DEF PassBack, AddHeader, AddHeaderPanics, ReplaceBody, ReplaceBodyPanics,
              ConditionPanics, ServeStale, Stamp, LeaveCacheAlone, Finish
<1>3. CASE Insert(c)
  BY <1>3 DEF Insert, Grounded, HoldsEntry
<1> QED
  BY <1>1, <1>2, <1>3 DEF CallStep

LEMMA CallKeepsDisk ==
  ASSUME SingleCache, ServerTyped, Provenance, DiskProvenance, OwnContext, DiskInv,
         NEW c \in Calls, Receive(c) \/ CallStep(c) \/ Cancel(c), disk' = disk
  PROVE  DiskInv'
<1>1. \A d \in Calls \ {c} : pc'[d] = pc[d] /\ pos'[d] = pos[d]
  BY StepsAreLocal DEF ServerTyped, StepOf
<1>2. CASE store' = store
  <2>1. MayStore(c)' => NotStored(c)
    <3>1. CASE pc[c] \in EarlySteps
      BY <3>1, UnproducedIsNotStored DEF Provenance, CallProvenance, NoResponseYet
    <3>2. CASE pc[c] \in {"response", "store"} /\ pos'[c] <= pos[c]
      <4>1. MayStore(c)' => MayStore(c)
        BY <3>2, TypedNext, ChainIsTyped DEF MayStore, ServerTyped, Typed, TypeOK, Places, Next
      <4> QED BY <4>1 DEF DiskInv
    <3> QED BY <3>1, <3>2, BackwardSteps DEF MayStore, ServerTyped
  <2>2. \A d \in Calls : MayStore(d)' => NotStored(d)
    BY <1>1, <2>1 DEF MayStore, DiskInv
  <2>3. \A d \in Calls : NotStored(d)' <=> NotStored(d)
    BY <1>2 DEF NotStored
  <2> QED BY <1>2, <2>2, <2>3 DEF DiskInv, EpochsAgree
<1>3. CASE Insert(c)
  <2> DEFINE k == Slot(Current(c).cache, request[c])
  <2>1. /\ pc[c] = "store" /\ store' = [store EXCEPT ![k] = held[c]]
        /\ pc'[c] = "response" /\ pos'[c] = pos[c] - 1
        /\ pos[c] \in 1..Len(Chain) /\ Chain[pos[c]].kind = "cache"
    BY <1>3 DEF Insert, Goto, ServerTyped, Typed, TypeOK, Grounded, HoldsEntry, Current
  <2>2. held[c].response.call = c
    BY <2>1, HeldIsOwn DEF ServerTyped
  <2>3. NotStored(c)
    BY <2>1, ChainIsTyped DEF DiskInv, MayStore
  <2>4. ~MayStore(c)'
    BY <2>1, ChainIsTyped DEF MayStore, SingleCache
  <2>5. \A s \in Slots : store'[s] = IF s = k THEN held[c] ELSE store[s]
    BY <2>1 DEF ServerTyped, Typed, TypeOK
  <2>6. \A d \in Calls : MayStore(d)' => NotStored(d)'
    BY <1>1, <2>2, <2>4, <2>5 DEF DiskInv, MayStore, NotStored
  <2>7. EpochsAgree'
    BY <2>2, <2>3, <2>5 DEF EpochsAgree, DiskInv, NotStored
  <2> QED BY <2>6, <2>7 DEF DiskInv
<1> QED
  BY <1>2, <1>3, BackwardSteps DEF ServerTyped

LEMMA DiskNext ==
  ASSUME SingleCache, ServerTyped, Provenance, DiskProvenance, OwnContext, DiskInv,
         [ServerNext]_allVars
  PROVE  DiskInv'
<1> USE DEF ServerTyped, ServerTypeOK, TypeOK
<1>1. ASSUME UNCHANGED <<pc, pos>>,
             \A s \in Slots : /\ store'[s] \in {store[s], disk[s], None}
                              /\ disk'[s] \in {disk[s], None}
      PROVE  DiskInv'
  BY <1>1 DEF DiskInv, EpochsAgree, MayStore, NotStored
<1>2. ASSUME NEW s \in Slots, Write(s) PROVE DiskInv'
  BY <1>2 DEF Write, vars, DiskInv, EpochsAgree, MayStore, NotStored
<1>3. CASE Start
  BY <1>1, <1>3 DEF Start, Recovered
<1>4. CASE \E s \in Slots : Reload(s)
  BY <1>1, <1>4 DEF Reload, serverVars
<1>5. CASE \/ LoopPanics \/ Exit \/ Environment \/ Stopped \/ UNCHANGED allVars
           \/ \E k \in Connections : Accept(k)
           \/ \E c \in Calls : Observe(c)
  BY <1>1, <1>5 DEF LoopPanics, Exit, Environment, Evict, Tick, SetClockBack, Stopped, Accept,
                    Observe, allVars, serverVars, vars, context
<1>6. ASSUME NEW k \in Connections, Disconnect(k) \/ DropConnection(k) PROVE DiskInv'
  BY <1>1, <1>6, CallKeepsDisk DEF Disconnect, DropConnection, LeavesCalls, vars
<1>7. ASSUME NEW c \in Calls,
             \/ CallMoves(c) /\ ~Observe(c)
             \/ CancelStream(c)
             \/ \E k \in Connections : Request(c, k)
      PROVE  DiskInv'
  <2>1. disk' = disk /\ (Receive(c) \/ CallStep(c) \/ Cancel(c))
    BY <1>7 DEF CallMoves, Proceed, Panic, Answer, Fail, CancelStream, Request, CallStep, serverVars
  <2> QED BY <2>1, CallKeepsDisk
<1> QED
  BY <1>2, <1>3, <1>4, <1>5, <1>6, <1>7 DEF ServerNext

LEMMA ServerOwnContextNext ==
  ASSUME SingleCache
  PROVE  Sourced /\ OwnContext /\ [ServerNext]_allVars => OwnContext'
<1>1. OwnContext /\ StoreMoves => OwnContext'
  BY DEF StoreMoves, OwnContext, ContextIsOwn, context
<1> QED
  BY <1>1, OwnContextNext, PipelineSteps DEF Sourced, ServerTyped

LEMMA DiskInit == ServerInit => OwnContext /\ DiskInv
  BY OwnContextInit DEF ServerInit, Init, DiskInv, EpochsAgree, MayStore

LEMMA DiskInvNext ==
  ASSUME SingleCache
  PROVE  Sourced /\ OwnContext /\ DiskInv /\ [ServerNext]_allVars => DiskInv'
  BY DiskNext DEF Sourced

\* What is on disk was produced for its key, and an entry has the same epoch
\* in memory and on disk: a restart does not make an expired entry fresh.
THEOREM DiskHolds ==
  ASSUME SingleCache
  PROVE  ServerSpec => []DiskIsTrue
<1>1. Sourced /\ DiskInv => DiskIsTrue
  BY DEF Sourced, DiskInv, DiskProvenance, EpochsAgree, DiskIsTrue
<1> QED
  BY <1>1, DiskInit, ServerOwnContextNext, DiskInvNext, SourcedInit, SourcedNext, PTL
     DEF ServerSpec

\* After a restart too, a cache stores only what the call fetched itself.
THEOREM StoredStaysOwn ==
  ASSUME SingleCache
  PROVE  ServerSpec => []StoredIsOwn
<1>1. Sourced /\ OwnContext => StoredIsOwn
  BY HeldIsOwn DEF Sourced, ServerTyped, StoredIsOwn
<1> QED
  BY <1>1, DiskInit, ServerOwnContextNext, SourcedInit, SourcedNext, PTL DEF ServerSpec
-----------------------------------------------------------------------------
(* What a call may rely on through connections, panics and restarts.       *)

\* On a chain with one cache a response that its condition accepts is not
\* replaced by the expired one, also if that one came from the disk.
THEOREM FreshResponseStaysKept ==
  ASSUME SingleCache
  PROVE  ServerSpec => FreshResponseKept
<1>1. Sourced /\ OwnContext /\ [ServerNext]_allVars =>
        [\A c \in Calls :
           (cacheStatus[c] # "stale" /\ cacheStatus'[c] = "stale") =>
             \/ response[c] = None
             \/ ~AppliesToResponse(Chain[staleFrom[c]], request[c], response[c])]_vars
  <2> SUFFICES ASSUME Sourced, OwnContext, [ServerNext]_allVars, NEW c \in Calls,
                      cacheStatus[c] # "stale", cacheStatus'[c] = "stale"
               PROVE  \/ response[c] = None
                      \/ ~AppliesToResponse(Chain[staleFrom[c]], request[c], response[c])
    OBVIOUS
  <2>1. ~StoreMoves
    BY DEF StoreMoves, context
  <2> QED
    BY <2>1, PipelineSteps, StaleStep DEF Sourced, ServerTyped
<1> QED
  BY <1>1, DiskInit, ServerOwnContextNext, SourcedInit, SourcedNext, PTL
     DEF ServerSpec, FreshResponseKept

\* On a chain with one cache a miss fills the cache with the response, if its
\* condition accepts it, whatever else happens to the server meanwhile.
THEOREM MissesStillFillCache ==
  ASSUME SingleCache
  PROVE  ServerSpec => MissFillsCache
<1>1. Sourced /\ OwnContext /\ [ServerNext]_allVars =>
        [\A c \in Calls :
           (/\ OnResponse(c, "cache") /\ pos[c] \in missed[c] /\ Current(c).cache \in Caches
            /\ response[c] # None /\ WhenApplies(c)
            /\ <<pc[c], pos[c]>>' # <<pc[c], pos[c]>>)
           => pc'[c] = "store"]_vars
  <2> SUFFICES ASSUME Sourced, OwnContext, [ServerNext]_allVars, NEW c \in Calls,
                      OnResponse(c, "cache"), pos[c] \in missed[c], Current(c).cache \in Caches,
                      response[c] # None, WhenApplies(c), <<pc[c], pos[c]>>' # <<pc[c], pos[c]>>
               PROVE  pc'[c] = "store"
    OBVIOUS
  <2>1. ~StoreMoves
    BY DEF StoreMoves
  <2> QED
    BY <2>1, PipelineSteps, FillingStep DEF Sourced, ServerTyped
<1> QED
  BY <1>1, DiskInit, ServerOwnContextNext, SourcedInit, SourcedNext, PTL
     DEF ServerSpec, MissFillsCache

\* If no status test is negated, what is stored, and survives a restart on
\* disk, is looked up by the next request like it.
THEOREM StoredAreStillLookedUp ==
  ASSUME StatusNotNegated
  PROVE  ServerSpec => StoredIsLookedUp
<1>1. Sourced /\ [ServerNext]_allVars =>
        [\A c \in Calls :
           (pc[c] = "response" /\ pc'[c] = "store") => Applies(Current(c), request[c])]_vars
  <2> SUFFICES ASSUME Sourced, [ServerNext]_allVars, NEW c \in Calls,
                      pc[c] = "response", pc'[c] = "store"
               PROVE  Applies(Current(c), request[c])
    OBVIOUS
  <2>1. ~StoreMoves
    BY DEF StoreMoves
  <2> QED
    BY <2>1, PipelineSteps, StoringStep DEF Sourced, ServerTyped
<1> QED
  BY <1>1, SourcedInit, SourcedNext, PTL DEF ServerSpec, StoredIsLookedUp

\* On a chain that adds the header in front of all that may respond, the
\* header of every answer shows the status of this call, or the name of the
\* variable if no cache was asked, and tells whose answer it is, also if its
\* response comes from an entry of an earlier process.
THEOREM HeaderStillShowsStatus ==
  ASSUME ShownInFront
  PROVE  ServerSpec => []HeaderTellsStatus
<1>1. PICK h \in 1..Len(Chain) : IsInFront(h)
  BY DEF ShownInFront, IsInFront
<1>2. Sourced /\ Shows(h) => HeaderTellsStatus
  BY HeaderIsShown DEF Sourced, ServerTyped
<1>3. ServerInit => Shows(h)
  BY ShowsInit DEF ServerInit
<1>4. Sourced /\ Shows(h) /\ [ServerNext]_allVars => Shows(h)'
  <2>1. Shows(h) /\ StoreMoves => Shows(h)'
    BY DEF StoreMoves, Shows, ShowsFrom, StatusShown, context
  <2> QED
    BY <1>1, <2>1, ShowsNext, PipelineSteps DEF Sourced, ServerTyped
<1> QED
  BY <1>2, <1>3, <1>4, SourcedInit, SourcedNext, PTL DEF ServerSpec
=============================================================================
