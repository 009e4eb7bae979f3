--------------------------- MODULE PipelineProofs ---------------------------
(***************************************************************************)
(* Theorems about the read-through path, for every chain of middlewares,   *)
(* every number of calls and every set of caches, requests and responses.  *)
(***************************************************************************)
EXTENDS PipelineProperties, TLAPS

LEMMA ChainIsTyped ==
  /\ Len(Chain) \in Nat
  /\ \A i \in 1..Len(Chain) :
       Chain[i].status \in Statuses /\ Chain[i].when \in ConditionIds \union {None}
<1> DEFINE Mws == [kind: Kinds, when: ConditionIds \union {None}, cache: STRING,
                   status: Statuses, target: BOOLEAN, legal: BOOLEAN]
<1>1. Chain \in Seq(Mws)
  BY ChainAssumption
<1>2. Len(Chain) \in Nat /\ \A i \in 1..Len(Chain) : Chain[i] \in Mws
  <2> HIDE DEF Mws
  <2> QED BY <1>1
<1> QED
  BY <1>2

LEMMA PlacesAround ==
  /\ {0, 1, Len(Chain)} \subseteq Places
  /\ \A i \in 1..Len(Chain) : {i - 1, i, i + 1} \subseteq Places
  BY ChainIsTyped DEF Places

\* A handler that edits a response leaves a response, of the same call.
LEMMA EditedResponse ==
  ASSUME NEW r \in Responses
  PROVE  /\ \A l \in Shown : /\ [r EXCEPT !.header = l] \in Responses
                            /\ [r EXCEPT !.header = l].call = r.call
         /\ [r EXCEPT !.body = "rewritten"] \in Responses
         /\ [r EXCEPT !.body = "rewritten"].call = r.call
  BY DEF Responses, Bodies

\* What add_header puts in place of the variable, or leaves.
StatusShown(c) == IF cacheStatus[c] = "na" THEN "$cache_status" ELSE cacheStatus[c]

\* What the types rest on: a call knows its request once it has started, and
\* a handler that holds an entry is that of a configured cache.
Grounded == \A c \in Calls :
  /\ pc[c] # "new" => request[c] # None
  /\ pc[c] \in {"found", "store"} => HoldsEntry(c)

Typed == TypeOK /\ Grounded

LEMMA TypedInit == Init => Typed
  BY ChainIsTyped, ClockAssumption
     DEF Init, Typed, TypeOK, Grounded, Steps, Ended, Labels, Epochs, Places

LEMMA TypedNext == Typed /\ [Next]_vars => Typed'
<1> SUFFICES ASSUME Typed, [Next]_vars PROVE Typed'
  OBVIOUS
<1> USE ChainIsTyped, PlacesAround, ValueAssumption
<1> USE DEF Typed, TypeOK, Grounded, HoldsEntry, Goto, Respond, Miss, OnRequest, OnResponse, At,
            context, Current, Steps, Ended
<1>1. ASSUME NEW c \in Calls, Receive(c) PROVE Typed'
  BY <1>1 DEF Receive
<1>2. ASSUME NEW c \in Calls, BodyCollected(c) PROVE Typed'
  BY <1>2 DEF BodyCollected
<1>3. ASSUME NEW c \in Calls, BodyFails(c) PROVE Typed'
  BY <1>3 DEF BodyFails
<1>4. ASSUME NEW c \in Calls, Skip(c) PROVE Typed'
  BY <1>4 DEF Skip
<1>5. ASSUME NEW c \in Calls, Block(c) PROVE Typed'
  BY <1>5 DEF Block, Responses, Bodies
<1>6. ASSUME NEW c \in Calls, LookupMisses(c) PROVE Typed'
  BY <1>6 DEF LookupMisses, Labels
<1>7. ASSUME NEW c \in Calls, LookupErrs(c) PROVE Typed'
  BY <1>7 DEF LookupErrs, Labels
<1>8. ASSUME NEW c \in Calls, LookupFinds(c) PROVE Typed'
  BY <1>8 DEF LookupFinds, Slots
<1>9. ASSUME NEW c \in Calls, Hit(c) PROVE Typed'
  BY <1>9 DEF Hit, Entries, Labels
<1>10. ASSUME NEW c \in Calls, StaleHit(c) PROVE Typed'
  BY <1>10 DEF StaleHit, Entries, Labels
<1>11. ASSUME NEW c \in Calls, ForwardSends(c) PROVE Typed'
  BY <1>11 DEF ForwardSends
<1>12. ASSUME NEW c \in Calls, ForwardHasNoTarget(c) PROVE Typed'
  BY <1>12 DEF ForwardHasNoTarget
<1>13. ASSUME NEW c \in Calls, OriginAnswers(c) PROVE Typed'
  BY <1>13 DEF OriginAnswers, Responses
<1>14. ASSUME NEW c \in Calls, OriginFails(c) PROVE Typed'
  BY <1>14 DEF OriginFails
<1>15. ASSUME NEW c \in Calls, ChainExhausted(c) PROVE Typed'
  BY <1>15 DEF ChainExhausted
<1>16. ASSUME NEW c \in Calls, PassBack(c) PROVE Typed'
  BY <1>16 DEF PassBack
<1>17. ASSUME NEW c \in Calls, AddHeader(c) PROVE Typed'
  <2>1. /\ response' = [response EXCEPT ![c] = [response[c] EXCEPT !.header = StatusShown(c)]]
        /\ response[c] \in Responses /\ StatusShown(c) \in Shown
    BY <1>17 DEF AddHeader, StatusShown, Shown, Labels
  <2>2. [response[c] EXCEPT !.header = StatusShown(c)] \in Responses
    BY <2>1, EditedResponse
  <2>3. response' \in [Calls -> Responses \union {None}]
    BY <2>1, <2>2
  <2> QED BY <1>17, <2>3 DEF AddHeader
<1>18. ASSUME NEW c \in Calls, ReplaceBody(c) PROVE Typed'
  <2>1. /\ response' = [response EXCEPT ![c] = [response[c] EXCEPT !.body = "rewritten"]]
        /\ response[c] \in Responses
    BY <1>18 DEF ReplaceBody
  <2>2. response' \in [Calls -> Responses \union {None}]
    BY <2>1, EditedResponse
  <2> QED BY <1>18, <2>2 DEF ReplaceBody
<1>19. ASSUME NEW c \in Calls, AddHeaderPanics(c) \/ ReplaceBodyPanics(c) PROVE Typed'
  BY <1>19 DEF AddHeaderPanics, ReplaceBodyPanics
<1>29. ASSUME NEW c \in Calls, ConditionPanics(c) PROVE Typed'
  BY <1>29 DEF ConditionPanics, Unwinding
<1>20. ASSUME NEW c \in Calls, ServeStale(c) PROVE Typed'
  BY <1>20 DEF ServeStale, Labels
<1>21. ASSUME NEW c \in Calls, Stamp(c) PROVE Typed'
  BY <1>21 DEF Stamp, Stores, Entries
<1>22. ASSUME NEW c \in Calls, Insert(c) PROVE Typed'
  BY <1>22 DEF Insert
<1>23. ASSUME NEW c \in Calls, LeaveCacheAlone(c) PROVE Typed'
  BY <1>23 DEF LeaveCacheAlone
<1>24. ASSUME NEW c \in Calls, Finish(c) PROVE Typed'
  BY <1>24 DEF Finish
<1>25. ASSUME NEW c \in Calls, Cancel(c) PROVE Typed'
  BY <1>25 DEF Cancel
<1>26. ASSUME NEW s \in Slots, Evict(s) PROVE Typed'
  BY <1>26 DEF Evict
<1>27. CASE Tick \/ SetClockBack
  BY <1>27, ClockAssumption DEF Tick, SetClockBack, Epochs
<1>28. CASE UNCHANGED vars
  BY <1>28 DEF vars
<1> QED
  BY <1>1, <1>2, <1>3, <1>4, <1>5, <1>6, <1>7, <1>8, <1>9, <1>10, <1>11, <1>12, <1>13, <1>14,
     <1>15, <1>16, <1>17, <1>18, <1>19, <1>20, <1>21, <1>22, <1>23, <1>24, <1>25, <1>26, <1>27,
     <1>28, <1>29 DEF Next, CallStep, Quiescent

\* Every variable keeps to its type, whatever the chain.
THEOREM TypeCorrect == Spec => []TypeOK
<1>1. Typed => TypeOK
  BY DEF Typed
<1> QED
  BY TypedInit, TypedNext, <1>1, PTL DEF Spec
-----------------------------------------------------------------------------
(* Provenance.  A step of call c touches only what belongs to c, and the   *)
(* caches in one action; what is left is one fact per action about c.      *)

\* A step of call c: the other calls stay as they are, and the requests for
\* which something was produced are not touched.
StepOf(c) ==
  /\ \A d \in Calls \ {c} :
       /\ pc'[d] = pc[d] /\ pos'[d] = pos[d] /\ request'[d] = request[d]
       /\ response'[d] = response[d] /\ cacheStatus'[d] = cacheStatus[d]
       /\ staleResponse'[d] = staleResponse[d] /\ held'[d] = held[d]
       /\ missed'[d] = missed[d] /\ staleFrom'[d] = staleFrom[d]
  /\ produced \subseteq produced' /\ produced' \subseteq produced \union {c}
  /\ \A d \in produced : request'[d] = request[d]

LEMMA StepsAreLocal ==
  ASSUME Typed, Provenance, NEW c \in Calls, Receive(c) \/ CallStep(c) \/ Cancel(c)
  PROVE  StepOf(c)
<1> USE DEF Typed, TypeOK, StepOf, Goto, Respond, Miss, context
<1>1. c \in produced => pc[c] # "new"
  BY DEF Provenance, CallProvenance, NoResponseYet, EarlySteps
<1>2. CASE Receive(c)
  BY <1>1, <1>2 DEF Receive
<1>3. CASE BodyCollected(c)
  BY <1>3 DEF BodyCollected
<1>4. CASE BodyFails(c)
  BY <1>4 DEF BodyFails
<1>5. CASE Skip(c)
  BY <1>5 DEF Skip
<1>6. CASE Block(c)
  BY <1>6 DEF Block
<1>7. CASE LookupMisses(c)
  BY <1>7 DEF LookupMisses
<1>8. CASE LookupErrs(c)
  BY <1>8 DEF LookupErrs
<1>9. CASE LookupFinds(c)
  BY <1>9 DEF LookupFinds
<1>10. CASE Hit(c)
  BY <1>10 DEF Hit
<1>11. CASE StaleHit(c)
  BY <1>11 DEF StaleHit
<1>12. CASE ForwardSends(c)
  BY <1>12 DEF ForwardSends
<1>13. CASE ForwardHasNoTarget(c)
  BY <1>13 DEF ForwardHasNoTarget
<1>14. CASE OriginAnswers(c)
  BY <1>14 DEF OriginAnswers
<1>15. CASE OriginFails(c)
  BY <1>15 DEF OriginFails
<1>16. CASE ChainExhausted(c)
  BY <1>16 DEF ChainExhausted
<1>17. CASE PassBack(c)
  BY <1>17 DEF PassBack
<1>18. CASE AddHeader(c)
  BY <1>18 DEF AddHeader
<1>19. CASE ReplaceBody(c)
  BY <1>19 DEF ReplaceBody
<1>20. CASE AddHeaderPanics(c) \/ ReplaceBodyPanics(c) \/ ConditionPanics(c)
  BY <1>20 DEF AddHeaderPanics, ReplaceBodyPanics, ConditionPanics
<1>21. CASE ServeStale(c)
  BY <1>21 DEF ServeStale
<1>22. CASE Stamp(c)
  BY <1>22 DEF Stamp
<1>23. CASE Insert(c)
  BY <1>23 DEF Insert
<1>24. CASE LeaveCacheAlone(c)
  BY <1>24 DEF LeaveCacheAlone
<1>25. CASE Finish(c)
  BY <1>25 DEF Finish
<1>26. CASE Cancel(c)
  BY <1>26 DEF Cancel
<1> QED
  BY <1>2, <1>3, <1>4, <1>5, <1>6, <1>7, <1>8, <1>9, <1>10, <1>11, <1>12, <1>13, <1>14,
     <1>15, <1>16, <1>17, <1>18, <1>19, <1>20, <1>21, <1>22, <1>23, <1>24, <1>25, <1>26
     DEF CallStep

LEMMA OthersKeepProvenance ==
  ASSUME Typed, Provenance, NEW c \in Calls, StepOf(c)
  PROVE  /\ \A d \in Calls \ {c} : CallProvenance(d)'
         /\ store' = store => \A s \in Slots : SlotProvenance(s)'
<1>1. ASSUME NEW resp, NEW d \in Calls, ComesFrom(resp, d), request'[d] = request[d]
      PROVE  ComesFrom(resp, d)'
  BY <1>1 DEF ComesFrom, SameResource, StepOf
<1>2. ASSUME NEW d \in Calls \ {c} PROVE CallProvenance(d)'
  <2>1. CallProvenance(d)
    BY DEF Provenance
  <2>2. /\ response[d] # None => ComesFrom(response[d], d)'
        /\ staleResponse[d] # None => ComesFrom(staleResponse[d], d)'
        /\ held[d] # None => ComesFrom(held[d].response, d)'
    BY <1>1, <2>1 DEF CallProvenance, StepOf
  <2> QED
    BY <2>1, <2>2 DEF CallProvenance, StepOf, HoldsEntry, Current, NoResponseYet, NotStarted,
                      StatusMatches, ComesFrom
<1>3. ASSUME store' = store, NEW s \in Slots PROVE SlotProvenance(s)'
  BY <1>3 DEF Provenance, SlotProvenance, StepOf
<1> QED
  BY <1>2, <1>3

\* The call that takes the step keeps its provenance too.
LEMMA OwnProvenance ==
  ASSUME Typed, Provenance, NEW c \in Calls, StepOf(c), Receive(c) \/ CallStep(c) \/ Cancel(c)
  PROVE  CallProvenance(c)'
<1>1. CallProvenance(c)
  BY DEF Provenance
<1>2. ASSUME NEW resp, ComesFrom(resp, c), request'[c] = request[c]
      PROVE  ComesFrom(resp, c)'
  BY <1>2 DEF ComesFrom, SameResource, StepOf
<1> USE <1>1 DEF Typed, TypeOK, Grounded, CallProvenance, HoldsEntry, NoResponseYet, NotStarted,
            StatusMatches, EarlySteps, Goto, Respond, Miss, OnRequest, OnResponse, At, Current, context
<1>3. CASE Receive(c)
  BY <1>2, <1>3, ValueAssumption DEF Receive
<1>4. CASE BodyCollected(c)
  BY <1>2, <1>4 DEF BodyCollected
<1>5. CASE BodyFails(c)
  BY <1>2, <1>5 DEF BodyFails
<1>6. CASE Skip(c)
  BY <1>2, <1>6 DEF Skip
<1>7. CASE Block(c)
  <2>1. response'[c].call = c /\ c \in produced' /\ request'[c] = request[c]
    BY <1>7 DEF Block
  <2>2. ComesFrom(response[c], c)'
    BY <2>1 DEF ComesFrom, SameResource
  <2> QED BY <1>2, <1>7, <2>1, <2>2 DEF Block
<1>8. CASE LookupMisses(c)
  BY <1>2, <1>8 DEF LookupMisses
<1>9. CASE LookupErrs(c)
  BY <1>2, <1>9 DEF LookupErrs
<1>10. CASE LookupFinds(c)
  <2> DEFINE s == Slot(Current(c).cache, request[c])
  <2>1. s \in Slots /\ store[s] # None /\ held'[c] = store[s] /\ request' = request
    BY <1>10 DEF LookupFinds, Slots
  <2>2. ComesFrom(store[s].response, c)
    <3>1. SlotProvenance(s)
      BY <2>1 DEF Provenance
    <3>2. \A p \in CommonParts : s[2][p] = request[c][p]
      BY <1>10 DEF LookupFinds, Slot, KeyOf, CommonParts
    <3> QED BY <2>1, <3>1, <3>2 DEF SlotProvenance, ComesFrom, SameResource
  <2>3. ComesFrom(held[c].response, c)'
    BY <1>2, <2>1, <2>2 DEF ComesFrom
  <2> QED BY <1>2, <1>10, <2>1, <2>3 DEF LookupFinds
<1>11. CASE Hit(c)
  <2>1. response'[c] = held[c].response /\ request' = request
    BY <1>11 DEF Hit
  <2>2. ComesFrom(held[c].response, c)
    BY <1>11 DEF Hit
  <2>3. ComesFrom(response[c], c)'
    BY <1>2, <2>1, <2>2 DEF ComesFrom
  <2>4. held[c].response.call # c
    BY <1>11, <2>2 DEF Hit, ComesFrom
  <2> QED BY <1>2, <1>11, <2>1, <2>3, <2>4 DEF Hit
<1>12. CASE StaleHit(c)
  <2>1. staleResponse'[c] = held[c].response /\ request' = request
    BY <1>12 DEF StaleHit
  <2>2. ComesFrom(held[c].response, c)
    BY <1>12 DEF StaleHit
  <2>3. ComesFrom(staleResponse[c], c)'
    BY <1>2, <2>1, <2>2 DEF ComesFrom
  <2>4. held[c].response.call # c
    BY <1>12, <2>2 DEF StaleHit, ComesFrom
  <2> QED BY <1>2, <1>12, <2>1, <2>3, <2>4 DEF StaleHit
<1>13. CASE ForwardSends(c)
  BY <1>2, <1>13 DEF ForwardSends
<1>14. CASE ForwardHasNoTarget(c)
  BY <1>2, <1>14 DEF ForwardHasNoTarget
<1>15. CASE OriginAnswers(c)
  <2>1. response'[c].call = c /\ c \in produced' /\ request'[c] = request[c]
    BY <1>15 DEF OriginAnswers
  <2>2. ComesFrom(response[c], c)'
    BY <2>1 DEF ComesFrom, SameResource
  <2> QED BY <1>2, <1>15, <2>1, <2>2 DEF OriginAnswers
<1>16. CASE OriginFails(c)
  BY <1>2, <1>16 DEF OriginFails
<1>17. CASE ChainExhausted(c)
  BY <1>2, <1>17 DEF ChainExhausted
<1>18. CASE PassBack(c)
  BY <1>2, <1>18 DEF PassBack
<1>19. CASE AddHeader(c)
  <2>1. /\ response[c] \in Responses /\ StatusShown(c) \in Shown /\ request' = request
        /\ response'[c] = [response[c] EXCEPT !.header = StatusShown(c)]
    BY <1>19 DEF AddHeader, StatusShown, Shown, Labels
  <2>2. response'[c].call = response[c].call
    BY <2>1, EditedResponse
  <2>3. ComesFrom(response[c], c)'
    BY <1>2, <2>1, <2>2, <1>19 DEF ComesFrom, AddHeader
  <2> QED BY <1>2, <1>19, <2>1, <2>2, <2>3 DEF AddHeader
<1>20. CASE ReplaceBody(c)
  <2>1. /\ response[c] \in Responses /\ cacheStatus[c] \in Labels /\ request' = request
        /\ response'[c] = [response[c] EXCEPT !.body = "rewritten"]
    BY <1>20 DEF ReplaceBody
  <2>2. response'[c].call = response[c].call
    BY <2>1, EditedResponse
  <2>3. ComesFrom(response[c], c)'
    BY <1>2, <2>1, <2>2, <1>20 DEF ComesFrom, ReplaceBody
  <2> QED BY <1>2, <1>20, <2>1, <2>2, <2>3 DEF ReplaceBody
<1>21. CASE AddHeaderPanics(c) \/ ReplaceBodyPanics(c) \/ ConditionPanics(c)
  BY <1>2, <1>21 DEF AddHeaderPanics, ReplaceBodyPanics, ConditionPanics, Unwinding
<1>22. CASE ServeStale(c)
  BY <1>2, <1>22 DEF ServeStale
<1>23. CASE Stamp(c)
  <2>1. held'[c].response = response[c] /\ response' = response /\ request' = request
    BY <1>23 DEF Stamp
  <2>2. ComesFrom(held[c].response, c)'
    BY <1>2, <2>1, <1>23 DEF ComesFrom, Stamp, Stores
  <2> QED BY <1>2, <1>23, <2>1, <2>2, ValueAssumption DEF Stamp, Stores, Entries
<1>24. CASE Insert(c)
  BY <1>2, <1>24 DEF Insert
<1>25. CASE LeaveCacheAlone(c)
  BY <1>2, <1>25 DEF LeaveCacheAlone
<1>26. CASE Finish(c)
  BY <1>2, <1>26 DEF Finish
<1>27. CASE Cancel(c)
  BY <1>2, <1>27 DEF Cancel
<1> QED
  BY <1>3, <1>4, <1>5, <1>6, <1>7, <1>8, <1>9, <1>10, <1>11, <1>12, <1>13, <1>14, <1>15, <1>16,
     <1>17, <1>18, <1>19, <1>20, <1>21, <1>22, <1>23, <1>24, <1>25, <1>26, <1>27
     DEF CallStep

\* The caches keep it: only Insert puts something in, under the call's own key.
LEMMA SlotsKeepProvenance ==
  ASSUME Typed, Provenance, NEW c \in Calls, StepOf(c), Receive(c) \/ CallStep(c) \/ Cancel(c)
  PROVE  \A s \in Slots : SlotProvenance(s)'
<1>1. CASE Insert(c)
  <2> DEFINE k == Slot(Current(c).cache, request[c])
  <2>1. store' = [store EXCEPT ![k] = held[c]] /\ request' = request /\ produced' = produced
    BY <1>1 DEF Insert
  <2>2. CallProvenance(c) /\ pc[c] = "store"
    BY <1>1 DEF Provenance, Insert
  <2>3. ComesFrom(held[c].response, c) /\ Current(c).cache \in Caches
    BY <2>2 DEF CallProvenance, HoldsEntry
  <2>4. \A p \in CommonParts : k[2][p] = request[c][p]
    BY <2>3 DEF Slot, KeyOf, CommonParts
  <2>5. ASSUME NEW s \in Slots, s = k PROVE SlotProvenance(s)'
    <3>1. store'[s] = held[c]
      BY <2>1, <2>5 DEF Typed, TypeOK
    <3> QED BY <2>1, <2>3, <2>4, <2>5, <3>1 DEF SlotProvenance, ComesFrom, SameResource
  <2>6. ASSUME NEW s \in Slots, s # k PROVE SlotProvenance(s)'
    <3>1. store'[s] = store[s]
      BY <2>1, <2>6 DEF Typed, TypeOK
    <3> QED BY <2>1, <3>1 DEF SlotProvenance, Provenance
  <2> QED BY <2>5, <2>6
<1>2. CASE ~Insert(c)
  <2>1. store' = store
    BY <1>2 DEF CallStep, Receive, BodyCollected, BodyFails, Skip, Block, LookupMisses,
                LookupErrs, LookupFinds, Hit, StaleHit, ForwardSends, ForwardHasNoTarget,
                OriginAnswers, OriginFails, ChainExhausted, PassBack, AddHeader, AddHeaderPanics, ReplaceBody,
                ReplaceBodyPanics, ConditionPanics, ServeStale, Stamp, LeaveCacheAlone, Finish, Cancel,
                Goto, Respond, Miss, context
  <2> QED BY <2>1, OthersKeepProvenance
<1> QED
  BY <1>1, <1>2

LEMMA ProvenanceInit == Init => Provenance
  BY DEF Init, Provenance, CallProvenance, SlotProvenance, EarlySteps, NoResponseYet, NotStarted

LEMMA ProvenanceNext == Typed /\ Provenance /\ [Next]_vars => Provenance'
<1> SUFFICES ASSUME Typed, Provenance, [Next]_vars PROVE Provenance'
  OBVIOUS
<1>1. ASSUME NEW c \in Calls, Receive(c) \/ CallStep(c) \/ Cancel(c) PROVE Provenance'
  <2>1. StepOf(c)
    BY <1>1, StepsAreLocal
  <2>2. \A d \in Calls : CallProvenance(d)'
    BY <1>1, <2>1, OwnProvenance, OthersKeepProvenance
  <2>3. \A s \in Slots : SlotProvenance(s)'
    BY <1>1, <2>1, SlotsKeepProvenance
  <2> QED BY <2>2, <2>3 DEF Provenance
<1>2. CASE \/ \E s \in Slots : Evict(s)
           \/ Tick \/ SetClockBack \/ UNCHANGED vars
  <2>1. /\ UNCHANGED <<pc, pos, request, response, context, held, produced>>
        /\ \A s \in Slots : store'[s] \in {store[s], None}
    BY <1>2 DEF Evict, Tick, SetClockBack, vars, context, Typed, TypeOK
  <2>2. ASSUME NEW c \in Calls PROVE CallProvenance(c)'
    <3>1. CallProvenance(c)
      BY DEF Provenance
    <3> QED BY <2>1, <3>1 DEF CallProvenance, HoldsEntry, NoResponseYet, NotStarted, ComesFrom,
                              StatusMatches, SameResource, Current, context
  <2>3. ASSUME NEW s \in Slots PROVE SlotProvenance(s)'
    <3>1. SlotProvenance(s)
      BY DEF Provenance
    <3> QED BY <2>1, <3>1 DEF SlotProvenance
  <2> QED BY <2>2, <2>3 DEF Provenance
<1> QED
  BY <1>1, <1>2 DEF Next, Quiescent

\* What every call and every cache holds was produced for the same resource,
\* and no status claims another origin: on every chain of middlewares.
THEOREM ProvenanceHolds == Spec => []Provenance
  BY TypedInit, TypedNext, ProvenanceInit, ProvenanceNext, PTL DEF Spec

\* No call is answered with the content of another resource.
THEOREM IsolationHolds == Spec => []Isolation
<1>1. Provenance => Isolation
  BY DEF Provenance, CallProvenance, ComesFrom, Isolation
<1> QED
  BY ProvenanceHolds, <1>1, PTL

\* The status that labels the metrics and the headers tells the truth.
THEOREM LabelsTellSource == Spec => []LabelTellsSource
<1>1. Provenance => LabelTellsSource
  BY DEF Provenance, CallProvenance, StatusMatches, LabelTellsSource
<1> QED
  BY ProvenanceHolds, <1>1, PTL

\* A response that a handler has in its hands to store is the call's own or a
\* stale one.
LEMMA RestampedIsStale ==
  ASSUME Typed, Provenance
  PROVE  OnlyStaleIsRestamped
<1> SUFFICES ASSUME NEW c \in Calls, pc[c] = "store"
             PROVE  /\ cacheStatus[c] # "hit"
                    /\ held[c].response.call # c <=> cacheStatus[c] = "stale"
  BY DEF OnlyStaleIsRestamped
<1>1. /\ HoldsEntry(c) /\ StatusMatches(c)
      /\ held[c].response = response[c] /\ cacheStatus[c] # "hit"
  BY DEF Provenance, CallProvenance
<1>2. response[c] # None
  BY <1>1, ValueAssumption DEF HoldsEntry, Typed, TypeOK, Entries
<1>3. cacheStatus[c] \in Labels
  BY DEF Typed, TypeOK
<1> QED
  BY <1>1, <1>2, <1>3 DEF StatusMatches, Labels

\* However many caches are stacked, no handler stores a hit of another one, and
\* what it stores of another call's content is a stale response.
THEOREM OnlyStaleRestamped == Spec => []OnlyStaleIsRestamped
<1>1. Typed /\ Provenance => OnlyStaleIsRestamped
  BY RestampedIsStale
<1> QED
  BY <1>1, TypedInit, TypedNext, ProvenanceInit, ProvenanceNext, PTL DEF Spec
-----------------------------------------------------------------------------
(* The pipeline implements ReadThrough.                                    *)

\* The steps that clients do not see.
LEMMA SilentSteps ==
  ASSUME Typed, NEW c \in Calls,
         \/ BodyCollected(c) \/ Skip(c) \/ LookupMisses(c) \/ LookupErrs(c) \/
            LookupFinds(c) \/ Hit(c) \/ StaleHit(c) \/ ForwardSends(c) \/
            ChainExhausted(c) \/ PassBack(c) \/ AddHeader(c) \/ ReplaceBody(c)
            \/ ServeStale(c) \/ Stamp(c) \/ Insert(c) \/ LeaveCacheAlone(c)
  PROVE  UNCHANGED <<request, produced, answerOf>>
<1>1. /\ request' = request /\ produced' = produced
      /\ pc[c] \notin Ended /\ pc'[c] \notin Ended
      /\ \A d \in Calls \ {c} : pc'[d] = pc[d] /\ response'[d] = response[d]
            /\ cacheStatus'[d] = cacheStatus[d]
  BY DEF Typed, TypeOK, Goto, Respond, Miss, OnRequest, OnResponse, At, Ended, context,
         BodyCollected, Skip, LookupMisses, LookupErrs, LookupFinds, Hit, StaleHit,
         ForwardSends, ChainExhausted, PassBack, AddHeader, ReplaceBody, ServeStale, Stamp,
         Insert, LeaveCacheAlone
<1>2. \A d \in Calls : answerOf'[d] = answerOf[d]
  BY <1>1 DEF answerOf, Ended
<1> QED
  BY <1>1, <1>2 DEF answerOf

\* A call that ends without an answer is lost.
LEMMA LostSteps ==
  ASSUME Typed, NEW c \in Calls,
         \/ BodyFails(c) \/ ForwardHasNoTarget(c) \/ OriginFails(c) \/ ReplaceBodyPanics(c)
         \/ AddHeaderPanics(c) \/ ConditionPanics(c) \/ Cancel(c)
         \/ Finish(c) /\ response[c] = None
  PROVE  Promise!Lose(c)
<1>1. /\ request' = request /\ produced' = produced /\ response' = response
      /\ cacheStatus' = cacheStatus
      /\ pc[c] \notin Ended \cup {"new"} /\ pc'[c] \in Ended \ {"answered"}
      /\ \A d \in Calls \ {c} : pc'[d] = pc[d]
  BY DEF Typed, TypeOK, Goto, OnRequest, OnResponse, At, Ended, context, Finish,
         BodyFails, ForwardHasNoTarget, OriginFails, ReplaceBodyPanics, AddHeaderPanics,
         ConditionPanics, Unwinding, Cancel
<1>2. answerOf[c] = Promise!Pending /\ answerOf'[c] = Promise!Lost
  BY <1>1 DEF answerOf, Ended, Promise!Pending, Promise!Lost
<1>3. \A d \in Calls \ {c} : answerOf'[d] = answerOf[d]
  BY <1>1 DEF answerOf, Ended
<1>4. answerOf' = [answerOf EXCEPT ![c] = Promise!Lost]
  BY <1>2, <1>3 DEF answerOf
<1>5. request[c] # None
  BY <1>1 DEF Typed, Grounded
<1> QED
  BY <1>1, <1>2, <1>4, <1>5 DEF Promise!Lose

\* A response is sent: the call's own, or that of an earlier call.
LEMMA AnswerSteps ==
  ASSUME Typed, Provenance, NEW c \in Calls, Finish(c), response[c] # None
  PROVE  Promise!AnswerOwn(c) \/ Promise!AnswerCached(c)
<1> DEFINE d == response[c].call
           l == cacheStatus[c]
<1>1. /\ request' = request /\ produced' = produced /\ response' = response
      /\ cacheStatus' = cacheStatus /\ l \in Labels
      /\ pc[c] = "response" /\ pc'[c] = "answered"
      /\ \A e \in Calls \ {c} : pc'[e] = pc[e]
  BY DEF Typed, TypeOK, Goto, Finish
<1>2. /\ d \in produced /\ SameResource(request[c], request[d])
      /\ d = c <=> l \in {"na", "miss"}
  BY <1>1 DEF Provenance, CallProvenance, ComesFrom, StatusMatches
<1>3. answerOf[c] = Promise!Pending /\ answerOf'[c] = [from |-> d, label |-> l]
  BY <1>1 DEF answerOf, Ended, Promise!Pending
<1>4. \A e \in Calls \ {c} : answerOf'[e] = answerOf[e]
  BY <1>1 DEF answerOf, Ended
<1>5. answerOf' = [answerOf EXCEPT ![c] = [from |-> d, label |-> l]]
  BY <1>3, <1>4 DEF answerOf
<1>6. CASE d = c
  BY <1>1, <1>2, <1>3, <1>5, <1>6 DEF Promise!AnswerOwn
<1>7. CASE d # c
  <2>1. d \in produced \ {c} /\ l \in {"hit", "stale"} /\ request[c] # None
    BY <1>1, <1>2, <1>7 DEF Labels, Typed, Grounded
  <2>2. Promise!SameResource(request[c], request[d])
    BY <1>2 DEF SameResource, Promise!SameResource
  <2> QED BY <1>1, <1>3, <1>5, <2>1, <2>2 DEF Promise!AnswerCached
<1> QED
  BY <1>6, <1>7

LEMMA ReceiveAsks ==
  ASSUME Typed, Provenance, NEW c \in Calls, Receive(c)
  PROVE  Promise!Ask(c)
<1>1. request[c] = None
  BY DEF Provenance, CallProvenance, NotStarted, Receive
<1>2. /\ produced' = produced /\ response' = response /\ cacheStatus' = cacheStatus
      /\ pc[c] = "new" /\ pc'[c] = "receiving"
      /\ \A d \in Calls \ {c} : pc'[d] = pc[d]
  BY DEF Typed, TypeOK, Goto, Receive, context
<1>3. answerOf' = answerOf
  BY <1>2 DEF answerOf, Ended
<1> QED
  BY <1>1, <1>2, <1>3 DEF Receive, Promise!Ask

LEMMA ResponsesAreProduced ==
  ASSUME Typed, NEW c \in Calls, Block(c) \/ OriginAnswers(c)
  PROVE  Promise!Produce(c)
<1>1. /\ request' = request /\ produced' = produced \union {c} /\ cacheStatus' = cacheStatus
      /\ pc[c] \notin Ended \cup {"new"} /\ pc'[c] \notin Ended
      /\ \A d \in Calls \ {c} : pc'[d] = pc[d] /\ response'[d] = response[d]
  BY DEF Typed, TypeOK, Block, OriginAnswers, OnRequest, At, Respond, Goto, Ended, context
<1>2. answerOf' = answerOf
  <2>1. \A d \in Calls : answerOf'[d] = answerOf[d]
    BY <1>1 DEF answerOf, Ended
  <2> QED BY <2>1 DEF answerOf
<1>3. answerOf[c] = Promise!Pending
  BY <1>1 DEF answerOf, Ended, Promise!Pending
<1> QED
  BY <1>1, <1>2, <1>3 DEF Promise!Produce, Typed, Grounded

LEMMA PromiseInit == Init => Promise!Init
  BY DEF Init, Promise!Init, Promise!Pending, answerOf, Ended

LEMMA PromiseNext ==
  Typed /\ Provenance /\ [Next]_vars => [Promise!Next]_<<request, produced, answerOf>>
<1> SUFFICES ASSUME Typed, Provenance, [Next]_vars
             PROVE  Promise!Next \/ UNCHANGED <<request, produced, answerOf>>
  OBVIOUS
<1>1. ASSUME NEW c \in Calls, Receive(c) \/ CallStep(c) \/ Cancel(c)
      PROVE  Promise!Next \/ UNCHANGED <<request, produced, answerOf>>
  BY <1>1, SilentSteps, LostSteps, AnswerSteps, ReceiveAsks, ResponsesAreProduced
     DEF CallStep, Promise!Next
<1>2. CASE \/ \E s \in Slots : Evict(s)
           \/ Tick \/ SetClockBack \/ UNCHANGED vars
  BY <1>2 DEF Evict, Tick, SetClockBack, vars, context, answerOf
<1> QED
  BY <1>1, <1>2 DEF Next, Quiescent

\* Every behaviour of the pipeline is, to its clients, one of ReadThrough.
THEOREM PromiseKept == Spec => KeepsPromise
  BY PromiseInit, PromiseNext, TypedInit, TypedNext, ProvenanceInit, ProvenanceNext, PTL
     DEF Spec, KeepsPromise, Promise!Spec
-----------------------------------------------------------------------------
(* The clock.                                                              *)

\* On u64 the age of an entry from the future is huge, never small.
LEMMA AgeWithinTtl ==
  ASSUME NEW n \in Caches, NEW e \in Entries, now \in Epochs, ~Expired(n, e)
  PROVE  e.epoch \in (now - Ttl[n])..now
<1>1. e.epoch \in 0..MaxEpoch /\ now \in 0..MaxEpoch /\ MaxEpoch \in Nat /\ EpochModulus \in Nat
  BY ClockAssumption DEF Entries, Epochs
<1>2. Ttl[n] \in Nat /\ Ttl[n] + MaxEpoch < EpochModulus
  BY ClockAssumption
<1>3. Age(e.epoch) <= Ttl[n] /\ Age(e.epoch) \in Int
  BY <1>1, <1>2 DEF Expired, Age
<1> QED
  BY <1>1, <1>2, <1>3 DEF Age

LEMMA FreshHitStep ==
  ASSUME Typed, [Next]_vars, NEW c \in Calls, pc[c] = "found", pc'[c] = "response"
  PROVE  held[c].epoch \in (now - Ttl[Current(c).cache])..now
<1>1. Hit(c)
  BY DEF Next, CallStep, Quiescent, Evict, Tick, SetClockBack, vars, Typed, TypeOK, Goto,
         Respond, Miss, OnRequest, OnResponse, At,
         Receive, BodyCollected, BodyFails, Skip, Block, LookupMisses, LookupErrs,
         LookupFinds, Hit, StaleHit, ForwardSends, ForwardHasNoTarget, OriginAnswers,
         OriginFails, ChainExhausted, PassBack, AddHeader, AddHeaderPanics, ReplaceBody,
         ReplaceBodyPanics, ConditionPanics, ServeStale, Stamp, Insert, LeaveCacheAlone, Finish, Cancel
<1>2. Current(c).cache \in Caches /\ held[c] \in Entries /\ now \in Epochs
  BY DEF Typed, TypeOK, Grounded, HoldsEntry
<1> QED
  BY <1>1, <1>2, AgeWithinTtl DEF Hit

\* Whatever the clock does, a hit is within the ttl of the entry.
THEOREM FreshHits == Spec => HitsAreFresh
<1>1. Typed /\ [Next]_vars =>
        [\A c \in Calls : (pc[c] = "found" /\ pc'[c] = "response") =>
           held[c].epoch \in (now - Ttl[Current(c).cache])..now]_vars
  BY FreshHitStep
<1> QED
  BY <1>1, TypedInit, TypedNext, PTL DEF Spec, HitsAreFresh
-----------------------------------------------------------------------------
(* Chains with one cache.  Only there is the context that all middlewares  *)
(* share the cache's own, so what the comment above CacheMiddleware says   *)
(* of the handlers is proved under SingleCache.                            *)

LEMMA OwnContextInit == Init => OwnContext
  BY DEF Init, OwnContext, ContextIsOwn

LEMMA OwnContextStep ==
  ASSUME SingleCache, Typed, Provenance, OwnContext,
         NEW c \in Calls, Receive(c) \/ CallStep(c) \/ Cancel(c)
  PROVE  ContextIsOwn(c)'
<1> USE ChainIsTyped DEF Provenance, CallProvenance, NoResponseYet, HoldsEntry, EarlySteps, Typed,
        TypeOK, Goto, Respond, Miss, OnRequest, OnResponse, At, Current, context, OwnContext,
        ContextIsOwn, Places
<1>1. CASE Receive(c)
  BY <1>1 DEF Receive
<1>2. CASE BodyCollected(c)
  BY <1>2 DEF BodyCollected
<1>3. CASE BodyFails(c)
  BY <1>3 DEF BodyFails
<1>4. CASE Skip(c)
  BY <1>4 DEF Skip
<1>5. CASE Block(c)
  BY <1>5 DEF Block
<1>6. CASE LookupMisses(c)
  BY <1>6 DEF LookupMisses, SingleCache
<1>7. CASE LookupErrs(c)
  BY <1>7 DEF LookupErrs, SingleCache
<1>8. CASE LookupFinds(c)
  BY <1>8 DEF LookupFinds, SingleCache
<1>9. CASE Hit(c)
  <2>1. pos[c] \in 1..Len(Chain) /\ Chain[pos[c]].kind = "cache"
    BY <1>9 DEF Hit
  <2>2. missed[c] = {}
    <3> SUFFICES ASSUME NEW i \in missed[c] PROVE FALSE
      OBVIOUS
    <3>1. i \in 1..Len(Chain) /\ Chain[i].kind = "cache" /\ i < pos[c]
      BY <1>9 DEF Hit
    <3> QED BY <2>1, <3>1 DEF SingleCache
  <2> QED BY <1>9, <2>2 DEF Hit
<1>10. CASE StaleHit(c)
  BY <1>10 DEF StaleHit, SingleCache
<1>11. CASE ForwardSends(c)
  BY <1>11 DEF ForwardSends
<1>12. CASE ForwardHasNoTarget(c)
  BY <1>12 DEF ForwardHasNoTarget
<1>13. CASE OriginAnswers(c)
  BY <1>13 DEF OriginAnswers
<1>14. CASE OriginFails(c)
  BY <1>14 DEF OriginFails
<1>15. CASE ChainExhausted(c)
  BY <1>15 DEF ChainExhausted
<1>16. CASE PassBack(c)
  BY <1>16 DEF PassBack
<1>17. CASE AddHeader(c)
  BY <1>17 DEF AddHeader
<1>18. CASE ReplaceBody(c)
  BY <1>18 DEF ReplaceBody
<1>19. CASE AddHeaderPanics(c) \/ ReplaceBodyPanics(c) \/ ConditionPanics(c)
  BY <1>19 DEF AddHeaderPanics, ReplaceBodyPanics, ConditionPanics, Unwinding
<1>20. CASE ServeStale(c)
  BY <1>20 DEF ServeStale, SingleCache
<1>21. CASE Stamp(c)
  BY <1>21 DEF Stamp, Stores
<1>22. CASE Insert(c)
  BY <1>22 DEF Insert
<1>23. CASE LeaveCacheAlone(c)
  BY <1>23 DEF LeaveCacheAlone
<1>24. CASE Finish(c)
  BY <1>24 DEF Finish
<1>25. CASE Cancel(c)
  BY <1>25 DEF Cancel
<1> QED
  BY <1>1, <1>2, <1>3, <1>4, <1>5, <1>6, <1>7, <1>8, <1>9, <1>10, <1>11, <1>12, <1>13,
     <1>14, <1>15, <1>16, <1>17, <1>18, <1>19, <1>20, <1>21, <1>22, <1>23, <1>24,
     <1>25
     DEF CallStep

LEMMA OwnContextNext ==
  ASSUME SingleCache
  PROVE  Typed /\ Provenance /\ OwnContext /\ [Next]_vars => OwnContext'
<1> SUFFICES ASSUME Typed, Provenance, OwnContext, [Next]_vars PROVE OwnContext'
  OBVIOUS
<1>1. ASSUME NEW c \in Calls, Receive(c) \/ CallStep(c) \/ Cancel(c) PROVE OwnContext'
  <2>1. StepOf(c)
    BY <1>1, StepsAreLocal
  <2>2. ASSUME NEW d \in Calls, d # c PROVE ContextIsOwn(d)'
    BY <2>1, <2>2 DEF StepOf, OwnContext, ContextIsOwn
  <2>3. ContextIsOwn(c)'
    BY <1>1, OwnContextStep
  <2> QED BY <2>2, <2>3 DEF OwnContext
<1>2. CASE \/ \E s \in Slots : Evict(s)
           \/ Tick \/ SetClockBack \/ UNCHANGED vars
  BY <1>2 DEF Evict, Tick, SetClockBack, vars, context, OwnContext, ContextIsOwn
<1> QED
  BY <1>1, <1>2 DEF Next, Quiescent

\* Only a step of the call itself changes its place or its status.
LEMMA ChangesAreOwn ==
  ASSUME Typed, Provenance, [Next]_vars, NEW c \in Calls,
         pc'[c] # pc[c] \/ pos'[c] # pos[c] \/ cacheStatus'[c] # cacheStatus[c]
  PROVE  Receive(c) \/ CallStep(c) \/ Cancel(c)
<1>1. \E d \in Calls : Receive(d) \/ CallStep(d) \/ Cancel(d)
  BY DEF Next, Quiescent, Evict, Tick, SetClockBack, vars, context
<1>2. PICK d \in Calls : Receive(d) \/ CallStep(d) \/ Cancel(d)
  BY <1>1
<1>3. StepOf(d)
  BY <1>2, StepsAreLocal
<1> QED
  BY <1>2, <1>3 DEF StepOf

LEMMA HeldIsOwn ==
  ASSUME Typed, Provenance, OwnContext, NEW c \in Calls, pc[c] = "store"
  PROVE  held[c].response.call = c
<1>1. HoldsEntry(c) /\ held[c].response = response[c] /\ StatusMatches(c)
  BY DEF Provenance, CallProvenance
<1>2. response[c] # None
  BY <1>1, ValueAssumption DEF HoldsEntry, Typed, TypeOK, Entries
<1>3. cacheStatus[c] \in {"na", "miss"}
  <2>1. cacheStatus[c] \in Labels \ {"hit"}
    BY DEF Provenance, CallProvenance, Typed, TypeOK
  <2>2. pos[c] \in 1..Len(Chain) /\ Chain[pos[c]].kind = "cache" /\ pos[c] <= pos[c]
    BY <1>1, ChainIsTyped DEF HoldsEntry, Current
  <2>3. cacheStatus[c] # "stale"
    BY <2>2 DEF OwnContext, ContextIsOwn
  <2> QED BY <2>1, <2>3 DEF Labels
<1> QED
  BY <1>1, <1>2, <1>3 DEF StatusMatches

\* A cache stores only what the call fetched itself: what came out of a cache
\* is not given a new epoch.
THEOREM StoredIsOwnHolds ==
  ASSUME SingleCache
  PROVE  Spec => []StoredIsOwn
<1>1. Typed /\ Provenance /\ OwnContext => StoredIsOwn
  BY HeldIsOwn DEF StoredIsOwn
<1> QED
  BY <1>1, TypedInit, TypedNext, ProvenanceInit, ProvenanceNext, OwnContextInit, OwnContextNext,
     PTL DEF Spec

\* Only ServeStale makes the status "stale".
LEMMA StaleStep ==
  ASSUME SingleCache, Typed, Provenance, OwnContext, [Next]_vars, NEW c \in Calls,
         cacheStatus[c] # "stale", cacheStatus'[c] = "stale"
  PROVE  \/ response[c] = None
         \/ ~AppliesToResponse(Chain[staleFrom[c]], request[c], response[c])
<1>1. ServeStale(c)
  <2>1. Receive(c) \/ CallStep(c) \/ Cancel(c)
    BY ChangesAreOwn
  <2> QED
    BY <2>1 DEF CallStep, Typed, TypeOK, Goto, Respond, Miss, context,
       Receive, BodyCollected, BodyFails, Skip, Block, LookupMisses, LookupErrs,
       LookupFinds, Hit, StaleHit, ForwardSends, ForwardHasNoTarget, OriginAnswers,
       OriginFails, ChainExhausted, PassBack, AddHeader, AddHeaderPanics, ReplaceBody,
       ReplaceBodyPanics, ConditionPanics, Stamp, Insert, LeaveCacheAlone, Finish, Cancel
<1>2. pos[c] \in 1..Len(Chain) /\ Chain[pos[c]].kind = "cache" /\ ServesStale(c)
  BY <1>1 DEF ServeStale, OnResponse, At, Current
<1>3. staleFrom[c] \in 1..Len(Chain) /\ Chain[staleFrom[c]].kind = "cache"
  BY <1>2 DEF ServesStale, OwnContext, ContextIsOwn
<1>4. staleFrom[c] = pos[c]
  BY <1>2, <1>3 DEF SingleCache
<1> QED BY <1>2, <1>4 DEF ServesStale, WhenApplies, Current

\* A response that the cache's condition accepts is not replaced by the
\* expired one.
THEOREM FreshResponseIsKept ==
  ASSUME SingleCache
  PROVE  Spec => FreshResponseKept
<1>1. Typed /\ Provenance /\ OwnContext /\ [Next]_vars =>
        [\A c \in Calls :
           (cacheStatus[c] # "stale" /\ cacheStatus'[c] = "stale") =>
             \/ response[c] = None
             \/ ~AppliesToResponse(Chain[staleFrom[c]], request[c], response[c])]_vars
  BY StaleStep
<1> QED
  BY <1>1, TypedInit, TypedNext, ProvenanceInit, ProvenanceNext, OwnContextInit, OwnContextNext,
     PTL DEF Spec, FreshResponseKept

\* Behind a miss only Stamp is left.
LEMMA FillingStep ==
  ASSUME SingleCache, Typed, Provenance, OwnContext, [Next]_vars, NEW c \in Calls,
         OnResponse(c, "cache"), pos[c] \in missed[c], Current(c).cache \in Caches,
         response[c] # None, WhenApplies(c), <<pc[c], pos[c]>>' # <<pc[c], pos[c]>>
  PROVE  pc'[c] = "store"
<1>1. ~ServesStale(c) /\ Stores(c)
  BY DEF ServesStale, Stores, OwnContext, ContextIsOwn
<1>2. Receive(c) \/ CallStep(c) \/ Cancel(c)
  BY ChangesAreOwn
<1>3. Stamp(c)
  BY <1>1, <1>2, ChainIsTyped DEF CallStep, OnRequest, OnResponse, At,
       Receive, BodyCollected, BodyFails, Skip, Block, LookupMisses, LookupErrs,
       LookupFinds, Hit, StaleHit, ForwardSends, ForwardHasNoTarget, OriginAnswers,
       OriginFails, ChainExhausted, PassBack, AddHeader, AddHeaderPanics, ReplaceBody,
       ReplaceBodyPanics, ConditionPanics, ServeStale, Insert, LeaveCacheAlone, Finish, Cancel
<1> QED BY <1>3 DEF Stamp, Goto, Typed, TypeOK

\* A miss fills the cache with the response, if its condition accepts it.
THEOREM MissesFillCache ==
  ASSUME SingleCache
  PROVE  Spec => MissFillsCache
<1>1. Typed /\ Provenance /\ OwnContext /\ [Next]_vars =>
        [\A c \in Calls :
           (/\ OnResponse(c, "cache") /\ pos[c] \in missed[c] /\ Current(c).cache \in Caches
            /\ response[c] # None /\ WhenApplies(c)
            /\ <<pc[c], pos[c]>>' # <<pc[c], pos[c]>>)
           => pc'[c] = "store"]_vars
  BY FillingStep
<1> QED
  BY <1>1, TypedInit, TypedNext, ProvenanceInit, ProvenanceNext, OwnContextInit, OwnContextNext,
     PTL DEF Spec, MissFillsCache
-----------------------------------------------------------------------------
(* Conditions.  Both evaluations of a condition go down the tree with the  *)
(* same rules and differ in the leaves; leaf gives the values there.       *)

Node(leaf, f, w) ==
  LET node == Condition[w] IN
  CASE node.kind = "all" -> \A i \in DOMAIN node.of : f[node.of[i]]
    [] node.kind = "any" -> \E i \in DOMAIN node.of : f[node.of[i]]
    [] node.kind = "not" -> ~f[node.of]
    [] OTHER             -> leaf[w]

\* f gives the conditions ws, and what is inside them, their values.
Solves(leaf, f, ws) ==
  /\ f \in [ConditionIds -> BOOLEAN]
  /\ \A w \in ws : Children(w) \subseteq ws /\ f[w] = Node(leaf, f, w)

\* What holds of a condition whenever it holds of those inside it, holds of all.
LEMMA ConditionInduction ==
  ASSUME NEW good \in SUBSET ConditionIds,
         \A w \in ConditionIds : Children(w) \subseteq good => w \in good
  PROVE  good = ConditionIds
<1> DEFINE ws == ConditionIds \ good
<1> SUFFICES ASSUME ws # {} PROVE FALSE
  OBVIOUS
<1>1. PICK w \in ws : Children(w) \intersect ws = {}
  <2>1. ws \in SUBSET ConditionIds
    OBVIOUS
  <2> HIDE DEF ws
  <2> QED BY <2>1, ConditionAssumption
<1>2. Children(w) \subseteq good
  BY <1>1, ConditionAssumption
<1> QED
  BY <1>1, <1>2

\* The value of a condition depends only on those inside it.
LEMMA NodeIsLocal ==
  ASSUME NEW leaf, NEW f, NEW g, NEW w \in ConditionIds, \A v \in Children(w) : f[v] = g[v]
  PROVE  Node(leaf, f, w) = Node(leaf, g, w)
<1>1. CASE Condition[w].kind = "all"
  <2> DEFINE of == Condition[w].of
  <2>1. \A i \in DOMAIN of : f[of[i]] = g[of[i]]
    BY <1>1 DEF Children
  <2>2. (\A i \in DOMAIN of : f[of[i]]) <=> (\A i \in DOMAIN of : g[of[i]])
    BY <2>1
  <2> QED BY <1>1, <2>2 DEF Node
<1>2. CASE Condition[w].kind = "any"
  <2> DEFINE of == Condition[w].of
  <2>1. \A i \in DOMAIN of : f[of[i]] = g[of[i]]
    BY <1>2 DEF Children
  <2>2. (\E i \in DOMAIN of : f[of[i]]) <=> (\E i \in DOMAIN of : g[of[i]])
    BY <2>1
  <2> QED BY <1>2, <2>2 DEF Node
<1>3. CASE Condition[w].kind = "not"
  <2>1. f[Condition[w].of] = g[Condition[w].of]
    BY <1>3 DEF Children
  <2> QED BY <1>3, <2>1 DEF Node
<1>4. CASE Condition[w].kind \notin {"all", "any", "not"}
  BY <1>4 DEF Node
<1> QED
  BY <1>1, <1>2, <1>3, <1>4

LEMMA SolutionsAgree ==
  ASSUME NEW leaf, NEW A \in SUBSET ConditionIds, NEW B \in SUBSET ConditionIds,
         NEW f, Solves(leaf, f, A), NEW g, Solves(leaf, g, B)
  PROVE  \A w \in A \intersect B : f[w] = g[w]
<1> DEFINE good == {w \in ConditionIds : w \in A \intersect B => f[w] = g[w]}
<1>1. ASSUME NEW w \in ConditionIds, Children(w) \subseteq good, w \in A \intersect B
      PROVE  f[w] = g[w]
  <2>1. \A v \in Children(w) : f[v] = g[v]
    BY <1>1 DEF Solves
  <2>2. Node(leaf, f, w) = Node(leaf, g, w)
    BY <2>1, NodeIsLocal
  <2> QED BY <1>1, <2>2 DEF Solves
<1>2. /\ good \in SUBSET ConditionIds
      /\ \A w \in ConditionIds : Children(w) \subseteq good => w \in good
  BY <1>1
<1>3. good = ConditionIds
  <2> HIDE DEF good
  <2> QED BY <1>2, ConditionInduction
<1> QED
  BY <1>3

\* The recursion is well founded: the values of the leaves determine all others.
LEMMA SolutionExists ==
  ASSUME NEW leaf \in [ConditionIds -> BOOLEAN]
  PROVE  \E f : Solves(leaf, f, ConditionIds)
<1> DEFINE Covers(w, f, ws) == w \in ws /\ Solves(leaf, f, ws)
           good == {w \in ConditionIds :
                      \E f \in [ConditionIds -> BOOLEAN], ws \in SUBSET ConditionIds :
                        Covers(w, f, ws)}
           g == [w \in ConditionIds |->
                   \E f \in [ConditionIds -> BOOLEAN], ws \in SUBSET ConditionIds :
                     Covers(w, f, ws) /\ f[w]]
<1>1. ASSUME NEW f \in [ConditionIds -> BOOLEAN], NEW ws \in SUBSET ConditionIds,
             Solves(leaf, f, ws), NEW v \in ws
      PROVE  g[v] = f[v] /\ v \in good
  <2>1. v \in good
    BY <1>1
  <2>2. f[v] => g[v]
    BY <1>1
  <2>3. ASSUME g[v] PROVE f[v]
    <3>1. PICK h \in [ConditionIds -> BOOLEAN], vs \in SUBSET ConditionIds :
            Covers(v, h, vs) /\ h[v]
      BY <2>3, <1>1
    <3>2. h[v] = f[v]
      <4>1. Solves(leaf, h, vs) /\ v \in vs \intersect ws
        BY <1>1, <3>1
      <4> HIDE DEF Covers, good, g
      <4> QED BY <1>1, <4>1, SolutionsAgree
    <3> QED BY <3>1, <3>2
  <2>4. g[v] \in BOOLEAN /\ f[v] \in BOOLEAN
    BY <1>1
  <2> QED BY <2>1, <2>2, <2>3, <2>4
<1>2. g \in [ConditionIds -> BOOLEAN]
  OBVIOUS
<1>3. ASSUME NEW w \in good PROVE Children(w) \subseteq good /\ g[w] = Node(leaf, g, w)
  <2>1. PICK f \in [ConditionIds -> BOOLEAN], ws \in SUBSET ConditionIds : Covers(w, f, ws)
    BY <1>3
  <2> HIDE DEF good, g
  <2>2. Children(w) \subseteq ws /\ f[w] = Node(leaf, f, w) /\ w \in ConditionIds
    BY <2>1 DEF Solves
  <2>3. \A v \in ws : g[v] = f[v] /\ v \in good
    BY <1>1, <2>1
  <2>4. \A v \in Children(w) : f[v] = g[v]
    BY <2>2, <2>3
  <2>5. Node(leaf, f, w) = Node(leaf, g, w)
    BY <2>2, <2>4, NodeIsLocal
  <2> QED BY <2>1, <2>2, <2>3, <2>5
<1>4. good \in SUBSET ConditionIds
  OBVIOUS
<1>5. ASSUME NEW w \in ConditionIds, Children(w) \subseteq good PROVE w \in good
  <2> DEFINE ws == good \union {w}
             h == [v \in ConditionIds |-> IF v \in good THEN g[v] ELSE Node(leaf, g, v)]
  <2>1. \A v \in ConditionIds : Node(leaf, g, v) \in BOOLEAN
    <3> HIDE DEF g
    <3> QED BY <1>2 DEF Node
  <2>2. ws \in SUBSET ConditionIds
    BY <1>4
  <2>3. h \in [ConditionIds -> BOOLEAN]
    <3> HIDE DEF g, good
    <3> QED BY <1>2, <2>1
  <2> HIDE DEF g, good
  <2>4. ASSUME NEW v \in ws PROVE Children(v) \subseteq good /\ h[v] = Node(leaf, h, v)
    <3>1. Children(v) \subseteq good /\ v \in ConditionIds
      BY <1>3, <1>4, <1>5
    <3>2. \A u \in Children(v) : g[u] = h[u]
      BY <3>1, <1>4
    <3>3. Node(leaf, g, v) = Node(leaf, h, v)
      <4> HIDE DEF h
      <4> QED BY <3>1, <3>2, NodeIsLocal
    <3>4. h[v] = Node(leaf, g, v)
      BY <1>3, <3>1
    <3> QED BY <3>1, <3>3, <3>4
  <2>5. Covers(w, h, ws)
    <3> HIDE DEF h
    <3> QED BY <2>3, <2>4 DEF Solves
  <2> HIDE DEF h, ws, Covers
  <2>6. \E f \in [ConditionIds -> BOOLEAN], vs \in SUBSET ConditionIds : Covers(w, f, vs)
    BY <2>2, <2>3, <2>5
  <2> QED BY <2>6 DEF good
<1>6. good = ConditionIds
  <2> HIDE DEF good
  <2> QED BY <1>4, <1>5, ConditionInduction
<1>7. Solves(leaf, g, ConditionIds)
  <2> HIDE DEF g
  <2> QED BY <1>2, <1>3, <1>6 DEF Solves
<1> QED
  BY <1>7

\* Whatever satisfies the equations is a solution.
LEMMA IsSolution ==
  ASSUME NEW leaf \in [ConditionIds -> BOOLEAN], NEW f,
         f = [w \in ConditionIds |-> Node(leaf, f, w)]
  PROVE  Solves(leaf, f, ConditionIds)
<1>1. \A w \in ConditionIds : Node(leaf, f, w) \in BOOLEAN
  BY DEF Node
<1>2. [w \in ConditionIds |-> Node(leaf, f, w)] \in [ConditionIds -> BOOLEAN]
  BY <1>1
<1>3. \A w \in ConditionIds : f[w] = Node(leaf, f, w)
  <2> DEFINE n(w) == Node(leaf, f, w)
  <2>1. f = [w \in ConditionIds |-> n(w)]
    OBVIOUS
  <2> HIDE DEF n
  <2>2. \A w \in ConditionIds : f[w] = n(w)
    BY <2>1
  <2> QED BY <2>2 DEF n
<1> QED
  BY <1>2, <1>3, ConditionAssumption DEF Solves

\* The leaves as evaluate and as evaluate_with_response see them.
RequestLeaf(r) ==
  [w \in ConditionIds |->
     LET node == Condition[w] IN
     CASE node.kind = "header_exists" -> node.header \in DOMAIN r.headers
       [] node.kind = "path_contains" -> <<r.path, r.query, node.pattern>> \in PathMatches
       [] OTHER                       -> TRUE]

ResponseLeaf(r, resp) ==
  [w \in ConditionIds |->
     IF Condition[w].kind = "status_code_is" THEN resp # None /\ resp.status = Condition[w].status
     ELSE RequestLeaf(r)[w]]

LEMMA LeavesAreBoolean ==
  ASSUME NEW r, NEW resp
  PROVE  /\ RequestLeaf(r) \in [ConditionIds -> BOOLEAN]
         /\ ResponseLeaf(r, resp) \in [ConditionIds -> BOOLEAN]
<1> DEFINE value(w) ==
             LET node == Condition[w] IN
             CASE node.kind = "header_exists" -> node.header \in DOMAIN r.headers
               [] node.kind = "path_contains" -> <<r.path, r.query, node.pattern>> \in PathMatches
               [] OTHER                       -> TRUE
<1>1. ASSUME NEW w \in ConditionIds PROVE value(w) \in BOOLEAN
  <2>1. CASE Condition[w].kind = "header_exists"
    BY <2>1
  <2>2. CASE Condition[w].kind = "path_contains"
    BY <2>2
  <2>3. CASE Condition[w].kind \notin {"header_exists", "path_contains"}
    BY <2>3
  <2> QED BY <2>1, <2>2, <2>3
<1>2. RequestLeaf(r) \in [ConditionIds -> BOOLEAN]
  <2>1. RequestLeaf(r) = [w \in ConditionIds |-> value(w)]
    BY DEF RequestLeaf
  <2> HIDE DEF value
  <2> QED BY <1>1, <2>1
<1>3. \A w \in ConditionIds : (resp # None /\ resp.status = Condition[w].status) \in BOOLEAN
  OBVIOUS
<1>4. ResponseLeaf(r, resp) \in [ConditionIds -> BOOLEAN]
  BY <1>2, <1>3 DEF ResponseLeaf
<1> QED
  BY <1>2, <1>4

LEMMA EvaluateIs ==
  ASSUME NEW r
  PROVE  Solves(RequestLeaf(r), Evaluate(r), ConditionIds)
<1> DEFINE leaf == RequestLeaf(r)
           Is(f) == f = [w \in ConditionIds |->
             LET node == Condition[w] IN
             CASE node.kind = "header_exists"  -> node.header \in DOMAIN r.headers
               [] node.kind = "path_contains"  -> <<r.path, r.query, node.pattern>> \in PathMatches
               [] node.kind = "all"            -> \A i \in DOMAIN node.of : f[node.of[i]]
               [] node.kind = "any"            -> \E i \in DOMAIN node.of : f[node.of[i]]
               [] node.kind = "not"            -> ~f[node.of]
               [] node.kind = "status_code_is" -> TRUE]
<1>1. ASSUME NEW f PROVE Is(f) <=> f = [w \in ConditionIds |-> Node(leaf, f, w)]
  BY ConditionAssumption DEF Node, RequestLeaf
<1>2. PICK f : Solves(leaf, f, ConditionIds)
  BY LeavesAreBoolean, SolutionExists
<1>3. Is(f)
  <2>1. f = [w \in ConditionIds |-> f[w]]
    BY <1>2 DEF Solves
  <2>2. f = [w \in ConditionIds |-> Node(leaf, f, w)]
    BY <1>2, <2>1 DEF Solves
  <2> QED BY <1>1, <2>2
<1>4. Is(Evaluate(r))
  BY <1>3 DEF Evaluate
<1>5. Evaluate(r) = [w \in ConditionIds |-> Node(leaf, Evaluate(r), w)]
  BY <1>1, <1>4
<1> HIDE DEF leaf
<1>6. leaf \in [ConditionIds -> BOOLEAN]
  BY LeavesAreBoolean DEF leaf
<1> QED
  BY <1>5, <1>6, IsSolution DEF leaf

LEMMA EvaluateWithResponseIs ==
  ASSUME NEW r, NEW resp
  PROVE  Solves(ResponseLeaf(r, resp), EvaluateWithResponse(r, resp), ConditionIds)
<1> DEFINE leaf == ResponseLeaf(r, resp)
           Is(f) == f = [w \in ConditionIds |->
             LET node == Condition[w] IN
             CASE node.kind = "header_exists"  -> node.header \in DOMAIN r.headers
               [] node.kind = "path_contains"  -> <<r.path, r.query, node.pattern>> \in PathMatches
               [] node.kind = "status_code_is" -> resp # None /\ resp.status = node.status
               [] node.kind = "all"            -> \A i \in DOMAIN node.of : f[node.of[i]]
               [] node.kind = "any"            -> \E i \in DOMAIN node.of : f[node.of[i]]
               [] node.kind = "not"            -> ~f[node.of]]
<1>1. ASSUME NEW f PROVE Is(f) <=> f = [w \in ConditionIds |-> Node(leaf, f, w)]
  BY ConditionAssumption DEF Node, RequestLeaf, ResponseLeaf
<1>2. PICK f : Solves(leaf, f, ConditionIds)
  BY LeavesAreBoolean, SolutionExists
<1>3. Is(f)
  <2>1. f = [w \in ConditionIds |-> f[w]]
    BY <1>2 DEF Solves
  <2>2. f = [w \in ConditionIds |-> Node(leaf, f, w)]
    BY <1>2, <2>1 DEF Solves
  <2> QED BY <1>1, <2>2
<1>4. Is(EvaluateWithResponse(r, resp))
  BY <1>3 DEF EvaluateWithResponse
<1>5. EvaluateWithResponse(r, resp)
        = [w \in ConditionIds |-> Node(leaf, EvaluateWithResponse(r, resp), w)]
  BY <1>1, <1>4
<1> HIDE DEF leaf
<1>6. leaf \in [ConditionIds -> BOOLEAN]
  BY LeavesAreBoolean DEF leaf
<1> QED
  BY <1>5, <1>6, IsSolution DEF leaf

\* With a response a condition is stricter, if no status test is negated.
LEMMA ResponseIsStricter ==
  ASSUME StatusNotNegated, NEW r, NEW resp, NEW w \in ConditionIds,
         EvaluateWithResponse(r, resp)[w]
  PROVE  Evaluate(r)[w]
<1> DEFINE f == EvaluateWithResponse(r, resp)
           g == Evaluate(r)
           fl == ResponseLeaf(r, resp)
           gl == RequestLeaf(r)
<1>1. /\ Solves(fl, f, ConditionIds) /\ Solves(gl, g, ConditionIds)
      /\ \A v \in ConditionIds : Condition[v].kind # "status_code_is" => fl[v] = gl[v]
      /\ \A v \in ConditionIds : Condition[v].kind = "status_code_is" => gl[v]
  BY EvaluateIs, EvaluateWithResponseIs DEF ResponseLeaf, RequestLeaf
<1>2. PICK plain \in SUBSET ConditionIds :
        /\ \A v \in plain : Children(v) \subseteq plain /\ Condition[v].kind # "status_code_is"
        /\ \A v \in ConditionIds : Condition[v].kind = "not" => Condition[v].of \in plain
  BY DEF StatusNotNegated
<1> HIDE DEF f, g, fl, gl
<1> DEFINE good == {v \in ConditionIds : (v \in plain => f[v] = g[v]) /\ (f[v] => g[v])}
<1>3. ASSUME NEW v \in ConditionIds, Children(v) \subseteq good PROVE v \in good
  <2>1. /\ f[v] = Node(fl, f, v) /\ g[v] = Node(gl, g, v)
        /\ f \in [ConditionIds -> BOOLEAN] /\ g \in [ConditionIds -> BOOLEAN]
        /\ Children(v) \subseteq ConditionIds
    BY <1>1 DEF Solves
  <2>2. CASE Condition[v].kind = "all"
    BY <1>2, <1>3, <2>1, <2>2 DEF Node, Children
  <2>3. CASE Condition[v].kind = "any"
    BY <1>2, <1>3, <2>1, <2>3 DEF Node, Children
  <2>4. CASE Condition[v].kind = "not"
    <3>1. f[Condition[v].of] = g[Condition[v].of]
      BY <1>2, <1>3, <2>4 DEF Children
    <3> QED BY <2>1, <2>4, <3>1 DEF Node
  <2>5. CASE Condition[v].kind \notin {"all", "any", "not"}
    BY <1>1, <1>2, <2>1, <2>5 DEF Node
  <2> QED BY <2>2, <2>3, <2>4, <2>5
<1>4. good = ConditionIds
  <2>1. good \in SUBSET ConditionIds
    OBVIOUS
  <2> HIDE DEF good
  <2> QED BY <1>3, <2>1, ConditionInduction
<1> QED
  BY <1>4 DEF f, g

\* Only Stamp leads to an insertion.
LEMMA StoringStep ==
  ASSUME StatusNotNegated, Typed, Provenance, [Next]_vars, NEW c \in Calls,
         pc[c] = "response", pc'[c] = "store"
  PROVE  Applies(Current(c), request[c])
<1>1. Receive(c) \/ CallStep(c) \/ Cancel(c)
  BY ChangesAreOwn
<1>2. Stamp(c)
  BY <1>1 DEF CallStep, OnRequest, At, Unwinding, Typed, TypeOK, Goto, Respond, Miss, Receive, BodyCollected,
       BodyFails, Skip, Block, LookupMisses, LookupErrs, LookupFinds, Hit, StaleHit,
       ForwardSends, ForwardHasNoTarget, OriginAnswers, OriginFails, ChainExhausted, PassBack,
       AddHeader, AddHeaderPanics, ReplaceBody, ReplaceBodyPanics, ConditionPanics, ServeStale, Insert, LeaveCacheAlone, Finish,
       Cancel
<1>3. AppliesToResponse(Current(c), request[c], response[c]) /\ pos[c] \in 1..Len(Chain)
  BY <1>2 DEF Stamp, OnResponse, At, Stores, WhenApplies
<1>4. Current(c).when # None => Current(c).when \in ConditionIds
  BY <1>3, ChainIsTyped DEF Current
<1> QED BY <1>3, <1>4, ResponseIsStricter DEF Applies, AppliesToResponse

\* What a cache middleware stores the next request like this one looks up,
\* whatever the chain, if no status test is negated.
THEOREM StoredAreLookedUp ==
  ASSUME StatusNotNegated
  PROVE  Spec => StoredIsLookedUp
<1>1. Typed /\ Provenance /\ [Next]_vars =>
        [\A c \in Calls :
           (pc[c] = "response" /\ pc'[c] = "store") => Applies(Current(c), request[c])]_vars
  BY StoringStep
<1> QED
  BY <1>1, TypedInit, TypedNext, ProvenanceInit, ProvenanceNext, PTL DEF Spec, StoredIsLookedUp
-----------------------------------------------------------------------------
(* The header that shows $cache_status.                                    *)

\* Middlewares in front of h leave response and status alone, and behind h
\* are all that set them: once h has shown the status, it is final.
ShowsFrom(h, c) ==
  /\ pc[c] \in {"found", "awaiting", "store"} => pos[c] > h
  /\ pc[c] = "response" /\ pos[c] < h /\ response[c] # None =>
       response[c].header = StatusShown(c)
  /\ pc[c] = "answered" => response[c].header = StatusShown(c)

Shows(h) == \A c \in Calls : ShowsFrom(h, c)

\* h is such a place in the chain.
IsInFront(h) ==
  /\ Chain[h].kind = "add_header" /\ Chain[h].when = None
  /\ \A i \in 1..h : Chain[i].kind \notin {"block", "cache", "forward"}

LEMMA ShowsInit == ASSUME NEW h \in 1..Len(Chain) PROVE Init => Shows(h)
  BY DEF Init, Shows, ShowsFrom

LEMMA ShowsStep ==
  ASSUME NEW h \in 1..Len(Chain), IsInFront(h), Typed, Provenance, Shows(h),
         NEW c \in Calls, Receive(c) \/ CallStep(c) \/ Cancel(c)
  PROVE  ShowsFrom(h, c)'
<1>1. /\ Len(Chain) \in Nat /\ pos[c] \in Places
      /\ \A i \in 1..Len(Chain) : Chain[i].kind \in {"block", "cache", "forward"} => i > h
  BY ChainIsTyped DEF IsInFront, Typed, TypeOK
<1> USE <1>1, ChainIsTyped DEF Typed, TypeOK, Shows, ShowsFrom, Goto, Respond, Miss, OnRequest,
            OnResponse, At, Current, context, Places
<1>0. cacheStatus'[c] = cacheStatus[c] => StatusShown(c)' = StatusShown(c)
  BY DEF StatusShown
<1> USE <1>0
<1>2. CASE Receive(c)
  BY <1>2 DEF Receive
<1>3. CASE BodyCollected(c) \/ BodyFails(c) \/ Skip(c)
  BY <1>3 DEF BodyCollected, BodyFails, Skip
<1>4. CASE Block(c)
  BY <1>4 DEF Block
<1>5. CASE LookupMisses(c) \/ LookupErrs(c) \/ LookupFinds(c)
  BY <1>5 DEF LookupMisses, LookupErrs, LookupFinds
<1>6. CASE Hit(c)
  BY <1>6 DEF Hit
<1>7. CASE StaleHit(c)
  BY <1>7 DEF StaleHit
<1>8. CASE ForwardSends(c) \/ ForwardHasNoTarget(c)
  BY <1>8 DEF ForwardSends, ForwardHasNoTarget
<1>9. CASE OriginAnswers(c)
  BY <1>9 DEF OriginAnswers
<1>10. CASE OriginFails(c)
  BY <1>10 DEF OriginFails
<1>11. CASE ChainExhausted(c)
  BY <1>11 DEF ChainExhausted
<1>12. CASE PassBack(c)
  <2>1. /\ pc[c] = "response" /\ pos[c] \in 1..Len(Chain)
        /\ pc'[c] = "response" /\ pos'[c] = pos[c] - 1
        /\ response' = response /\ cacheStatus' = cacheStatus
    BY <1>12 DEF PassBack
  <2>2. pos[c] = h => response[c] = None
    BY <1>12 DEF PassBack, IsInFront, WhenApplies, AppliesToResponse
  <2> QED BY <2>1, <2>2
<1>13. CASE AddHeader(c)
  <2>1. /\ pc'[c] = "response" /\ cacheStatus' = cacheStatus
        /\ response[c] \in Responses
        /\ response'[c] = [response[c] EXCEPT !.header = StatusShown(c)]
    BY <1>13 DEF AddHeader, StatusShown
  <2>2. response'[c].header = StatusShown(c)
    BY <2>1 DEF Responses
  <2> QED BY <2>1, <2>2 DEF StatusShown
<1>14. CASE ReplaceBody(c)
  <2>1. /\ pc[c] = "response" /\ pos[c] \in 1..Len(Chain) /\ response[c] # None
        /\ pc'[c] = "response" /\ pos'[c] = pos[c] - 1 /\ cacheStatus' = cacheStatus
        /\ response[c] \in Responses /\ pos[c] # h
        /\ response'[c] = [response[c] EXCEPT !.body = "rewritten"]
    BY <1>14 DEF ReplaceBody, IsInFront
  <2>2. response'[c].header = response[c].header
    BY <2>1 DEF Responses
  <2> QED BY <2>1, <2>2
<1>15. CASE AddHeaderPanics(c) \/ ReplaceBodyPanics(c) \/ ConditionPanics(c)
  BY <1>15 DEF AddHeaderPanics, ReplaceBodyPanics, ConditionPanics, Unwinding
<1>16. CASE ServeStale(c)
  BY <1>16 DEF ServeStale
<1>17. CASE Stamp(c)
  BY <1>17 DEF Stamp
<1>18. CASE Insert(c)
  BY <1>18 DEF Insert
<1>19. CASE LeaveCacheAlone(c)
  BY <1>19 DEF LeaveCacheAlone
<1>20. CASE Finish(c)
  BY <1>20 DEF Finish
<1>21. CASE Cancel(c)
  BY <1>21 DEF Cancel
<1> QED
  BY <1>2, <1>3, <1>4, <1>5, <1>6, <1>7, <1>8, <1>9, <1>10, <1>11, <1>12, <1>13, <1>14, <1>15,
     <1>16, <1>17, <1>18, <1>19, <1>20, <1>21 DEF CallStep

LEMMA ShowsNext ==
  ASSUME NEW h \in 1..Len(Chain), IsInFront(h)
  PROVE  Typed /\ Provenance /\ Shows(h) /\ [Next]_vars => Shows(h)'
<1> SUFFICES ASSUME Typed, Provenance, Shows(h), [Next]_vars PROVE Shows(h)'
  OBVIOUS
<1>1. ASSUME NEW c \in Calls, Receive(c) \/ CallStep(c) \/ Cancel(c) PROVE Shows(h)'
  <2>1. StepOf(c)
    BY <1>1, StepsAreLocal
  <2>2. ASSUME NEW d \in Calls, d # c PROVE ShowsFrom(h, d)'
    BY <2>1, <2>2 DEF StepOf, Shows, ShowsFrom, StatusShown
  <2>3. ShowsFrom(h, c)'
    BY <1>1, ShowsStep
  <2> QED BY <2>2, <2>3 DEF Shows
<1>2. CASE \/ \E s \in Slots : Evict(s)
           \/ Tick \/ SetClockBack \/ UNCHANGED vars
  BY <1>2 DEF Evict, Tick, SetClockBack, vars, context, Shows, ShowsFrom, StatusShown
<1> QED
  BY <1>1, <1>2 DEF Next, Quiescent

\* With a status that tells the source, so does the header.
LEMMA HeaderIsShown ==
  ASSUME Typed, Provenance, NEW h \in 1..Len(Chain), Shows(h)
  PROVE  HeaderTellsStatus
<1> SUFFICES ASSUME NEW c \in Calls, pc[c] = "answered"
             PROVE  /\ response[c].header = StatusShown(c)
                    /\ response[c].header \in {"hit", "stale"} <=> response[c].call # c
  BY DEF HeaderTellsStatus, StatusShown
<1>1. response[c].header = StatusShown(c)
  BY DEF Shows, ShowsFrom
<1>2. response[c].call = c <=> cacheStatus[c] \in {"na", "miss"}
  BY DEF Provenance, CallProvenance, StatusMatches
<1>3. cacheStatus[c] \in Labels
  BY DEF Typed, TypeOK
<1> QED
  BY <1>1, <1>2, <1>3 DEF StatusShown, Labels

\* On a chain that adds the header in front of its caches, the header of
\* every answer shows the status of this call, or the name of the variable if
\* no cache was asked, and so tells whose answer it is.
THEOREM HeaderShowsStatus ==
  ASSUME ShownInFront
  PROVE  Spec => []HeaderTellsStatus
<1>1. PICK h \in 1..Len(Chain) : IsInFront(h)
  BY DEF ShownInFront, IsInFront
<1>2. Typed /\ Provenance /\ Shows(h) => HeaderTellsStatus
  BY HeaderIsShown
<1>3. Init => Shows(h)
  BY ShowsInit
<1>4. Typed /\ Provenance /\ Shows(h) /\ [Next]_vars => Shows(h)'
  BY <1>1, ShowsNext
<1> QED
  BY <1>2, <1>3, <1>4, TypedInit, TypedNext, ProvenanceInit, ProvenanceNext, PTL DEF Spec
=============================================================================
