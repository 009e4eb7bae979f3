----------------------------- MODULE ReadThrough -----------------------------
(***************************************************************************)
(* What a client of a read-through caching proxy may rely on, with no      *)
(* middleware, cache or clock in sight.  A call asks for a resource; its   *)
(* answer is either the response that was produced for this very call, and *)
(* then it is not labelled as cached, or a response that was produced      *)
(* earlier for another call that asked for the same resource, and then the *)
(* label says so.  A call may also end without an answer.                  *)
(***************************************************************************)
CONSTANTS
  Calls,      \* the calls clients make
  Requests,   \* what they ask for
  KeyParts,   \* the parts of a request that identify the resource
  None        \* no request yet

VARIABLES
  asked,      \* per call, its request
  produced,   \* the calls for which a response was produced
  answer      \* per call, whose response it got and under which label

SameResource(r1, r2) == \A p \in KeyParts : r1[p] = r2[p]

Pending == [from |-> None, label |-> "pending"]
Lost    == [from |-> None, label |-> "lost"]

Init ==
  /\ asked = [c \in Calls |-> None]
  /\ produced = {}
  /\ answer = [c \in Calls |-> Pending]

Ask(c) ==
  /\ asked[c] = None
  /\ \E r \in Requests : asked' = [asked EXCEPT ![c] = r]
  /\ UNCHANGED <<produced, answer>>

Produce(c) ==
  /\ asked[c] # None /\ answer[c] = Pending
  /\ produced' = produced \union {c}
  /\ UNCHANGED <<asked, answer>>

AnswerOwn(c) ==
  /\ answer[c] = Pending /\ c \in produced
  /\ \E l \in {"na", "miss"} : answer' = [answer EXCEPT ![c] = [from |-> c, label |-> l]]
  /\ UNCHANGED <<asked, produced>>

AnswerCached(c) ==
  /\ asked[c] # None /\ answer[c] = Pending
  /\ \E d \in produced \ {c}, l \in {"hit", "stale"} :
       /\ SameResource(asked[c], asked[d])
       /\ answer' = [answer EXCEPT ![c] = [from |-> d, label |-> l]]
  /\ UNCHANGED <<asked, produced>>

Lose(c) ==
  /\ asked[c] # None /\ answer[c] = Pending
  /\ answer' = [answer EXCEPT ![c] = Lost]
  /\ UNCHANGED <<asked, produced>>

Next == \E c \in Calls :
  Ask(c) \/ Produce(c) \/ AnswerOwn(c) \/ AnswerCached(c) \/ Lose(c)

Spec == Init /\ [][Next]_<<asked, produced, answer>>
=============================================================================
