----------------------------- MODULE Conditions -----------------------------
(***************************************************************************)
(* The `when` conditions of a middleware (src/config/conditions.rs).  The  *)
(* trees that a configuration contains are kept in a table: Condition maps *)
(* the name of a node to the node, and a composite node names its children.*)
(* A condition is evaluated twice in the life of a request, and the two    *)
(* evaluations differ: before there is a response a status test is TRUE.   *)
(***************************************************************************)
EXTENDS Naturals

CONSTANTS
  ConditionIds,  \* the names of the nodes
  Condition,     \* the node that a name stands for
  PathMatches,   \* the <<path, query, pattern>> on which contains_wildcard is true
  None           \* Option::None

\* The conditions directly inside w.
Children(w) ==
  LET node == Condition[w] IN
  IF node.kind \in {"all", "any"} THEN {node.of[i] : i \in DOMAIN node.of}
  ELSE IF node.kind = "not" THEN {node.of} ELSE {}

\* Conditions are trees: among any of them is one that holds none of the others.
ASSUME ConditionAssumption ==
  /\ \A w \in ConditionIds :
       /\ Condition[w].kind \in
            {"header_exists", "path_contains", "status_code_is", "all", "any", "not"}
       /\ Children(w) \subseteq ConditionIds
  /\ \A ws \in SUBSET ConditionIds : ws # {} => \E w \in ws : Children(w) \intersect ws = {}

\* Condition::evaluate: the request alone decides, a status test is vacuous.
Evaluate(r) ==
  LET holds[w \in ConditionIds] ==
        LET node == Condition[w] IN
        CASE node.kind = "header_exists"  -> node.header \in DOMAIN r.headers
          [] node.kind = "path_contains"  -> <<r.path, r.query, node.pattern>> \in PathMatches
          [] node.kind = "all"            -> \A i \in DOMAIN node.of : holds[node.of[i]]
          [] node.kind = "any"            -> \E i \in DOMAIN node.of : holds[node.of[i]]
          [] node.kind = "not"            -> ~holds[node.of]
          [] node.kind = "status_code_is" -> TRUE
  IN  holds

\* Mutant of EvaluateWithResponse: not passes on what it has inside.
EvaluateWithResponseUnnegated(r, resp) ==
  LET holds[w \in ConditionIds] ==
        LET node == Condition[w] IN
        CASE node.kind = "header_exists"  -> node.header \in DOMAIN r.headers
          [] node.kind = "path_contains"  -> <<r.path, r.query, node.pattern>> \in PathMatches
          [] node.kind = "status_code_is" -> resp # None /\ resp.status = node.status
          [] node.kind = "all"            -> \A i \in DOMAIN node.of : holds[node.of[i]]
          [] node.kind = "any"            -> \E i \in DOMAIN node.of : holds[node.of[i]]
          [] node.kind = "not"            -> holds[node.of]
  IN  holds

\* Condition::evaluate_with_response: a status test fails without a response.
EvaluateWithResponse(r, resp) ==
  LET holds[w \in ConditionIds] ==
        LET node == Condition[w] IN
        CASE node.kind = "header_exists"  -> node.header \in DOMAIN r.headers
          [] node.kind = "path_contains"  -> <<r.path, r.query, node.pattern>> \in PathMatches
          [] node.kind = "status_code_is" -> resp # None /\ resp.status = node.status
          [] node.kind = "all"            -> \A i \in DOMAIN node.of : holds[node.of[i]]
          [] node.kind = "any"            -> \E i \in DOMAIN node.of : holds[node.of[i]]
          [] node.kind = "not"            -> ~holds[node.of]
  IN  holds

\* Whether a path test is reached: all and any end with the first condition
\* that decides them.
TestsPath(evaluated) ==
  LET tests[w \in ConditionIds] ==
        LET node == Condition[w]
            Reached(i, soFar) == \A j \in DOMAIN node.of : j < i => evaluated[node.of[j]] = soFar
        IN
        CASE node.kind = "path_contains" -> TRUE
          [] node.kind = "all" -> \E i \in DOMAIN node.of : tests[node.of[i]] /\ Reached(i, TRUE)
          [] node.kind = "any" -> \E i \in DOMAIN node.of : tests[node.of[i]] /\ Reached(i, FALSE)
          [] node.kind = "not" -> tests[node.of]
          [] OTHER -> FALSE
  IN  tests

\* self.when.is_none_or(|w| w.evaluate(request))
Applies(mw, r) == mw.when # None => Evaluate(r)[mw.when]

\* self.when.is_none_or(|w| w.evaluate_with_response(request, response))
AppliesToResponse(mw, r, resp) ==
  mw.when # None => EvaluateWithResponse(r, resp)[mw.when]

\* A CONNECT request has no path_and_query: the unwrap of a path test unwinds.
EvaluateUnwinds(mw, r) == r.path = None /\ mw.when # None /\ TestsPath(Evaluate(r))[mw.when]
EvaluateWithResponseUnwinds(mw, r, resp) ==
  r.path = None /\ mw.when # None /\ TestsPath(EvaluateWithResponse(r, resp))[mw.when]
=============================================================================
