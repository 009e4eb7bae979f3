------------------------------ MODULE MCServer ------------------------------
(***************************************************************************)
(* A server with a chain on which calls end in every way: answered from    *)
(* the hybrid cache or by the origin, without a response, by a panic.      *)
(***************************************************************************)
EXTENDS Server, TLC

CONSTANTS c1, c2, k1, k2

MCCalls == {c1, c2}
MCConnections == {k1, k2}

Req(query, headers) ==
  [path |-> "/other", query |-> query, body |-> "", headers |-> headers]
Mw(kind, when, cache) ==
  [kind |-> kind, when |-> when, cache |-> cache, status |-> 200, target |-> FALSE,
   legal |-> TRUE]

MCCondition ==
  [anonymous |-> [kind |-> "not", of |-> "login"],
   login     |-> [kind |-> "header_exists", header |-> "authorization"],
   ok        |-> [kind |-> "status_code_is", status |-> 200],
   okPublic  |-> [kind |-> "all", of |-> <<"ok", "anonymous">>]]
MCConditionIds == DOMAIN MCCondition

MCChain ==
  <<Mw("cache", None, "files"), Mw("forward", "anonymous", "")>>
MCRequests ==
  {Req("a", "x-target-host" :> "host"), Req("b", "authorization" :> "user")}
MCParts == [files |-> {"path", "query"}]
MCTtl   == [files |-> 0]
=============================================================================
