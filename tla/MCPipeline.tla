----------------------------- MODULE MCPipeline -----------------------------
(***************************************************************************)
(* Small instances of the read-through path: the chains of the README and  *)
(* of the examples, and two chains that stack caches.  Each .cfg picks one *)
(* chain with its requests and caches.                                     *)
(***************************************************************************)
EXTENDS PipelineProperties, TLC

CONSTANTS c1, c2, c3

TwoCalls   == {c1, c2}
ThreeCalls == {c1, c2, c3}
Symmetry   == Permutations(Calls)

Req(path, query, headers) == [path |-> path, query |-> query, body |-> "", headers |-> headers]
NoHeaders  == <<>>
Authorized == "authorization" :> "user"
To(host)   == "x-target-host" :> host

Mw(kind, when, cache) ==
  [kind |-> kind, when |-> when, cache |-> cache, status |-> 403, target |-> TRUE, legal |-> TRUE]

\* The conditions of all configurations.
MCCondition ==
  [download  |-> [kind |-> "path_contains", pattern |-> "*download"],
   elsewhere |-> [kind |-> "not", of |-> "download"],
   metadata  |-> [kind |-> "path_contains", pattern |-> "/metadata/*"],
   packages  |-> [kind |-> "path_contains", pattern |-> "/packages/*"],
   either    |-> [kind |-> "any", of |-> <<"metadata", "packages">>],
   anonymous |-> [kind |-> "not", of |-> "login"],
   login     |-> [kind |-> "header_exists", header |-> "authorization"],
   ok        |-> [kind |-> "status_code_is", status |-> 200],
   okPublic  |-> [kind |-> "all", of |-> <<"ok", "anonymous">>],
   refused   |-> [kind |-> "status_code_is", status |-> 403],
   denied    |-> [kind |-> "all", of |-> <<"login", "refused">>],
   addressed |-> [kind |-> "header_exists", header |-> "x-target-host"]]
MCConditionIds == DOMAIN MCCondition

\* The patterns, split at the stars, and the texts of path_and_query, both as
\* sequences of words: contains_wildcard decides which go together.
Wild == INSTANCE Wildcard

PatternParts ==
  "*download" :> << <<>>, <<"download">> >>
    @@ "/metadata/*" :> << <<"/", "metadata", "/">>, <<>> >>
    @@ "/packages/*" :> << <<"/", "packages", "/">>, <<>> >>
PathWords ==
  "/download" :> <<"/", "download">> @@ "/other" :> <<"/", "other">>
    @@ "/metadata/" :> <<"/", "metadata", "/">> @@ "/packages/" :> <<"/", "packages", "/">>
Text(path, query) == PathWords[path] \o (IF query = "" THEN <<>> ELSE <<"?", query>>)

MCPathMatches ==
  {<<path, query, pattern>> \in
      (DOMAIN PathWords) \X {"", "download", "a"} \X (DOMAIN PatternParts) :
     Wild!ContainsWildcard(Text(path, query), PatternParts[pattern])}

\* README.md, with the log, the header in front and the condition of the cache
\* that the examples add (examples/deviceatlas/config.yaml).
ReadmeChain ==
  <<Mw("log", None, ""), Mw("add_header", None, ""), Mw("block", "elsewhere", ""),
    Mw("cache", "ok", "files"), Mw("forward", None, "")>>
ReadmeRequests ==
  {Req("/download", "", NoHeaders), Req("/download", "download", NoHeaders),
   Req("/download", "a", NoHeaders), Req(None, "", NoHeaders)}
FilesByPath == [files |-> {"path", "query"}]
FilesTtl    == [files |-> 1]

\* Two caches that divide the paths between them, as the nuget example has
\* them, but with patterns that contains_wildcard decides exactly.
SplitChain ==
  <<Mw("block", "login", ""), Mw("cache", "metadata", "metadata"),
    Mw("cache", "packages", "packages"), Mw("replace_body", "either", ""),
    Mw("forward", None, "")>>
SplitRequests ==
  {Req("/metadata/", "a", NoHeaders), Req("/packages/", "a", NoHeaders),
   Req("/metadata/", "a", Authorized)}
SplitParts == [metadata |-> {"path", "query"}, packages |-> {"path", "query"}]
SplitTtl   == [metadata |-> 0, packages |-> 1]

\* A cache in front of another one that hashes less and takes only what it may
\* show to everyone, both behind a cache that is not configured and a body
\* replacement; a header that is not one, and a forward without a target.
TieredChain ==
  <<Mw("replace_body", "ok", ""), Mw("cache", "ok", "missing"), Mw("cache", None, "outer"),
    Mw("cache", "okPublic", "inner"), [Mw("add_header", "denied", "") EXCEPT !.legal = FALSE],
    [Mw("forward", "addressed", "") EXCEPT !.target = FALSE]>>
TieredRequests ==
  {Req("/download", "a", To("host")), Req("/other", "a", To("")), Req("/other", "a", NoHeaders),
   Req("/other", "download", Authorized @@ To("host"))}
TieredParts == [outer |-> {"path", "query"}, inner |-> {"query"}]
TieredTtl   == [outer |-> 0, inner |-> 0]
=============================================================================
