----------------------------- MODULE MCWildcard -----------------------------
(***************************************************************************)
(* Every text of up to four letters of a two-letter alphabet, against      *)
(* every pattern of up to three parts of up to two letters and of four     *)
(* parts of up to one letter.                                              *)
(***************************************************************************)
EXTENDS Wildcard

CONSTANTS
  Texts,     \* the texts tried: paths with their query
  Patterns   \* the patterns tried, split at the stars

\* Characters are strings, and split gives at least one part.
ASSUME WildcardAssumption ==
  /\ Texts \subseteq Seq(STRING)
  /\ \A ps \in Patterns : ps \in Seq(Seq(STRING)) /\ ps # <<>>

VARIABLES text, parts, verdict

Strings(n) == SeqOf({"a", "b"}, n)

MCTexts    == Strings(4)
MCPatterns == UNION {[1..k -> Strings(2)] : k \in 1..3} \union [1..4 -> Strings(1)]

Init ==
  /\ text \in Texts /\ parts \in Patterns
  /\ verdict = "pending"

Evaluate ==
  /\ verdict = "pending"
  /\ verdict' = IF ContainsWildcard(text, parts) THEN "accepted" ELSE "rejected"
  /\ UNCHANGED <<text, parts>>

Spec == Init /\ [][Evaluate]_<<text, parts, verdict>>
-----------------------------------------------------------------------------
\* Searching from left to right, each part at its first place, never
\* rejects a text that matches.
MatchesAccepted == verdict = "rejected" => ~Matches(text, parts)

\* Literals, prefixes `x*` and suffixes `*x` are decided exactly.
EndsAreExact ==
  (Len(parts) = 1 \/ (Len(parts) = 2 /\ <<>> \in {parts[1], parts[2]})) =>
    (verdict = "accepted" => Matches(text, parts))

\* path_contains: a text that is accepted contains what is between the stars.
AcceptedContains ==
  verdict = "accepted" =>
    \A i \in 1..Len(parts) : \E p \in 0..Len(text) : OccursAt(text, p, parts[i])
=============================================================================
