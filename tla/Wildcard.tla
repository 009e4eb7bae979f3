------------------------------ MODULE Wildcard ------------------------------
(***************************************************************************)
(* contains_wildcard (src/config/conditions.rs), the test behind the       *)
(* path_contains condition.  A text is a sequence of characters.  A        *)
(* pattern is given by its parts, what split('*') makes of it: the literal *)
(* sequences between the stars, empty ones included.                       *)
(***************************************************************************)
EXTENDS Integers, Sequences, FiniteSets, SequencesExt

\* find: the first place at or after pos where part occurs, if any.
OccursAt(t, pos, part) ==
  pos + Len(part) <= Len(t) /\ SubSeq(t, pos + 1, pos + Len(part)) = part

Occurrences(t, pos, part) == {p \in pos..Len(t) : OccursAt(t, p, part)}

Nowhere == -1

\* Mutant of Advance: one character too many is skipped.
AdvanceTooFar(t, pos, part) ==
  IF pos = Nowhere \/ Occurrences(t, pos, part) = {} THEN Nowhere
  ELSE Min(Occurrences(t, pos, part)) + Len(part) + 1

Advance(t, pos, part) ==
  IF pos = Nowhere \/ Occurrences(t, pos, part) = {} THEN Nowhere
  ELSE Min(Occurrences(t, pos, part)) + Len(part)

\* The part at i is among those that filter(non-empty).skip(1).take(parts.len() - 2)
\* leaves: it is not empty, and as many others before it are not.
Searched(ps, i) ==
  ps[i] # <<>> /\ Cardinality({j \in 1..(i - 1) : ps[j] # <<>>}) \in 1..(Len(ps) - 2)

\* The loop: where the search is after the first i parts.
Positions(t, ps) ==
  LET pos[i \in 0..Len(ps)] ==
        IF i = 0 THEN Len(ps[1])
        ELSE IF Searched(ps, i) THEN Advance(t, pos[i - 1], ps[i]) ELSE pos[i - 1]
  IN  pos

\* Mutant of EndFits: the end of the text is not looked at.
EndUnchecked(t, ps) == TRUE

\* pattern.ends_with('*'), or text.ends_with(last).
EndFits(t, ps) == IsSuffix(ps[Len(ps)], t)

ContainsWildcard(t, ps) ==
  IF Len(ps) = 1 THEN t = ps[1]
  ELSE /\ IsPrefix(ps[1], t)
       /\ EndFits(t, ps)
       /\ Positions(t, ps)[Len(ps)] # Nowhere

\* What a pattern with stars means: its parts occur in order, without
\* overlap, the first at the start of the text and the last at its end.
Matches(t, ps) ==
  \E at \in [1..Len(ps) -> 0..Len(t)] :
    /\ \A i \in 1..Len(ps) : OccursAt(t, at[i], ps[i])
    /\ at[1] = 0 /\ at[Len(ps)] + Len(ps[Len(ps)]) = Len(t)
    /\ \A i \in 1..(Len(ps) - 1) : at[i] + Len(ps[i]) <= at[i + 1]
=============================================================================
