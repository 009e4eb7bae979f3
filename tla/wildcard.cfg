SPECIFICATION Spec
CONSTANTS
  Texts <- MCTexts
  Patterns <- MCPatterns
INVARIANTS
  MatchesAccepted
  EndsAreExact
CHECK_DEADLOCK FALSE
