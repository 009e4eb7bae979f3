SPECIFICATION Spec
CONSTANTS
  Texts <- MCTexts
  Patterns <- MCPatterns
INVARIANTS
  AcceptedContains
CHECK_DEADLOCK FALSE
