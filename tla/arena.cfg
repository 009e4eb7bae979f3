SPECIFICATION Spec
CONSTANTS
  None = None
  Values = {a, b}
  MaxNodes = 4
INVARIANTS
  TypeOK
  Linked
  HandlesListed
PROPERTIES
  IsASequence
