SPECIFICATION StraySpec
CONSTANTS
  None = None
  Values = {a}
  MaxNodes = 2
PROPERTIES
  RemovedIsInvalid
