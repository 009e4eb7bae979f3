SPECIFICATION Spec
CONSTANTS
  None = None
  Frames <- MCFrames
  OriginAnswers <- MCOriginAnswers
  MaxRedirects = {0, 5}
  Epochs = {1, 70000}
  ContentLength <- MCContentLength
  Decimal <- MCDecimal
  Find = 1
INVARIANTS
  TypeOK
  SameFromDisk
  OnlyWholeIsDecoded
  EstimateIsExact
  BodiesGoThrough
  LengthTells
CHECK_DEADLOCK FALSE
