SPECIFICATION Spec
CONSTANTS
  Starts <- MCStarts
  Written <- MCWritten
  MaxSteps = 2
INVARIANTS
  MaskedTextIsClean
  ReplyReturnsToItsSender
  TransformsAgree
