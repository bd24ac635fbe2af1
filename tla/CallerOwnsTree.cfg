CONSTANTS
  Letter <- Letters
  Digit <- Digits
  Punct <- Puncts
  SizeT = 64
  File <- Files
  MaxDepth = 16
  CaptureName <- Captures
  Input <- CallInputs
SPECIFICATION Spec
INVARIANTS CallerOwnsTree
