CONSTANTS
  Literal <- Literals
  Ident <- Idents
  NumberOf <- Numbers
  OperatorName <- Operators
  StatementKind <- AllKinds
  OperandKind <- AllKinds
  Arity <- Arities
  Lost <- ShortWrites
  MaxNodes = 4
SPECIFICATION Spec
INVARIANTS TypeOK InstructionsKeepMeaning LoadedIsEmitted AtInstruction OperandsBelong SlotHoldsLast
