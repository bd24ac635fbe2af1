CONSTANTS
  Literal <- Literals
  Ident <- Idents
  NumberOf <- Numbers
  OperatorName <- Operators
  StatementKind <- AllKinds
  OperandKind <- AllKinds
  Arity <- Arities
  Lost <- ShortWrites
  MaxNodes = 3
SPECIFICATION Spec
PROPERTIES RetResumesCaller
