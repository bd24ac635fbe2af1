CONSTANTS
  Name = {f}
  NoName = NoName
  EqDepth = 3
  Leaf <- ReturnLeaves
  Construct <- ParameterConstructs
  MaxNodes = 4
SPECIFICATION Spec
INVARIANT RecursiveCallMatches
