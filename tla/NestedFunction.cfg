CONSTANTS
  Name = {f, g}
  NoName = NoName
  EqDepth = 3
  Leaf <- ReturnLeaves
  Construct <- NestedConstructs
  MaxNodes = 5
SPECIFICATION Spec
SYMMETRY NameSymmetry
INVARIANTS ReturnTypeKnown
