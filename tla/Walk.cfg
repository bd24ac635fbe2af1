CONSTANTS
  Name = {f, g}
  NoName = NoName
  EqDepth = 3
  Leaf <- WalkLeaves
  Construct <- AnyConstruct
  MaxNodes = 3
SPECIFICATION Spec
SYMMETRY NameSymmetry
INVARIANTS TypeOK StacksBalanced StacksNameActivations StubsSettledOnce CallsSeeStubType ModuleNamesItself RecursionSeesOwnReturn ErrorsSilencedInOverloads
PROPERTIES NamesKeepTheirType ReturnsAgree
