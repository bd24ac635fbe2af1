CONSTANTS
  main = main
  module = module
  grammar = grammar
  Builtins = Builtins
  NoArg = NoArg
  Main = main
  File <- Files
  Grammar = {grammar}
  Statement <- Statements
  Template <- Templates
  MaxStatements = 2
  MaxOpen = 3
SPECIFICATION Spec
PROPERTIES ImportKept
