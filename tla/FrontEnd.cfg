CONSTANTS
  Letter <- Letters
  Digit <- Digits
  Punct <- Puncts
  SizeT = 64
  File <- Files
  MaxDepth = 16
  CaptureName <- Captures
  Input <- AllInputs
SPECIFICATION FairSpec
INVARIANTS LexTypeOK TokensCover LexemesMaximal TokensLocated MatchTypeOK CursorsOrdered RecursionBounded AcceptsSentences AcceptsEverySentence BindingRespected TreeReadsTokens
PROPERTIES ParseEnds
