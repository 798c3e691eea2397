SPECIFICATION Spec
CONSTANTS
  TLSGP1 = 13
  Strs = {1, 2}
  Length <- MCLength
  Part <- MCPart
  Twice <- MCTwice
  Upper <- MCUpper
  Raised <- NoneRaised
  Stack = {"YPTR"}
  BlockSizes = {2}
  CaseFolds = TRUE
  CharFlags = {}
INVARIANT Tiled
PROPERTY StoreSpec
