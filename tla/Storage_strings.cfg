SPECIFICATION Spec
CONSTANTS
  TLSGP1 = 23
  Strs = {2, 3, 5}
  Length <- MCLength
  Part <- MCPart
  Twice <- MCTwice
  Upper <- MCUpper
  Raised <- NoneRaised
  Stack = {"YPTR"}
  BlockSizes = {}
  CaseFolds = FALSE
  CharFlags = {"TTL"}
INVARIANT Interned
INVARIANT TopFindsTitle
