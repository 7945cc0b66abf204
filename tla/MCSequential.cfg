SPECIFICATION SequentialSpec
CONSTANTS
  Declarations <- SomeDeclarations
  Tokens <- SomeTokens
  MaxArgs = 4
  MaxUInt = 1000
  HashBytes = {40, 41, 98, 116, 130}
  HashModulus = 32768
  HashLength = 3
  Guids = {a1, a2, a3}
  Counts <- AroundInt
  IntMax = 3
  Strings <- SomeStrings
  UIntMod = 512
INVARIANTS PartsTypeOK ParsedAsMeant PaddedAsMd5 EveryWordMixed OneByteApart MarksCount
PROPERTIES ParserEnds
CHECK_DEADLOCK FALSE
