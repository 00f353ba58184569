CONSTANTS
  W = 4
  Amounts = 8
  Size = 12
  ENDIANESS = 1
  Reg <- MCReg
  Decode <- MCDecode
  Registers <- MCRegisters
  Contents <- MCContents
SPECIFICATION FairSpec
INVARIANTS
  TypeOK
  Opposites
PROPERTIES
  FailuresPrecise
  StoresInBlock
  StoresInOrder
  StraightLineEnds
