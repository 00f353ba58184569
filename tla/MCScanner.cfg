CONSTANTS
  Inputs <- MCInputs
  YY_BUF_SIZE = 2
  YY_READ_BUF_SIZE = 3
SPECIFICATION FairSpec
INVARIANTS
  InBuffer
  WaitsWhenOpen
PROPERTIES
  CutsByRules
  ScanEnds
