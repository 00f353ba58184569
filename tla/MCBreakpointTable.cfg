CONSTANTS
  Address <- MCAddress
  MaxBreakpoints <- MCMaxBreakpoints
SPECIFICATION TableFairSpec
INVARIANTS
  ProbeInUse
PROPERTIES
  ImplementsSet
  CallsReturn
