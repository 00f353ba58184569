CONSTANTS
  MaxRequests = 3
  Letter <- MCLetter
  MAX_ERROR_SIZE = 4
  Junk <- MCJunk
  MaxFaults = 2
  MaxTries = 3
SPECIFICATION FairSpec
INVARIANTS
  TypeOK
  RepeatsBounded
  OneFaultMended
PROPERTIES
  InOrder
  Settles
