CONSTANTS
  Word <- MCWord
  Cpsr <- MCCpsr
  ResetCpsr <- MCResetCpsr
  Program <- TerminatingGuest
  Offered <- SessionPackets
  MaxBreakpoints = 1
  MaxPackets = 2
  MaxClients = 2
  MaxIrqs = 1
  MaxDescriptors = 1
SPECIFICATION Spec
INVARIANTS
  AnswerTrue
  WritesWhole
  
PROPERTIES
  StopsAtBreakpoint
