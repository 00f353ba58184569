CONSTANTS
  Word <- MCWord
  Cpsr <- MCCpsr
  ResetCpsr <- MCResetCpsr
  Program <- TerminatingGuest
  Offered <- RunPackets
  MaxBreakpoints = 1
  MaxPackets = 2
  MaxClients = 1
  MaxIrqs = 1
  MaxDescriptors = 1
SPECIFICATION CallsFairSpec
PROPERTIES
  PacketServed
  IrqServed
  EndsWithSession
  ImplementsSimulator
