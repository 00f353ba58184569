CONSTANTS
  W = 4
  Amounts = 8
  Reg <- MCReg
  Registers <- MCRegisters
  Guest <- MCGuest
SPECIFICATION Spec
INVARIANTS
  ValuesTrue
  CarryTrue
  ShiftTrue
PROPERTIES
  SignTrue
