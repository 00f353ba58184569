CONSTANTS
  Argument = {1, 2, 3, 4, 5, 6}
  Atoi <- MCAtoi
  ModeOf <- MCModeOf
  Unwritable = {4}
  Ports = 8
  MaxFiles = 4
  Files = {2, 3, 5}
  MaxGiven = 5
SPECIFICATION Spec
INVARIANTS
  FilesFound
  OverrunOnlyFull
