CONSTANTS
  Size = 4
  Space = 6
  Radix = 4
  BE = 1
  Esc = 3
  Special = {2, 3}
  Flip <- MCFlip
  Data <- MCData
  MaxSize = 5
  Numbers = {0, 9, 10, 16, 25}
  Values <- MCValues
  Given = {100}
  Start <- MCStart
  Words = {27}
SPECIFICATION Spec
INVARIANTS
  WritesTold
  ReadsTold
  DiesOnlyOutside
  RegistersKept
  TextIsWord
