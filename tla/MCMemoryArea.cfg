CONSTANTS
  Size = 5
  Space = 8
  Radix = 2
SPECIFICATION Spec
INVARIANTS
  ReadsBack
PROPERTIES
  WritesOnlyTouched
  AcceptsInside
