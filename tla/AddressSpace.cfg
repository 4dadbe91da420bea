SPECIFICATION Spec
CONSTANTS
  VPages = 4
  PPages = 3
  MaxSize = 3
  Programs = {}
INVARIANTS
  Translates
  FindsFirst
  PageTableRight
