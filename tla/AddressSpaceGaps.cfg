SPECIFICATION Spec
CONSTANTS
  VPages = 4
  PPages = 3
  MaxSize = 3
  Programs = {"gaps"}
INVARIANTS
  Translates
