SPECIFICATION Spec
CONSTANTS
  WordBits = 8
  DataBytes = 64
  Programs <- MCPrograms
  SliceLength = 11
  Starts <- MCStarts
INVARIANTS
  InstructionsRight
  CallReturns
  NoLostUpdate
