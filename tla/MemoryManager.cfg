SPECIFICATION Spec
CONSTANTS
  o1 = o1
  o2 = o2
  NoOwner = NoOwner
  Owner = {o1, o2}
  RegionStart = 3
  RegionSize = 5
  Sizes = {1, 2, 3}
INVARIANTS
  TypeOK
  Partition
  Coalesced
  OwnersExist
PROPERTIES
  Implements
