CONSTANTS
  None = None
  Bits = {1, 2}
  NSlots = 2
  Offsets <- DisjointOffsets
  Magic <- MagicWord
  First = 1
  Backups = {}
  HalfErased <- TwoHalfErased
  IoErrors = {"read", "erase", "write"}
SPECIFICATION Spec
INVARIANTS IInv MemoryMatchesFlash
PROPERTY ImplementsBootOrder
ACTION_CONSTRAINT BoundedFaults
