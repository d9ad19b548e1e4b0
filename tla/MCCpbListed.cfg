CONSTANTS
  None = None
  Bits = {1, 2}
  NSlots = 2
  Offsets <- DisjointOffsets
  Magic <- MagicWord
  First = 1
  Backups = {}
  HalfErased <- TwoHalfErased
  IoErrors = {"erase"}
SPECIFICATION Spec
INVARIANT ProgrammedIsListed
