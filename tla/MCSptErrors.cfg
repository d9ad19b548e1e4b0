CONSTANTS
  None = None
  SlotNames = {"A", "B"}
  Provisioned <- SlotFirst
  MaxPartitions = 6
  Requests <- TwoRequests
  Backups <- NoSlotsBackup
  Checksums = TRUE
  HalfErased <- HalfErasedCopies
  IoErrors = {"read", "erase", "write"}
SPECIFICATION Spec
INVARIANTS IInv OneCopySurvives MemoryMatchesFlash
PROPERTY ImplementsSlotList
