CONSTANTS
  None = None
  SlotNames = {"A", "B"}
  Provisioned <- OneSlot
  MaxPartitions = 7
  Requests <- SlotRequests
  Backups <- GoodAndBadBackups
  Checksums = FALSE
  HalfErased <- HalfErasedCopies
  IoErrors = {}
SPECIFICATION FairSpec
INVARIANTS OneCopySurvives MemoryMatchesFlash CorruptedHasCause
PROPERTIES SettlesOnOldOrNew EditsSlotAskedFor ImplementsSlotList CallsReturn
