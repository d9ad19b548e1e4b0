CONSTANTS
  None = None
  Bits = {1, 2, 3}
  NSlots = 3
  Offsets <- NestedOffsets
  Magic <- MagicWord
  First = 0
  Backups <- GoodAndStaleBackup
  HalfErased <- HalfErasedTables
  IoErrors = {}
SPECIFICATION FairSpec
INVARIANTS TypeOK OneCopySurvives MemoryMatchesFlash CorruptedHasCause EnabledIsHighest ListWellFormed
PROPERTIES SettlesOnOldOrNew ImplementsBootOrder CallsReturn
ACTION_CONSTRAINT BoundedFaults
