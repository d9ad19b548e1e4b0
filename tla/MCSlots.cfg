CONSTANTS
  None = None
  SlotNames = {"A", "B"}
  MaxPartitions = 7
  Provisioned <- TwoSlots
  Shipped <- ShippedB
  Requests <- SlotRequests
  SptBackups <- Backups
  CpbBackups <- PointerBackups
  MaxPointers = 2
  WriteProtected = {1}
  MaxFaults = 1
SPECIFICATION TrackedSpec
INVARIANTS   CallersSeeFlash
PROPERTIES EditsSlotMeant ProtectedDataKept 
