CONSTANTS
  None = None
  SlotNames = {"A", "B"}
  Provisioned <- SlotFirst
  MaxPartitions = 6
  Requests <- TwoRequests
  Backups <- NoSlotsBackup
  Checksums = TRUE
  HalfErased = {}
  IoErrors = {"read", "erase", "write"}
SPECIFICATION Spec
INVARIANT ChecksumIsRight
