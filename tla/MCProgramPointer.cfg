CONSTANTS
  Base = 8
  Size = 4
  MaxSections = 3
  Blank = Blank
  Garbled = Garbled
  Nothing = Nothing
  Code = Code
  Data = Data
  Streams <- AbsoluteImages
  IoErrors = {}
  MaxFaults = 0
SPECIFICATION Spec
INVARIANT PointersInSlot
