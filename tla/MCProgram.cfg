CONSTANTS
  Base = 8
  Size = 4
  MaxSections = 3
  Blank = Blank
  Garbled = Garbled
  Nothing = Nothing
  Code = Code
  Data = Data
  Streams <- Images
  IoErrors = {"file", "callback", "read", "write", "erase", "priority"}
  MaxFaults = 1
SPECIFICATION FairSpec
INVARIANTS ListedIsRelocated
PROPERTIES SuccessMeansMatch VerifyAcceptsProgrammed ListedDataStable CallsReturn
