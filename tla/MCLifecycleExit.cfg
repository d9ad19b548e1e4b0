CONSTANTS
  None = None
  Threads = {t1}
  Files <- ConfigFiles
  RsuDevice = "rsu.0"
  RootDevice = "mtd0"
  Stages = {1, 2}
  Retries = {0, 1}
  Features = {"acmf", "dcmf"}
SPECIFICATION Spec
PROPERTIES LogReleased
