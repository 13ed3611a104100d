\* Two tasks that make two or three calls between them; one crash or failure.
CONSTANTS
  Task = {t1, t2}
  Inode = {i1, i2, i3, i4}
  Chunks = 2
  Entries = {"file", "nested", "none", "onnx"}
  None = None
  MaxCalls <- Calls
  MaxFaults = 1
SPECIFICATION LibrarySpec
INVARIANTS
  QuietIsWhole
  PartIsAtomic
  ListedIsComplete
PROPERTY EveryCallReturns
CHECK_DEADLOCK FALSE
