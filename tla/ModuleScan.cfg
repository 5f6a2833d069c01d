\* Three modules for two workers, two changes of a tree or the manifest while
\* they are scanned, and one fault.
CONSTANTS
  Modules = {"a", "b", "c"}
  Order <- PoolOrder
  Files = {"code", "notes"}
  TopDir <- ScanDirs
  Lines <- ScanLines
  InitialTree <- PoolTree
  Concurrency = 2
  MaxScans = 1
  MaxEdits = 2
  MaxFaults = 1
SPECIFICATION Spec
CHECK_DEADLOCK FALSE
INVARIANTS
  StatusWasTrue
  QuietScanExact
PROPERTIES
  ScansEnd
