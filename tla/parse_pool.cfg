SPECIFICATION Spec
CONSTANTS
  NFiles = 3
  Chunk = 3
  Size = 2
  Batch = 1
  Window = 2
  NWorkers = 7
  Faults = {"none", "error", "stall"}
  MaxKills = 1
  None = None
INVARIANTS Accounted NoStrayWorker
PROPERTIES NoPartialResults ParseEnds
