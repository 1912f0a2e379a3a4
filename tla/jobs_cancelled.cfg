SPECIFICATION HistorySpec
CONSTANTS
  Job = {j1}
  Repo = {r1}
  None = None
  Other = Other
  MaxRetries = 2
  MaxReaders = 1
  MaxIpc = 2
PROPERTIES
  CancelledNeverRestarts
