SPECIFICATION FairSpec
CONSTANTS
  Job = {j1}
  Repo = {r1}
  None = None
  Other = Other
  MaxRetries = 2
  MaxReaders = 2
  MaxIpc = 3
INVARIANTS
  LockCoversWork
  LockHolderReleases
PROPERTIES
  CompletedNeverReruns
  LockComesBack
