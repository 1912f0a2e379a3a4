SPECIFICATION Spec
CONSTANTS
  MaxAnalyses = 2
  Commits = {1, 2}
  Writers = {"cli"}
  Upsets = {{}, {"fault"}}
  None = None
INVARIANT UpToDateIsComplete
CHECK_DEADLOCK FALSE
