SPECIFICATION Spec
CONSTANTS
  MaxAnalyses = 2
  Commits = {1, 2}
  Writers = {"cli", "server"}
  Upsets = {{}, {"checkout"}, {"overlap"}, {"refresh"}, {"timeout"}, {"fault"}, {"fault", "unlinked"}}
  None = None
INVARIANTS OneAnalyzer MetaTellsDb ServesComplete
PROPERTIES CatchesUp
CHECK_DEADLOCK FALSE
