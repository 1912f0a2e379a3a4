SPECIFICATION Spec
CONSTANTS
  MaxAnalyses = 1
  Commits = {1, 2}
  Writers = {"server"}
  Upsets = {{}, {"refresh"}}
  None = None
PROPERTY CompleteIsQueryable
CHECK_DEADLOCK FALSE
