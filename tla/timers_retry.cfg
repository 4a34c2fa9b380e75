SPECIFICATION FairSpec
CONSTANTS
  e1 = e1
  e2 = e2
  p = p
  Events = {e1}
  Programmes = {p}
  Programme <- MCProgramme
  Versions = {1}
  Start <- MCStart
  Name <- MCName
  AvoidRepeats = TRUE
  None = None
  MaxTimers = 1
  MaxDones = 1
  MaxUser = 0
  MaxCrashes = 0
CHECK_DEADLOCK FALSE
PROPERTIES
  FailedRetried
