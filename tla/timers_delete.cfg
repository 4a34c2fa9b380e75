SPECIFICATION Spec
CONSTANTS
  e1 = e1
  e2 = e2
  p = p
  Events = {e1}
  Programmes = {p}
  Programme <- MCProgramme
  Versions = {1, 2}
  Start <- MCStart
  Name <- MCName
  AvoidRepeats = TRUE
  None = None
  MaxTimers = 1
  MaxDones = 1
  MaxUser = 1
  MaxCrashes = 0
CHECK_DEADLOCK FALSE
PROPERTIES
  DeleteRequestKept
