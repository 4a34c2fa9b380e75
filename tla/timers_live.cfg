SPECIFICATION FairSpec
CONSTANTS
  e1 = e1
  e2 = e2
  p = p
  Events = {e1, e2}
  Programmes = {p}
  Programme <- MCProgramme
  Versions = {1}
  Start <- MCStart
  Name <- MCName
  AvoidRepeats = TRUE
  None = None
  MaxTimers = 2
  MaxDones = 2
  MaxUser = 1
  MaxCrashes = 1
CHECK_DEADLOCK FALSE
INVARIANTS
  TypeOK
  OnceScheduled
PROPERTIES
  EventuallyScheduled
