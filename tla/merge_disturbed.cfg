SPECIFICATION Spec
CONSTANTS
  v1 = v1
  v2 = v2
  x1 = x1
  x2 = x2
  Dvb = {v1, v2}
  Ext = {x1}
  Spare = {}
  Starts <- MCStarts
  Dur = 1
  MatchTol = 1
  FarTol = 1
  BreakTol = 1
  Fuzz = 1
  Window = 2
  Keep = 1
  MaxNow = 2
  MaxCrashes = 1
  HandlersPause = FALSE
  Reinstates = TRUE
INVARIANTS
  Published
  SettledOnce
