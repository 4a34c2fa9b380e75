SPECIFICATION Spec
CONSTANTS
  v1 = v1
  v2 = v2
  x1 = x1
  x2 = x2
  Dvb = {v1, v2}
  Ext = {x1, x2}
  Spare = {x2}
  Starts <- MCStartsB
  Dur = 1
  MatchTol = 1
  FarTol = 1
  BreakTol = 2
  Fuzz = 1
  Window = 2
  Keep = 1
  MaxNow = 4
  MaxCrashes = 0
  HandlersPause = TRUE
  Reinstates = FALSE
INVARIANTS
  TypeOK
  DvbPlaced
  LinksSound
  TargetsLinked
  IdKnown
  ProgrammeOnce
PROPERTIES
  ExtIdSignalled
