SPECIFICATION Spec
CONSTANTS
  t1 = t1
  t2 = t2
  t3 = t3
  vdr = vdr
  a = a
  b = b
  Timers = {t1, t2, t3}
  Vdrs = {vdr}
  Tuners <- MCTuners
  None = None
  DayLen = 3
  Rows <- MCRows
  MaxChecks = 2
  MaxMoves = 1
SYMMETRY MCSymmetry
INVARIANTS
  TypeOK
  NoConflictMissed
  ConflictsCounted
