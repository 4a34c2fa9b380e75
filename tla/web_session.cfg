SPECIFICATION FairSpec
CONSTANTS
  a = a
  b = b
  r1 = r1
  r2 = r2
  Users = {a, b}
  Reqs = {r1, r2}
  Nobody = Nobody
  Unset = Unset
  None = None
  MaxCalls = 3
  MaxFaults = 1
  MaxLost = 1
CHECK_DEADLOCK FALSE
INVARIANTS
  TypeOK
  AtMostOnce
  PageOfUser
  RestartUnnoticed
  NoOrphan
PROPERTY
  EveryClickAnswered
