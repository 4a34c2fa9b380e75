SPECIFICATION Spec
CONSTANTS
  None = None
  Count = 2
  Epg <- MCEpg
  Hour = 4
  Half = 8
  MinBox = 2
  Wide = 5
  Opening = 12
  JumpTimes = {0, 16}
  MaxView = 3
  MaxLater = 2
  MaxLost = 1
CHECK_DEADLOCK FALSE
INVARIANTS
  TypeOK
  VisibleCovered
  InOrder
  NothingMissing
  BackInStepDown
PROPERTY
  Promised
