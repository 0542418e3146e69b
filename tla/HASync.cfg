SPECIFICATION Spec
CONSTANTS
  s1 = s1
  s2 = s2
  Nobody = nobody
  Session = {s1, s2}
  LastAddr = 3
  Excluded = {3}
  Static = {3}
  PPPoE = {}
  Turning <- OnlyStandby
  ChanCap = 1
  MaxPublished = 3
  MaxLost = 1
SYMMETRY Symmetry
INVARIANTS TypeOK PoolsConserved StandbyMirrors
CHECK_DEADLOCK FALSE
