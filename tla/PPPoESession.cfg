SPECIFICATION Spec
CONSTANTS
  Session = {s1, s2}
  Nobody = Nobody
  LastAddr = 1
  Excluded = {}
  k1 = k1
  k2 = k2
  Key = {k1, k2}
  NoKey = NoKey
  MaxSid = 2
  Framed <- MCFramed
  MaxReq = 2
  MaxAdd = 1
  MaxFault = 1
  MaxRestart = 1
SYMMETRY Sym
INVARIANTS TypeOK AdmittedByLatest AddressHeld  
CHECK_DEADLOCK FALSE
