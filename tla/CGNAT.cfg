SPECIFICATION Spec
CONSTANTS
  s1 = s1
  s2 = s2
  a1 = a1
  a2 = a2
  Sessions = {s1, s2}
  IPs = {a1, a2}
  NoIP = NoIP
  NoBlock = NoBlock
  Blocks <- TheBlocks
  Excluded <- TheExcluded
  QueueBound = 1
  MaxFault = 1
SYMMETRY Alike
INVARIANTS TypeOK PoolExact SettledAgrees LookupNames ActivationsEnd
PROPERTIES BlockKept
CHECK_DEADLOCK FALSE
