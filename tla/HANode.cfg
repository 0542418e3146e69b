SPECIFICATION Spec
CONSTANTS
  s1 = s1
  i1 = i1
  i2 = i2
  Int32Half = 16
  SRGName = {s1}
  Self = 1
  PeerID = 2
  BasePriority <- Base
  Preempt <- Yes
  TrackDecrement <- Tracked
  Heartbeats <- PeerStatuses
  HBThread = {recv, serve}
  LostThread = {timer}
  SwitchThread = {oper}
  LinkThread = {bus}
  Link = {i1, i2}
  LinkSRG <- OneSRG
  AdminEvents = FALSE
  DriversFail = TRUE
  MaxEvents = 4
  MaxLinkEvents = 3
  MaxOverlap = 3
  MaxLinkOverlap = 1
INVARIANTS TypeOK ReadyHasElector RolesPublished 
CHECK_DEADLOCK FALSE
SYMMETRY Sym
