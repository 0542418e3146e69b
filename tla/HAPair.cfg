SPECIFICATION FairSpec
CONSTANTS
  Int32Half = 8
  SRGName = {s1}
  BasePriority <- Tied
  Preempt <- AllPreempt
  TrackDecrement <- Tracking
  QueueLen = 1
  MaxFaults = 1
  MaxSwitchovers = 1
  MaxLinkEvents = 1
  MaxDisturbances = 2
INVARIANTS TypeOK ContactElected ElectionAgrees
PROPERTIES Converges
