SPECIFICATION Spec
CONSTANTS
  LastVersion = 2
  LastArtifact = 2
  Ships <- ShipsSame
  NeedsVPP = {}
  Stepwise = {2}
  Forces = {FALSE}
  MaxApplies = 2
  MaxRollbacks = 1
  MaxKills = 1
  MaxFailures = 1
INVARIANT RollbackRestores
CHECK_DEADLOCK FALSE
