SPECIFICATION Spec
CONSTANTS
  LastVersion = 3
  LastArtifact = 2
  Ships <- ShipsAll
  NeedsVPP = {2}
  Stepwise = {2}
  Forces = {FALSE, TRUE}
  MaxApplies = 3
  MaxRollbacks = 2
  MaxKills = 2
  MaxFailures = 2
INVARIANTS TypeOK RollbackPossible StartsWhole
CHECK_DEADLOCK FALSE
