SPECIFICATION Spec
CONSTANTS
    Path <- DescriptionPaths
    ValueOf <- MCValueOf
    DependsOn <- MCDependsOn
    RollbackOf <- MCRollbackOf
    Cached <- DescriptionCached
    Initial <- DescriptionInitial
    MaxSession = 2
    MaxChange = 2
    MaxFault = 1
    MaxCrash = 1
    MaxDown = 1
    FailureThreshold = 2
    ReconnectMaxRetries = {0, 1}
    OnFailure = {"recover", "restart", "warn", "fail"}
INVARIANTS TypeOK OneEditor RunningIsApplied RunningIsSaved
PROPERTIES CommitsWhatWasSet  Recovers
CHECK_DEADLOCK FALSE
