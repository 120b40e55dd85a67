SPECIFICATION MCSpec
CONSTANTS
    ExecRetries = 1
    SubmitRetries = 1
    MaxSubmits = 2
    MaxPolls = 1
    Troubles = {"fault", "request", "restart"}
    MaxTroubles = 1
    Push = TRUE
    SlowSubmit = FALSE
    CTasks = {"a", "b", "c"}
    Parents <- MCParents
    MaxKills = 2
    MaxTriggers = 1
INVARIANTS
    LiveJobIsActive
    OneTryPerJob
PROPERTIES
    JobEndKnownBut
    StartsAfterParents
    NoRerun
    EveryTaskRunsBut
CHECK_DEADLOCK FALSE
