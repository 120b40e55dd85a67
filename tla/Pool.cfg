SPECIFICATION LiveSpec
CONSTANTS
    Names = {"a", "r", "c"}
    FinalPoint = 4
    InitialStop = 3
    RunaheadLimit = 1
    Points <- EveryPoint
    Requires <- RecoveryRequires
    SuicideOn <- RecoverySuicide
    Completion <- RecoveryCompletion
    Emits <- RecoveryEmits
    Custom = {}
    Renamed = {}
    Expires = {"c"}
    Commands = {}
    MaxCommands = 0
INVARIANTS
    WithinRunaheadLimit
PROPERTIES
    Implements
    Settles
CHECK_DEADLOCK FALSE
