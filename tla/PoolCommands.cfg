SPECIFICATION Spec
CONSTANTS
    Names = {"a", "b", "c"}
    FinalPoint = 2
    InitialStop = 2
    RunaheadLimit = 0
    Points <- EveryPoint
    Requires <- EitherRequires
    SuicideOn <- NoSuicide
    Completion <- Success
    Emits <- EmitsSuccess
    Custom = {}
    Renamed = {}
    Expires = {}
    Commands = {"remove", "set prereqs", "set outputs", "stop point", "hold", "stop"}
    MaxCommands = 3
INVARIANTS
    HeldMatchesList
    SatisfiedByOutputs
PROPERTIES
    LimitedByStop
    RunsOnce
CHECK_DEADLOCK FALSE
