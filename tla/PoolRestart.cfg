SPECIFICATION MCSpec
CONSTANTS
    Names = {"a", "b"}
    FinalPoint = 3
    InitialStop = 2
    RunaheadLimit = 1
    Points <- EveryPoint
    Requires <- ChainRequires
    SuicideOn <- NoSuicide
    Completion <- ChainCompletion
    Emits <- ChainEmits
    Custom = {"x"}
    Renamed = {}
    Expires = {}
    Commands = {"hold", "stop"}
    MaxCommands = 3
    STasks = {"a", "b", "c"}
    Workflows <- MCWorkflows
    MaxInterventions = 2
INVARIANTS
    OutputsAgree
    NothingMissed
PROPERTIES
    StallTimerMeansStalledBut
    ComesToAnEndBut
CHECK_DEADLOCK FALSE
