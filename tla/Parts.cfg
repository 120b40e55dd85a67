SPECIFICATION MCSpec
CONSTANTS
    QTasks = {"t1", "t2", "t3"}
    MaxLen = 3
    MaxLimit = 3
    Tasks = {"t1", "t2", "t3"}
    Families = {"F", "G"}
    Descendants <- MCDescendants
    NQueues = 2
    LastCycle = 1
    Ancestry <- MCAncestry
    Values = {"v", "w"}
    Longest = 0
    MaxRequests = 3
    MaxFailures = 1
    MaxFlow = 5
    MaxRestarts = 2
    GTasks = {"a", "b", "c"}
    Needs <- MCNeeds
    CanFail = {"a"}
    FlowOptions = {"default", "new", "none", "given"}
    WaitOptions = {TRUE, FALSE}
    Groups = {{"b"}, {"a", "b", "c"}}
    Removable = {"a"}
    MaxFlowNum = 2
    MaxFlowCommands = 2
    Nodes = {"a", "b", "c", "d"}
    Graph <- MCWindowGraph
    Extents = {1, 2}
    MaxWindowCommands = 1
    Icp = 2
    Fcp = 7
    Ats = {2, 5, 7, 8}
    MaxReps = 2
    MaxIntv = 3
    MaxExcluded = 1
    NoPoint = NoPoint
INVARIANTS
    ClosedForm
    LastAssignmentWins
    PriInSyncBut
    NotStrandedBut
    TriggeredHasRun
    WindowIsNearBut
    SequenceAsWrittenBut
    EveryCycleSpawnedBut
PROPERTIES
    NewIsNew
    InGroupOrderBut
    RunsOnceAFlow
CHECK_DEADLOCK FALSE
