SPECIFICATION MCSpec
CONSTANTS
    Size = 1
    LastPoint = 2
    Runahead = 0
    Labels = {"clock", "any"}
    Sequential = {"clock"}
    Clocks = {"clock"}
    Shared = {"any"}
    Troubles = {"remove", "stop", "set", "trigger", "hold", "error", "timeout", "broken"}
    MaxTroubles = 2
    RTasks = {"a", "b"}
    Group <- MCGroup
    HostsOf <- MCHostsOf
    TargetOf <- MCTargetOf
    Active <- MCActive
    MaxUsed = 2
    NPlays = 2
    Cleans = {clean}
    Clients = {}
    Nobody = Nobody
    MaxProcKills = 1
INVARIANTS
    OneCallAtATime
    ResultsKept
    NoJobForgotten
    FreshFilesBut
    OneSchedulerBut
PROPERTIES
    EveryoneRuns
    PreparingEnds
    StartsAloneBut
CHECK_DEADLOCK FALSE
