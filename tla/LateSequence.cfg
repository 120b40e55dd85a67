SPECIFICATION CycSpec
CONSTANTS
    Icp = 2
    Fcp = 7
    Ats = {2, 7}
    MaxReps = 1
    MaxIntv = 3
    MaxExcluded = 0
    NoPoint = NoPoint
INVARIANT
    EveryCycleSpawned
CHECK_DEADLOCK FALSE
