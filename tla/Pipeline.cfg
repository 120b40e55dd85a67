SPECIFICATION Spec
CONSTANTS
    t1 = t1
    t2 = t2
    qa = qa
    Tasks <- TwoTasks
    Queues <- OneQueue
    QueueOf <- AllInOne
    Limit <- LimitOne
    Platform <- OnePlatform
    Retries = 1
    Commands = {"hold", "release", "trigger", "remove", "pause", "reload"}
    Results = {"ok", "fail", "255"}
    MaxCommands = 3
    BatchSize = 1
INVARIANTS
    OneLiveJob
    PreparingIsPushed
PROPERTIES
    QueueLimitKept
