SPECIFICATION Spec
CONSTANTS
    t1 = t1
    t2 = t2
    qa = qa
    Tasks <- TwoTasks
    Queues <- OneQueue
    QueueOf <- AllInOne
    Limit <- LimitTwo
    Platform <- OnePlatform
    Retries = 0
    Commands = {"trigger"}
    Results = {"ok"}
    MaxCommands = 3
    BatchSize = 3
INVARIANTS
    OneLiveJob
