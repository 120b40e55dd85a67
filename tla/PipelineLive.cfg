SPECIFICATION FairSpec
CONSTANTS
    t1 = t1
    t2 = t2
    qa = qa
    Tasks <- TwoTasks
    Queues <- OneQueue
    QueueOf <- AllInOne
    Limit <- LimitOne
    Platform <- TwoPlatforms
    Retries = 1
    Commands = {"hold", "release", "kill", "badreload"}
    Results = {"ok", "fail"}
    MaxCommands = 2
    BatchSize = 1
PROPERTIES
    ReadyRuns
