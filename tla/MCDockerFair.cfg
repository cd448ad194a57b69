SPECIFICATION FairSpec
CONSTANTS
    crm = crm
    web = web
    t1 = t1
    t2 = t2
    t3 = t3
    NoTask = NoTask
    Projects <- OneProject
    NameContains <- OnlyItself
    Tasks <- TwoTasks
    Earlier <- CurrentAndOld
    MaxVersion = 1
    MaxContainers = 4
    Kinds = {"upgrade", "rollback", "restart", "start", "stop", "remove"}
    KillTime = 1
    BakPolls = 1
    KeepImages = 1
    Faults = TRUE
    MaxOps = 2
PROPERTIES
    EveryOperationEnds
    EveryStepCounts
