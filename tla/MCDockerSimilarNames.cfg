SPECIFICATION Spec
CONSTANTS
    crm = crm
    web = web
    t1 = t1
    t2 = t2
    t3 = t3
    NoTask = NoTask
    Projects <- TwoProjects
    NameContains <- Ends
    Tasks <- TwoTasks
    Earlier <- WebThenCrm
    MaxVersion = 2
    MaxContainers = 6
    Kinds = {"rollback"}
    KillTime = 2
    BakPolls = 1
    KeepImages = 1
    Faults = FALSE
    MaxOps = 3
SYMMETRY Exchangeable
PROPERTY RollbackNeedsOwnOld
