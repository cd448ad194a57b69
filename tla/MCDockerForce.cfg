SPECIFICATION Spec
CONSTANTS
    crm = crm
    web = web
    t1 = t1
    t2 = t2
    t3 = t3
    NoTask = NoTask
    Projects <- OneProject
    NameContains <- OnlyItself
    Tasks <- TwoTasks
    Earlier <- JustCurrent
    MaxVersion = 1
    MaxContainers = 7
    Kinds = {"upgrade", "rollback", "restart"}
    KillTime = 2
    BakPolls = 1
    KeepImages = 1
    Faults = FALSE
    MaxOps = 4
SYMMETRY Exchangeable
PROPERTY ForceRemoves
