SPECIFICATION Spec
CONSTANTS
    crm = crm
    web = web
    t1 = t1
    t2 = t2
    t3 = t3
    NoTask = NoTask
    Projects <- OneProject
    NameContains <- OnlyItself
    Tasks <- ThreeTasks
    Earlier <- CurrentAndOld
    MaxVersion = 1
    MaxContainers = 7
    Kinds = {"upgrade", "rollback", "stop"}
    KillTime = 2
    BakPolls = 1
    KeepImages = 1
    Faults = TRUE
    MaxOps = 4
SYMMETRY Exchangeable3
INVARIANTS
    TypeOK
    Exclusive
    SingleInstance
    BackupKept
PROPERTIES
    RunningUntouched
    ImplementsSlots
