SPECIFICATION Spec
CONSTANTS
    crm = crm
    web = web
    t1 = t1
    t2 = t2
    t3 = t3
    NoTask = NoTask
    Projects <- TwoProjects
    NameContains <- Unrelated
    Tasks <- TwoTasks
    Earlier <- BothCurrent
    MaxVersion = 2
    MaxContainers = 6
    Kinds = {"upgrade", "rollback", "remove", "build"}
    KillTime = 1
    BakPolls = 1
    KeepImages = 1
    Faults = TRUE
    MaxOps = 3
SYMMETRY Exchangeable
INVARIANTS
    SingleInstance
    NamedForItsImage
PROPERTIES
    RunningUntouched
    ImplementsSlots
