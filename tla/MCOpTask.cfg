SPECIFICATION FairSpec
CONSTANTS
    t1 = t1
    t2 = t2
    i1 = i1
    NoTask = NoTask
    Tasks <- TwoTasks
    Instances <- OneInstance
    Kinds <- TwoKinds
    Command = TRUE
    Findings <- TwoFindings
    MaxCrashes = 1
INVARIANTS
    TypeOK
    DoneMeansEnded
    ScriptOwn
PROPERTIES
    TaskEnds
    PageStops
CHECK_DEADLOCK FALSE
