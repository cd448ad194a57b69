SPECIFICATION Spec
CONSTANTS
    m1 = m1
    m2 = m2
    p1 = p1
    p2 = p2
    r1 = r1
    r2 = r2
    Nobody = Nobody
    Machines <- TwoMachines
    Projects <- TwoProjects
    Requests <- TwoRequests
    Kinds = {"add", "move", "delete", "deleteMachine", "deleteProject"}
    MaxAsked = 4
    MaxStops = 1
SYMMETRY Exchangeable
INVARIANTS
    TypeOK
    NoAddedTwin
    FoundWhereItIs
PROPERTIES
    ProjectKept
    ImplementsPlacements
