SPECIFICATION Spec
CONSTANTS
    m1 = m1
    m2 = m2
    p1 = p1
    p2 = p2
    r1 = r1
    r2 = r2
    Nobody = Nobody
    Machines <- TwoMachines
    Projects <- OneProject
    Requests <- TwoRequests
    Kinds = {"add", "deleteMachine", "deleteProject"}
    MaxAsked = 4
    MaxStops = 0
SYMMETRY Exchangeable
INVARIANT InstancesPlaced
