SPECIFICATION Spec
CONSTANTS
    w1 = w1
    w2 = w2
    Writers <- TwoWriters
    Lengths <- TwoLengths
    MaxDay = 2
    MaxEntries = 3
    MaxRestarts = 1
SYMMETRY Symmetry
CHECK_DEADLOCK FALSE
INVARIANTS
    TypeOK
    ReadsBack
    WithinFile
    OneStream
