SPECIFICATION Spec
CONSTANTS
    c1 = c1
    c2 = c2
    Client = {c1}
    MaxSeq = 2
    MaxReplay = 1
    Batch = 1
    MaxFaults = 1
CHECK_DEADLOCK FALSE
INVARIANTS NoGap
