SPECIFICATION FairSpec
CONSTANTS
    p1 = p1
    p2 = p2
    p3 = p3
    Procs = {p1, p2, p3}
    Width <- MCWidth
    ReadOnly = {p3}
    MaxOpens = 4
    MaxBatches = 4
INVARIANTS
    FinishedWhenOpen
PROPERTIES
    
    OneWidth
    WaitsEnd
\* Opens and batches are bounded.
CHECK_DEADLOCK FALSE
