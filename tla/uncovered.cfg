SPECIFICATION LoopSpec
CONSTANTS
    Forever = 4
    Users = {}
    Projects = {}
    Agents = {}
    Sessions = {}
    Unset = unset
    Predicates = {}
    Values = {}
    NoValue = noval
    ExpiryHidden = TRUE
    Functional = {}
    Global = {}
    Supersedes = {}
    MaxStored = 3
    Widths = {0, 2}
INVARIANTS
    LoopsFindGaps
\* A claim is reconciled once: the loops stop when they are done.
CHECK_DEADLOCK FALSE
