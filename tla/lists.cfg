SPECIFICATION Spec
CONSTANTS
    a = a
    b = b
    Threads = {t1, t2}
    Ids = {a, b}
    From <- MCFrom
    To <- MCTo
    MaxCommits = 2
    MaxWrites = 3
    MaxTime = 1
SYMMETRY Interchangeable
INVARIANTS
    NothingMissed
    NothingStale
\* Commits and the clock are bounded.
CHECK_DEADLOCK FALSE
