SPECIFICATION Spec
CONSTANTS
    a = a
    b = b
    Threads = {t1, t2}
    Ids = {a}
    From <- MCFrom
    To <- MCTo
    MaxCommits = 2
    MaxWrites = 0
    MaxTime = 1
SYMMETRY Interchangeable
INVARIANTS
    NothingInvisible
\* Commits and the clock are bounded.
CHECK_DEADLOCK FALSE
