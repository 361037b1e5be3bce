\* Two processes over a claim and a turn, and two commits.
SPECIFICATION Spec
CONSTANTS
    Procs = {p1, p2}
    Threads = {t1}
    Claims = {c1}
    Turns = {e1}
    Wordings = {w1, w2}
    Writer = Writer
    Nobody = Nobody
    Blank = Blank
    MaxCommits = 2
    LastSeq <- ClaimsTwice
SYMMETRY Equal
INVARIANTS
    RowsHaveOneOwner
    
    
    MapPointsHome
    SearchFolds
\* A batch begins only while commits are left.
CHECK_DEADLOCK FALSE
