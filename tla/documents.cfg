SPECIFICATION FairSpec
CONSTANTS
    a = a
    b = b
    Pieces = {a, b}
    Contents <- MCContents
    Calls = {c1, c2}
    MaxAdds = 2
    MaxMishaps = 1
INVARIANTS
    ClaimsAreBacked
    TextGoesWithDocument
    DoneMeansReadOnce
PROPERTIES
    OnlyCallersStore
    EventuallyDone
\* Calls and mishaps are bounded.
CHECK_DEADLOCK FALSE
