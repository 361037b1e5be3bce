\* Content that goes and comes back under a call that is still reading it.
SPECIFICATION Spec
CONSTANTS
    a = a
    b = b
    Pieces = {a, b}
    Contents <- MCContents
    Calls = {c1, c2}
    MaxAdds = 3
    MaxMishaps = 0
INVARIANTS
    DoneMeansRead
\* Calls and mishaps are bounded.
CHECK_DEADLOCK FALSE
