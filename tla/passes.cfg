\* Two passes of a slot of three claims, of which the second is alike the first
\* and the third, beside callers that restate and close.
SPECIFICATION Spec
CONSTANTS
    Slots = {s1}
    Phrases = {1, 2, 3}
    Alike <- TouchingPhrases
    Passes = {p1, p2}
    Kinds <- AllAtOnce
    Page = 1
    Window = 2
    Neighbourhood = 3
    MinObservations = 2
    NewSalience = 4
    Bump = 2
    MassedBump = 1
    MaxSalience = 6
    SalienceFloor = 1
    Fade <- Halving
    MaxClaims = 3
    MaxHeard = 3
    MaxClosed = 1
    MaxTime = 1
CONSTRAINT ThirdStands
SYMMETRY EqualPasses
INVARIANTS
    FadesNoFaster
    PassIsIdempotent
PROPERTIES
    EvidenceKept
    LearningKept
\* Claims, closures, ticks and repeats are bounded.
CHECK_DEADLOCK FALSE
