SPECIFICATION Spec
CONSTANTS
    alice = alice
    unset = unset
    noval = noval
    rome = rome
    oslo = oslo
    Forever = 2
    Users = {alice}
    Projects = {}
    Agents = {}
    Sessions = {}
    Unset = unset
    Predicates = {home}
    Values = {rome, oslo}
    NoValue = noval
    ExpiryHidden = TRUE
    Functional = {home}
    Global = {}
    Supersedes = {}
    Calls = {c1, c2}
    Texts = {"Rome", "Oslo"}
    Says <- MCSays
    Paraphrases = {"Rome"}
    Proposing = TRUE
    Topic = home
    Here <- MCScope
    MaxAdds = 2
    MaxMishaps = 1
INVARIANTS
    CitesStored
    HeardAsSaid
    SaidAgainIsBelieved
PROPERTIES
    ClosuresStand
    RetryConverges
    WritesTheLedger
CHECK_DEADLOCK FALSE
SYMMETRY Interchangeable
