SPECIFICATION Spec
CONSTANTS
    w1 = w1
    alice = alice
    repo = repo
    bot = bot
    unset = unset
    noval = noval
    Forever = 4
    Users <- MCUsers
    Projects <- MCProjects
    Agents <- MCAgents
    Sessions = {}
    Unset = unset
    Predicates = {home}
    Values = {rome, oslo}
    NoValue = noval
    ExpiryHidden = TRUE
    Functional = {home}
    Global = {}
    Supersedes <- MCSupersedes
    Superseding = {}
    Superseded = {}
    Said = {rome, oslo}
    Spoken = {home}
    Levels = {"user"}
    Polarities = {TRUE, FALSE}
    Froms = {1, 4}
    Widths = {0, 2}
    Tos = {2, 4}
    Recs = {0, 4}
    Confs = {1, 3}
    Exps = {4}
    Speakers = {TRUE, FALSE}
    Breadth = 1
    Statements <- MCWithTurns
    Writers = {w1}
    Ats = {}
    Serials = {1, 2}
CONSTRAINT MayStore
SYMMETRY Rename
INVARIANTS
    TypeOK
    OneValueSeen
    HeldOnce
    SaidIsHeldUntilKnown
    ForgottenForGood
PROPERTIES
    ClosesOneClock
    PastBeliefKept
\* The bounds on instants and writes stop the instance, not the system.
CHECK_DEADLOCK FALSE
