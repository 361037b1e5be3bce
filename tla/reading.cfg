SPECIFICATION Spec
CONSTANTS
    w1 = w1
    alice = alice
    repo = repo
    bot = bot
    unset = unset
    noval = noval
    Forever = 3
    Users <- MCUsers
    Projects <- MCProjects
    Agents <- MCAgents
    Sessions = {}
    Unset = unset
    Predicates = {home, base}
    Values = {rome, oslo}
    NoValue = noval
    ExpiryHidden = TRUE
    Functional = {home, base}
    Global = {base}
    Supersedes <- MCSupersedes
    Superseding = {base}
    Superseded = {home}
    Said = {rome, oslo}
    Spoken = {home, base}
    Levels = {"user", "project", "agent in project"}
    Polarities = {FALSE}
    Froms = {0, 2}
    Widths = {0, 3}
    Tos = {2, 3}
    Recs = {3}
    Confs = {1}
    Exps = {2, 3}
    Speakers = {TRUE}
    Breadth = 1
    Statements <- MCTwoPredicates
    Writers = {}
    Ats = {}
    Serials = {1, 2}
SYMMETRY Rename
INVARIANTS
    OneValue
    ReadsOneOpenLevel
    StillAnswered
    ReadsWhatWasSaid
PROPERTIES
    ExpiryStaysInScope
\* The bounds on instants and writes stop the instance, not the system.
CHECK_DEADLOCK FALSE
