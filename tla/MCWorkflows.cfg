SPECIFICATION WorkflowsSpec
CONSTANTS
    master = master
    wrynose = wrynose
    Branches = {master, wrynose}
    MaxCommit = 2
    PrAttempts = 2
    plain = plain
    suffixed = suffixed
    Distros = {plain, suffixed}
    Boards = {b1, b2}
    BootPlans = {boot}
    PrePlans = {pre}
    Gated = {plain}
    Reads <- MCReads
    MaxLost = 1
    MaxFailed = 2
    Files = {f1, f2, f3}
    Statuses = 3
INVARIANTS
    WorkflowTypesOK CommentsSound HeadBuilt
    BootGate SummaryComplete ZeroMeansValid
PROPERTIES ImplementsContract BuildsTested TestRunEnds
CHECK_DEADLOCK FALSE
