SPECIFICATION FairSpec
CONSTANTS
    None = None
    u1 = u1
    u2 = u2
    w1 = w1
    w2 = w2
    daily = daily
    search = search
    admin = admin
    hook = hook
    Users = {u1, u2}
    Workspaces = {w1, w2}
    Own <- MCOwn
    Admins = {u1}
    Requests = {daily, search, admin, hook}
    Kind <- MCKind
    Carries <- MCCarries
    PoolSize = 1
    MaxThreads = 1
    Faults = {"db", "shape"}
    MaxChanges = 1
INVARIANTS
    ResourcesComeBack
    ServedWereEntitled
    BriefsAreHonest
PROPERTIES
    EveryRequestEnds
CHECK_DEADLOCK FALSE
