SPECIFICATION MCSpec
CONSTANTS
    CmThreshold = 2
    CmWindow = 10
    CmUsages = {2, 9}
    CmPreserve = 2
    CmMax = 2
    CmRequests = 1
    CmTimeline = 3
    CmLong <- MCLong
    CmLonger <- MCLonger
    CmMaxRuns = 6
    PvIds = {"p1", "p2", "p3"}
    PvModels = {"m1", "m2"}
    PvRoutes <- MCRoutes
    PvConfigured = {"p1", "p2"}
    PvOverrides = {"", "m2", "m9", "simple"}
    PvWalkers = {w1, w2}
    PvRetries = 1
    PvMaxOps = 3
    AgEntries <- MCEntries
    AgIds = {"", "agent", "coding", "z"}
    AgDirs = {"coding"}
    AgBuiltins = {"coding"}
    AgEdits <- MCEdits
    AgCallers = {c1, c2}
    AgCwd <- MCCwd
    AgMaxOps = 3
    WsNotes = {"m", "n", "bad", ""}
    WsRuns <- MCRuns
    WsEmbedded <- MCEmbedded
    WsMaxSkills = 2
    WsMaxFile = 2
    WsMaxTotal = 7
    WsMaxOps = 4
    WsMaxDay = 2
    ShCalls = {"c"}
    ShJobs = {"j"}
    ShLimit = 1
    ShWindow = 2
    ShMaxOut = 1
    ShMaxTimeout = 1
    ShDefault = 2
    ShTimeouts = {0, 1}
    ShMaxWrite = 2
    ShMaxIdle = 4
    Torn = Torn
    None = None
    main = main
    s1 = s1
    g1 = g1
    g2 = g2
    k1 = k1
    Sids = {main, s1}
    Main = main
    Threads = {g1, g2}
    Keys = {k1}
    Calls <- MCCalls
    MaxCalls = 3
    MaxCrashes = 1
INVARIANTS LinesTrue MetaKept OnlyTailsAreLost RoleIsServed CreatedIsServed RunIsTold RateBounded ResultsAreWhole
PROPERTIES ShellCallsEnd
CHECK_DEADLOCK FALSE
