SPECIFICATION MCSpec
CONSTANTS
    RemCallers = {c1}
    RemIds = {r1, r2}
    RemMaxTime = 4
    RemMaxOps = 2
    RemDay = 2
    RemRecurrences = {"", "daily"}
    RemDues <- MCDues
    HbNames = {n1, n2, odd}
    HbOddNames = {odd}
    HbPrompts = {p1, p2}
    HbMaxOps = 5
    UpPhases = {light, deep}
    UpCallers = {c1, c2}
    UpMaxDay = 3
    UpMaxOps = 7
    FlowRuns = {f1, f2}
    FlowDefs <- MCDefs
    FlowFaults = 1
    FlowLives = 2
    EvTexts = {"", "a", "b"}
    EvContents <- MCContents
    EvCap = 2
    MaxFileChars = 5
    MaxTotalChars = 12
    EvMaxOps = 6
INVARIANTS RemindersKept StartsAsAsked StoreIsTrue NewsIsKept
PROPERTIES OverdueEnds TasksReachJobs FlowsEnd
CHECK_DEADLOCK FALSE
