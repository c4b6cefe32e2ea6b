SPECIFICATION FairSpec
CONSTANTS
    NoExit = NoExit
    db = db
    cache = cache
    DepNames = {db, cache}
    Requests <- AllRequests
    Overall = 3
    BuildT = 2
    StartupT = 2
    TestT = 2
    ReadyT = 1
    ExecT = 1
    StartExecT = 1
    ProbeT = 1
    JoinT = 1
    Poll = 1
    Settle = 1
    Grace = 4
    Slow = 1
INVARIANTS
    TypeOK
    PassedIsEarned
    VerdictFollowsPrecedence
    TimeoutMeansUnfinished
    LeftoversAreKnown
    ContainerOutlivesCommands
PROPERTIES
    RunEnds
    ContainerEventuallyGone
    CommandsEndWithinBudget
    CleanupNeverMasksTheResult
CHECK_DEADLOCK FALSE
