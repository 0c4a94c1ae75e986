SPECIFICATION FairSpec
CONSTANTS
    a = a
    b = b
    t = t
    s1 = s1
    s2 = s2
    x = x
    y = y
    srcA = srcA
    srcB = srcB
    ear1 = ear1
    ear2 = ear2
    Child = Child
    NoTx = NoTx
    Txs <- MCTxs
    Sweeps <- MCSweeps
    Subs <- MCSubs
    Wanted <- MCWanted
    Scenarios <- MCScenarios
    MaxSweepAttempts = 2
CHECK_DEADLOCK FALSE
INVARIANTS
    OwnSpendIsNoFailure
    InFlightIsAwaited
    OutcomeIsTrue
    GivenBackIsClean
    ReorgIsHeard
PROPERTIES
    NotificationsInOrder
    SweepRetiresCoin
