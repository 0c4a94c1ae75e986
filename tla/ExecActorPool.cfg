\* A pool of two workers competing for leases (serverconn egress), every
\* message enqueued up to twice under its id, under fairness.
CONSTANTS
    MsgCount = 2
    UrgentMsg = 0
    Ids <- MCIds
    KeyOf <- MCKeyOf
    PriorityOf <- MCPriorityOf
    Workers = {w1, w2}
    Tokens = {w1, w2}
    NoToken = NoToken
    NoRow = NoRow
    NoKey = NoKey
    NoMsg = NoMsg
    MaxAttempts = 3
    GiveUpAttempts = 2
    Leaseless = FALSE
    Undecodable = {}
    Outcomes = {"commit", "fail"}
    FaultyReads = FALSE
    MaxSends = 2
    MaxPostpones = 0
    MaxFaults = 1
SPECIFICATION FairSpec
CHECK_DEADLOCK FALSE
INVARIANTS
    AppliedOnce
    SettledOrGaveUp
PROPERTY
    KeyOrderUntilLastAttempt
    LaneDrains
    KeepsContract
