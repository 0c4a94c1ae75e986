\* One worker peeking without leases, every way a behavior can end, a payload
\* that does not decode, failing writes and lookups.
CONSTANTS
    MsgCount = 3
    UrgentMsg = 0
    Ids <- MCIds
    KeyOf <- MCKeyOf
    PriorityOf <- MCPriorityOf
    Workers = {w1}
    Tokens = {w1}
    NoToken = NoToken
    NoRow = NoRow
    NoKey = NoKey
    NoMsg = NoMsg
    MaxAttempts = 3
    GiveUpAttempts = 3
    Leaseless = TRUE
    Undecodable = {3}
    Outcomes = {"commit", "fail", "postpone", "consume"}
    FaultyReads = TRUE
    MaxSends = 1
    MaxPostpones = 1
    MaxFaults = 2
SPECIFICATION FairSpec
CHECK_DEADLOCK FALSE
INVARIANTS
    NoStrandedRow
PROPERTY
    EventuallySettled
