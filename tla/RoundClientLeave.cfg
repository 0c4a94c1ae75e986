SPECIFICATION Spec
CONSTANTS
    NoRound = NoRound
    Rounds = {r1, r2}
    MaxPass = 2
    MaxRetries = 2
    Scenarios <- MCLeave
CHECK_DEADLOCK FALSE
INVARIANTS
    LeaveIsNoFee
