SPECIFICATION FairSpec
CONSTANTS
    NoRound = NoRound
    Rounds = {r1, r2}
    MaxPass = 2
    MaxRetries = 2
    Scenarios <- MCScenarios
CHECK_DEADLOCK FALSE
INVARIANTS
    SignedInputsAreHeld
    CheckpointedHasClock
    FinalizedIsBooked
    NoQuoteLeftBehind
PROPERTIES
    LateRoundStops
    
    MinedIsFinalized
    BoardableAgain
