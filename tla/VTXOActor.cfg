SPECIFICATION Spec
CONSTANTS
  MaxInt32 = 1000
  Rounds = {r1, r2}
  NoRound = NoRound
  Coins <- MCLateCoins
  Configs <- MCConfigs
  MaxHeight = 5
  RetryDelay = 1
  MaxCrashes = 1
  MaxOutcomes = 1
  Faults <- MCAllFaults
  Triggers <- MCTriggers
INVARIANTS
  RowFollowsActor
  SignedIsHeld
PROPERTIES
  NoStaleRevival
  NoExitAfterSignature
SYMMETRY MCSymmetry
