SPECIFICATION Spec
CONSTANTS
  MaxInt32 = 1000
  Rounds = {r1}
  NoRound = NoRound
  Sessions = {s1, s2}
  NoSession = NoSession
  Coin <- MCCoin
  ExpiryConfig <- MCConfig
  MaxHeight = 3
  MaxFaults = 1
  Faults = {"commit", "write", "timeout", "crash"}
SYMMETRY MCSymmetry
CHECK_DEADLOCK FALSE
INVARIANTS
 CompletedMeansSpent
 SpentCanFinish
 InputHeld
PROPERTIES
 OnlyHolderReleases
