SPECIFICATION FairSpec
CONSTANTS
  MaxInt32 = 1000
  Rounds = {r1}
  NoRound = NoRound
  Coins <- MCCoins
  Configs <- MCConfigs
  MaxHeight = 5
  RetryDelay = 1
  MaxCrashes = 1
  MaxOutcomes = 1
  Faults <- MCNoFaults
  Triggers <- MCTriggers
PROPERTIES
  DeadRoundReleases
