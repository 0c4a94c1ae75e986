SPECIFICATION Spec
CONSTANTS
  MaxInt32 = 31
  MintHeights <- MCMintHeights
  MaxHeight = 26
  Lifetimes <- MCLifetimes
  Depths <- MCDepths
  CSVDelays <- MCCSVDelays
  Windows <- MCWindows
  Reserves <- MCReserves
  Base <- MCBase
INVARIANTS
  RefreshBuffer
  ExitBudget
CHECK_DEADLOCK FALSE
