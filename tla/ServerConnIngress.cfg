SPECIFICATION FairSpec
CONSTANTS
  Scenarios <- MCScenarios
  MaxLog = 3
  PullMax = 3
  BoxCap = 1
  QuarantineCap = 1
CHECK_DEADLOCK FALSE
INVARIANTS
 AckedIsCommitted
 NothingSkipped
 DurableOnceInOrder
 HandedOnce
 RunsAgainOnlyOnFailure
 IncompatibleIsFinal
PROPERTIES
 EvidenceKept
 EventuallyAcked
