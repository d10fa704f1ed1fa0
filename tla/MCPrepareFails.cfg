SPECIFICATION FairSpec
CONSTANTS
  r1 = r1
  r2 = r2
  r3 = r3
  Ranks <- TwoRanks
  Routines <- OnlyGetrf
  Faults <- OnlyPrepare
PROPERTIES
  LocalFailureReachesAgreement
CHECK_DEADLOCK FALSE
