SPECIFICATION Spec
CONSTANTS
  r1 = r1
  r2 = r2
  r3 = r3
  Ranks <- MCRanks
  Routines <- MCRoutines
  Faults <- FaultPoints
SYMMETRY RankSymmetry
INVARIANTS
  TypeOK
  SameVerdict
  SuccessIsGenuine
  FailureInvalidatesResults
  ReductionJoinedByAll
  ReleasedOnReturn
PROPERTIES
  OwnCodeKept
  ImplementsCollectiveSolve
CHECK_DEADLOCK FALSE
