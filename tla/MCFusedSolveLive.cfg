SPECIFICATION FairSpec
CONSTANTS
  r1 = r1
  r2 = r2
  r3 = r3
  Ranks <- MCRanks
  Routines <- MCRoutines
  Faults <- ToleratedFaults
PROPERTIES
  Terminates
