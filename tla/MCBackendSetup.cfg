SPECIFICATION SetUpSpec
CONSTANTS
  t1 = t1
  t2 = t2
  t3 = t3
  Threads <- MCThreads
  NumTargets = 3
  Faults = {"version", "library", "wheel", "preload", "load", "compile"}
SYMMETRY Interchangeable
INVARIANTS
  SetUpTypeOK
  SetUpBeforeUse
