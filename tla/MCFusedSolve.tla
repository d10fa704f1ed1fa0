---------------------------- MODULE MCFusedSolve ----------------------------
(***************************************************************************)
(* Three ranks: one that fails, one it leaves behind and one in between.   *)
(***************************************************************************)
EXTENDS FusedSolve, TLC

CONSTANTS r1, r2, r3

MCRanks == {r1, r2, r3}
TwoRanks == {r1, r2}
MCRoutines == DOMAIN Program
OnlyGetrf == {"getrf"}
OnlyPotrs == {"potrs"}

\* Ranks are interchangeable: no action orders or compares them.
RankSymmetry == Permutations(MCRanks)

\* Failures after which the code joins every operation that remains: the last
\* library call, the step after it, the cleanup of what it used and the
\* gathering of the pivots.
ToleratedFaults ==
  {"last_call", "extract", "destroy", "gather", "close", "free"}
OnlyInitialize == {"initialize"}
OnlyPrepare == {"prepare"}
=============================================================================
