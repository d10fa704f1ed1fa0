---------------------------- MODULE EdgePadding ----------------------------
(***************************************************************************)
(* The edge-padding planner of memory_redist/edge_padding_2d.cc: it moves  *)
(* the padding of every shard to the bottom/right edge of the global       *)
(* matrix, so that the real matrix starts at global coordinate (0, 0) of   *)
(* the padded one.  The moves form an open chain: real data is pulled into *)
(* holes on its left (above it), and a source is left with stale values.   *)
(***************************************************************************)
EXTENDS Integers, Sequences, FiniteSets, SequencesExt, SlabPlan

Least(S) == CHOOSE x \in S : \A y \in S : x <= y

\* What pads one shard axis up to a multiple of the tile.
AxisPadding(logical, tile) == IF logical % tile = 0 THEN 0 ELSE tile - (logical % tile)

LocalLogicalRows(geo) == geo.lrows \div geo.prows
LocalLogicalCols(geo) == geo.lcols \div geo.pcols

\* The planner's argument checks.
EdgeArgumentsOK(geo, scratch) ==
  /\ geo.lrows % geo.prows = 0 /\ geo.lcols % geo.pcols = 0
  /\ geo.rows = LocalLogicalRows(geo) + AxisPadding(LocalLogicalRows(geo), geo.trows)
  /\ geo.cols = LocalLogicalCols(geo) + AxisPadding(LocalLogicalCols(geo), geo.tcols)
  /\ scratch >= geo.rows /\ scratch >= geo.cols

\* Mutant: the move is not cut to the scratch.
MoveExtent_NoBudget(remaining, source, target, physical, maxExtent) ==
  Least({remaining, physical - (source % physical), physical - (target % physical)})

\* A move may cross neither a process boundary (of source or of target) nor the
\* scratch budget.
MoveExtent(remaining, source, target, physical, maxExtent) ==
  Least({remaining, maxExtent,
         physical - (source % physical), physical - (target % physical)})

\* Moves of one global axis; the position of a move is its wave.
BuildAxisEdgePaddingMoves(blocks, logical, physical, maxExtent) ==
  LET OfBlock(b) ==
        LET from[consumed \in 0..logical] ==
              IF consumed = logical THEN <<>>
              ELSE LET source == b * physical + consumed
                       target == b * logical + consumed
                       extent == MoveExtent(logical - consumed, source, target,
                                            physical, maxExtent)
                       rest   == from[consumed + extent]
                   IN  IF source = target THEN rest
                       ELSE <<[source |-> source, target |-> target, extent |-> extent]>>
                            \o rest
        IN  from[0]
  IN  IF logical = physical THEN <<>>
      ELSE FlattenSeq([b \in 1..blocks |-> OfBlock(b - 1)])

\* Lift a column move over every process row ...
HorizontalSteps(geo, moves) ==
  FlattenSeq([w \in DOMAIN moves |->
    LET mv == moves[w]
        At(col) == Rect(0, col % geo.cols, geo.rows, mv.extent)
    IN  [p \in 1..geo.prows |->
           Step(0, w - 1, Move,
                RankAt(geo, p - 1, mv.source \div geo.cols),
                RankAt(geo, p - 1, mv.target \div geo.cols),
                At(mv.source), At(mv.target))]])

\* ... and a row move over every process column.
VerticalSteps(geo, moves) ==
  FlattenSeq([w \in DOMAIN moves |->
    LET mv == moves[w]
        At(row) == Rect(row % geo.rows, 0, mv.extent, geo.cols)
    IN  [p \in 1..geo.pcols |->
           Step(1, w - 1, Move,
                RankAt(geo, mv.source \div geo.rows, p - 1),
                RankAt(geo, mv.target \div geo.rows, p - 1),
                At(mv.source), At(mv.target))]])

BuildEdgePaddingNative2DSteps(geo, scratch) ==
  HorizontalSteps(geo,
    BuildAxisEdgePaddingMoves(geo.pcols, LocalLogicalCols(geo), geo.cols,
                              Larger(1, scratch \div geo.rows)))
  \o VerticalSteps(geo,
       BuildAxisEdgePaddingMoves(geo.prows, LocalLogicalRows(geo), geo.rows,
                                 Larger(1, scratch \div geo.cols)))

\* Mutant: the waves keep their order.
ReverseEdgePaddingSteps_SameOrder(steps) ==
  [i \in DOMAIN steps |->
     LET s == steps[i]
     IN  Step(1 - s.phase, s.seq, Move, s.to, s.from, s.target, s.source)]

\* Sources and targets swapped, phases swapped, waves from last to first.
ReverseEdgePaddingSteps(steps) ==
  LET lastWave(phase) ==
        LET ofPhase == {k \in DOMAIN steps : steps[k].phase = phase}
            waves   == {0} \cup {steps[i].seq : i \in ofPhase}
        IN  CHOOSE w \in waves : \A v \in waves : v <= w
  IN  [i \in DOMAIN steps |->
         LET s == steps[i]
         IN  Step(1 - s.phase, lastWave(s.phase) - s.seq, Move,
                  s.to, s.from, s.target, s.source)]
=============================================================================
