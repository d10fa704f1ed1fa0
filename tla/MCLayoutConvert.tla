--------------------------- MODULE MCLayoutConvert ---------------------------
(***************************************************************************)
(* Shapes up to 6 x 6 for LayoutConvert: coprime and not, tall and wide,   *)
(* square, a single line; scratch for one line, for a few, for all, and    *)
(* too short; grids of up to three blocks, fewer than some scratch has     *)
(* slices.  Words are just wide enough for the longest side.               *)
(***************************************************************************)
EXTENDS LayoutConvert

Shape(m, n, s) == [rows |-> m, cols |-> n, scratch |-> s]

\* One block at a time, for every shape.
Narrow == {Shape(m, n, Higher(m, n)) : m \in 1..6, n \in 1..6}

MCCalls == Narrow \cup {
  Shape(2, 3, 4), Shape(3, 2, 6), Shape(3, 4, 12), Shape(4, 4, 8),
  Shape(4, 6, 12), Shape(6, 4, 13), Shape(2, 6, 6), Shape(6, 3, 14),
  Shape(3, 5, 4), Shape(1, 4, 3) }
=============================================================================
