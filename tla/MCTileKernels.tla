--------------------------- MODULE MCTileKernels ---------------------------
(***************************************************************************)
(* Uneven shares: a partial last tile, a process with no padding and one   *)
(* with a whole tile less, tiles of one element, a tall matrix whose R has *)
(* a shorter leading dimension, a 1 x 3 and a 3 x 1 grid; solutions shorter*)
(* than the work matrix, down to ranks that own none of it.  Blocks of     *)
(* three threads so that a launch has several and the last is not full;    *)
(* strided launches are capped at two blocks, so that threads do stride.   *)
(***************************************************************************)
EXTENDS TileKernels

Shape(m, n, k, tile, rows, cols, pad) ==
  [m |-> m, n |-> n, k |-> k, tile |-> tile, rows |-> rows, cols |-> cols, pad |-> pad]

UnevenShapes ==
  {Shape(5, 5, 3, 2, 2, 2, 0), Shape(4, 4, 1, 1, 2, 2, 1), Shape(6, 3, 5, 2, 2, 2, 1),
   Shape(5, 5, 4, 2, 1, 3, 0), Shape(5, 5, 2, 2, 3, 1, 1), Shape(3, 3, 3, 2, 1, 1, 1),
   Shape(6, 1, 2, 2, 2, 1, 0)}
=============================================================================
