---------------------------- MODULE BlockCyclic ----------------------------
(***************************************************************************)
(* One axis of a 2D block-cyclic distribution: tile t of the axis belongs  *)
(* to process t % count, which keeps its tiles in order.  The native       *)
(* routines count what a process owns (LocalNumroc, cusolvermp_common.cc)  *)
(* and the kernels that work on the solver's local storage translate       *)
(* between local and global indices (GlobalIndex, factor_extract.cu.cc).   *)
(* The local storage is the JAX shard Python pads (_layout_types.py).      *)
(***************************************************************************)
EXTENDS Integers, FiniteSets, Functions

TileCount(n, tile) == (n + tile - 1) \div tile

\* Mutant: the last tile counts as a whole one.
LocalNumroc_WholeTiles(n, block, process, count) ==
  block * Cardinality({t \in 0..(TileCount(n, block) - 1) : t % count = process})

LocalNumroc(n, block, process, count) ==
  LET mine == {t \in 0..(TileCount(n, block) - 1) : t % count = process}
      Extent(t) == IF (t + 1) * block <= n THEN block ELSE n - t * block
  IN  FoldFunction(+, 0, [t \in mine |-> Extent(t)])

\* The global index behind a local one.
GlobalIndex(local, block, count, process) ==
  ((local \div block) * count + process) * block + (local % block)

\* The other way round, as the log-determinant kernel finds a diagonal element:
\* who owns a global index, and where the owner keeps it.
Owner(global, block, count) == (global \div block) % count
LocalIndex(global, block, count) ==
  ((global \div block) \div count) * block + (global % block)

\* Mutant: no padding.
CalculateAxisPadding_None(size, tile) == 0

\* Mutant: a whole tile when nothing is missing.
CalculateAxisPadding_WholeTile(size, tile) == tile - (size % tile)

CalculateAxisPadding(size, tile) == (-size) % tile

\* The padded extent of one of procs even shards of the axis.
PaddedAxis(n, procs, tile) ==
  (n \div procs) + CalculateAxisPadding(n \div procs, tile)
=============================================================================
