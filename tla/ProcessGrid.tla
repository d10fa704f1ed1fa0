----------------------------- MODULE ProcessGrid -----------------------------
(***************************************************************************)
(* From a JAX mesh to a cuSOLVERMp process grid, for the matrices of every *)
(* routine: potrf (getrf and syevd prepare theirs alike), potrs (and       *)
(* lu_solve), gels, qr, polar and gesvd.  Python validates the sharding,   *)
(* numbers the grid slots of the SPMD partitions and pads the shards       *)
(* (_cusolvermp_layout.py, _layout_types.py and the module of a routine);  *)
(* the native side finds out which communicator rank sits on which slot,   *)
(* picks the grid mapping and computes what every rank owns                *)
(* (cusolvermp_common.cc, runtime.cc, cusolvermp_<routine>.cc).            *)
(*                                                                         *)
(* The processes share nothing before the redistribution and run the same  *)
(* code on the same description, so a stage is one step of them all.       *)
(***************************************************************************)
EXTENDS Integers, Sequences, FiniteSets, EdgePadding, BlockCyclic

CONSTANTS
  Calls   \* records: routine, axes, sizes (of the mesh), devices (global
          \* device id of each mesh position, row major), rowAxis, colAxis
          \* (the sharding of A), rhsAxes (the axes that shard the rows of B),
          \* rows, cols (of A), nrhs (columns of B), tile, pad, results (the
          \* matrices besides A) and full (whether U and Vh are square)

NoAxis == "none"

Product(sizes) == FoldLeft(LAMBDA a, b : a * b, 1, sizes)
AxisAt(c, axis) == CHOOSE k \in DOMAIN c.axes : c.axes[k] = axis
MeshAxisSize(c, axis) == IF axis = NoAxis THEN 1 ELSE c.sizes[AxisAt(c, axis)]
RhsRowShards(c) ==
  FoldSet(LAMBDA axis, n : n * MeshAxisSize(c, axis), 1, c.rhsAxes)

Smaller(m, n) == IF m <= n THEN m ELSE n

\* The matrices a routine has besides A: right-hand side, solution, factors and
\* singular vectors; those of polar and gesvd are the caller's choice.
Results == [potrf |-> {{}}, potrs |-> {{"B"}}, gels |-> {{"B", "X"}},
            qr |-> {{"R"}}, polar |-> SUBSET {"H"}, gesvd |-> SUBSET {"U", "Vh"}]
Matrices(c) == {"A"} \cup c.results

\* JAX itself shards rows evenly only.
ASSUME CallsAssumption ==
  \A c \in Calls :
    /\ c.routine \in DOMAIN Results /\ c.results \in Results[c.routine]
    /\ {c.pad, c.full} \subseteq BOOLEAN
    /\ c.rhsAxes \subseteq Range(c.axes) /\ c.rows % RhsRowShards(c) = 0
    /\ c.sizes \in Seq(Nat \ {0}) /\ DOMAIN c.axes = DOMAIN c.sizes
    /\ c.devices \in [1..Product(c.sizes) -> Nat]
    /\ \A i, j \in DOMAIN c.devices : c.devices[i] = c.devices[j] => i = j
    /\ \A n \in {c.rows, c.cols, c.nrhs, c.tile} : n \in Nat \ {0}

VARIABLES
  call,     \* the solver call
  stage,    \* how far the processes are
  grid,     \* what Python hands over: slots and padded geometries
  rankMap,  \* grid slot -> communicator rank
  mapping,  \* the cuSOLVERMp grid mapping
  coord,    \* partition -> its process coordinate
  owned,    \* partition -> local rows and columns of each matrix it owns
  status    \* partition -> status code

vars == <<call, stage, grid, rankMap, mapping, coord, owned, status>>

Unset == <<>>

(***************************************************************************)
(* The mesh.  Partition p of the program is at position p of the mesh, in  *)
(* row-major order, and runs on the device there.                          *)
(***************************************************************************)
Partitions(c) == 0..(Product(c.sizes) - 1)
Device(c, p) == c.devices[p + 1]

Stride(c, k) == Product(SubSeq(c.sizes, k + 1, Len(c.sizes)))
UnravelIndex(c, p, k) == (p \div Stride(c, k)) % c.sizes[k]

Coord(c, p, axis) == IF axis = NoAxis THEN 0 ELSE UnravelIndex(c, p, AxisAt(c, axis))

ProcessRows(c) == MeshAxisSize(c, c.rowAxis)
ProcessCols(c) == MeshAxisSize(c, c.colAxis)

\* validate_2d_matrix_specs, and the mesh has no axis the matrix does not use.
MeshAccepted(c) ==
  /\ c.rowAxis # NoAxis \/ c.colAxis # NoAxis
  /\ {c.rowAxis, c.colAxis} \ {NoAxis} \subseteq Range(c.axes)
  /\ c.rowAxis # c.colAxis
  /\ Product(c.sizes) = ProcessRows(c) * ProcessCols(c)

\* Mutant: slots are numbered column major.
PartitionSlotsFromMesh_ColumnMajor(c) ==
  [p \in Partitions(c) |->
     Coord(c, p, c.colAxis) * ProcessRows(c) + Coord(c, p, c.rowAxis)]

PartitionSlotsFromMesh(c) ==
  [p \in Partitions(c) |->
     Coord(c, p, c.rowAxis) * ProcessCols(c) + Coord(c, p, c.colAxis)]

(***************************************************************************)
(* Shard shapes.                                                           *)
(***************************************************************************)
\* validate_nonempty_block_cyclic_ownership
EveryProcessOwnsTiles(c, rows, cols) ==
  /\ TileCount(rows, c.tile) >= ProcessRows(c)
  /\ TileCount(cols, c.tile) >= ProcessCols(c)

\* Mutant: the width stays as it is.
RhsDistributionColumns_Unrounded(nrhs, procs) == nrhs

\* A right-hand side gets routing columns until every process column has as
\* many.
RhsDistributionColumns(nrhs, procs) ==
  IF nrhs % procs = 0 THEN nrhs ELSE nrhs + (procs - (nrhs % procs))

\* prepare_matrix_padding: the shape divides evenly, padding is allowed if
\* there is to be any.
PaddingAccepted(c, rows, cols, pad) ==
  /\ rows % ProcessRows(c) = 0
  /\ cols % ProcessCols(c) = 0
  /\ ~pad => /\ PaddedAxis(rows, ProcessRows(c), c.tile) = rows \div ProcessRows(c)
             /\ PaddedAxis(cols, ProcessCols(c), c.tile) = cols \div ProcessCols(c)

BColumns(c) == RhsDistributionColumns(c.nrhs, ProcessCols(c))

\* Rows of the gels solution buffer: they divide among the process rows and
\* among the shards of B's rows.
XDistributionRows(c) ==
  LET m == Least({k \in 1..(ProcessRows(c) * RhsRowShards(c)) :
                    k % ProcessRows(c) = 0 /\ k % RhsRowShards(c) = 0})
  IN  ((c.cols + m - 1) \div m) * m

\* The global matrix the library is told of.
Described(c, x) ==
  CASE x = "A" -> <<c.rows, c.cols>>
    [] x = "B" -> <<c.rows, c.nrhs>>
    [] x = "X" -> <<c.cols, c.nrhs>>
    [] x \in {"R", "H"} -> <<c.cols, c.cols>>
    [] x = "U"  -> <<c.rows, IF c.full THEN c.rows ELSE Smaller(c.rows, c.cols)>>
    [] x = "Vh" -> <<IF c.full THEN c.cols ELSE Smaller(c.rows, c.cols), c.cols>>

\* The matrix JAX shards in its place.
Held(c, x) ==
  CASE x = "B" -> <<c.rows, BColumns(c)>>
    [] x = "X" -> <<XDistributionRows(c), BColumns(c)>>
    [] x \notin {"B", "X"} -> Described(c, x)

\* prepare_rectangular_matrix_layout
LayoutAccepted(c, shape) ==
  /\ EveryProcessOwnsTiles(c, shape[1], shape[2])
  /\ PaddingAccepted(c, shape[1], shape[2], c.pad)

Square(c) == c.rows = c.cols
Tall(c) == c.rows >= c.cols

AAccepted(c) ==
  /\ MeshAccepted(c)
  /\ c.routine \in {"potrf", "potrs"} => Square(c)
  /\ c.routine \in {"gels", "qr", "polar"} => Tall(c)
  /\ LayoutAccepted(c, Held(c, "A"))

BAccepted(c) ==
  /\ ~c.pad => c.nrhs % ProcessCols(c) = 0
  /\ PaddingAccepted(c, c.rows, BColumns(c), c.pad)
  /\ c.routine = "gels" => EveryProcessOwnsTiles(c, c.rows, c.nrhs)

XAccepted(c) ==
  /\ c.cols % RhsRowShards(c) = 0
  /\ PaddingAccepted(c, XDistributionRows(c), BColumns(c), TRUE)

FactorsAccepted(c) ==
  \A x \in c.results \ {"B", "X"} : LayoutAccepted(c, Held(c, x))

Accepted(c) ==
  /\ AAccepted(c)
  /\ "B" \in c.results => BAccepted(c)
  /\ "X" \in c.results => XAccepted(c)
  /\ FactorsAccepted(c)

\* Height and width of the padded shards of a matrix.
Shard(c, x) == <<PaddedAxis(Held(c, x)[1], ProcessRows(c), c.tile),
                 PaddedAxis(Held(c, x)[2], ProcessCols(c), c.tile)>>

\* The arguments of the native redistribution of a matrix.
Geometry(c, x, map) ==
  [prows |-> ProcessRows(c), pcols |-> ProcessCols(c),
   trows |-> c.tile, tcols |-> c.tile,
   rows |-> Shard(c, x)[1], cols |-> Shard(c, x)[2],
   lrows |-> Held(c, x)[1], lcols |-> Held(c, x)[2], rankMap |-> map]

(***************************************************************************)
(* The native side.                                                        *)
(***************************************************************************)
\* Mutant: ranks from 1.
CliqueRank_FromOne(c, p) ==
  Cardinality({q \in Partitions(c) : Device(c, q) <= Device(c, p)})

\* Ranks of the borrowed clique follow the sorted global device ids.
CliqueRank(c, p) ==
  Cardinality({q \in Partitions(c) : Device(c, q) < Device(c, p)})

RowMajor == 1
ColMajor == 0

\* ValidateStandardRankMapForGridMapping
Follows(map, rows, cols, order) ==
  \A slot \in DOMAIN map :
    map[slot] = IF order = RowMajor THEN slot
                ELSE (slot % cols) * rows + (slot \div cols)

\* Mutant: only the first mapping is tried.
SupportedMappings_RowMajorOnly(map, rows, cols) ==
  {m \in {RowMajor} : Follows(map, rows, cols, m)}

SupportedMappings(map, rows, cols) ==
  {m \in {RowMajor, ColMajor} : Follows(map, rows, cols, m)}

ProcessCoordFromRank(rank, rows, cols, order) ==
  IF order = RowMajor THEN <<rank \div cols, rank % cols>>
  ELSE <<rank % rows, rank \div rows>>

-----------------------------------------------------------------------------
kStatusOk == 0
kOutputShapeMismatch == 19

Init ==
  /\ call \in Calls
  /\ stage = "given"
  /\ grid = Unset /\ rankMap = Unset /\ mapping = Unset
  /\ coord = Unset /\ owned = Unset /\ status = Unset

\* The Python wrapper accepts the call, or raises.
Prepare ==
  /\ stage = "given"
  /\ Accepted(call)
  /\ grid' = [slots |-> PartitionSlotsFromMesh(call),
              rows |-> ProcessRows(call), cols |-> ProcessCols(call)]
  /\ stage' = "prepared"
  /\ UNCHANGED <<call, rankMap, mapping, coord, owned, status>>

Refuse ==
  /\ stage = "given"
  /\ ~Accepted(call)
  /\ stage' = "refused"
  /\ UNCHANGED <<call, grid, rankMap, mapping, coord, owned, status>>

\* ResolveProcessGrid: the rank of each slot, and the first mapping it follows.
Slots == 0..(grid.rows * grid.cols - 1)
ResolvedRankMap ==
  [slot \in Slots |->
     CliqueRank(call, CHOOSE p \in Partitions(call) : grid.slots[p] = slot)]

ResolveProcessGrid ==
  /\ stage = "prepared"
  /\ rankMap' = ResolvedRankMap
  /\ LET ms == SupportedMappings(ResolvedRankMap, grid.rows, grid.cols)
     IN  IF ms = {} THEN stage' = "unsupported" /\ UNCHANGED mapping
         ELSE /\ stage' = "resolved"
              /\ mapping' = IF RowMajor \in ms THEN RowMajor ELSE ColMajor
  /\ UNCHANGED <<call, grid, coord, owned, status>>

\* The dispatch checks the dimensions it was given, against each other.
DimensionsAgree ==
  /\ "B" \in call.results => /\ BColumns(call) >= call.nrhs
                             /\ Shard(call, "A")[1] = Shard(call, "B")[1]
  /\ "X" \in call.results => /\ Tall(call)
                             /\ XDistributionRows(call) \in call.cols..call.rows

\* What a rank tells the library it owns of a matrix.
LocalShape(x, at) ==
  LET shape == Described(call, x)
  IN  <<LocalNumroc(shape[1], call.tile, at[1], grid.rows),
        LocalNumroc(shape[2], call.tile, at[2], grid.cols)>>

Fits(inner, outer) == inner[1] <= outer[1] /\ inner[2] <= outer[2]

\* The shards must have room for it; those of the solution are not checked.
Describe ==
  /\ stage = "resolved"
  /\ IF DimensionsAgree
     THEN /\ stage' = "described"
          /\ coord' = [p \in Partitions(call) |->
               ProcessCoordFromRank(CliqueRank(call, p), grid.rows, grid.cols, mapping)]
          /\ owned' = [p \in Partitions(call) |->
               [x \in Matrices(call) |-> LocalShape(x, coord'[p])]]
          /\ status' = [p \in Partitions(call) |->
               IF \A x \in Matrices(call) \ {"X"} : Fits(owned'[p][x], Shard(call, x))
               THEN kStatusOk ELSE kOutputShapeMismatch]
     ELSE stage' = "invalid" /\ UNCHANGED <<coord, owned, status>>
  /\ UNCHANGED <<call, grid, rankMap, mapping>>

Finished ==
  stage \in {"refused", "unsupported", "invalid", "described"} /\ UNCHANGED vars

Next == Prepare \/ Refuse \/ ResolveProcessGrid \/ Describe \/ Finished
Spec == Init /\ [][Next]_vars

-----------------------------------------------------------------------------
\* Every variable holds a value the program can give it; communicator ranks
\* are dense.
TypeOK ==
  /\ call \in Calls
  /\ stage \in {"given", "refused", "prepared", "resolved", "unsupported",
               "invalid", "described"}
  /\ stage \notin {"given", "refused"} =>
       grid.slots \in [Partitions(call) -> Partitions(call)]
  /\ stage \notin {"given", "refused", "prepared"} =>
       rankMap \in [Slots -> Partitions(call)]
  /\ stage \in {"resolved", "described"} => mapping \in {RowMajor, ColMajor}
  /\ stage = "described" => status \in [Partitions(call) ->
                                          {kStatusOk, kOutputShapeMismatch}]

\* Where JAX puts the shard of partition p: the mesh position whose row-major
\* number is p, read along the axes of the matrix.
Positions(c) == {m \in [DOMAIN c.sizes -> 0..(Product(c.sizes) - 1)] :
                   \A k \in DOMAIN m : m[k] < c.sizes[k]}
Number(c, m) == FoldLeft(LAMBDA a, b : a + b, 0,
                         [k \in DOMAIN m |-> m[k] * Stride(c, k)])
ShardOf(c, p) ==
  LET m == CHOOSE m \in Positions(c) : Number(c, m) = p
      Along(axis) == IF axis = NoAxis THEN 0 ELSE m[AxisAt(c, axis)]
  IN  <<Along(c.rowAxis), Along(c.colAxis)>>

\* For whatever order of devices and axes is accepted, the process coordinate
\* the library gives a rank, the slot the redistribution gives it and the shard
\* JAX put on its device are one and the same.
ShardsPlaced ==
  stage = "described" => \A p \in Partitions(call) :
    /\ coord[p] = ShardOf(call, p)
    /\ rankMap[coord[p][1] * grid.cols + coord[p][2]] = CliqueRank(call, p)

\* A mesh is turned away only when neither of the library's two orders puts
\* every rank at its shard.
UnsupportedIsUnavoidable ==
  stage = "unsupported" => \A m \in {RowMajor, ColMajor} :
    \E p \in Partitions(call) :
      ProcessCoordFromRank(CliqueRank(call, p), grid.rows, grid.cols, m)
        # ShardOf(call, p)

\* A call Python accepts is not refused by the native dispatch and never fails
\* for lack of room: the dimensions it hands over agree, and uneven block-cyclic
\* ownership fits the evenly padded shards, of A, of a skinny B, of every factor
\* and of the gels solution, whose copy no check guards.
CapacitySuffices ==
  /\ stage # "invalid"
  /\ stage = "described" => \A p \in Partitions(call) :
       /\ status[p] = kStatusOk
       /\ \A x \in Matrices(call) : Fits(owned[p][x], Shard(call, x))

\* The rows (columns) of the global matrix dealt to a process coordinate.
Dealt(n, tile, process, count) ==
  {i \in 0..(n - 1) : (i \div tile) % count = process}

\* LocalNumroc counts, and GlobalIndex enumerates over the local indices it
\* leaves, the rows and columns of every matrix that are dealt to a rank; every
\* rank owns some of A and of the factors.  So the solution's rows are a prefix
\* of a rank's rows of B, as gels copies them.
OwnedIsDealt ==
  stage = "described" => \A p \in Partitions(call), x \in Matrices(call) :
    LET Is(local, n, process, count) ==
          {GlobalIndex(i, call.tile, count, process) : i \in 0..(local - 1)}
            = Dealt(n, call.tile, process, count)
    IN  /\ Is(owned[p][x][1], Described(call, x)[1], coord[p][1], grid.rows)
        /\ Is(owned[p][x][2], Described(call, x)[2], coord[p][2], grid.cols)
        /\ x \notin {"B", "X"} => owned[p][x][1] > 0 /\ owned[p][x][2] > 0

\* What Python and the resolution hand over are arguments the redistribution
\* planners accept, with the scratch they ask for, and with room in it for the
\* storage-order conversion.
GeometryAccepted ==
  stage \in {"resolved", "described"} =>
    \A g \in {Geometry(call, x, rankMap) : x \in Matrices(call)} :
      LET scratch == RequiredPadded2DNativePlanScratchElements(g)
      IN  /\ ValidStandardGridRankMap(g)
          /\ SlabArgumentsOK(g)
          /\ EdgeArgumentsOK(g, scratch)
          /\ scratch >= Larger(g.rows, g.cols)

\* With pad=True potrs is never refused for its right-hand side, however
\* narrow: whatever A is accepted, B is.
RhsNeverRefused ==
  stage = "refused" /\ call.pad /\ call.routine = "potrs" => ~AAccepted(call)
=============================================================================
