----------------------------- MODULE TileKernels -----------------------------
(***************************************************************************)
(* The device kernels that work on a rank's block-cyclic share after the   *)
(* library call: potrf clears the strict upper triangle of its factor      *)
(* (factor_extract.cu.cc), qr copies R out of the packed factorization     *)
(* (qr_extract.cu.cc), potrs sums the logarithms of the factor's diagonal  *)
(* (potrs_logdet.cu.cc), getrf gathers its pivots (factor_extract.cu.cc),  *)
(* gels copies the solution out of its work buffer (cusolvermp_gels.cc),   *)
(* and every routine overwrites its results when the call has failed       *)
(* (result_fill.cu.cc).                                                    *)
(*                                                                         *)
(* Every rank launches the kernel on its own share; the blocks of a launch *)
(* run in any order and at any time.  The log determinant and the pivots   *)
(* are then reduced over all ranks.  An element of the matrix is known by  *)
(* its global coordinates, and a rank's share holds what the library left  *)
(* there.                                                                  *)
(***************************************************************************)
EXTENDS BlockCyclic, Bags

CONSTANTS
  Shapes,      \* records: m and n (the matrix), k (rows of it that are the
               \* solution), tile, rows and cols (the process grid), pad
               \* (physical rows and columns beyond the share)
  BlockSize,   \* threads of a block
  MaxBlocks    \* blocks of a launch that strides over its elements

Kernels == {"lower", "upper", "logdet", "pivots", "solution", "fill"}

ASSUME ShapesAssumption ==
  \A s \in Shapes :
    /\ \A x \in {s.m, s.n, s.k, s.tile, s.rows, s.cols} : x \in Nat \ {0}
    /\ s.m >= s.k
    /\ s.pad \in Nat
ASSUME LaunchAssumption == BlockSize \in Nat \ {0} /\ MaxBlocks \in Nat \ {0}

VARIABLES
  shape,    \* the matrix and its distribution
  kernel,   \* the kernel of this call
  out,      \* rank -> what the kernel writes: its matrix buffer (by offset),
            \* its pivots (by global column) or its sum (a bag of elements)
  stage,    \* rank -> "called", "launched"; "reduced" once all have been
  pending   \* blocks that have not run, as <<rank, block>>

vars == <<shape, kernel, out, stage, pending>>

Ranks == (0..(shape.rows - 1)) \X (0..(shape.cols - 1))

\* What rank r owns of a matrix with n rows or columns.
OwnedRows(n, r) == LocalNumroc(n, shape.tile, r[1], shape.rows)
OwnedCols(n, r) == LocalNumroc(n, shape.tile, r[2], shape.cols)

\* Every rank has a buffer of the same size: no share is larger than that of
\* process 0.
LeadingDimension(n) == OwnedRows(n, <<0, 0>>) + shape.pad
Columns == OwnedCols(shape.n, <<0, 0>>) + shape.pad
Offsets(n) == 0..(LeadingDimension(n) * Columns - 1)

GlobalRow(i, r) == GlobalIndex(i, shape.tile, shape.rows, r[1])
GlobalCol(j, r) == GlobalIndex(j, shape.tile, shape.cols, r[2])

\* The share of an m-row matrix the library left with rank r: the element at
\* each offset, padding beyond the share.
Element(i, j) == <<i, j>>
Padding == <<"padding">>
Share(r) ==
  [offset \in Offsets(shape.m) |->
     LET i == offset % LeadingDimension(shape.m)
         j == offset \div LeadingDimension(shape.m)
         Tile(k) == k \div shape.tile
     IN  IF i < OwnedRows(shape.m, r) /\ j < OwnedCols(shape.n, r)
         THEN Element((Tile(i) * shape.rows + r[1]) * shape.tile + (i % shape.tile),
                      (Tile(j) * shape.cols + r[2]) * shape.tile + (j % shape.tile))
         ELSE Padding]

Zero == <<"zero">>
Nan == <<"nan">>
Stale == <<"stale">>

\* GETRF's pivot of column j, counted from kGetrfPivotIndexBase.  All that
\* matters is that columns can be told apart.
kGetrfPivotIndexBase == 1
Ipiv(r, local) ==
  kGetrfPivotIndexBase
    + ((local \div shape.tile) * shape.cols + r[2]) * shape.tile + (local % shape.tile)
StalePivot == 2 * shape.m

-----------------------------------------------------------------------------
(***************************************************************************)
(* Launches: how many elements a kernel covers on rank r, over how many    *)
(* blocks, and which of them a block takes.                                *)
(***************************************************************************)
Strided == {"logdet", "fill"}

\* The rows of the output a kernel fills: R and the solution have a buffer of
\* their own.
OutputRows == IF kernel = "upper" THEN shape.n
              ELSE IF kernel = "solution" THEN shape.k ELSE shape.m

ElementCount(r) ==
  CASE kernel = "lower"  -> OwnedRows(shape.n, r) * OwnedCols(shape.n, r)
    [] kernel = "upper"  -> OwnedRows(shape.n, r) * OwnedCols(shape.n, r)
    [] kernel = "logdet" -> shape.n
    [] kernel = "pivots" -> OwnedCols(shape.n, r)
    [] kernel = "solution" -> OwnedRows(shape.k, r) * OwnedCols(shape.n, r)
    [] kernel = "fill"   -> Cardinality(Offsets(shape.m))

BlockCount(r) ==
  LET blocks == (ElementCount(r) + BlockSize - 1) \div BlockSize
  IN  IF kernel \in Strided /\ blocks > MaxBlocks THEN MaxBlocks ELSE blocks

\* Mutant: no stride; the capped launch ends after one element per thread.
BlockElements_NoStride(r, b) ==
  {e \in 0..(ElementCount(r) - 1) : e \div BlockSize = b}

\* Mutant: a block takes all its threads' elements, past the end too.
BlockElements_Unguarded(r, b) ==
  IF kernel \in Strided
  THEN {e \in 0..(ElementCount(r) - 1) : (e \div BlockSize) % BlockCount(r) = b}
  ELSE (b * BlockSize)..((b + 1) * BlockSize - 1)

BlockElements(r, b) ==
  IF kernel \in Strided
  THEN {e \in 0..(ElementCount(r) - 1) : (e \div BlockSize) % BlockCount(r) = b}
  ELSE {e \in 0..(ElementCount(r) - 1) : e \div BlockSize = b}

(***************************************************************************)
(* The kernels: what block b of rank r does to that rank's output.         *)
(***************************************************************************)
Row(e, r) == e % OwnedRows(shape.n, r)
Col(e, r) == e \div OwnedRows(shape.n, r)
At(e, r, leading) == Row(e, r) + Col(e, r) * leading

\* Mutant: the diagonal is cleared too.
StrictlyAbove_WithDiagonal(e, r) == GlobalRow(Row(e, r), r) <= GlobalCol(Col(e, r), r)

StrictlyAbove(e, r) == GlobalRow(Row(e, r), r) < GlobalCol(Col(e, r), r)

\* ZeroDistributedStrictUpperKernel
ZeroStrictUpper(r, elements) ==
  [offset \in {At(e, r, LeadingDimension(shape.m)) :
                 e \in {x \in elements : StrictlyAbove(x, r)}} |-> Zero]

\* ExtractDistributedQrRKernel: source and target have their own leading
\* dimensions.
ExtractR(r, elements) ==
  LET Value(e) == IF GlobalRow(Row(e, r), r) <= GlobalCol(Col(e, r), r)
                  THEN Share(r)[At(e, r, LeadingDimension(shape.m))]
                  ELSE Zero
      target == [e \in elements |-> At(e, r, LeadingDimension(shape.n))]
  IN  [offset \in {target[e] : e \in elements} |->
         Value(CHOOSE e \in elements : target[e] = offset)]

\* Mutant: the process row alone decides who reads a diagonal element.
OwnsDiagonal_RowOnly(r, d) == Owner(d, shape.tile, shape.rows) = r[1]

OwnsDiagonal(r, d) ==
  /\ Owner(d, shape.tile, shape.rows) = r[1]
  /\ Owner(d, shape.tile, shape.cols) = r[2]

\* AccumulateLocalLogdetKernel: the bag of elements read stands for the sum of
\* their logarithms.
LocalLogdet(r, elements) ==
  LET Read(d) == Share(r)[LocalIndex(d, shape.tile, shape.rows)
                   + LocalIndex(d, shape.tile, shape.cols) * LeadingDimension(shape.m)]
      mine == {d \in elements : OwnsDiagonal(r, d)}
  IN  [x \in {Read(d) : d \in mine} |-> Cardinality({d \in mine : Read(d) = x})]

\* GatherDistributedPivotsKernel
GatherPivots(r, elements) ==
  LET mine == {l \in elements : /\ Ipiv(r, l) >= kGetrfPivotIndexBase
                                /\ GlobalCol(l, r) < shape.n}
  IN  [column \in {GlobalCol(l, r) : l \in mine} |->
         Ipiv(r, CHOOSE l \in mine : GlobalCol(l, r) = column) - kGetrfPivotIndexBase]

\* The two-dimensional copy of the rank's first rows of the work buffer, each
\* buffer with its own pitch.
CopySolution(r, elements) ==
  LET rows == OwnedRows(shape.k, r)
      Offset(e, leading) == (e % rows) + (e \div rows) * leading
      target == [e \in elements |-> Offset(e, LeadingDimension(shape.k))]
  IN  [offset \in {target[e] : e \in elements} |->
         Share(r)[Offset(CHOOSE e \in elements : target[e] = offset,
                         LeadingDimension(shape.m))]]

\* FillDeviceArrayKernel
Fill(elements) == [offset \in elements |-> Nan]

\* What is written takes the place of what was there.
Over(written, there) ==
  [x \in (DOMAIN written) \cup (DOMAIN there) |->
     IF x \in DOMAIN written THEN written[x] ELSE there[x]]

AfterBlock(r, b) ==
  LET elements == BlockElements(r, b)
  IN  CASE kernel = "lower"  -> Over(ZeroStrictUpper(r, elements), out[r])
        [] kernel = "upper"  -> Over(ExtractR(r, elements), out[r])
        [] kernel = "logdet" -> out[r] (+) LocalLogdet(r, elements)
        [] kernel = "pivots" -> Over(GatherPivots(r, elements), out[r])
        [] kernel = "solution" -> Over(CopySolution(r, elements), out[r])
        [] kernel = "fill"   -> Over(Fill(elements), out[r])

-----------------------------------------------------------------------------
\* What the buffers hold before: the factor in place, and whatever was in
\* memory where a kernel writes a fresh output.
Before(r) ==
  CASE kernel \in {"lower", "fill"} -> Share(r)
    [] kernel \in {"upper", "solution"} -> [offset \in Offsets(OutputRows) |-> Stale]
    [] kernel = "logdet" -> SetToBag({Stale})
    [] kernel = "pivots" -> [column \in 0..(shape.n - 1) |-> StalePivot]

Init ==
  /\ shape \in Shapes
  /\ kernel \in Kernels
  /\ kernel \in {"lower", "logdet", "pivots"} => shape.m = shape.n
  /\ kernel = "upper" => shape.m >= shape.n
  /\ out = [r \in Ranks |-> Before(r)]
  /\ stage = [r \in Ranks |-> "called"]
  /\ pending = {}

\* Mutant: pivots of other columns stay as they are found.
Cleared_NotThePivots(r) ==
  CASE kernel = "logdet" -> EmptyBag
    [] kernel = "solution" -> [offset \in Offsets(OutputRows) |-> Zero]
    [] OTHER             -> out[r]

\* Mutant: what the copy leaves of the solution buffer stays as it is found.
Cleared_NotTheSolution(r) ==
  CASE kernel = "logdet" -> EmptyBag
    [] kernel = "pivots" -> [column \in 0..(shape.n - 1) |-> -1]
    [] OTHER             -> out[r]

\* The memset before the launch.
Cleared(r) ==
  CASE kernel = "logdet" -> EmptyBag
    [] kernel = "solution" -> [offset \in Offsets(OutputRows) |-> Zero]
    [] kernel = "pivots" -> [column \in 0..(shape.n - 1) |-> -1]
    [] kernel \in {"lower", "upper", "fill"} -> out[r]

Launch(r) ==
  /\ stage[r] = "called"
  /\ stage' = [stage EXCEPT ![r] = "launched"]
  /\ out' = [out EXCEPT ![r] = Cleared(r)]
  /\ pending' = pending \cup {<<r, b>> : b \in 0..(BlockCount(r) - 1)}
  /\ UNCHANGED <<shape, kernel>>

RunBlock(r, b) ==
  /\ <<r, b>> \in pending
  /\ pending' = pending \ {<<r, b>>}
  /\ out' = [out EXCEPT ![r] = AfterBlock(r, b)]
  /\ UNCHANGED <<shape, kernel, stage>>

\* Every rank's launch has run.
Drained == pending = {} /\ \A r \in Ranks : stage[r] = "launched"

\* RunRawNcclAllReduceReal over the local log determinants; ncclMax over the
\* pivots.
Greatest(S) == CHOOSE x \in S : \A y \in S : y <= x
AllReduce ==
  /\ kernel \in {"logdet", "pivots"}
  /\ Drained
  /\ LET all == IF kernel = "logdet"
                THEN FoldFunction((+), EmptyBag, out)
                ELSE [column \in 0..(shape.n - 1) |->
                        Greatest({out[r][column] : r \in Ranks})]
     IN  out' = [r \in Ranks |-> all]
  /\ stage' = [r \in Ranks |-> "reduced"]
  /\ UNCHANGED <<shape, kernel, pending>>

Finished ==
  IF kernel \in {"logdet", "pivots"} THEN \A r \in Ranks : stage[r] = "reduced"
  ELSE Drained

Terminated == Finished /\ UNCHANGED vars

Next ==
  \/ \E r \in Ranks : Launch(r)
  \/ \E block \in pending : RunBlock(block[1], block[2])
  \/ AllReduce
  \/ Terminated

Spec == Init /\ [][Next]_vars

-----------------------------------------------------------------------------
\* Every variable holds a value the program can give it; in particular no block
\* writes outside the rank's buffer.
TypeOK ==
  /\ shape \in Shapes
  /\ kernel \in Kernels
  /\ stage \in [Ranks -> {"called", "launched", "reduced"}]
  /\ pending \subseteq Ranks \X Nat
  /\ \A r \in Ranks :
       /\ kernel \in {"lower", "upper", "solution", "fill"} =>
            DOMAIN out[r] = Offsets(OutputRows)
       /\ kernel = "pivots" => DOMAIN out[r] = 0..(shape.n - 1)
       /\ kernel = "logdet" => IsABag(out[r])

\* Where rank (i's, j's owner) keeps element (i, j) of a matrix whose buffers
\* have the given leading dimension, found by the distribution alone.
Holds(r, i, j) ==
  /\ (i \div shape.tile) % shape.rows = r[1]
  /\ (j \div shape.tile) % shape.cols = r[2]
Slot(i, j, leading) ==
  LET Local(x, count) ==
        ((x \div shape.tile) \div count) * shape.tile + (x % shape.tile)
  IN  Local(i, shape.rows) + Local(j, shape.cols) * leading

\* Clearing leaves the lower triangle of the whole matrix, extraction its upper
\* one, each on the rank that owns it, with zeros on the other side; what is no
\* part of the matrix is left alone.
TrianglesExtracted ==
  Finished /\ kernel \in {"lower", "upper"} =>
    LET leading == LeadingDimension(shape.n)
        Kept(i, j) == IF kernel = "lower" THEN i >= j ELSE i <= j
        Matrix == (0..(shape.n - 1)) \X (0..(shape.n - 1))
        Cells(r) == {c \in Matrix : Holds(r, c[1], c[2])}
        Slots(r) == {Slot(c[1], c[2], leading) : c \in Cells(r)}
    IN  \A r \in Ranks :
          /\ \A c \in Cells(r) :
               out[r][Slot(c[1], c[2], leading)]
                 = IF Kept(c[1], c[2]) THEN Element(c[1], c[2]) ELSE Zero
          /\ \A offset \in Offsets(shape.n) \ Slots(r) :
               out[r][offset] = Before(r)[offset]

\* Every rank's part of the solution is in its buffer at the place the
\* block-cyclic distribution of a matrix with the solution's rows gives it,
\* although it was computed under that of the taller work matrix; the rest of
\* the buffer is zero.
SolutionExtracted ==
  Finished /\ kernel = "solution" =>
    LET leading == LeadingDimension(shape.k)
        Solution == (0..(shape.k - 1)) \X (0..(shape.n - 1))
        Cells(r) == {c \in Solution : Holds(r, c[1], c[2])}
        Slots(r) == {Slot(c[1], c[2], leading) : c \in Cells(r)}
    IN  \A r \in Ranks :
          /\ \A c \in Cells(r) :
               out[r][Slot(c[1], c[2], leading)] = Element(c[1], c[2])
          /\ \A offset \in Offsets(shape.k) \ Slots(r) : out[r][offset] = Zero

\* The reduced log determinant has every diagonal element of the matrix, once,
\* on every rank, and nothing that was in the output before.
DiagonalCountedOnce ==
  Finished /\ kernel = "logdet" =>
    \A r \in Ranks : out[r] = SetToBag({Element(d, d) : d \in 0..(shape.n - 1)})

\* After the reduction every rank has the pivot of every column, although a
\* rank contributes only those of its own columns and process rows repeat them.
PivotsReplicated ==
  Finished /\ kernel = "pivots" =>
    \A r \in Ranks : out[r] = [column \in 0..(shape.n - 1) |-> column]

\* A failed call leaves nothing of the results, padding included, however few
\* blocks the launch is capped to.
FillCoversAll ==
  Finished /\ kernel = "fill" =>
    \A r \in Ranks : out[r] = [offset \in Offsets(shape.m) |-> Nan]
=============================================================================
