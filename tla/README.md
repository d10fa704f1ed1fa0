# jaxmg: formal models of the distributed solver calls

jaxmg runs dense linear algebra (Cholesky, LU, QR, eigenvalues, SVD, polar,
least squares) over many GPUs from JAX. One call becomes one FFI handler per
device. The handlers borrow XLA's NCCL communicator, rearrange the sharded
matrix *in place* into the 2D block-cyclic layout cuSOLVERMp wants, call the
library, agree on a status, and rearrange the result back. Nothing supervises
them: what keeps the ranks in step is that they compute the same plans and take
the same branches.

This directory holds TLA+ models of that machinery, TLC configurations that
check them on small instances, and TLAPS proofs for every instance.

Paths below are relative to `src/src/`.

## 1. The system

| Component | State | Operations | Hard because |
|---|---|---|---|
| Python layout contract (`jaxmg/_cusolvermp_layout.py`, `_layout_types.py`, the `_prepare_*_call` of the wrappers) | none | mesh and ownership checks, grid slots of partitions, padding, widths of right-hand sides | its rules are repeated, or relied on, in C++ |
| process grid (`cuda/cusolvermp_routines/cusolvermp_common.cc`) | rank map, grid mapping | `ResolveProcessGrid`, `ProcessCoordFromRank`, `LocalNumroc` | mesh order, device ids, clique ranks and two library orders must compose |
| storage-order conversion (`cuda/memory_redist/layout_convert.cu.cc`) | local shard, scratch | row major to column major in place and back | blocks of a launch overwrite what others read; modular inverses |
| slab planner (`block_cyclic_2d.cc`) | the plan | slot maps, cycles, save/move/restore steps, batches | a permutation of slabs with one spare slab of room |
| edge-padding planner (`edge_padding_2d.cc`) | the plan | moves that gather padding at the end of the global matrix, and their undoing | moves cut at process boundaries and at the scratch size |
| executor (`rectangle_pack.cc`) | local matrix, scratch, stream position | pack, NCCL group, unpack, local copy | ranks run batches at their own speed; NCCL matches by order only |
| solver call (`cusolvermp_*.cc`, `factorization.cc`) | status words, library objects, results | allocate, initialize, prepare, library calls, agree, reduce, close, publish, reverse | any rank may fail anywhere and the others must not hang or believe in success |
| XLA bridge (`cuda/xla_ffi/runtime.cc`) | borrowed communicator, two streams | clique request, send/recv, all-reduce | hand-over between streams |
| device kernels (`factor_extract`, `qr_extract`, `potrs_logdet`, `result_fill`, the copy in `gels`) | a rank's share of a matrix | zeroing a triangle, copying R, partial sums, pivots, copying the solution, NaN | local/global index arithmetic, capped launches, reductions that count on exactly one owner |
| backend set-up (`jaxmg/_setup.py`) | flag, cache of loaded libraries, JAX's registry of targets | detect, enable x64, validate, preload, register | threads share globals without a lock; a set-up that raised is taken up again |
| wrappers (`jaxmg/_potrf.py` and the like) | compiled calls | shape rules, the cached and lazily initialized call | the rules are Python's half of the layout contract; the rest pads and trims, section 8 |
| FFI bindings (`cuda/xla_ffi/handlers.cc`), status decoding (`jaxmg/_cusolvermp_status.py`) | none | attribute lists, a dictionary | not modelled, section 8 |

How they interact: Python decides shapes, slots and widths and passes them as
attributes. The handler resolves the rank map, allocates one scratch for all
its matrices, converts each to column major, runs the planner and executor
forward, then the solver stage; publishes status and results; runs planner and
executor in reverse; converts back; frees the scratch. Ranks interact only
through NCCL pairs (redistribution), all-reduces (status, log determinant,
pivots) and the library's own collectives.

What makes each part correct:

* layout contract and grid: a rank's process coordinate is the shard JAX put on
  its device; shares fit buffers; what Python accepts the native side accepts;
* conversion: a transposition for every shape and batching, undone by its
  inverse; blocks never meet in scratch or storage;
* planners and executor: each real entry ends where the descriptor puts it and
  comes back; no last copy is overwritten; every receive meets the send of its
  own batch; nobody waits for ever;
* solver call: one verdict for all ranks, no false success, no stale result,
  no leak, the first failure kept, and no rank left alone in a collective the
  code takes care to join; a rank's device works through the call in the
  order of issue, and the host waits where it relies on that;
* kernels: what the ranks do to their shares amounts to one operation on the
  global matrix, whatever the order of the blocks;
* set-up: nothing reaches the native code before all of it is done, whoever did
  it.

## 2. Modules

| Module | Models | State and actions |
|---|---|---|
| `SlabPlan` | `block_cyclic_2d.cc`, planning | pure operators: `BuildSlabNative2DSteps`, `BatchNative2DSteps`, scratch sizes |
| `EdgePadding` | `edge_padding_2d.cc` | pure operators: `BuildEdgePaddingNative2DSteps`, `ReverseEdgePaddingSteps` |
| `Redistribution` | the executor running both plans around a solve | `mem`, `scratch` per rank as flat arrays; `chan` per pair; one action per thing a stream does: `SaveSlab`, `LocalMove`, `Post`, `Send`, `Receive`, `CompleteGroup`; `Solve` |
| `ShardExchange` | abstract specification of the above | each rank's shard changes layout at a moment of its own |
| `LayoutConvert` | `layout_convert.cu.cc` and its two callers | `data`, `scratch`; `Launch`, and per block `Gather`, `WriteBack`; `Turn` for the way back |
| `BlockCyclic` | the arithmetic of block-cyclic ownership, as Python and C++ both have it | pure operators: `LocalNumroc`, `GlobalIndex`, owner, local index, padding |
| `ProcessGrid` | Python preparation, `ResolveProcessGrid`, local counts, for every routine | `Prepare` or `Refuse`, `ResolveProcessGrid`, `Describe` |
| `TileKernels` | the device kernels on all ranks' shares, and the reductions behind them | `out` per rank, `pending` blocks; `Launch`, `RunBlock`, `AllReduce` |
| `FusedSolve` | dispatch and solver stage of all twelve routines | `pc`, `code`, `held`, `result`, `scalar`, `outcome` per rank; one action per stage and one per way of failing |
| `CollectiveSolve` | abstract specification of the above | `verdict`, `answer` per rank; `Succeed`, `Fail`, `Answer`, `GiveUp` |
| `StreamOrder` | one rank's call as its host issues it and its device runs it | `log` of commands on two streams, `done`, `busy`; one action per stage of the host, `Refused`, and `WaitDone`, `Begin`, `End` of the device |
| `BackendSetup` | `_setup.py` and the cached call, run by threads | the module globals, what JAX has registered and compiled, `pc` and `target` per thread; one action per step and one per step that raises |
| `*_proofs` | theorems; `BlockCyclic_proofs` also the induction and the folds the others use; `RedistributionLayout_proofs` goes on from `Redistribution_proofs`; `Runtime_proofs` has those of `StreamOrder` and `BackendSetup` | |
| `MC*` | instances for TLC | |

The stages of `FusedSolve` and `StreamOrder` are the same call seen from two
sides: the first has many ranks and lets each stage be one step; the second has
one rank and its device, and shows that `Redistribution` and `FusedSolve` may
take a rank's commands to run in the order of issue.

`Redistribution` extends `EdgePadding`, which extends `SlabPlan`. So does
`ProcessGrid`, which checks that the geometry Python and the resolution produce
is one the planners accept; it shares `BlockCyclic` with `TileKernels`.
`Redistribution` assumes nothing about what the solver computes: `Solve`
preserves the entries the descriptor describes and destroys every other cell.

Choices of representation:

* A real matrix entry is its number; padding is `Pad`, undefined bytes `Junk`.
  Local matrices and scratch are flat, with the code's offsets, so that a wrong
  rectangle or overlapping slots corrupt data in the model as they would on a
  device.
* Plans are computed once and kept in a variable (`plan`); every rank's list is
  the same, as in the code, and each skips the batches that do not name it.
* NCCL: a group's halves complete in any order; a send completes against a
  waiting receiver, or ahead of it when the transport buffers (`depth`).
* `FusedSolve` takes the routines from a table (`Program`): library calls in
  order, whether a fallible local step follows the first one, whether there is
  a first agreement and a reduction, whether a matrix returns, whether a
  descriptor that cannot be destroyed is reported. Status codes that no
  property tells apart are merged; the module's comment names them.
* Operations on the communicator are joint steps: none completes before all
  ranks have reached it. Mismatched ones (a rank in the reverse redistribution,
  another in a library call) never complete.
* `ProcessGrid` has six routines that prepare differently: `potrf` (`getrf` and
  `syevd` prepare alike), `potrs` (any width; `lu_solve` alike), `gels` (tall,
  with a solution buffer of its own, and with B's rows sharded over any of the
  mesh axes), `qr`, `polar` and `gesvd` with every choice of results, thin and
  full.
* `TileKernels` knows an element by its global coordinates and a share by its
  offsets, so that an element read twice, a neighbour's, or padding shows; the
  log determinant is the bag of the elements that were added.
* `StreamOrder` gives an operation a duration (`Begin`, `End`): what matters is
  what else is running meanwhile. A wait is a command of its own.
* `LayoutConvert` computes in words of `Width` values (`Word`), so that a product
  that is reduced too late is cut off as `uint64_t` would be.
* `BackendSetup` keeps the number of targets and of threads open, and lets every
  step that may raise do so, any number of times.

## 3. Runs

| Run | Question | Instance |
|---|---|---|
| `redistribution` | is every entry placed, kept, and returned, under every interleaving of ranks? | seven geometries, buffering 0 and 1 |
| `shard_exchange` | do the batches implement the abstract exchange, and does every rank return? | five smaller geometries, fairness |
| `layout_convert` | is the conversion a transposition, undone on the way back? | all shapes to 6 x 6 with one line of scratch, ten with more or too little; words of 42 values |
| `process_grid` | do mesh, ranks, shares and geometries agree, for every routine? | 1,664 calls on meshes of three to six devices |
| `tile_kernels` | are the kernels operations on the global matrix? | seven shapes on grids of one to four ranks, blocks of three threads, at most two per strided launch |
| `stream_order` | does a device work through a call in the order of issue? | with and without a communication stream, two batches in, one out |
| `backend_setup` | is the set-up complete before it is used? | three threads, three targets, all six kinds of failure |
| `fused_solve` | what do the ranks know, hold and return when ranks fail, and is it the abstract call? | three ranks, twelve routines, all thirteen fault points |
| `fused_solve_live` | does every rank return after the failures the code joins? | three ranks, six fault points, fairness |
| `initialize_fails` | violated: does a failed native solver always give NaN and a status? | two ranks, potrs |
| `prepare_fails` | violated: do local failures reach the shared agreement? | two ranks, getrf |

The properties are stated with comments in the modules. The ones with most
behind them:

* `ForwardLayout`, `RoundTrip`: against layouts defined independently of the
  planners (`JaxHome`, `CyclicHome`), for each rank as soon as it arrives,
  whatever its peers are doing.
* `EntryNeverLost`, `SavedSlabPreserved`: a cycle's first move overwrites a slab
  whose only other copy sits in scratch, many batches before its restore. While
  it sits there (`SlabAside`) nothing may write its slot, neither an edge batch
  nor the save of another cycle; the mutant lets the cycles of a line overlap by
  one batch.
* `ExchangeMatched`: order is all NCCL has; a skipped or doubled half would pair
  payloads of different batches.
* `ImplementsShardExchange`: a rank completes its shard only when the ranks it
  takes entries from have let go of theirs.
* `SameVerdict`, `SuccessIsGenuine`, `FailureInvalidatesResults`: for every
  combination of failing ranks and stages, including the reverse redistribution
  that mixes buffers after each rank decided about its own.
* `ReductionJoinedByAll`, `Terminates`: branches are taken together, so that the
  collectives behind them are joined. `ReductionJoinedByAll` is about ranks that
  have not returned an error: a rank whose log determinant cannot be launched
  leaves its peers in the all-reduce (section 4).
* `ShardsPlaced`, `UnsupportedIsUnavoidable`: a mesh is turned away exactly when
  neither library order fits, and otherwise all placements coincide.
* `OwnedIsDealt`, `CapacitySuffices`: uneven shares against even shards, for
  every matrix of every routine, also for the solution rows gels copies without
  a check; what Python accepts the dispatch accepts.
* `ImplementsCollectiveSolve`: success is settled while every rank is still in
  the call, one failure dooms the call for all, and an answer is that verdict,
  status, numbers and all.
* `InProgramOrder`, `NothingPending`: a stream orders its own commands only; the
  rest hangs on two waits around each collective, and on the host waiting for
  one stream and thereby for both. With one stream, which is all a handler asks
  for today, the first is the stream's own order and the second that the host
  synchronizes; they say more of the dormant path over two streams (section 8).
  `InProgramOrder` names one exception, a refused last wait after NCCL was given
  the scratch; only that path can reach it.
* `PivotsReplicated`, `DiagonalCountedOnce`, `TrianglesExtracted`,
  `SolutionExtracted`: every cell has exactly one owner among ranks, blocks and
  threads, on shares of uneven size under leading dimensions that differ.
* `SetUpBeforeUse`: the flag may be set by a thread while others are anywhere in
  the set-up, and a call that finds itself compiled does not look at it.

Each property of a passing run comes with a mutated definition, placed before
the original in its module and marked `Mutant`, which makes the run fail.

### Bounds

* Redistribution. Three ranks in a line give cycles longer than two and chains
  of edge moves; 2 x 2 grids give both phases and both rank orders; (1,2) with
  4 x 9 logical shards and tile width 2 exercises edge moves cut at
  process boundaries; `spare` gives moves that are chunked differently by larger
  scratch. A phase acts on each axis group separately, so longer axes add cycles
  of the same kinds. Buffering beyond one payload adds only runs in which a
  sender is further ahead than the rank order of batches allows.
* Conversion. Shapes to 6 x 6 include coprime, equal, dividing and merely
  non-coprime (4 x 6) pairs, both signs of the Bezout coefficient, and launches
  of one, several and all lines. `MaxGridX` is 3, so that launches are cut short
  by the grid as well as by the scratch; it is 2^31 - 1 in the code.
* Words. Sides go to 6, and 42 = 6 x 7 is the least width for which
  `RowShuffleFits` promises that nothing is cut off; the real one is 2^64.
* Kernels. The shapes have a partial last tile, a rank with a whole tile less, a
  rank that owns none of the solution, tiles of one element, padding, R under
  another leading dimension than Q, and grids in a line both ways. Blocks of
  three threads leave the last one partly idle; two blocks make threads stride.
* Streams. Two batches on the way in, so that a batch finds the one before it
  still on the streams. The proofs are for any number.
* Set-up. Three targets have a first, a middle and a last; three threads have
  one ahead, one behind and one that has raised. The proof is for any numbers.
* Grid. All 24 orders of four devices with gaps in their ids, rectangular grids
  in both axis orders, tiles that divide and tiles that do not, widths below and
  above the process columns.
* Fused call. Three ranks: one that fails, one it leaves behind, one in between.
  The proofs do not depend on the number. Ranks are symmetric; symmetry is used
  in the safety run only.

`CHECK_DEADLOCK FALSE` stands only in runs of `FusedSolve` whose faults let a
rank leave its peers in a collective: there the program really stops.

### Fairness

`Redistribution`: weak fairness of every rank's stream and of the solver call. A
CUDA stream runs what is at its head, and an NCCL pair that is posted on both
sides completes. `FusedSolve`: weak fairness of every rank's local steps (XLA
runs each handler on its own thread) and of joint operations every rank has
reached. Nothing is assumed about a rank that waits for a peer who never comes;
the two violated runs show such waits under this fairness. `StreamOrder`,
`TileKernels` and `BackendSetup` state safety only.

## 4. Findings

* `initialize_fails`. `jaxmg/_potrs.py:118` says results are NaN and the status
  non-zero if the native solver fails. A rank whose
  `CusolverMpExecution::Initialize` fails alone publishes at once
  (`cusolvermp_potrs.cc:307`) and enters the reverse redistribution. Its peers
  are in the library call and wait for it. No rank returns.
* `prepare_fails`. `cusolvermp_getrf.cc:218` says local failures only set the
  status so every rank reaches the agreement. A rank whose pivot allocation fails
  does reach it; its peers are in getrf, which it skipped, and do not.

Both need a failure on some ranks only. Two related observations have no run of
their own because no document contradicts them: a rank whose log determinant
cannot be launched returns an error before the all-reduce its peers are in
(unlike a failed pivot gather, which joins it), and a rank told alone of a
non-zero potrf info skips potrs. `tests/gpu/run_failure_consensus.py` injects
only the failure to destroy a handle, one the code does handle.

## 5. Theorems

`FusedSolve_proofs`, for any set of ranks, any routines and any faults:

| Theorem | Says |
|---|---|
| `TypeCorrect` | `Spec => []TypeOK` |
| `VerdictIsShared` | `[]SameVerdict` |
| `SuccessStandsForAll` | `[]SuccessIsGenuine` |
| `FailureLeavesNan` | `[]FailureInvalidatesResults` |
| `ReductionIsJoint` | `[]ReductionJoinedByAll` |
| `NothingIsLeaked` | `[]ReleasedOnReturn` |
| `FirstFailureIsKept` | `OwnCodeKept` |

They rest on one inductive invariant,
`IInv == TypeOK /\ OutcomeInv /\ CodeInv /\ HeldInv /\ NanInv /\ SolvedInv /\
VerdictInv /\ ReductionJoinedByAll`. None of the properties is inductive alone.
`SameVerdict` at publication depends on the codes being agreed just before,
which depends on no rank being past the agreement while another is in front of
it; `VerdictInv` says so: once a rank is past the last agreement with success,
every other is late too, and successful. `SuccessIsGenuine` needs that a rank with an
`Ok` code past the library calls has a solution (`SolvedInv`), and this for its
peers too, because `Reverse` mixes results; `FailureInvalidatesResults` needs
that a published failure is already NaN (`NanInv`) on all ranks. `HeldInv` says
what may be held at each stage, `CodeInv` which codes are possible before the
solver, `OutcomeInv` ties outcome to stage. The step lemmas are split into local
actions (`InvLocal`) and joint ones (`InvJoint`). Assumptions: `Routines` and
`Faults` are among those the module defines.

The same module, under the same assumptions: `CallImplemented`
(`Spec => ImplementsCollectiveSolve`). The verdict of the abstract call is a
function of the codes, the outcomes and the stages; each step is shown to keep
verdict and answers, to settle the verdict, or to give one rank its answer.
`VerdictInv` and `SolvedInv` are what make a settled success stay one, and
`SuccessIsGenuine` and `FailureInvalidatesResults` what make an answer equal to
the verdict.

`Redistribution_proofs`, for every geometry, every order of the ranks and every
buffering:

| Theorem | Says |
|---|---|
| `PlanIsOK` | for every geometry, `Plan(g)` is a plan the executors can run |
| `RunsAsInLockstep` | `Spec => []RunInv` |
| `TypeCorrect` | `[]TypeOK`: no pack or unpack leaves its buffer |
| `ExchangesMatch` | `[]ExchangeMatched` |
| `NothingRefused` | `[]ExecutorAccepts` |

`Lockstep(g, p)[k]` are the memories after `k` entries of plan `p` if all ranks
run each entry together. `RunInv == Shapes /\ RanksRun /\ PairsRun` says that a
rank that has come as far as entry `k`, and as far inside its NCCL group as it
has, holds what lockstep has there (`RanksRun`), and that the queue between two
ranks holds the payloads of the entries one has sent and the other not taken, in
the order of the plan, taken from the sender's lockstep scratch (`PairsRun`). A
typing of the queues alone would not do: that the payload a receive takes is of
its own batch follows from *which* entries are in flight. `ExchangeMatched` is
then read off `PairsRun`, the types off lockstep's.

The steps need that the plan is in order (`PlanOK`): within a batch no rank sends
or receives twice, every send has its receive on the rank it names, all loads of
a batch are one number that fits the slot, rectangles lie in the local matrix,
and an edge batch does not read on a rank what it writes there. `PlanIsOK` proves
it of what the planners make, through all of their code: the slot maps are
permutations (`AxisSlotMapShuffles`), their inversion and the cycles walk through
them (`CyclesTyped`), each cycle becomes one save, moves and one restore of slabs
of one shape (`CycleStepsTyped`); the axis moves of the padding lie inside one
process on either side and within the scratch (`AxisMovesTyped`, `BudgetIs`), and
in a round of them no rank receives what another sends from, in either direction
(`HorizontalChained`, `VerticalChained`, `ReverseChained`); first fit keeps the
steps of a batch apart (`FirstFitTyped`). Assumption: `GeometriesAssumption`,
which is what the planners' own argument checks accept and at least the scratch
they ask for; `PlannersAccept` below proves that of the calls Python prepares.

`RedistributionLayout_proofs`, under the same assumption, for every geometry,
every order of the ranks and every buffering:

| Theorem | Says |
|---|---|
| `EntriesPlaced` | `[]ForwardLayout` |
| `EntriesReturned` | `[]RoundTrip` |
| `SavedSlabKept` | `SavedSlabPreserved` |
| `NothingLost` | `[]EntryNeverLost` |
| `ExecutorExchanges` | `Spec => ImplementsShardExchange` |
| `ExecutorNeverStuck` | `[]NeverStuck`: some rank can step, or all are at the solver call, or all have returned |
| `EveryStepCounts` | `WorkLeft(r)` is a natural number; each step lessens it for some rank and raises it for none |

By `RunsAsInLockstep` it is enough to follow each entry through the plan in
lockstep. Both planners move data along lines, the columns of a process row or
the rows of a process column, and have a phase for each direction, so an entry's
place is a pair of places on two lines and a phase changes one of them.

* A `Course` is the way of one piece of data through the steps of a phase: the
  steps that carry it, in the order of their rounds, and for all other steps that
  they leave it alone where it is at their time (`Spared`). First fit and the
  executor run the rounds in order, so lockstep takes the data along its course
  (`CourseRuns`, `CourseDelivers`).
* Edge phases: the moves that pull an axis together fill every place before the
  gap they leave, each by one move (`PullCovers`), from the place it has in the
  padded axis (`AxisPlaceIs`); on the way back the list is turned round
  (`ReverseIsTurned`).
* Slab phases: the slot map is a permutation, its cycles by walking through them
  from the least slot reach every slot it moves once (`OrbitsFound`), and save,
  moves and restore turn a cycle by one slot (`PhaseTurns`). Along an axis the
  map is the one from shards to block-cyclic order (`PhaseMakesCyclic`), or its
  inverse (`PhaseUndoesCyclic`).
* The two axes meet in one cell of one rank, which is `CyclicHome`
  (`CyclicHomeIs`); the plan behind the solver call undoes it. `Travels` sums
  this up for one entry and has more: a place in lockstep at every position of the
  plan, and the ranks it passes. `OnTheWay` says it of the executor's own plan.

`SavedSlabPreserved` is about two cycles of one rank. A rank writes its saved slot
only at an edge batch or at a save of its own (`SlabFollows`). Cycles of one line
take their sequence numbers one after the other and a rank lies on one line, so
in a phase a rank's save is followed by its restore before its next save
(`SavesInTurns`); rounds carry this over to the batches (`BatchesAlternate`), and
the parts of the plan to the plan (`PlanInTurns`). A rank with a slab put aside is
therefore at neither kind of batch.

`ForwardLayout` and `RoundTrip` are then `Travels` at the positions the ranks
have reached. `EntryNeverLost` does not follow from lockstep alone, since ranks
are at different positions. It goes back along the plan from where lockstep has
the entry: what a rank is to have after a batch it has not run, it had before the
batch, or it is to receive; what it is to receive is in flight, or its sender has
it, or is itself to have it from an earlier batch.

The refinement needs that what a rank shows (`view`, `held`) depends on its
position only (`Seen`), that all ranks are on the same side of the solver call
(`OneSide`, inductive), and that a rank has its shard only when those it takes
entries from have let go of theirs (`RouteReached`): the entries' ways pass from
rank to rank in batches, and who is past a batch had its peer in it. A rank with
no batch before the solver call, or none behind it, has the same shard in both
layouts.

`NeverStuck` is what deadlock checking finds out on instances. A rank no other is
behind (`Hindmost`) is not waiting for a peer that is further: if it has not sent,
its receiver is in the same batch, in front of an empty queue or about to join; if
it has not received, its sender has sent or is as far behind as itself. Together
with `EveryStepCounts` it is all of `Terminates` but the fairness.

`ProcessGrid_proofs`, for any mesh, order of axes and devices, tile and sizes,
and every routine: `StagesInvariant`, and from it `TypeCorrect`,
`RanksAtTheirShards` (`[]ShardsPlaced`), `OnlyHopelessMeshes`
(`[]UnsupportedIsUnavoidable`), `RoomForAll` (`[]CapacitySuffices`),
`RanksOwnWhatIsDealt` (`[]OwnedIsDealt`), `PlannersAccept`
(`[]GeometryAccepted`) and `NarrowRhsAccepted` (`[]RhsNeverRefused`). `StagesInv`
says at each stage which values the stages before it have determined. What is
hard lies in the arithmetic: a partition number is a mixed-radix number over the
mesh axes, so by induction over the axes it stands for one mesh position, its
coordinates are those of the shard JAX puts there, slots and partitions are in
bijection, and one of the library's two orders fits exactly if the slots are
row- or column-major. Assumption (`CallsAssumption`): positive sizes, distinct
devices, one per mesh position, and rows of B divided by the axes they are
sharded over.

`TileKernels_proofs`, for any matrix, grid, tile, block size and cap on the
blocks: `KernelsInvariant`, `TypeCorrect`, `TrianglesLeft`
(`[]TrianglesExtracted`), `EachDiagonalOnce` (`[]DiagonalCountedOnce`),
`PivotsEverywhere` (`[]PivotsReplicated`), `SolutionLeft`
(`[]SolutionExtracted`) and `FillsEverything` (`[]FillCoversAll`). `KernelInv`
says that a rank's output is what a single block would have made of the elements
covered so far; it needs that elements of different blocks go to different
places, which is `NoElementTwice` for the shares and injectivity of the offsets
for the storage.

`LayoutConvert_proofs`, for any shape, any scratch and any order of the blocks:
`InverseInverts` (Euclid's loop ends with an inverse within the modulus),
`ThreePhases` (the three shuffles are together a transposition),
`ConversionInvariant`, and from it `TypeCorrect`, `Transposes`
(`[]ColumnMajorThere`) and `PutsBack` (`[]RowMajorRestored`); apart from it
`SlicesNeverMeet` (`[]SlicesDisjoint`) and `RowShuffleFits` (what sides below the
root of the word width mean for the products). `ConvertInv` says that each cell
holds what the phases over its line, as far as they have come, make of the
storage the conversion started from, and each gathered slice what its block is
about to write. Assumptions: rows and columns are positive, the scratch size a
natural number, a launch may have at least one block (`MaxGridXAssumption`), and
no side reaches the root of the word width
(`WidthAssumption`); the code does not check the latter, section 8.

`Runtime_proofs`, on `StreamOrder` for any number of batches: `Invariance`, `TypeCorrect`,
`ProgramOrder` (`[]InProgramOrder`) and `Synchronized` (`[]NothingPending`). No
wait says that a command follows all those before it. The invariant adds the
shape of what the host issues (`Bracketed`: work on the communication stream
stands between a wait of that stream and one of the main stream; the log ends on
the main stream), which is kept by concatenation (`BracketedConcat`) and turns
stream order into program order (`ReachedInOrder`). Assumption: numbers of
batches are natural.

The same module, on `BackendSetup` for any threads, targets and failures:
`SetUpTyped` (`[]SetUpTypeOK`) and `SetUpFirst` (`[]SetUpBeforeUse`), from
`SetUpInvariance`. `Reached(t)` says what a thread may rely on at its step, in
terms of the shared state alone; as the shared state only grows (`StepGrows`), no
other thread can take it back. The module's specification is called `SetUpSpec`,
so that it can be extended together with `StreamOrder`.

`BlockCyclic_proofs`, for any sizes: `Placement` (owner and local index are the
inverse of `GlobalIndex`), `NoElementTwice`, `OrderKept` (a shorter matrix's rows
are a prefix of a taller one's on every rank, as gels copies them),
`LocalNumrocCounts` and `OwnedAreDealt` (the fold over tiles counts what is dealt
to a process), `ShareFits` and `OwnedFits` (what is owned lies within the padded
shard) and `EveryoneOwns`.

Induction is used in the form that speaks of a set (`SetInduction` in
`BlockCyclic_proofs`): a set of numbers with zero and all successors has all
numbers. Folds, products over mesh axes, recursive functions, Euclid's loop and
the walk through a cycle are reasoned about this way; nothing about them is
assumed.

## 6. Model-checked only

Both `Terminates`: liveness under fairness, and the ENABLED in it, are outside
what the proof system does. Of the redistribution's, `ExecutorNeverStuck` and
`EveryStepCounts` prove what can be said without fairness: a run can neither stop
early nor go on for ever. That the actions are enabled exactly where `CanGo` says
so is read off their guards. The fused call's has nothing of the kind, since it
holds only for the six fault points of its run.

Every other property of a passing run is proved for all values of the constants.
The two violated runs are counterexamples, and TLC's.

## 7. Plan

Redistribution, fused call, conversion, grid for all routines, streams, kernels,
set-up and the abstract call are modelled, and their safety is proved. What is
left, the most useful first:

1. The `shard_map` entry points of the layout contract, and the inference of a
   mesh from an array's sharding.
2. The shares of `TileKernels` taken from `ProcessGrid`'s calls, so that shapes
   need not be chosen twice.

## 8. Not modelled

* Numerics, and what cuSOLVERMp and NCCL do inside: external, collective, with
  an info per rank.
* Checks on attributes that are equal on all ranks (dtypes, buffer ranks):
  assumed to have passed in `FusedSolve`. `cuda/xla_ffi/handlers.cc` is
  declarative. `_cusolvermp_status.py` is a dictionary. The wrappers outside
  their `_prepare` functions and the cached call trace, pad and trim.
* Which stream is used in production: no handler asks XLA for a communication
  stream today (`cuda/xla_ffi/handlers.cc:30`), so the path over two streams is
  dormant. `StreamOrder` has both.
* Error returns of the slab planner that it can never take: of `InvertSlotMap`
  and of the walk through a cycle when the map is no permutation, and of
  `AppendAxisGroupSerialCycles` when a cycle leaves its axis group. The maps are
  permutations (`AxisSlotMapShuffles`) and keep to lines (`LineMapIs`).
* Process grids refused for a replica count other than one or for a missing
  device assignment: `ProcessGrid` has one replica and an assignment.
* In `FusedSolve` the exchanges of a redistribution are one joint step each way.
  In the code a rank waits only for the ranks it exchanges blocks with, and the
  host only enqueues: less synchronization than the model has. Who waits for whom
  there is the subject of `Redistribution`.
* 64-bit overflow outside the row shuffle. Nothing in the code checks that sides
  are below 2^32, which `RowShuffleFits` asks for; shards in memory are.
* The rounding of scratch sizes to bytes, and failing frees beyond their effect
  on what is returned.
* The clique request and the checks on the borrowed communicator: they change no
  state, and an error there is one of the error returns of `FusedSolve`.
* In `BackendSetup`: a process's GPU and device count do not change; registering
  a registered target and loading a loaded library do nothing; turning 64-bit
  types on while a call is being traced (`_setup.py:255`) and a set-up that fails
  on one rank of several only are left out.
* Inference of a mesh from an array's sharding, and tracing modes.
* The `shard_map` entry points: it derives the same layout from blocks, with
  a width that is a multiple of the process columns.
