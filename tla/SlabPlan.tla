------------------------------ MODULE SlabPlan ------------------------------
(***************************************************************************)
(* The movement planner of memory_redist/block_cyclic_2d.cc: the slot      *)
(* permutation that turns contiguous tile ownership into cyclic tile       *)
(* ownership, its decomposition into closed cycles, the                    *)
(* save/move/restore program of a cycle, and the batches the executor      *)
(* runs.                                                                   *)
(*                                                                         *)
(* A geometry is a record with the arguments every planner function takes: *)
(*   prows, pcols    process grid            rankMap  grid rank -> NCCL rank*)
(*   trows, tcols    tile shape              rows, cols  local padded shard*)
(*   lrows, lcols    logical (global) matrix shape                         *)
(***************************************************************************)
EXTENDS Integers, Sequences, FiniteSets, SequencesExt

(***************************************************************************)
(* Geometry.                                                               *)
(***************************************************************************)
RowBlocks(geo) == geo.rows \div geo.trows
ColBlocks(geo) == geo.cols \div geo.tcols

\* A rank map is accepted only when it is one of the two cuSOLVERMp orders.
ValidStandardGridRankMap(geo) ==
  \/ \A p \in 0..(geo.prows * geo.pcols - 1) : geo.rankMap[p] = p
  \/ \A p \in 0..(geo.prows * geo.pcols - 1) :
       geo.rankMap[p] = (p % geo.pcols) * geo.prows + (p \div geo.pcols)

RankAt(geo, prow, pcol) == geo.rankMap[prow * geo.pcols + pcol]

\* The elements of a finite set in the order of a strict total order.
Ordered(S, Before(_, _)) ==
  [i \in 1..Cardinality(S) |->
     CHOOSE x \in S : Cardinality({y \in S : Before(y, x)}) = i - 1]

\* The elements of a sequence at a set of its places, in order.
Picked(seq, places) ==
  LET order == Ordered(places, <)
  IN  [k \in DOMAIN order |-> seq[order[k]]]

\* The planner's argument checks (tile aligned, positive).
SlabArgumentsOK(geo) ==
  /\ \A n \in {geo.prows, geo.pcols, geo.trows, geo.tcols} : n > 0
  /\ geo.rows % geo.trows = 0
  /\ geo.cols % geo.tcols = 0

Rect(r, c, h, w) == [row |-> r, col |-> c, height |-> h, width |-> w]
NoRect == Rect(0, 0, 0, 0)

ColumnSlabRect(geo, block) == Rect(0, block * geo.tcols, geo.rows, geo.tcols)
RowSlabRect(geo, block)    == Rect(block * geo.trows, 0, geo.trows, geo.cols)

(***************************************************************************)
(* Slots.  A column-phase slot counts tile columns within a process row,   *)
(* process column major; a row-phase slot the analogue within a process    *)
(* column.                                                                 *)
(***************************************************************************)
ColumnPhaseSlotToRankLocal(geo, slot) ==
  LET perRow  == geo.pcols * ColBlocks(geo)
      rowSlot == slot % perRow
  IN  [rank |-> RankAt(geo, slot \div perRow, rowSlot \div ColBlocks(geo)),
       rect |-> ColumnSlabRect(geo, rowSlot % ColBlocks(geo))]

RowPhaseSlotToRankLocal(geo, slot) ==
  LET perCol  == geo.prows * RowBlocks(geo)
      colSlot == slot % perCol
  IN  [rank |-> RankAt(geo, colSlot \div RowBlocks(geo), slot \div perCol),
       rect |-> RowSlabRect(geo, colSlot % RowBlocks(geo))]

\* Mutant: quotient and remainder are taken by the wrong dimension.
CyclicSlot_ByBlocks(t, procs, blocks) == (t % blocks) * procs + (t \div blocks)

\* The place of global tile t among `procs` processes of `blocks` tiles each
\* once ownership is cyclic: process t % procs, local block t \div procs.
CyclicSlot(t, procs, blocks) == (t % procs) * blocks + (t \div procs)

\* Both BuildColumnSlabSlotMap and BuildRowSlabSlotMap: `groups` independent
\* copies of the one-axis permutation, laid out one after the other.
AxisSlotMap(groups, procs, blocks) ==
  [s \in 0..(groups * procs * blocks - 1) |->
     LET t == s % (procs * blocks)
     IN  (s - t) + CyclicSlot(t, procs, blocks)]

BuildColumnSlabSlotMap(geo) == AxisSlotMap(geo.prows, geo.pcols, ColBlocks(geo))
BuildRowSlabSlotMap(geo)    == AxisSlotMap(geo.pcols, geo.prows, RowBlocks(geo))

\* Mutant: the way back uses the map of the way there.
InvertSlotMap_Identity(map) == map

InvertSlotMap(map) == [t \in DOMAIN map |-> CHOOSE s \in DOMAIN map : map[s] = t]

(***************************************************************************)
(* Cycles.  Keys are visited in ascending order, so the cycle of an orbit  *)
(* starts at its lowest slot; it ends with that slot again.                *)
(***************************************************************************)
Iterate(map, key) ==
  LET it[n \in 0..Cardinality(DOMAIN map)] == IF n = 0 THEN key ELSE map[it[n - 1]]
  IN  it

CycleFrom(map, key) ==
  LET it  == Iterate(map, key)
      len == CHOOSE n \in 1..Cardinality(DOMAIN map) :
               it[n] = key /\ \A k \in 1..(n - 1) : it[k] # key
  IN  [i \in 1..(len + 1) |-> it[i - 1]]

BuildNative2DCycles(map) ==
  LET starts == {k \in DOMAIN map :
                   /\ map[k] # k
                   /\ \A i \in DOMAIN Iterate(map, k) : k <= Iterate(map, k)[i]}
      order  == Ordered(starts, <)
  IN  [i \in DOMAIN order |-> CycleFrom(map, order[i])]

(***************************************************************************)
(* Steps.                                                                  *)
(***************************************************************************)
Move    == 0
Save    == 1
Restore == 2

Step(phase, seq, kind, from, to, source, target) ==
  [phase |-> phase, seq |-> seq, kind |-> kind,
   from |-> from, to |-> to, source |-> source, target |-> target]

\* Mutant: from head to tail.
RotationSource_HeadFirst(n, k) == k

\* The slot (1-based) move k of an n-slot cycle reads; it writes the next one.
RotationSource(n, k) == n - 1 - k

\* One closed cycle: save the last slot, rotate tail to head, restore into the
\* first.  decode maps a slot to its rank and rectangle.
AppendCycleSteps(phase, decode, slots, offset) ==
  LET n      == Len(slots)
      saved  == decode[slots[n - 1]]
      first  == decode[slots[1]]
      save   == Step(phase, offset, Save, saved.rank, -1, saved.rect, NoRect)
      moves  == [k \in 1..(n - 2) |->
                   LET source == decode[slots[RotationSource(n, k)]]
                       target == decode[slots[RotationSource(n, k) + 1]]
                   IN  Step(phase, offset + k, Move,
                            source.rank, target.rank, source.rect, target.rect)]
      restore == Step(phase, offset + n - 1, Restore,
                      saved.rank, first.rank, NoRect, first.rect)
  IN  <<save>> \o moves \o <<restore>>

\* Mutant: the restore is not counted, so the next cycle's save comes before it.
SequenceCount_NoRestore(slots) == Len(slots) - 1

\* The sequence numbers a cycle's steps take.
SequenceCount(slots) == Len(slots)

\* Cycles of one axis group (`size` consecutive slots) run one after the other;
\* groups share sequence numbers.
AppendAxisGroupSerialCycles(phase, decode, size, cycles) ==
  LET group  == [i \in DOMAIN cycles |-> cycles[i][1] \div size]
      groups == Ordered({group[i] : i \in DOMAIN cycles}, <)
      Serial(cs) ==
        LET offset[i \in 1..Len(cs)] ==
              IF i = 1 THEN 0 ELSE offset[i - 1] + SequenceCount(cs[i - 1])
        IN  FlattenSeq([i \in DOMAIN cs |->
                          AppendCycleSteps(phase, decode, cs[i], offset[i])])
  IN  FlattenSeq([i \in DOMAIN groups |->
                    Serial(Picked(cycles, {k \in DOMAIN cycles : group[k] = groups[i]}))])

ColumnPhase(geo, phase, map) ==
  AppendAxisGroupSerialCycles(phase,
    [s \in DOMAIN map |-> ColumnPhaseSlotToRankLocal(geo, s)],
    geo.pcols * ColBlocks(geo),
    BuildNative2DCycles(map))

RowPhase(geo, phase, map) ==
  AppendAxisGroupSerialCycles(phase,
    [s \in DOMAIN map |-> RowPhaseSlotToRankLocal(geo, s)],
    geo.prows * RowBlocks(geo),
    BuildNative2DCycles(map))

\* Reverse undoes the phases in the opposite order with the inverted maps.
BuildSlabNative2DSteps(geo, reverse) ==
  IF reverse
  THEN RowPhase(geo, 0, InvertSlotMap(BuildRowSlabSlotMap(geo)))
       \o ColumnPhase(geo, 1, InvertSlotMap(BuildColumnSlabSlotMap(geo)))
  ELSE ColumnPhase(geo, 0, BuildColumnSlabSlotMap(geo))
       \o RowPhase(geo, 1, BuildRowSlabSlotMap(geo))

(***************************************************************************)
(* Batches.  Steps of one (phase, sequence, kind) round are placed first   *)
(* fit into batches in which no two steps share a source or a target.      *)
(***************************************************************************)
RoundOf(step) == <<step.phase, step.seq, step.kind>>

RoundBefore(a, b) ==
  \/ a[1] < b[1]
  \/ a[1] = b[1] /\ a[2] < b[2]
  \/ a[1] = b[1] /\ a[2] = b[2] /\ a[3] < b[3]

Conflicts(step, existing) ==
  \/ existing.from = step.from
  \/ step.kind # Save /\ existing.to = step.to

PlaceFirstFit(batches, step) ==
  LET free == {i \in DOMAIN batches :
                 \A j \in DOMAIN batches[i].steps :
                   ~Conflicts(step, batches[i].steps[j])}
      first == CHOOSE i \in free : \A k \in free : i <= k
  IN  IF free = {}
      THEN Append(batches, [kind |-> step.kind, steps |-> <<step>>])
      ELSE [batches EXCEPT ![first].steps = Append(@, step)]

FirstFit(steps) ==
  LET placed[n \in 0..Len(steps)] ==
        IF n = 0 THEN <<>> ELSE PlaceFirstFit(placed[n - 1], steps[n])
  IN  placed[Len(steps)]

BatchNative2DSteps(steps) ==
  LET rounds  == Ordered({RoundOf(steps[i]) : i \in DOMAIN steps}, RoundBefore)
      Members(round) == Picked(steps, {i \in DOMAIN steps : RoundOf(steps[i]) = round})
  IN  FlattenSeq([i \in DOMAIN rounds |-> FirstFit(Members(rounds[i]))])

(***************************************************************************)
(* Scratch.                                                                *)
(***************************************************************************)
Larger(a, b) == IF a >= b THEN a ELSE b

RequiredCyclicSlotElements(geo) ==
  Larger(geo.tcols * geo.rows, geo.trows * geo.cols)

RequiredPadded2DNativePlanScratchElements(geo) == 3 * RequiredCyclicSlotElements(geo)
=============================================================================
