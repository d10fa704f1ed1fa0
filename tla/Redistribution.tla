--------------------------- MODULE Redistribution ---------------------------
(***************************************************************************)
(* The in-place redistribution of a sharded matrix and its way back:       *)
(* ExecutePadded2DNativePlanRaw of memory_redist/block_cyclic_2d.cc, run   *)
(* forward before a solver call and reversed after it, over the executors  *)
(* of memory_redist/rectangle_pack.cc.                                     *)
(*                                                                         *)
(* Every rank walks the same list of batches at its own speed: its device  *)
(* stream executes packs, unpacks and NCCL groups in order, and only NCCL  *)
(* send/receive pairs tie ranks together.  Each rank keeps its local       *)
(* matrix (column major) and one scratch allocation, both as flat arrays,  *)
(* so overlapping slots or rectangles corrupt data here as they would      *)
(* there.                                                                  *)
(***************************************************************************)
EXTENDS Integers, Sequences, FiniteSets, EdgePadding

CONSTANTS
  Geometries,   \* the matrix geometries explored, records of SlabPlan
                \* with a field `scratch`, the elements allocated
  BufferDepths  \* payloads NCCL may accept ahead of the receiver: 0 is a
                \* strict rendezvous, 1 lets a send complete early

ASSUME GeometriesAssumption ==
  \A g \in Geometries :
    /\ \A n \in {g.prows, g.pcols, g.trows, g.tcols, g.rows, g.cols, g.lrows, g.lcols} :
         n \in Nat \ {0}
    /\ g.scratch \in Nat
    /\ g.rankMap \in [0..(g.prows * g.pcols - 1) -> 0..(g.prows * g.pcols - 1)]
    /\ SlabArgumentsOK(g)
    /\ ValidStandardGridRankMap(g)
    /\ EdgeArgumentsOK(g, g.scratch)
    /\ g.scratch >= RequiredPadded2DNativePlanScratchElements(g)

ASSUME BufferDepthsAssumption == BufferDepths \subseteq Nat

VARIABLES
  geo,      \* the geometry of this call
  plan,     \* its batches: forward, the solver call, reverse
  depth,    \* the buffering of this communicator
  pos,      \* rank -> next plan entry that concerns it
  owes,     \* rank -> halves of its open NCCL group not yet done
  open,     \* rank -> a group is posted
  mem,      \* rank -> local matrix, flat column major
  scratch,  \* rank -> scratch allocation, flat
  chan      \* <<from, to>> -> payloads in flight

vars == <<geo, plan, depth, pos, owes, open, mem, scratch, chan>>

Ranks == 0..(geo.prows * geo.pcols - 1)
Pad  == -1   \* storage padding of a shard
Junk == -2   \* undefined bytes

(***************************************************************************)
(* The plan: forward batches, the solver call, reverse batches.            *)
(***************************************************************************)
Tagged(exec, batches) ==
  [i \in DOMAIN batches |->
     [exec |-> exec, kind |-> batches[i].kind, steps |-> batches[i].steps]]

EdgeSteps(g) == BuildEdgePaddingNative2DSteps(g, g.scratch)

ForwardBatches(g) ==
  Tagged("edge", BatchNative2DSteps(EdgeSteps(g)))
  \o Tagged("slab", BatchNative2DSteps(BuildSlabNative2DSteps(g, FALSE)))

ReverseBatches(g) ==
  Tagged("slab", BatchNative2DSteps(BuildSlabNative2DSteps(g, TRUE)))
  \o Tagged("edge", BatchNative2DSteps(ReverseEdgePaddingSteps(EdgeSteps(g))))

SolveEntry == [exec |-> "solve", kind |-> Move, steps |-> <<>>]

Plan(g) == ForwardBatches(g) \o <<SolveEntry>> \o ReverseBatches(g)

solveAt == CHOOSE k \in DOMAIN plan : plan[k].exec = "solve"
planEnd == Len(plan) + 1

\* The steps of a batch that name a rank; the last match wins in the executor.
SendsOf(r, b) == {i \in DOMAIN b.steps : b.steps[i].from = r}
RecvsOf(r, b) == {i \in DOMAIN b.steps : b.steps[i].to = r}
LastOf(b, S)  == b.steps[CHOOSE i \in S : \A k \in S : k <= i]
SendStep(r, b) == LastOf(b, SendsOf(r, b))
RecvStep(r, b) == LastOf(b, RecvsOf(r, b))

\* Mutant: only the senders of a batch take part.
Concerns_SendersOnly(b, r) == b.exec = "solve" \/ SendsOf(r, b) # {}

\* A rank takes part in the batches that name it.
Concerns(b, r) == b.exec = "solve" \/ SendsOf(r, b) # {} \/ RecvsOf(r, b) # {}

\* Where rank r continues after entry k: batches that do not name it are skipped.
NextFor(r, p, k) ==
  LET later == {i \in (k + 1)..Len(p) : Concerns(p[i], r)}
  IN  IF later = {} THEN Len(p) + 1 ELSE Least(later)

After(r, k) == NextFor(r, plan, k)

(***************************************************************************)
(* Layouts.  A real entry (i, j) of the logical matrix is the number       *)
(* i * lcols + j; homes are <<rank, offset>> pairs.                        *)
(***************************************************************************)
Entries == 0..(geo.lrows * geo.lcols - 1)

Offset(g, i, j) == j * g.rows + i

\* Per-shard padded JAX layout, the layout a caller passes and gets back.
JaxHome(g, e) ==
  LET i == e \div g.lcols
      j == e % g.lcols
  IN  <<RankAt(g, i \div LocalLogicalRows(g), j \div LocalLogicalCols(g)),
        Offset(g, i % LocalLogicalRows(g), j % LocalLogicalCols(g))>>

\* 2D block-cyclic layout, the one the cuSOLVERMp descriptor declares.
CyclicHome(g, e) ==
  LET i  == e \div g.lcols
      j  == e % g.lcols
      ti == i \div g.trows
      tj == j \div g.tcols
  IN  <<RankAt(g, ti % g.prows, tj % g.pcols),
        Offset(g, (ti \div g.prows) * g.trows + (i % g.trows),
                  (tj \div g.pcols) * g.tcols + (j % g.tcols))>>

\* The local matrix of rank r in a layout; cells without an entry get `fill`.
Shard(g, Home(_, _), r, fill) ==
  [o \in 0..(g.rows * g.cols - 1) |->
     LET here == {e \in 0..(g.lrows * g.lcols - 1) : Home(g, e) = <<r, o>>}
     IN  IF here = {} THEN fill ELSE CHOOSE e \in here : TRUE]

(***************************************************************************)
(* Rectangle copies between the local matrix and flat scratch.             *)
(***************************************************************************)
Size(rect) == rect.height * rect.width
Peek(a, k) == IF k \in DOMAIN a THEN a[k] ELSE Junk

PackRect(g, rect, m, s, base) ==
  [k \in DOMAIN s |->
     IF k - base \in 0..(Size(rect) - 1)
     THEN Peek(m, Offset(g, rect.row + ((k - base) % rect.height),
                            rect.col + ((k - base) \div rect.height)))
     ELSE s[k]]

UnpackRect(g, rect, s, base, m) ==
  [o \in DOMAIN m |->
     LET i == (o % g.rows) - rect.row
         j == (o \div g.rows) - rect.col
     IN  IF i \in 0..(rect.height - 1) /\ j \in 0..(rect.width - 1)
         THEN Peek(s, base + j * rect.height + i)
         ELSE m[o]]

\* Mutant: the saved and the send slot coincide.
SlotBase_Overlapping(g, n) == (n \div 2) * RequiredCyclicSlotElements(g)

\* Saved, send and receive slots of the slab executor.
SlotBase(g, n) == n * RequiredCyclicSlotElements(g)
SavedSlot(g) == SlotBase(g, 0)
SendSlot(g)  == SlotBase(g, 1)
RecvSlot(g)  == SlotBase(g, 2)

\* Where a batch packs to, sends from, and receives into.
PackBase(g, b) == IF b.exec = "edge" THEN 0
                  ELSE IF b.kind = Save THEN SavedSlot(g) ELSE SendSlot(g)
SendBase(g, b) == IF b.exec = "edge" THEN 0
                  ELSE IF b.kind = Restore THEN SavedSlot(g) ELSE SendSlot(g)
RecvBase(g, b) == IF b.exec = "edge" THEN 0 ELSE RecvSlot(g)

\* Mutant: the size of a restore is that of its (empty) source.
GroupCount_Source(r, b) ==
  IF SendsOf(r, b) # {} THEN Size(SendStep(r, b).source)
  ELSE Size(RecvStep(r, b).target)

\* Mutant: a receiver counts the source, which a restore does not have.
GroupCount_ReceiverSource(r, b) ==
  IF SendsOf(r, b) # {} /\ b.kind # Restore THEN Size(SendStep(r, b).source)
  ELSE IF SendsOf(r, b) # {} THEN Size(SendStep(r, b).target)
  ELSE Size(RecvStep(r, b).source)

\* Elements a rank passes to both halves of its NCCL group.
GroupCount(r, b) ==
  IF SendsOf(r, b) # {} /\ b.kind # Restore THEN Size(SendStep(r, b).source)
  ELSE IF SendsOf(r, b) # {} THEN Size(SendStep(r, b).target)
  ELSE Size(RecvStep(r, b).target)

IsLocal(r, b) ==
  SendsOf(r, b) # {} /\ RecvsOf(r, b) # {} /\ SendStep(r, b).from = SendStep(r, b).to

\* A restore sends what the save packed; every other send packs first.
PackedScratch(r, b) ==
  IF SendsOf(r, b) # {} /\ b.kind # Restore
  THEN PackRect(geo, SendStep(r, b).source, mem[r], scratch[r], PackBase(geo, b))
  ELSE scratch[r]

(***************************************************************************)
(* Actions.                                                                *)
(***************************************************************************)
Init ==
  /\ geo \in Geometries
  /\ plan = Plan(geo)
  /\ depth \in BufferDepths
  /\ pos = [r \in Ranks |-> After(r, 0)]
  /\ owes = [r \in Ranks |-> {}]
  /\ open = [r \in Ranks |-> FALSE]
  /\ mem = [r \in Ranks |-> Shard(geo, JaxHome, r, Pad)]
  /\ scratch = [r \in Ranks |-> [k \in 0..(geo.scratch - 1) |-> Junk]]
  /\ chan = [p \in Ranks \X Ranks |-> <<>>]

\* Rank r is about to run the batch at its position.
Batch(r) == plan[pos[r]]
AtBatch(r) == pos[r] \in DOMAIN plan /\ Batch(r).exec # "solve"

Advance(r) == pos' = [pos EXCEPT ![r] = After(r, pos[r])]

\* A save packs the live slab of a cycle into the saved slot.
SaveSlab(r) ==
  /\ AtBatch(r)
  /\ ~open[r]
  /\ Batch(r).kind = Save
  /\ scratch' = [scratch EXCEPT ![r] = PackedScratch(r, Batch(r))]
  /\ Advance(r)
  /\ UNCHANGED <<geo, plan, depth, owes, open, mem, chan>>

\* A move or restore within one rank goes through scratch but not NCCL.
LocalMove(r) ==
  /\ AtBatch(r)
  /\ ~open[r]
  /\ LET b == Batch(r)
         packed == PackedScratch(r, b)
     IN  /\ b.kind # Save
         /\ IsLocal(r, b)
         /\ scratch' = [scratch EXCEPT ![r] = packed]
         /\ mem' = [mem EXCEPT ![r] =
                      UnpackRect(geo, RecvStep(r, b).target, packed, SendBase(geo, b), @)]
  /\ Advance(r)
  /\ UNCHANGED <<geo, plan, depth, owes, open, chan>>

\* The halves of the NCCL group of a rank.
Halves(r, b) == {h \in {"send", "recv"} :
                   \/ h = "send" /\ SendsOf(r, b) # {}
                   \/ h = "recv" /\ RecvsOf(r, b) # {}}

\* Pack, then enqueue the grouped ncclRecv / ncclSend.
Post(r) ==
  /\ AtBatch(r)
  /\ ~open[r]
  /\ LET b == Batch(r)
     IN  /\ b.kind # Save
         /\ ~IsLocal(r, b)
         /\ scratch' = [scratch EXCEPT ![r] = PackedScratch(r, b)]
         /\ owes' = [owes EXCEPT ![r] = Halves(r, b)]
  /\ open' = [open EXCEPT ![r] = TRUE]
  /\ UNCHANGED <<geo, plan, depth, pos, mem, chan>>

\* Rank t waits in a group whose receive names rank r.
AwaitsFrom(t, r) == "recv" \in owes[t] /\ RecvStep(t, plan[pos[t]]).from = r

\* The send half completes once NCCL can take the payload.
Send(r) ==
  /\ "send" \in owes[r]
  /\ LET b == plan[pos[r]]
         t == SendStep(r, b).to
     IN  /\ \/ Len(chan[r, t]) < depth
            \/ chan[r, t] = <<>> /\ AwaitsFrom(t, r)
         /\ chan' = [chan EXCEPT ![<<r, t>>] =
                       Append(@, [at |-> pos[r],
                                  data |-> [k \in 0..(GroupCount(r, b) - 1) |->
                                              Peek(scratch[r], SendBase(geo, b) + k)]])]
  /\ owes' = [owes EXCEPT ![r] = @ \ {"send"}]
  /\ UNCHANGED <<geo, plan, depth, pos, open, mem, scratch>>

\* The receive half writes the oldest payload of its source.
Receive(r) ==
  /\ "recv" \in owes[r]
  /\ LET b == plan[pos[r]]
         s == RecvStep(r, b).from
     IN  /\ chan[s, r] # <<>>
         /\ LET data == Head(chan[s, r]).data
            IN  scratch' = [scratch EXCEPT ![r] =
                  [k \in DOMAIN @ |-> IF k - RecvBase(geo, b) \in DOMAIN data
                                      THEN data[k - RecvBase(geo, b)] ELSE @[k]]]
         /\ chan' = [chan EXCEPT ![<<s, r>>] = Tail(@)]
  /\ owes' = [owes EXCEPT ![r] = @ \ {"recv"}]
  /\ UNCHANGED <<geo, plan, depth, pos, open, mem>>

\* The group is complete: a receiver unpacks, and the rank moves on.
CompleteGroup(r) ==
  /\ open[r]
  /\ owes[r] = {}
  /\ LET b == plan[pos[r]]
     IN  mem' = IF RecvsOf(r, b) = {} THEN mem
                ELSE [mem EXCEPT ![r] =
                        UnpackRect(geo, RecvStep(r, b).target, scratch[r],
                                   RecvBase(geo, b), @)]
  /\ open' = [open EXCEPT ![r] = FALSE]
  /\ Advance(r)
  /\ UNCHANGED <<geo, plan, depth, owes, scratch, chan>>

\* The solver call: collective over all ranks.  It reads and writes the real
\* entries where the descriptor places them and defines no other cell.
Solve ==
  /\ \A r \in Ranks : pos[r] = solveAt
  /\ pos' = [r \in Ranks |-> After(r, solveAt)]
  /\ mem' = [r \in Ranks |->
       LET real == {o \in DOMAIN mem[r] :
                      \E e \in Entries : CyclicHome(geo, e) = <<r, o>>}
       IN  [o \in DOMAIN mem[r] |-> IF o \in real THEN mem[r][o] ELSE Junk]]
  /\ UNCHANGED <<geo, plan, depth, owes, open, scratch, chan>>

RankStep(r) ==
  SaveSlab(r) \/ LocalMove(r) \/ Post(r) \/ Send(r) \/ Receive(r) \/ CompleteGroup(r)

Returned == \A r \in Ranks : pos[r] = planEnd
Terminated == Returned /\ UNCHANGED vars

Next == (\E r \in Ranks : RankStep(r)) \/ Solve \/ Terminated
Spec == Init /\ [][Next]_vars

AllRanks == UNION {0..(g.prows * g.pcols - 1) : g \in Geometries}

\* A device stream runs what is at its head: weak fairness for every rank.
Fairness == (\A r \in AllRanks : WF_vars(r \in Ranks /\ RankStep(r))) /\ WF_vars(Solve)
FairSpec == Spec /\ Fairness

(***************************************************************************)
(* Properties.                                                             *)
(***************************************************************************)
Cells == Entries \cup {Pad, Junk}

\* Type invariant of the executor's state.
TypeOK ==
  /\ geo \in Geometries
  /\ depth \in BufferDepths
  /\ pos \in [Ranks -> 1..planEnd]
  /\ owes \in [Ranks -> SUBSET {"send", "recv"}]
  /\ open \in [Ranks -> BOOLEAN]
  /\ mem \in [Ranks -> [0..(geo.rows * geo.cols - 1) -> Cells]]
  /\ scratch \in [Ranks -> [0..(geo.scratch - 1) -> Cells]]
  /\ \A p \in Ranks \X Ranks : \A i \in DOMAIN chan[p] :
       /\ chan[p][i].at \in DOMAIN plan
       /\ \E n \in 1..geo.scratch : chan[p][i].data \in [0..(n - 1) -> Cells]

Holds(r, Home(_, _)) ==
  \A e \in Entries : Home(geo, e)[1] = r => mem[r][Home(geo, e)[2]] = e

\* A rank that has finished the forward batches holds every real entry of its
\* shard of the block-cyclic matrix, at the offset the cuSOLVERMp descriptor
\* gives it, whatever its peers are still doing.
ForwardLayout == \A r \in Ranks : pos[r] = solveAt => Holds(r, CyclicHome)

\* A rank that has returned holds the real entries of the shard it was called
\* with, in their original places (the padding may be anything).
RoundTrip == \A r \in Ranks : pos[r] = planEnd => Holds(r, JaxHome)

\* In-place movement never destroys the last copy of a real entry: at every
\* moment some local matrix, scratch buffer or message in flight has it.
EntryNeverLost ==
  Entries \subseteq
    (UNION {Range(mem[r]) \cup Range(scratch[r]) : r \in Ranks})
    \cup (UNION {UNION {Range(chan[p][i].data) : i \in DOMAIN chan[p]} :
                 p \in DOMAIN chan})

\* NCCL pairs the nth send of a pair of ranks with the nth receive.  The two
\* always belong to the same batch and agree on the payload size, although the
\* ranks run batches at their own speed.
ExchangeMatched ==
  \A p \in Ranks \X Ranks :
    chan[p] # <<>> /\ AwaitsFrom(p[2], p[1]) =>
      /\ Head(chan[p]).at = pos[p[2]]
      /\ DOMAIN Head(chan[p]).data = 0..(GroupCount(p[2], plan[pos[p[2]]]) - 1)

\* The executor's own error returns are unreachable: no edge batch makes a rank
\* both remote source and remote target, no payload is larger than the buffer
\* it is packed, sent or received into.
ExecutorAccepts ==
  \A r \in Ranks : AtBatch(r) =>
    LET b == Batch(r)
        limit == IF b.exec = "edge" THEN geo.scratch ELSE RequiredCyclicSlotElements(geo)
    IN  /\ b.exec = "edge" /\ SendsOf(r, b) # {} /\ RecvsOf(r, b) # {} => IsLocal(r, b)
        /\ GroupCount(r, b) <= limit

\* Rank r has a slab put aside: it is past a save of its own, and the restore
\* that sends the slab back is still ahead of it (or the one it is at).
Saves(b, r)    == b.kind = Save /\ SendsOf(r, b) # {}
Restores(b, r) == b.kind = Restore /\ SendsOf(r, b) # {}

SlabAside(r) ==
  \E s \in 1..(pos[r] - 1) :
    /\ Saves(plan[s], r)
    /\ \A k \in (s + 1)..(pos[r] - 1) : ~Restores(plan[k], r)

\* A slab that was put aside stays in the saved slot until its restore has sent
\* it back: no step of any rank writes the slot meanwhile, neither a pack or a
\* payload of another batch nor the save of another cycle of the same rank.
SavedSlabPreserved ==
  [][\A r \in Ranks : SlabAside(r) =>
       \A k \in 0..(RequiredCyclicSlotElements(geo) - 1) :
         scratch'[r][SavedSlot(geo) + k] = scratch[r][SavedSlot(geo) + k]]_vars

\* Refinement: seen from the caller, the batches of every rank amount to one
\* exchange of its shard for the solver's and back (ShardExchange).  A rank is
\* rearranging between its first batch of a direction and its last.
Untouched(r, k) == pos[r] = After(r, k) /\ ~open[r]

View(r) ==
  CASE pos[r] < solveAt /\ Untouched(r, 0)       -> "given"
    [] pos[r] < solveAt /\ ~Untouched(r, 0)      -> "moving"
    [] pos[r] = solveAt                          -> "placed"
    [] pos[r] \in (solveAt + 1)..(planEnd - 1) /\ Untouched(r, solveAt)  -> "solved"
    [] pos[r] \in (solveAt + 1)..(planEnd - 1) /\ ~Untouched(r, solveAt) -> "returning"
    [] pos[r] = planEnd                          -> "restored"

RanksOf(g) == 0..(g.prows * g.pcols - 1)
EntriesOf(g) == 0..(g.lrows * g.lcols - 1)
JaxShard(g, r)    == {e \in EntriesOf(g) : JaxHome(g, e)[1] = r}
CyclicShard(g, r) == {e \in EntriesOf(g) : CyclicHome(g, e)[1] = r}

\* The entries rank r has where a layout puts them.
InPlace(r, Home(_, _)) ==
  {e \in Entries : Home(geo, e)[1] = r /\ mem[r][Home(geo, e)[2]] = e}

Held(r) ==
  IF View(r) \in {"given", "restored"} THEN InPlace(r, JaxHome)
  ELSE IF View(r) \in {"placed", "solved"} THEN InPlace(r, CyclicHome)
  ELSE {}

Abstract == INSTANCE ShardExchange WITH
  Calls   <- Geometries,
  RankOf  <- RanksOf,
  Before  <- JaxShard,
  Between <- CyclicShard,
  call    <- geo,
  view    <- [r \in Ranks |-> View(r)],
  held    <- [r \in Ranks |-> Held(r)]

ImplementsShardExchange == Abstract!Spec

\* Every rank returns.
Terminates == <>Returned
=============================================================================
