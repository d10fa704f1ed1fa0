------------------------ MODULE Redistribution_proofs ------------------------
(***************************************************************************)
(* The redistribution executor, for every geometry of the process grid,    *)
(* every order of its ranks and every buffering by the transport.          *)
(*                                                                         *)
(* The argument compares the executor with its lockstep: all ranks run     *)
(* each entry of the plan together.  The inductive invariant RunInv says   *)
(* that a rank that has come as far as entry k has the local matrix and    *)
(* the scratch that lockstep has after k entries, and that what is in      *)
(* flight between two ranks are the payloads of the entries one has sent   *)
(* and the other not taken, in the order of the plan.  It holds because    *)
(* the plan is one the executor can run: what a batch sends and receives   *)
(* pairs up, fits the slots and shares no cell (PlanOK), and the planners  *)
(* make no other plan (PlanIsOK).                                          *)
(*                                                                         *)
(*   - batches and plans that can be run, and lockstep                     *)
(*   - what a rank at its own speed has done, what is in flight            *)
(*   - the inductive invariant, one lemma per action, and what follows     *)
(*   - recursion, sequences, orders, first fit: the batching of steps      *)
(*   - slot maps, cycles, slabs: the slab planner's plan can be run        *)
(*   - axis moves, chains: the edge planner's plan can be run              *)
(*   - where data is, and where batches take it; lines of places           *)
(*   - first fit on the steps of a round that share no rank                *)
(*   - the theorems                                                        *)
(*                                                                         *)
(* RedistributionLayout_proofs goes on from here to where the entries of   *)
(* the matrix are.                                                         *)
(***************************************************************************)
EXTENDS Redistribution, SequenceTheorems, BlockCyclic_proofs

(***************************************************************************)
(* Batches.                                                                *)
(***************************************************************************)
\* The cells of a rank's local matrix and of its scratch.
LocalCells(g)   == 0..(g.rows * g.cols - 1)
ScratchCells(g) == 0..(g.scratch - 1)

\* A rectangle of at least one cell inside a local matrix.
Inside(g, rect) ==
  /\ rect.row \in Nat /\ rect.col \in Nat
  /\ rect.height \in Nat \ {0} /\ rect.width \in Nat \ {0}
  /\ rect.row + rect.height <= g.rows
  /\ rect.col + rect.width <= g.cols

\* What fits the slot a batch packs to.
Limit(g, exec) == IF exec = "edge" THEN g.scratch ELSE RequiredCyclicSlotElements(g)

\* The elements every step of a batch moves.
Load(b) == LET s == b.steps[1]
           IN  IF b.kind = Restore THEN Size(s.target) ELSE Size(s.source)

\* A step of a batch of load n.
StepOK(g, kind, s, n) ==
  /\ s.from \in RanksOf(g)
  /\ kind = Save => s.to = -1
  /\ kind # Save => s.to \in RanksOf(g) /\ Inside(g, s.target) /\ Size(s.target) = n
  /\ kind # Restore => Inside(g, s.source) /\ Size(s.source) = n
  /\ kind = Move => s.source.height = s.target.height

\* No two steps share a sender or a receiver.
NoneShared(b) ==
  \A i, j \in DOMAIN b.steps :
    i # j => /\ b.steps[i].from # b.steps[j].from
             /\ b.kind # Save => b.steps[i].to # b.steps[j].to

\* A rank that sends and receives does so to itself.
OneWay(b) ==
  \A i, j \in DOMAIN b.steps :
    b.steps[j].to = b.steps[i].from => b.steps[i].to = b.steps[i].from

\* The batches the executor is made for.
BatchOK(g, b) ==
  /\ b.exec \in {"edge", "slab"}
  /\ b.kind \in {Move, Save, Restore}
  /\ b.exec = "edge" => b.kind = Move /\ OneWay(b)
  /\ Len(b.steps) \in Nat \ {0} /\ DOMAIN b.steps = 1..Len(b.steps)
  /\ Load(b) \in 1..Limit(g, b.exec)
  /\ \A i \in DOMAIN b.steps : StepOK(g, b.kind, b.steps[i], Load(b))
  /\ NoneShared(b)

\* Plans: batches and one call of the solver.
PlanOK(g, p) ==
  /\ Len(p) \in Nat \ {0} /\ DOMAIN p = 1..Len(p)
  /\ \E at \in 1..Len(p) : /\ p[at] = SolveEntry
                           /\ \A k \in 1..Len(p) : k # at => BatchOK(g, p[k])

\* What GeometriesAssumption says of a geometry.
GeometryOK(g) ==
  /\ g.prows \in Nat \ {0} /\ g.pcols \in Nat \ {0}
  /\ g.trows \in Nat \ {0} /\ g.tcols \in Nat \ {0}
  /\ g.rows \in Nat \ {0} /\ g.cols \in Nat \ {0}
  /\ g.lrows \in Nat \ {0} /\ g.lcols \in Nat \ {0}
  /\ g.scratch \in Nat
  /\ g.rankMap \in [RanksOf(g) -> RanksOf(g)]
  /\ SlabArgumentsOK(g)
  /\ ValidStandardGridRankMap(g)
  /\ EdgeArgumentsOK(g, g.scratch)
  /\ g.scratch >= RequiredPadded2DNativePlanScratchElements(g)

\* What the assumption on the geometries says of each.
LEMMA GeometryIsOK == \A g \in Geometries : GeometryOK(g)
  BY GeometriesAssumption DEF GeometryOK, RanksOf

\* What rank r sends in a batch is the one step from it.
LEMMA SendOf ==
  ASSUME NEW g, NEW b, NEW i \in DOMAIN b.steps, BatchOK(g, b)
  PROVE  /\ SendsOf(b.steps[i].from, b) = {i}
         /\ SendStep(b.steps[i].from, b) = b.steps[i]
<1>1. SendsOf(b.steps[i].from, b) = {i}
  BY DEF SendsOf, BatchOK, NoneShared
<1>2. i <= i
  BY DEF BatchOK
<1>3. (CHOOSE k \in {i} : \A j \in {i} : j <= k) = i
  BY <1>2
<1> QED
  BY <1>1, <1>3 DEF SendStep, LastOf

\* What it receives the one step to it.
LEMMA RecvOf ==
  ASSUME NEW g, NEW b, NEW i \in DOMAIN b.steps, BatchOK(g, b), b.kind # Save
  PROVE  /\ RecvsOf(b.steps[i].to, b) = {i}
         /\ RecvStep(b.steps[i].to, b) = b.steps[i]
<1>1. RecvsOf(b.steps[i].to, b) = {i}
  BY DEF RecvsOf, BatchOK, NoneShared
<1>2. i <= i
  BY DEF BatchOK
<1>3. (CHOOSE k \in {i} : \A j \in {i} : j <= k) = i
  BY <1>2
<1> QED
  BY <1>1, <1>3 DEF RecvStep, LastOf

\* A sender's step.
LEMMA Sender ==
  ASSUME NEW g, NEW b, NEW r, BatchOK(g, b), SendsOf(r, b) # {}
  PROVE  \E i \in DOMAIN b.steps : /\ SendStep(r, b) = b.steps[i]
                                   /\ b.steps[i].from = r
                                   /\ StepOK(g, b.kind, b.steps[i], Load(b))
<1>1. PICK i \in DOMAIN b.steps : b.steps[i].from = r
  BY DEF SendsOf
<1>2. SendStep(r, b) = b.steps[i]
  BY <1>1, SendOf, ZenonT(60)
<1>3. StepOK(g, b.kind, b.steps[i], Load(b))
  BY DEF BatchOK
<1> QED
  BY <1>1, <1>2, <1>3

\* A receiver's step.
LEMMA Receiver ==
  ASSUME NEW g, NEW b, NEW r \in RanksOf(g), BatchOK(g, b), RecvsOf(r, b) # {}
  PROVE  /\ b.kind # Save
         /\ \E i \in DOMAIN b.steps : /\ RecvStep(r, b) = b.steps[i]
                                      /\ b.steps[i].to = r
                                      /\ StepOK(g, b.kind, b.steps[i], Load(b))
<1>1. PICK i \in DOMAIN b.steps : b.steps[i].to = r
  BY DEF RecvsOf
<1>2. b.kind # Save
  BY <1>1 DEF BatchOK, StepOK, RanksOf
<1>3. RecvsOf(b.steps[i].to, b) = {i} /\ RecvStep(b.steps[i].to, b) = b.steps[i]
  BY <1>2, RecvOf
<1>4. StepOK(g, b.kind, b.steps[i], Load(b))
  BY DEF BatchOK
<1> QED
  BY <1>1, <1>2, <1>3, <1>4

\* The sender a receiver names has the same step.
LEMMA Partner ==
  ASSUME NEW g, NEW b, NEW r \in RanksOf(g), BatchOK(g, b), RecvsOf(r, b) # {}
  PROVE  /\ RecvStep(r, b).from \in RanksOf(g)
         /\ SendsOf(RecvStep(r, b).from, b) # {}
         /\ SendStep(RecvStep(r, b).from, b) = RecvStep(r, b)
         /\ RecvStep(r, b).to = r
<1>1. PICK i \in DOMAIN b.steps : /\ RecvStep(r, b) = b.steps[i]
                                  /\ b.steps[i].to = r
                                  /\ StepOK(g, b.kind, b.steps[i], Load(b))
  BY Receiver
<1>2. StepOK(g, b.kind, b.steps[i], Load(b)) /\ b.kind # Save
  BY <1>1, Receiver
<1>3. b.steps[i].from \in RanksOf(g)
  BY <1>2 DEF StepOK
<1>4. SendsOf(b.steps[i].from, b) = {i} /\ SendStep(b.steps[i].from, b) = b.steps[i]
  BY SendOf, ZenonT(60)
<1> QED
  BY <1>1, <1>3, <1>4

\* The receiver a sender names has the same step.
LEMMA PartnerOfSender ==
  ASSUME NEW g, NEW b, NEW r, BatchOK(g, b), SendsOf(r, b) # {}, b.kind # Save
  PROVE  /\ SendStep(r, b).to \in RanksOf(g)
         /\ SendStep(r, b).from = r
         /\ RecvsOf(SendStep(r, b).to, b) # {}
         /\ RecvStep(SendStep(r, b).to, b) = SendStep(r, b)
<1>1. PICK i \in DOMAIN b.steps : /\ SendStep(r, b) = b.steps[i]
                                  /\ b.steps[i].from = r
                                  /\ StepOK(g, b.kind, b.steps[i], Load(b))
  BY Sender, SMTT(30)
<1> QED
  BY <1>1, RecvOf, SMTT(30) DEF StepOK

\* Every rank of a batch counts the same.
LEMMA CountIsLoad ==
  ASSUME NEW g, NEW b, NEW r \in RanksOf(g), BatchOK(g, b),
         SendsOf(r, b) # {} \/ RecvsOf(r, b) # {}
  PROVE  GroupCount(r, b) = Load(b)
<1>1. CASE SendsOf(r, b) # {}
  <2>1. PICK i \in DOMAIN b.steps : /\ SendStep(r, b) = b.steps[i]
                                    /\ StepOK(g, b.kind, b.steps[i], Load(b))
    BY <1>1, Sender
  <2>2. Save # Restore
    BY DEF Save, Restore
  <2> QED
    BY <1>1, <2>1, <2>2 DEF GroupCount, StepOK
<1>2. CASE SendsOf(r, b) = {}
  <2>1. PICK i \in DOMAIN b.steps : /\ RecvStep(r, b) = b.steps[i]
                                    /\ StepOK(g, b.kind, b.steps[i], Load(b))
    BY <1>2, Receiver
  <2>2. b.kind # Save
    BY <1>2, Receiver
  <2> QED
    BY <1>2, <2>1, <2>2 DEF GroupCount, StepOK
<1> QED
  BY <1>1, <1>2

\* A rank that moves within itself takes part with one step.
LEMMA LocalStep ==
  ASSUME NEW g, NEW b, NEW r \in RanksOf(g), BatchOK(g, b), IsLocal(r, b)
  PROVE  /\ SendsOf(r, b) # {} /\ RecvsOf(r, b) # {}
         /\ RecvStep(r, b) = SendStep(r, b)
         /\ SendStep(r, b).from = r /\ SendStep(r, b).to = r
         /\ b.kind # Save
<1>1. SendsOf(r, b) # {} /\ RecvsOf(r, b) # {} /\ SendStep(r, b).from = SendStep(r, b).to
  BY DEF IsLocal
<1>2. b.kind # Save
  BY <1>1, Receiver
<1> QED
  BY <1>1, <1>2, PartnerOfSender

\* The other ranks send to and receive from others.
LEMMA RemoteStep ==
  ASSUME NEW g, NEW b, NEW r \in RanksOf(g), BatchOK(g, b), ~IsLocal(r, b)
  PROVE  /\ SendsOf(r, b) # {} => SendStep(r, b).to # r
         /\ RecvsOf(r, b) # {} => RecvStep(r, b).from # r
<1>1. ASSUME SendsOf(r, b) # {}, SendStep(r, b).to = r PROVE FALSE
  <2>1. b.kind # Save
    <3>1. Save # Restore /\ -1 \notin RanksOf(g)
      BY DEF Save, Restore, RanksOf
    <3> QED
      BY <1>1, <3>1, Sender DEF StepOK
  <2> QED
    BY <1>1, <2>1, PartnerOfSender DEF IsLocal
<1>2. ASSUME RecvsOf(r, b) # {}, RecvStep(r, b).from = r PROVE FALSE
  BY <1>2, Partner DEF IsLocal
<1> QED
  BY <1>1, <1>2

(***************************************************************************)
(* Recursion over numbers.                                                 *)
(***************************************************************************)
\* What a recursion over 0..N is made of: the values, the first one, and a
\* function that makes the next one from the number and the value before.
Recursion(N, V, base, F) == N \in Nat /\ base \in V /\ F \in [Nat \X V -> V]

\* It has a solution: one up to a number can be extended to the next.
LEMMA RecursionExists ==
  ASSUME NEW N, NEW V, NEW base, NEW F, Recursion(N, V, base, F)
  PROVE  \E f \in [0..N -> V] :
           f = [k \in 0..N |-> IF k = 0 THEN base ELSE F[<<k, f[k - 1]>>]]
<1> DEFINE Next1(f, k) == IF k = 0 THEN base ELSE F[<<k, f[k - 1]>>]
           T == {n \in Nat : \E f \in [0..n -> V] : f = [k \in 0..n |-> Next1(f, k)]}
<1>1. 0 \in T
  <2> DEFINE f == [k \in 0..0 |-> base]
  <2>1. f = [k \in 0..0 |-> Next1(f, k)]
    <3>1. \A k \in 0..0 : Next1(f, k) = base
      OBVIOUS
    <3> HIDE DEF Next1
    <3> QED
      BY <3>1
  <2>2. f \in [0..0 -> V]
    BY DEF Recursion
  <2> HIDE DEF f, Next1
  <2> QED
    BY <2>1, <2>2
<1>2. ASSUME NEW n \in Nat, n \in T
      PROVE  n + 1 \in T
  <2>1. PICK f \in [0..n -> V] : f = [k \in 0..n |-> Next1(f, k)]
    BY <1>2
  <2> DEFINE h == [k \in 0..(n + 1) |-> IF k = n + 1 THEN F[<<n + 1, f[n]>>] ELSE f[k]]
  <2>2. \A k \in 0..n : h[k] = f[k] /\ f[k] = Next1(f, k)
    <3>1. \A k \in 0..n : h[k] = f[k]
      OBVIOUS
    <3> HIDE DEF h, Next1
    <3> QED
      BY <2>1, <3>1
  <2>3. h[n + 1] = F[<<n + 1, f[n]>>]
    OBVIOUS
  <2>4. h \in [0..(n + 1) -> V]
    <3>1. F[<<n + 1, f[n]>>] \in V
      <4>1. f[n] \in V /\ n + 1 \in Nat
        BY <2>1
      <4> QED
        BY <4>1 DEF Recursion
    <3> QED
      BY <2>1, <3>1
  <2>5. h = [k \in 0..(n + 1) |-> h[k]]
    OBVIOUS
  <2> HIDE DEF h
  <2>6. \A k \in 0..(n + 1) : h[k] = Next1(h, k)
    <3> TAKE k \in 0..(n + 1)
    <3>1. CASE k = n + 1
      <4>1. k - 1 = n /\ k # 0 /\ n \in 0..n
        BY <3>1
      <4> QED
        BY <2>2, <2>3, <3>1, <4>1
    <3>2. CASE k \in 0..n
      <4>1. k # 0 => k - 1 \in 0..n
        BY <3>2
      <4> QED
        BY <2>2, <3>2, <4>1
    <3> QED
      BY <3>1, <3>2
  <2>7. h = [k \in 0..(n + 1) |-> Next1(h, k)]
    <3> HIDE DEF Next1
    <3> QED
      BY <2>5, <2>6
  <2>8. n + 1 \in Nat
    OBVIOUS
  <2> HIDE DEF Next1
  <2> QED
    BY <2>4, <2>7, <2>8
<1>3. N \in T
  <2> HIDE DEF T
  <2>1. Nat \subseteq T
    BY <1>1, <1>2, SetInduction
  <2> QED
    BY <2>1 DEF Recursion
<1> QED
  BY <1>3

\* What satisfies its equations wherever the value before is one of V's has its
\* values there.
LEMMA RecursionTyped ==
  ASSUME NEW N, NEW V, NEW base, NEW F, Recursion(N, V, base, F), NEW w,
         w[0] = base,
         \A k \in 1..N : w[k - 1] \in V => w[k] = F[<<k, w[k - 1]>>]
  PROVE  \A k \in 0..N : w[k] \in V
<1> DEFINE T == {n \in Nat : n <= N => w[n] \in V}
<1>1. 0 \in T
  BY DEF Recursion
<1>2. ASSUME NEW n \in Nat, n \in T
      PROVE  n + 1 \in T
  <2>1. CASE n + 1 <= N
    <3>1. N \in Nat
      BY DEF Recursion
    <3>2. w[n] \in V /\ n + 1 \in 1..N /\ (n + 1) - 1 = n /\ n + 1 \in Nat
      BY <1>2, <2>1, <3>1
    <3>3. w[n + 1] = F[<<n + 1, w[n]>>]
      BY <3>2
    <3> QED
      BY <3>2, <3>3 DEF Recursion
  <2> QED
    BY <2>1
<1>3. Nat \subseteq T
  <2> HIDE DEF T
  <2> QED
    BY <1>1, <1>2, SetInduction
<1> QED
  BY <1>3 DEF Recursion

(***************************************************************************)
(* The memories, when all ranks have run the same entries of the plan.     *)
(***************************************************************************)
\* What rank r's scratch is once it has packed for batch b.
PackedIn(g, w, b, r) ==
  IF SendsOf(r, b) # {} /\ b.kind # Restore
  THEN PackRect(g, SendStep(r, b).source, w.mem[r], w.scratch[r], PackBase(g, b))
  ELSE w.scratch[r]

\* What it sends.
PayloadOf(g, w, b, r) ==
  [k \in 0..(GroupCount(r, b) - 1) |-> Peek(PackedIn(g, w, b, r), SendBase(g, b) + k)]

\* Scratch a with a payload where b's are received.
Landed(g, a, b, data) ==
  [k \in DOMAIN a |-> IF k - RecvBase(g, b) \in DOMAIN data
                      THEN data[k - RecvBase(g, b)] ELSE a[k]]

\* r receives from another rank.
Receives(r, b) == RecvsOf(r, b) # {} /\ ~IsLocal(r, b)

\* What its scratch is once the batch is done.
ScratchAfter(g, w, b, r) ==
  IF Receives(r, b)
  THEN Landed(g, PackedIn(g, w, b, r), b, PayloadOf(g, w, b, RecvStep(r, b).from))
  ELSE PackedIn(g, w, b, r)

\* What its local matrix is.
MemAfter(g, w, b, r) ==
  IF RecvsOf(r, b) = {} THEN w.mem[r]
  ELSE UnpackRect(g, RecvStep(r, b).target, ScratchAfter(g, w, b, r),
                  IF IsLocal(r, b) THEN SendBase(g, b) ELSE RecvBase(g, b), w.mem[r])

\* The solver keeps the entries the descriptor describes and nothing else.
SolvedMem(g, m, r) ==
  [o \in DOMAIN m |-> IF \E e \in EntriesOf(g) : CyclicHome(g, e) = <<r, o>>
                      THEN m[o] ELSE Junk]

\* The memories w after entry b of a plan.
Passed(g, w, b) ==
  IF b.exec = "solve"
  THEN [mem |-> [r \in RanksOf(g) |-> SolvedMem(g, w.mem[r], r)],
        scratch |-> [r \in RanksOf(g) |-> w.scratch[r]]]
  ELSE [mem |-> [r \in RanksOf(g) |-> MemAfter(g, w, b, r)],
        scratch |-> [r \in RanksOf(g) |-> ScratchAfter(g, w, b, r)]]

\* The memories a call starts with.
GivenMemories(g) ==
  [mem |-> [r \in RanksOf(g) |-> Shard(g, JaxHome, r, Pad)],
   scratch |-> [r \in RanksOf(g) |-> [k \in ScratchCells(g) |-> Junk]]]

\* Lockstep(g, p)[k] are the memories after the first k entries of plan p.
Lockstep(g, p) ==
  LET w[k \in 0..Len(p)] == IF k = 0 THEN GivenMemories(g) ELSE Passed(g, w[k - 1], p[k])
  IN  w

\* What a cell can hold.
Values(g) == EntriesOf(g) \cup {Pad, Junk}

\* The memories of all ranks, typed.
Memories(g) ==
  [mem : [RanksOf(g) -> [LocalCells(g) -> Values(g)]],
   scratch : [RanksOf(g) -> [ScratchCells(g) -> Values(g)]]]

\* Reading, packing and unpacking stay within the types.
LEMMA PeekTyped ==
  ASSUME NEW g, NEW S, NEW a \in [S -> Values(g)], NEW k
  PROVE  Peek(a, k) \in Values(g)
  BY DEF Peek, Values

\* Packing writes values to the cells of a scratch.
LEMMA PackTyped ==
  ASSUME NEW g, NEW m \in [LocalCells(g) -> Values(g)],
         NEW s \in [ScratchCells(g) -> Values(g)], NEW rect, NEW base
  PROVE  PackRect(g, rect, m, s, base) \in [ScratchCells(g) -> Values(g)]
<1>1. \A k : Peek(m, k) \in Values(g)
  BY PeekTyped
<1> HIDE DEF Values
<1> QED
  BY <1>1 DEF PackRect

\* Unpacking writes values to the cells of a local matrix.
LEMMA UnpackTyped ==
  ASSUME NEW g, NEW m \in [LocalCells(g) -> Values(g)],
         NEW s \in [ScratchCells(g) -> Values(g)], NEW rect, NEW base
  PROVE  UnpackRect(g, rect, s, base, m) \in [LocalCells(g) -> Values(g)]
<1>1. \A k : Peek(s, k) \in Values(g)
  BY PeekTyped
<1> HIDE DEF Values
<1> QED
  BY <1>1 DEF UnpackRect

\* Memories stay memories.
LEMMA PassedTyped ==
  ASSUME NEW g, NEW p, PlanOK(g, p), NEW k \in 1..Len(p), NEW w \in Memories(g)
  PROVE  Passed(g, w, p[k]) \in Memories(g)
<1> DEFINE b == p[k]
<1>1. w.mem \in [RanksOf(g) -> [LocalCells(g) -> Values(g)]]
  BY DEF Memories
<1>2. w.scratch \in [RanksOf(g) -> [ScratchCells(g) -> Values(g)]]
  BY DEF Memories
<1>3. \A r \in RanksOf(g) : PackedIn(g, w, b, r) \in [ScratchCells(g) -> Values(g)]
  BY <1>1, <1>2, PackTyped DEF PackedIn
<1>4. ASSUME NEW r \in RanksOf(g), BatchOK(g, b)
      PROVE  ScratchAfter(g, w, b, r) \in [ScratchCells(g) -> Values(g)]
  <2> DEFINE d == PayloadOf(g, w, b, RecvStep(r, b).from)
             a == PackedIn(g, w, b, r)
  <2>1. a \in [ScratchCells(g) -> Values(g)]
    BY <1>3
  <2>2. CASE Receives(r, b)
    <3>1. RecvStep(r, b).from \in RanksOf(g)
      BY <1>4, <2>2, Partner DEF Receives
    <3>2. \A i \in DOMAIN d : d[i] \in Values(g)
      <4>1. PackedIn(g, w, b, RecvStep(r, b).from) \in [ScratchCells(g) -> Values(g)]
        BY <1>3, <3>1
      <4>2. \A i : Peek(PackedIn(g, w, b, RecvStep(r, b).from), i) \in Values(g)
        BY <4>1, PeekTyped
      <4> QED
        BY <4>2 DEF PayloadOf
    <3> HIDE DEF d, a
    <3>3. Landed(g, a, b, d) \in [ScratchCells(g) -> Values(g)]
      BY <2>1, <3>2 DEF Landed
    <3> QED
      BY <2>2, <3>3 DEF ScratchAfter, a, d
  <2>3. CASE ~Receives(r, b)
    BY <2>1, <2>3 DEF ScratchAfter
  <2> QED
    BY <2>2, <2>3
<1>5. ASSUME NEW r \in RanksOf(g), BatchOK(g, b)
      PROVE  MemAfter(g, w, b, r) \in [LocalCells(g) -> Values(g)]
  <2>1. ScratchAfter(g, w, b, r) \in [ScratchCells(g) -> Values(g)]
    BY <1>4, <1>5
  <2>2. w.mem[r] \in [LocalCells(g) -> Values(g)]
    BY <1>1
  <2> QED
    BY <2>1, <2>2, UnpackTyped DEF MemAfter
<1>6. \A r \in RanksOf(g) : SolvedMem(g, w.mem[r], r) \in [LocalCells(g) -> Values(g)]
  <2> TAKE r \in RanksOf(g)
  <2>1. w.mem[r] \in [LocalCells(g) -> Values(g)] /\ Junk \in Values(g)
    BY <1>1 DEF Values
  <2> HIDE DEF Values
  <2> QED
    BY <2>1 DEF SolvedMem
<1>7. BatchOK(g, b) \/ b = SolveEntry
  BY DEF PlanOK
<1> HIDE DEF b
<1>8. CASE b.exec = "solve"
  <2>1. \A r \in RanksOf(g) : w.scratch[r] \in [ScratchCells(g) -> Values(g)]
    BY <1>2
  <2> HIDE DEF ScratchCells, LocalCells, Values, RanksOf
  <2>2. Passed(g, w, b) \in Memories(g)
    BY <1>6, <1>8, <2>1, Zenon DEF Passed, Memories
  <2> QED
    BY <2>2 DEF b
<1>9. CASE b.exec # "solve"
  <2>1. BatchOK(g, b)
    BY <1>7, <1>9 DEF SolveEntry
  <2>2. \A r \in RanksOf(g) : /\ ScratchAfter(g, w, b, r) \in [ScratchCells(g) -> Values(g)]
                               /\ MemAfter(g, w, b, r) \in [LocalCells(g) -> Values(g)]
    BY <1>4, <1>5, <2>1
  <2>3. Passed(g, w, b) \in Memories(g)
    BY <1>9, <2>2, Zenon DEF Passed, Memories
  <2> QED
    BY <2>3 DEF b
<1> QED
  BY <1>8, <1>9 DEF b

\* A call starts with typed memories.
LEMMA GivenTyped ==
  ASSUME NEW g
  PROVE  GivenMemories(g) \in Memories(g)
<1>1. \A r \in RanksOf(g) : Shard(g, JaxHome, r, Pad) \in [LocalCells(g) -> Values(g)]
  <2> TAKE r \in RanksOf(g)
  <2> DEFINE here(o) == {e \in 0..(g.lrows * g.lcols - 1) : JaxHome(g, e) = <<r, o>>}
             S == [o \in LocalCells(g) |->
                     IF here(o) = {} THEN Pad ELSE CHOOSE e \in here(o) : TRUE]
  <2>1. Shard(g, JaxHome, r, Pad) = S
    BY Zenon DEF Shard, LocalCells
  <2>2. \A o : here(o) # {} => (CHOOSE e \in here(o) : TRUE) \in EntriesOf(g)
    BY DEF EntriesOf
  <2> HIDE DEF here
  <2>3. S \in [LocalCells(g) -> Values(g)]
    BY <2>2 DEF Values
  <2> QED
    BY <2>1, <2>3
<1>2. \A r \in RanksOf(g) :
        [k \in ScratchCells(g) |-> Junk] \in [ScratchCells(g) -> Values(g)]
  BY DEF Values
<1> QED
  BY <1>1, <1>2, Zenon DEF GivenMemories, Memories

\* The memories after any number of entries.
LEMMA LockstepIs ==
  ASSUME NEW g, NEW p, PlanOK(g, p)
  PROVE  /\ Lockstep(g, p)[0] = GivenMemories(g)
         /\ \A k \in 1..Len(p) : Lockstep(g, p)[k] = Passed(g, Lockstep(g, p)[k - 1], p[k])
         /\ \A k \in 0..Len(p) : Lockstep(g, p)[k] \in Memories(g)
<1> DEFINE Step1(w) == [k \in 0..Len(p) |-> IF k = 0 THEN GivenMemories(g)
                                            ELSE Passed(g, w[k - 1], p[k])]
           V == Memories(g)
           base == GivenMemories(g)
           F == [x \in Nat \X V |-> IF x[1] \in 1..Len(p) THEN Passed(g, x[2], p[x[1]])
                                    ELSE x[2]]
           L == Lockstep(g, p)
<1>1. Len(p) \in Nat
  BY DEF PlanOK
<1>2. base \in V
  BY GivenTyped
<1>3. \A k \in 1..Len(p), w \in V : Passed(g, w, p[k]) \in V
  BY PassedTyped
<1> HIDE DEF V, base
<1>4. F \in [Nat \X V -> V]
  <2>1. \A x \in Nat \X V : x[2] \in V
    OBVIOUS
  <2> QED
    BY <1>3, <2>1
<1>5. \A k \in 1..Len(p), w \in V : F[<<k, w>>] = Passed(g, w, p[k])
  <2> TAKE k \in 1..Len(p), w \in V
  <2>1. <<k, w>> \in Nat \X V
    BY <1>1
  <2> QED
    BY <2>1
<1> HIDE DEF F
<1>6. Recursion(Len(p), V, base, F)
  BY <1>1, <1>2, <1>4 DEF Recursion
<1>7. PICK f \in [0..Len(p) -> V] :
        f = [k \in 0..Len(p) |-> IF k = 0 THEN base ELSE F[<<k, f[k - 1]>>]]
  BY <1>6, RecursionExists
<1>8. f = Step1(f)
  <2>1. \A k \in 0..Len(p) : (IF k = 0 THEN base ELSE F[<<k, f[k - 1]>>])
                             = (IF k = 0 THEN base ELSE Passed(g, f[k - 1], p[k]))
    <3> TAKE k \in 0..Len(p)
    <3>1. k # 0 => k \in 1..Len(p) /\ k - 1 \in 0..Len(p)
      BY <1>1
    <3>2. k # 0 => f[k - 1] \in V
      BY <1>7, <3>1
    <3> QED
      BY <1>5, <3>1, <3>2
  <2>2. f = [k \in 0..Len(p) |-> IF k = 0 THEN base ELSE Passed(g, f[k - 1], p[k])]
    BY <1>7, <2>1
  <2> QED
    BY <2>2 DEF base
<1>9. L = Step1(L)
  <2>1. L = CHOOSE w : w = Step1(w)
    BY DEF Lockstep
  <2> HIDE DEF L, Step1
  <2> QED
    BY <1>8, <2>1
<1> HIDE DEF L
<1>10. L[0] = base /\ \A k \in 1..Len(p) : L[k] = Passed(g, L[k - 1], p[k])
  <2>1. \A k \in 0..Len(p) : L[k] = IF k = 0 THEN GivenMemories(g)
                                    ELSE Passed(g, L[k - 1], p[k])
    BY <1>9
  <2>2. 0 \in 0..Len(p) /\ \A k \in 1..Len(p) : k \in 0..Len(p) /\ k # 0
    BY <1>1
  <2> QED
    BY <2>1, <2>2 DEF base
<1>11. \A k \in 1..Len(p) : L[k - 1] \in V => L[k] = F[<<k, L[k - 1]>>]
  BY <1>5, <1>10
<1>12. \A k \in 0..Len(p) : L[k] \in V
  BY <1>6, <1>10, <1>11, RecursionTyped
<1> QED
  BY <1>10, <1>12 DEF L, V, base

\* A set of numbers that is not empty has a least one.
LEMMA LeastIs ==
  ASSUME NEW S \in SUBSET Nat, S # {}
  PROVE  Least(S) \in S /\ \A y \in S : Least(S) <= y
<1>1. \E x \in S : \A y \in S : x <= y
  <2> DEFINE T == {n \in Nat : \A m \in S : m <= n => \E x \in S : \A y \in S : x <= y}
  <2> SUFFICES ASSUME ~\E x \in S : \A y \in S : x <= y PROVE FALSE
    OBVIOUS
  <2> DEFINE U == {n \in Nat : \A m \in S : m > n}
  <2>1. 0 \in U
    <3> SUFFICES ASSUME NEW m \in S, ~(m > 0) PROVE FALSE
      OBVIOUS
    <3>1. m = 0 /\ \A y \in S : m <= y
      OBVIOUS
    <3> QED
      BY <3>1
  <2>2. ASSUME NEW n \in Nat, n \in U PROVE n + 1 \in U
    <3> SUFFICES ASSUME NEW m \in S, ~(m > n + 1) PROVE FALSE
      OBVIOUS
    <3>1. m = n + 1 /\ \A y \in S : m <= y
      BY <2>2
    <3> QED
      BY <3>1
  <2>3. Nat \subseteq U
    <3> HIDE DEF U
    <3> QED
      BY <2>1, <2>2, SetInduction
  <2>4. PICK m \in S : TRUE
    OBVIOUS
  <2>5. m \in U
    BY <2>3, <2>4
  <2> QED
    BY <2>4, <2>5
<1> QED
  BY <1>1 DEF Least

(***************************************************************************)
(* The executor's slots.                                                   *)
(***************************************************************************)
\* The slots follow each other and the scratch holds the three of them.
LEMMA Slots ==
  ASSUME NEW g, GeometryOK(g)
  PROVE  /\ RequiredCyclicSlotElements(g) \in Nat \ {0}
         /\ SavedSlot(g) = 0
         /\ SendSlot(g) = RequiredCyclicSlotElements(g)
         /\ RecvSlot(g) = 2 * RequiredCyclicSlotElements(g)
         /\ 3 * RequiredCyclicSlotElements(g) <= g.scratch
         /\ g.scratch \in Nat
<1> DEFINE c == RequiredCyclicSlotElements(g)
<1>1. c \in Nat \ {0}
  <2>1. g.tcols * g.rows \in Nat \ {0} /\ g.trows * g.cols \in Nat \ {0}
    BY DEF GeometryOK
  <2> HIDE DEF GeometryOK
  <2> QED
    BY <2>1 DEF RequiredCyclicSlotElements, Larger
<1> HIDE DEF c
<1>2. SavedSlot(g) = 0 /\ SendSlot(g) = c /\ RecvSlot(g) = 2 * c
  BY <1>1 DEF SavedSlot, SendSlot, RecvSlot, SlotBase, c
<1>3. 3 * c <= g.scratch /\ g.scratch \in Nat
  BY <1>1 DEF GeometryOK, RequiredPadded2DNativePlanScratchElements, c
<1> QED
  BY <1>1, <1>2, <1>3 DEF c

\* Where batch b of a rank packs, sends from and receives: inside the scratch,
\* and not onto each other for a rank that does both with other ranks.
LEMMA Bases ==
  ASSUME NEW g, NEW b, GeometryOK(g), BatchOK(g, b)
  PROVE  /\ PackBase(g, b) \in Nat /\ SendBase(g, b) \in Nat /\ RecvBase(g, b) \in Nat
         /\ PackBase(g, b) + Load(b) <= g.scratch
         /\ SendBase(g, b) + Load(b) <= g.scratch
         /\ RecvBase(g, b) + Load(b) <= g.scratch
         /\ Load(b) \in Nat \ {0}
         /\ b.kind = Move => PackBase(g, b) = SendBase(g, b)
         /\ b.exec # "edge" => SendBase(g, b) + Load(b) <= RecvBase(g, b)
         /\ b.exec # "edge" /\ b.kind = Move => RequiredCyclicSlotElements(g) <= PackBase(g, b)
         /\ b.exec # "edge" => RequiredCyclicSlotElements(g) <= RecvBase(g, b)
<1> DEFINE c == RequiredCyclicSlotElements(g)
<1>1. /\ c \in Nat \ {0} /\ SavedSlot(g) = 0 /\ SendSlot(g) = c /\ RecvSlot(g) = 2 * c
      /\ 3 * c <= g.scratch /\ g.scratch \in Nat
  BY Slots
<1>2. Load(b) \in Nat \ {0} /\ Load(b) <= Limit(g, b.exec)
  <2>1. Load(b) \in 1..Limit(g, b.exec)
    BY DEF BatchOK
  <2> QED
    BY <1>1, <2>1 DEF Limit
<1>3. b.exec = "edge" => b.kind = Move
  BY DEF BatchOK
<1>4. Move # Save /\ Move # Restore /\ Save # Restore
  BY DEF Move, Save, Restore
<1> HIDE DEF c
<1>5. Limit(g, b.exec) = IF b.exec = "edge" THEN g.scratch ELSE c
  BY DEF Limit, c
<1> QED
  BY <1>1, <1>2, <1>3, <1>4, <1>5 DEF PackBase, SendBase, RecvBase, c

\* Packing leaves the rest of the scratch alone.
LEMMA PackKeeps ==
  ASSUME NEW g, NEW rect, NEW m, NEW s, NEW base, NEW k \in DOMAIN s,
         k - base \notin 0..(Size(rect) - 1)
  PROVE  PackRect(g, rect, m, s, base)[k] = s[k]
  BY DEF PackRect

(***************************************************************************)
(* From one entry of a plan to the next that concerns a rank.              *)
(***************************************************************************)
\* NextFor skips only what does not concern the rank.
LEMMA NextIs ==
  ASSUME NEW g, NEW p, NEW r, NEW k \in 0..Len(p), PlanOK(g, p)
  PROVE  /\ NextFor(r, p, k) \in (k + 1)..(Len(p) + 1)
         /\ NextFor(r, p, k) # Len(p) + 1 => Concerns(p[NextFor(r, p, k)], r)
         /\ \A i \in (k + 1)..(NextFor(r, p, k) - 1) : ~Concerns(p[i], r)
<1> DEFINE later == {i \in (k + 1)..Len(p) : Concerns(p[i], r)}
<1>1. Len(p) \in Nat
  BY DEF PlanOK
<1>2. NextFor(r, p, k) = IF later = {} THEN Len(p) + 1 ELSE Least(later)
  BY DEF NextFor
<1>3. CASE later = {}
  <2>1. NextFor(r, p, k) = Len(p) + 1
    BY <1>2, <1>3
  <2>2. \A i \in (k + 1)..Len(p) : ~Concerns(p[i], r)
    BY <1>3
  <2> QED
    BY <1>1, <2>1, <2>2
<1>4. CASE later # {}
  <2>1. later \in SUBSET Nat
    BY <1>1
  <2>2. NextFor(r, p, k) = Least(later)
    BY <1>2, <1>4
  <2>3. Least(later) \in later /\ \A y \in later : Least(later) <= y
    <3> HIDE DEF later
    <3> QED
      BY <1>4, <2>1, LeastIs
  <2> DEFINE n == NextFor(r, p, k)
  <2>4. n \in (k + 1)..Len(p) /\ Concerns(p[n], r)
    BY <2>2, <2>3
  <2>5. \A y \in (k + 1)..Len(p) : Concerns(p[y], r) => n <= y
    BY <2>2, <2>3
  <2> HIDE DEF n
  <2>6. \A i \in (k + 1)..(n - 1) : ~Concerns(p[i], r)
    <3> TAKE i \in (k + 1)..(n - 1)
    <3>1. i \in (k + 1)..Len(p) /\ ~(n <= i)
      BY <1>1, <2>4
    <3> QED
      BY <2>5, <3>1
  <2>7. n \in (k + 1)..(Len(p) + 1) /\ n # Len(p) + 1
    BY <1>1, <2>4
  <2> QED
    BY <2>4, <2>6, <2>7 DEF n
<1> QED
  BY <1>3, <1>4

\* A rank's memories after a batch.
LEMMA AfterBatch ==
  ASSUME NEW g, NEW p, NEW k \in 1..Len(p), NEW r \in RanksOf(g), PlanOK(g, p),
         p[k].exec # "solve"
  PROVE  /\ Lockstep(g, p)[k].mem[r] = MemAfter(g, Lockstep(g, p)[k - 1], p[k], r)
         /\ Lockstep(g, p)[k].scratch[r] = ScratchAfter(g, Lockstep(g, p)[k - 1], p[k], r)
<1>1. Lockstep(g, p)[k] = Passed(g, Lockstep(g, p)[k - 1], p[k])
  BY LockstepIs
<1> QED
  BY <1>1 DEF Passed

\* A batch that does not name a rank leaves its memories alone.
LEMMA Unconcerned ==
  ASSUME NEW g, NEW p, NEW k \in 1..Len(p), NEW r \in RanksOf(g), PlanOK(g, p),
         ~Concerns(p[k], r)
  PROVE  /\ Lockstep(g, p)[k].mem[r] = Lockstep(g, p)[k - 1].mem[r]
         /\ Lockstep(g, p)[k].scratch[r] = Lockstep(g, p)[k - 1].scratch[r]
<1>1. p[k].exec # "solve" /\ SendsOf(r, p[k]) = {} /\ RecvsOf(r, p[k]) = {}
  BY DEF Concerns
<1>2. /\ Lockstep(g, p)[k].mem[r] = MemAfter(g, Lockstep(g, p)[k - 1], p[k], r)
      /\ Lockstep(g, p)[k].scratch[r] = ScratchAfter(g, Lockstep(g, p)[k - 1], p[k], r)
  BY <1>1, AfterBatch
<1> QED
  BY <1>1, <1>2 DEF MemAfter, ScratchAfter, PackedIn, Receives

\* So do all those a rank skips.
LEMMA SkipKeeps ==
  ASSUME NEW g, NEW p, NEW k \in 0..Len(p), NEW r \in RanksOf(g), PlanOK(g, p)
  PROVE  /\ Lockstep(g, p)[NextFor(r, p, k) - 1].mem[r] = Lockstep(g, p)[k].mem[r]
         /\ Lockstep(g, p)[NextFor(r, p, k) - 1].scratch[r] = Lockstep(g, p)[k].scratch[r]
<1> DEFINE n == NextFor(r, p, k)
           L == Lockstep(g, p)
           Same(i) == L[i].mem[r] = L[k].mem[r] /\ L[i].scratch[r] = L[k].scratch[r]
           T == {d \in Nat : k + d <= n - 1 => Same(k + d)}
<1>1. Len(p) \in Nat /\ k \in Nat
  BY DEF PlanOK
<1>2. n \in (k + 1)..(Len(p) + 1) /\ \A i \in (k + 1)..(n - 1) : ~Concerns(p[i], r)
  BY NextIs
<1> HIDE DEF n
<1>3. 0 \in T
  <2>1. k + 0 = k
    BY <1>1
  <2> QED
    BY <2>1
<1>4. ASSUME NEW d \in Nat, d \in T PROVE d + 1 \in T
  <2> SUFFICES ASSUME k + (d + 1) <= n - 1 PROVE Same(k + (d + 1))
    OBVIOUS
  <2> DEFINE i == k + (d + 1)
  <2>1. i \in (k + 1)..(n - 1) /\ i \in 1..Len(p) /\ i - 1 = k + d /\ k + d <= n - 1
    BY <1>1, <1>2
  <2>2. Same(k + d)
    BY <1>4, <2>1
  <2>3. ~Concerns(p[i], r)
    BY <1>2, <2>1
  <2> HIDE DEF i
  <2>4. L[i].mem[r] = L[i - 1].mem[r] /\ L[i].scratch[r] = L[i - 1].scratch[r]
    BY <2>1, <2>3, Unconcerned
  <2>5. Same(i)
    BY <2>1, <2>2, <2>4
  <2> QED
    BY <2>5 DEF i
<1>5. Nat \subseteq T
  <2> HIDE DEF T
  <2> QED
    BY <1>3, <1>4, SetInduction
<1>6. (n - 1) - k \in Nat /\ k + ((n - 1) - k) = n - 1
  BY <1>1, <1>2
<1>7. Same(n - 1)
  <2>1. (n - 1) - k \in T
    BY <1>5, <1>6
  <2>2. k + ((n - 1) - k) <= n - 1
    BY <1>1, <1>2, <1>6
  <2>3. Same(k + ((n - 1) - k))
    BY <2>1, <2>2
  <2> HIDE DEF L
  <2> QED
    BY <1>6, <2>3
<1> QED
  BY <1>7 DEF n

(***************************************************************************)
(* What a rank at its own speed has done.                                  *)
(***************************************************************************)
\* Entry b is an NCCL group for rank r.
Joins(r, b) == b.exec # "solve" /\ b.kind # Save /\ ~IsLocal(r, b)

\* The position ps of rank r in plan p, and its group: posted or not (op), the
\* halves not done (ow).
RankInv(g, p, r, ps, op, ow) ==
  /\ ps \in 1..(Len(p) + 1)
  /\ op \in BOOLEAN /\ ow \in SUBSET {"send", "recv"}
  /\ ps # Len(p) + 1 => Concerns(p[ps], r)
  /\ op => ps # Len(p) + 1 /\ Joins(r, p[ps]) /\ ow \subseteq Halves(r, p[ps])
  /\ ~op => ow = {}

\* Its memories are those of all ranks in lockstep at its position, whatever the
\* others do, but for the scratch of a group under way.
HasRun(g, p, r, ps, op, ow, m, s) ==
  LET w == Lockstep(g, p)[ps - 1]
      b == p[ps]
  IN  /\ m = w.mem[r]
      /\ s = IF ~op THEN w.scratch[r]
             ELSE IF Receives(r, b) /\ "recv" \notin ow THEN ScratchAfter(g, w, b, r)
             ELSE PackedIn(g, w, b, r)

\* r's scratch once it has packed for b.
PackedFrom(g, r, b, m, s) ==
  IF SendsOf(r, b) # {} /\ b.kind # Restore
  THEN PackRect(g, SendStep(r, b).source, m, s, PackBase(g, b)) ELSE s

\* The entries of a plan other than the solver's are batches.
LEMMA EntryIs ==
  ASSUME NEW g, NEW p, NEW k \in 1..Len(p), PlanOK(g, p), p[k].exec # "solve"
  PROVE  BatchOK(g, p[k])
  BY DEF PlanOK, SolveEntry

\* At a batch.
LEMMA AtABatch ==
  ASSUME NEW g, NEW p, NEW r, NEW c, NEW op, NEW ow, PlanOK(g, p),
         RankInv(g, p, r, c, op, ow), c \in DOMAIN p, p[c].exec # "solve"
  PROVE  /\ c \in 1..Len(p) /\ Len(p) \in Nat
         /\ BatchOK(g, p[c])
         /\ SendsOf(r, p[c]) # {} \/ RecvsOf(r, p[c]) # {}
<1>1. c \in 1..Len(p) /\ Len(p) \in Nat
  BY DEF PlanOK
<1>2. BatchOK(g, p[c])
  BY <1>1, EntryIs
<1>3. Concerns(p[c], r)
  BY <1>1 DEF RankInv
<1> QED
  BY <1>1, <1>2, <1>3 DEF Concerns

\* Past the entry it was at, a rank is at the next that concerns it, with the
\* memories the entry leaves.
LEMMA GoesOn ==
  ASSUME NEW g, NEW p, NEW r \in RanksOf(g), NEW c \in 1..Len(p), NEW m, NEW s, PlanOK(g, p),
         m = Lockstep(g, p)[c].mem[r], s = Lockstep(g, p)[c].scratch[r]
  PROVE  /\ RankInv(g, p, r, NextFor(r, p, c), FALSE, {})
         /\ HasRun(g, p, r, NextFor(r, p, c), FALSE, {}, m, s)
<1>1. Len(p) \in Nat /\ c \in 0..Len(p)
  BY DEF PlanOK
<1>2. /\ NextFor(r, p, c) \in (c + 1)..(Len(p) + 1)
      /\ NextFor(r, p, c) # Len(p) + 1 => Concerns(p[NextFor(r, p, c)], r)
  BY <1>1, NextIs
<1>3. RankInv(g, p, r, NextFor(r, p, c), FALSE, {})
  BY <1>1, <1>2 DEF RankInv
<1>4. /\ Lockstep(g, p)[NextFor(r, p, c) - 1].mem[r] = Lockstep(g, p)[c].mem[r]
      /\ Lockstep(g, p)[NextFor(r, p, c) - 1].scratch[r] = Lockstep(g, p)[c].scratch[r]
  BY <1>1, SkipKeeps
<1> QED
  BY <1>3, <1>4 DEF HasRun

\* A save.
LEMMA SaveRuns ==
  ASSUME NEW g, NEW p, NEW r \in RanksOf(g), NEW c, NEW m, NEW s, PlanOK(g, p),
         RankInv(g, p, r, c, FALSE, {}), HasRun(g, p, r, c, FALSE, {}, m, s),
         c \in DOMAIN p, p[c].exec # "solve", p[c].kind = Save
  PROVE  /\ RankInv(g, p, r, NextFor(r, p, c), FALSE, {})
         /\ HasRun(g, p, r, NextFor(r, p, c), FALSE, {}, m, PackedFrom(g, r, p[c], m, s))
<1>1. c \in 1..Len(p) /\ BatchOK(g, p[c])
  BY AtABatch
<1>2. RecvsOf(r, p[c]) = {}
  BY <1>1, Receiver
<1>3. /\ Lockstep(g, p)[c].mem[r] = MemAfter(g, Lockstep(g, p)[c - 1], p[c], r)
      /\ Lockstep(g, p)[c].scratch[r] = ScratchAfter(g, Lockstep(g, p)[c - 1], p[c], r)
  BY <1>1, AfterBatch
<1>4. m = Lockstep(g, p)[c].mem[r]
  BY <1>2, <1>3 DEF MemAfter, HasRun
<1>5. PackedFrom(g, r, p[c], m, s) = Lockstep(g, p)[c].scratch[r]
  <2>1. PackedFrom(g, r, p[c], m, s) = PackedIn(g, Lockstep(g, p)[c - 1], p[c], r)
    BY DEF HasRun, PackedFrom, PackedIn
  <2> QED
    BY <1>2, <1>3, <2>1 DEF ScratchAfter, Receives
<1> QED
  BY <1>1, <1>4, <1>5, GoesOn

\* A move or restore within the rank.
LEMMA LocalMoveRuns ==
  ASSUME NEW g, NEW p, NEW r \in RanksOf(g), NEW c, NEW m, NEW s, PlanOK(g, p),
         RankInv(g, p, r, c, FALSE, {}), HasRun(g, p, r, c, FALSE, {}, m, s),
         c \in DOMAIN p, p[c].exec # "solve", IsLocal(r, p[c])
  PROVE  /\ RankInv(g, p, r, NextFor(r, p, c), FALSE, {})
         /\ HasRun(g, p, r, NextFor(r, p, c), FALSE, {},
                   UnpackRect(g, RecvStep(r, p[c]).target, PackedFrom(g, r, p[c], m, s),
                              SendBase(g, p[c]), m),
                   PackedFrom(g, r, p[c], m, s))
<1>1. c \in 1..Len(p) /\ BatchOK(g, p[c])
  BY AtABatch
<1>2. RecvsOf(r, p[c]) # {}
  BY <1>1, LocalStep
<1>3. /\ Lockstep(g, p)[c].mem[r] = MemAfter(g, Lockstep(g, p)[c - 1], p[c], r)
      /\ Lockstep(g, p)[c].scratch[r] = ScratchAfter(g, Lockstep(g, p)[c - 1], p[c], r)
  BY <1>1, AfterBatch
<1>4. PackedFrom(g, r, p[c], m, s) = PackedIn(g, Lockstep(g, p)[c - 1], p[c], r)
  BY DEF HasRun, PackedFrom, PackedIn
<1>5. PackedFrom(g, r, p[c], m, s) = Lockstep(g, p)[c].scratch[r]
  BY <1>3, <1>4 DEF ScratchAfter, Receives
<1>6. UnpackRect(g, RecvStep(r, p[c]).target, PackedFrom(g, r, p[c], m, s),
                 SendBase(g, p[c]), m) = Lockstep(g, p)[c].mem[r]
  BY <1>2, <1>3, <1>5 DEF MemAfter, HasRun
<1> QED
  BY <1>1, <1>5, <1>6, GoesOn

\* Posting a group.
LEMMA PostRuns ==
  ASSUME NEW g, NEW p, NEW r \in RanksOf(g), NEW c, NEW m, NEW s, PlanOK(g, p),
         RankInv(g, p, r, c, FALSE, {}), HasRun(g, p, r, c, FALSE, {}, m, s),
         c \in DOMAIN p, Joins(r, p[c])
  PROVE  /\ RankInv(g, p, r, c, TRUE, Halves(r, p[c]))
         /\ HasRun(g, p, r, c, TRUE, Halves(r, p[c]), m, PackedFrom(g, r, p[c], m, s))
<1>1. c \in 1..Len(p) /\ BatchOK(g, p[c]) /\ Len(p) \in Nat
  BY AtABatch DEF Joins
<1>2. RankInv(g, p, r, c, TRUE, Halves(r, p[c]))
  BY <1>1 DEF RankInv, Halves
<1>3. Receives(r, p[c]) => "recv" \in Halves(r, p[c])
  BY DEF Receives, Halves
<1>4. PackedFrom(g, r, p[c], m, s) = PackedIn(g, Lockstep(g, p)[c - 1], p[c], r)
  BY DEF HasRun, PackedFrom, PackedIn
<1> QED
  BY <1>2, <1>3, <1>4 DEF HasRun

\* What rank r sends for b from scratch s.
SentFrom(g, r, b, s) == [k \in 0..(GroupCount(r, b) - 1) |-> Peek(s, SendBase(g, b) + k)]

\* A rank that owes its send half of batch c.
MaySend(g, p, r, c, ow, m, s) ==
  /\ r \in RanksOf(g) /\ PlanOK(g, p) /\ GeometryOK(g)
  /\ RankInv(g, p, r, c, TRUE, ow) /\ HasRun(g, p, r, c, TRUE, ow, m, s)
  /\ "send" \in ow

\* It is the payload of lockstep, even if the rank has received already.
LEMMA SendsPayload ==
  ASSUME NEW g, NEW p, NEW r, NEW c, NEW ow, NEW m, NEW s, MaySend(g, p, r, c, ow, m, s)
  PROVE  SentFrom(g, r, p[c], s) = PayloadOf(g, Lockstep(g, p)[c - 1], p[c], r)
<1> USE DEF MaySend
<1> DEFINE b == p[c]
           w == Lockstep(g, p)[c - 1]
           a == PackedIn(g, w, b, r)
<1>1. c \in 1..Len(p) /\ Joins(r, b) /\ "send" \in Halves(r, b)
  BY DEF RankInv, PlanOK
<1>2. BatchOK(g, b) /\ SendsOf(r, b) # {} /\ ~IsLocal(r, b)
  BY <1>1, EntryIs DEF Joins, Halves
<1>3. GroupCount(r, b) = Load(b)
  BY <1>2, CountIsLoad
<1>4. CASE ~Receives(r, b) \/ "recv" \in ow
  <2>1. s = a
    BY <1>4 DEF HasRun
  <2> QED
    BY <2>1 DEF PayloadOf, SentFrom
<1>5. CASE Receives(r, b) /\ "recv" \notin ow
  <2> DEFINE d == PayloadOf(g, w, b, RecvStep(r, b).from)
  <2>1. s = Landed(g, a, b, d)
    BY <1>5 DEF HasRun, ScratchAfter
  <2>2. b.exec # "edge"
    <3> SUFFICES ASSUME b.exec = "edge" PROVE FALSE
      OBVIOUS
    <3>1. OneWay(b)
      BY <1>2 DEF BatchOK
    <3>2. PICK i \in DOMAIN b.steps : b.steps[i].from = r /\ SendStep(r, b) = b.steps[i]
      BY <1>2, Sender
    <3>3. PICK j \in DOMAIN b.steps : b.steps[j].to = r
      BY <1>5 DEF Receives, RecvsOf
    <3>4. b.steps[i].to = b.steps[i].from
      BY <3>1, <3>2, <3>3 DEF OneWay
    <3> QED
      BY <1>2, <1>5, <3>2, <3>4 DEF IsLocal, Receives
  <2>3. DOMAIN d = 0..(Load(b) - 1)
    <3>1. RecvStep(r, b).from \in RanksOf(g) /\ SendsOf(RecvStep(r, b).from, b) # {}
      BY <1>2, <1>5, Partner DEF Receives
    <3>2. GroupCount(RecvStep(r, b).from, b) = Load(b)
      BY <1>2, <3>1, CountIsLoad
    <3> QED
      BY <3>2 DEF PayloadOf
  <2>4. /\ SendBase(g, b) \in Nat /\ RecvBase(g, b) \in Nat /\ Load(b) \in Nat
        /\ SendBase(g, b) + Load(b) <= RecvBase(g, b)
    BY <1>2, <2>2, Bases
  <2> HIDE DEF a, d, b
  <2>5. DOMAIN s = DOMAIN a
    BY <2>1 DEF Landed
  <2>6. \A k \in 0..(Load(b) - 1) : Peek(s, SendBase(g, b) + k) = Peek(a, SendBase(g, b) + k)
    <3> TAKE k \in 0..(Load(b) - 1)
    <3> DEFINE i == SendBase(g, b) + k
    <3>1. i - RecvBase(g, b) \notin DOMAIN d
      BY <2>3, <2>4
    <3> HIDE DEF i
    <3>2. i \in DOMAIN a => s[i] = a[i]
      BY <2>1, <3>1 DEF Landed
    <3> QED
      BY <2>5, <3>2 DEF Peek, i
  <2>7. [k \in 0..(Load(b) - 1) |-> Peek(s, SendBase(g, b) + k)]
          = [k \in 0..(Load(b) - 1) |-> Peek(a, SendBase(g, b) + k)]
    BY <2>6
  <2> QED
    BY <1>3, <2>7 DEF PayloadOf, SentFrom, a, b
<1> QED
  BY <1>4, <1>5

\* The send half.
LEMMA SendRuns ==
  ASSUME NEW g, NEW p, NEW r, NEW c, NEW ow, NEW m, NEW s,
         RankInv(g, p, r, c, TRUE, ow), HasRun(g, p, r, c, TRUE, ow, m, s)
  PROVE  /\ RankInv(g, p, r, c, TRUE, ow \ {"send"})
         /\ HasRun(g, p, r, c, TRUE, ow \ {"send"}, m, s)
<1>1. RankInv(g, p, r, c, TRUE, ow \ {"send"})
  BY DEF RankInv
<1>2. "recv" \notin ow \ {"send"} <=> "recv" \notin ow
  OBVIOUS
<1> QED
  BY <1>1, <1>2 DEF HasRun

\* The receive half.
LEMMA ReceiveRuns ==
  ASSUME NEW g, NEW p, NEW r, NEW c, NEW ow, NEW m, NEW s,
         RankInv(g, p, r, c, TRUE, ow), HasRun(g, p, r, c, TRUE, ow, m, s), "recv" \in ow
  PROVE  /\ RankInv(g, p, r, c, TRUE, ow \ {"recv"})
         /\ HasRun(g, p, r, c, TRUE, ow \ {"recv"}, m,
                   Landed(g, s, p[c], PayloadOf(g, Lockstep(g, p)[c - 1], p[c],
                                                RecvStep(r, p[c]).from)))
<1>1. RankInv(g, p, r, c, TRUE, ow \ {"recv"})
  BY DEF RankInv
<1>2. Receives(r, p[c])
  BY DEF RankInv, Joins, Halves, Receives
<1>3. s = PackedIn(g, Lockstep(g, p)[c - 1], p[c], r) /\ m = Lockstep(g, p)[c - 1].mem[r]
  BY DEF HasRun
<1>4. "recv" \notin ow \ {"recv"}
  OBVIOUS
<1> QED
  BY <1>1, <1>2, <1>3, <1>4 DEF HasRun, ScratchAfter

\* Completion.
LEMMA CompleteRuns ==
  ASSUME NEW g, NEW p, NEW r \in RanksOf(g), NEW c, NEW m, NEW s, PlanOK(g, p),
         RankInv(g, p, r, c, TRUE, {}), HasRun(g, p, r, c, TRUE, {}, m, s)
  PROVE  /\ RankInv(g, p, r, NextFor(r, p, c), FALSE, {})
         /\ HasRun(g, p, r, NextFor(r, p, c), FALSE, {},
                   IF RecvsOf(r, p[c]) = {} THEN m
                   ELSE UnpackRect(g, RecvStep(r, p[c]).target, s, RecvBase(g, p[c]), m),
                   s)
<1>1. c \in 1..Len(p) /\ p[c].exec # "solve" /\ ~IsLocal(r, p[c])
  BY DEF RankInv, Joins, PlanOK
<1>2. /\ Lockstep(g, p)[c].mem[r] = MemAfter(g, Lockstep(g, p)[c - 1], p[c], r)
      /\ Lockstep(g, p)[c].scratch[r] = ScratchAfter(g, Lockstep(g, p)[c - 1], p[c], r)
  BY <1>1, AfterBatch
<1>3. s = ScratchAfter(g, Lockstep(g, p)[c - 1], p[c], r) /\ m = Lockstep(g, p)[c - 1].mem[r]
  BY DEF HasRun, ScratchAfter
<1> DEFINE t == IF RecvsOf(r, p[c]) = {} THEN m
                ELSE UnpackRect(g, RecvStep(r, p[c]).target, s, RecvBase(g, p[c]), m)
<1>4. t = Lockstep(g, p)[c].mem[r]
  BY <1>1, <1>2, <1>3 DEF MemAfter
<1> HIDE DEF t
<1>5. /\ RankInv(g, p, r, NextFor(r, p, c), FALSE, {})
      /\ HasRun(g, p, r, NextFor(r, p, c), FALSE, {}, t, s)
  BY <1>1, <1>2, <1>3, <1>4, GoesOn
<1> QED
  BY <1>5 DEF t

\* The solver call.
LEMMA SolveRuns ==
  ASSUME NEW g, NEW p, NEW r \in RanksOf(g), NEW c, NEW m, NEW s, PlanOK(g, p),
         RankInv(g, p, r, c, FALSE, {}), HasRun(g, p, r, c, FALSE, {}, m, s),
         c \in 1..Len(p), p[c].exec = "solve"
  PROVE  /\ RankInv(g, p, r, NextFor(r, p, c), FALSE, {})
         /\ HasRun(g, p, r, NextFor(r, p, c), FALSE, {}, SolvedMem(g, m, r), s)
<1>1. Lockstep(g, p)[c] = Passed(g, Lockstep(g, p)[c - 1], p[c])
  BY LockstepIs
<1>2. /\ Lockstep(g, p)[c].mem[r] = SolvedMem(g, Lockstep(g, p)[c - 1].mem[r], r)
      /\ Lockstep(g, p)[c].scratch[r] = Lockstep(g, p)[c - 1].scratch[r]
  BY <1>1 DEF Passed
<1>3. s = Lockstep(g, p)[c - 1].scratch[r] /\ m = Lockstep(g, p)[c - 1].mem[r]
  BY DEF HasRun
<1> QED
  BY <1>2, <1>3, GoesOn

\* A function on 1..n is a sequence.
LEMMA SeqIntro ==
  ASSUME NEW S, NEW n \in Nat, NEW f \in [1..n -> S]
  PROVE  f \in Seq(S) /\ Len(f) = n
<1>1. f = [i \in 1..n |-> f[i]] /\ \A i \in 1..n : f[i] \in S
  OBVIOUS
<1> QED
  BY <1>1

(***************************************************************************)
(* What is in flight.                                                      *)
(***************************************************************************)
\* Batch b has a payload from rank s to rank t.
Carries(b, s, t) ==
  /\ b.exec # "solve" /\ b.kind # Save /\ s # t
  /\ SendsOf(s, b) # {} /\ SendStep(s, b).to = t

\* A rank in this state is past a half of batch k.
Past(ps, op, ow, half, k) == ps > k \/ (ps = k /\ op /\ half \notin ow)

\* The payload of entry k, from rank s.
MessageAt(g, p, s, k) ==
  [at |-> k, data |-> PayloadOf(g, Lockstep(g, p)[k - 1], p[k], s)]

\* Queue q has the payloads from rank s of exactly the entries I, in order.
Queue(g, p, s, I, q) ==
  /\ q \in Seq({MessageAt(g, p, s, k) : k \in I})
  /\ \A i, j \in 1..Len(q) : i < j => q[i].at < q[j].at
  /\ \A k \in I : \E i \in 1..Len(q) : q[i].at = k

\* Who carries is a pair of ranks whose steps are the same.
LEMMA CarriesIs ==
  ASSUME NEW g, NEW b, NEW s \in RanksOf(g), NEW t \in RanksOf(g), BatchOK(g, b)
  PROVE  /\ Carries(b, s, t) => /\ RecvsOf(t, b) # {} /\ RecvStep(t, b).from = s
                                /\ ~IsLocal(s, b) /\ ~IsLocal(t, b)
                                /\ Concerns(b, s) /\ Concerns(b, t)
         /\ RecvsOf(t, b) # {} /\ RecvStep(t, b).from = s /\ ~IsLocal(t, b)
              => Carries(b, s, t)
<1>1. ASSUME Carries(b, s, t)
      PROVE  /\ RecvsOf(t, b) # {} /\ RecvStep(t, b).from = s
             /\ ~IsLocal(s, b) /\ ~IsLocal(t, b)
             /\ Concerns(b, s) /\ Concerns(b, t)
  <2>1. SendsOf(s, b) # {} /\ b.kind # Save /\ SendStep(s, b).to = t /\ s # t
    BY <1>1 DEF Carries
  <2>2. /\ SendStep(s, b).from = s
        /\ RecvsOf(SendStep(s, b).to, b) # {}
        /\ RecvStep(SendStep(s, b).to, b) = SendStep(s, b)
    BY <2>1, PartnerOfSender
  <2>3. RecvsOf(t, b) # {} /\ RecvStep(t, b) = SendStep(s, b) /\ RecvStep(t, b).from = s
    BY <2>1, <2>2
  <2>4. ~IsLocal(s, b)
    BY <2>1, <2>2 DEF IsLocal
  <2>5. ~IsLocal(t, b)
    <3> SUFFICES ASSUME IsLocal(t, b) PROVE FALSE
      OBVIOUS
    <3>1. RecvStep(t, b) = SendStep(t, b) /\ SendStep(t, b).from = t
      BY LocalStep
    <3> QED
      BY <2>1, <2>3, <3>1
  <2> QED
    BY <2>1, <2>3, <2>4, <2>5 DEF Concerns
<1>2. ASSUME RecvsOf(t, b) # {}, RecvStep(t, b).from = s, ~IsLocal(t, b)
      PROVE  Carries(b, s, t)
  <2>1. /\ SendsOf(RecvStep(t, b).from, b) # {}
        /\ SendStep(RecvStep(t, b).from, b) = RecvStep(t, b)
        /\ RecvStep(t, b).to = t
    BY <1>2, Partner
  <2>2. RecvStep(t, b).from # t
    BY <1>2, RemoteStep
  <2>3. b.kind # Save /\ b.exec # "solve"
    BY <1>2, Receiver DEF BatchOK
  <2> QED
    BY <1>2, <2>1, <2>2, <2>3 DEF Carries
<1> QED
  BY <1>1, <1>2

\* Nothing is in flight.
LEMMA QueueEmpty ==
  ASSUME NEW g, NEW p, NEW s
  PROVE  Queue(g, p, s, {}, <<>>)
<1>1. \A S : <<>> \in Seq(S) /\ Len(<<>>) = 0
  BY EmptySeq
<1> QED
  BY <1>1 DEF Queue

\* What a queue has at a place.
LEMMA QueueAt ==
  ASSUME NEW g, NEW p, NEW s, NEW I, NEW q, Queue(g, p, s, I, q)
  PROVE  \A i \in 1..Len(q) : q[i].at \in I /\ q[i] = MessageAt(g, p, s, q[i].at)
<1> DEFINE S == {MessageAt(g, p, s, k) : k \in I}
<1>1. q \in Seq(S)
  BY DEF Queue
<1> TAKE i \in 1..Len(q)
<1>2. q[i] \in S
  <2> HIDE DEF S
  <2> QED
    BY <1>1, ElementOfSeq
<1> QED
  BY <1>2 DEF MessageAt

\* A payload later than all joins at the end.
LEMMA QueueAppend ==
  ASSUME NEW g, NEW p, NEW s, NEW I \in SUBSET Nat, NEW k \in Nat, NEW q,
         Queue(g, p, s, I, q), \A i \in I : i < k
  PROVE  Queue(g, p, s, I \cup {k}, Append(q, MessageAt(g, p, s, k)))
<1> DEFINE M(J) == {MessageAt(g, p, s, i) : i \in J}
           x == MessageAt(g, p, s, k)
           n == Len(q)
           u == Append(q, x)
<1>1. q \in Seq(M(I)) /\ n \in Nat
  BY DEF Queue
<1>2. \A i \in 1..n : q[i].at \in I
  BY QueueAt
<1>3. x.at = k
  BY DEF MessageAt
<1>4. M(I) \subseteq M(I \cup {k}) /\ x \in M(I \cup {k})
  OBVIOUS
<1> HIDE DEF x
<1>5. u \in Seq(M(I \cup {k})) /\ Len(u) = n + 1
      /\ u[n + 1] = x /\ \A i \in 1..n : u[i] = q[i]
  <2> DEFINE A == M(I)
             B == M(I \cup {k})
  <2>1. q \in Seq(A) /\ A \subseteq B /\ x \in B
    BY <1>1, <1>4
  <2> HIDE DEF A, B
  <2>2. q \in Seq(B)
    BY <2>1, SeqMonotonic
  <2>3. u \in Seq(B) /\ Len(u) = Len(q) + 1
        /\ \A i \in 1..(Len(q) + 1) : u[i] = IF i = Len(q) + 1 THEN x ELSE q[i]
    BY <2>1, <2>2, AppendProperties
  <2> HIDE DEF u
  <2>4. u[n + 1] = x /\ \A i \in 1..n : u[i] = q[i]
    <3>1. n + 1 \in 1..(n + 1) /\ \A i \in 1..n : i \in 1..(n + 1) /\ i # n + 1
      BY <1>1
    <3> QED
      BY <2>3, <3>1
  <2> QED
    BY <2>3, <2>4 DEF B
<1> HIDE DEF u
<1>6. \A i, j \in 1..Len(u) : i < j => u[i].at < u[j].at
  <2> TAKE i, j \in 1..Len(u)
  <2> SUFFICES ASSUME i < j PROVE u[i].at < u[j].at
    OBVIOUS
  <2>1. CASE j = n + 1
    <3>1. i \in 1..n /\ u[i] = q[i] /\ u[j] = x
      BY <1>1, <1>5, <2>1
    <3> QED
      BY <1>2, <1>3, <3>1
  <2>2. CASE j # n + 1
    <3>1. i \in 1..n /\ j \in 1..n /\ u[i] = q[i] /\ u[j] = q[j]
      BY <1>1, <1>5, <2>2
    <3> QED
      BY <3>1 DEF Queue
  <2> QED
    BY <2>1, <2>2
<1>7. \A j \in I \cup {k} : \E i \in 1..Len(u) : u[i].at = j
  <2> TAKE j \in I \cup {k}
  <2>1. CASE j \in I
    <3>1. PICK i \in 1..n : q[i].at = j
      BY <2>1 DEF Queue
    <3>2. i \in 1..Len(u) /\ u[i] = q[i]
      BY <1>1, <1>5
    <3> QED
      BY <3>1, <3>2
  <2>2. CASE j = k
    <3>1. n + 1 \in 1..Len(u)
      BY <1>1, <1>5
    <3> QED
      BY <1>3, <1>5, <2>2, <3>1
  <2> QED
    BY <2>1, <2>2
<1> QED
  BY <1>5, <1>6, <1>7 DEF Queue, u, x

\* The head is the earliest, and the tail has the rest.
LEMMA QueueHead ==
  ASSUME NEW g, NEW p, NEW s, NEW I \in SUBSET Nat, NEW q,
         Queue(g, p, s, I, q), q # <<>>
  PROVE  /\ Head(q).at \in I
         /\ Head(q) = MessageAt(g, p, s, Head(q).at)
         /\ \A k \in I : Head(q).at <= k
         /\ Queue(g, p, s, I \ {Head(q).at}, Tail(q))
<1> DEFINE M(J) == {MessageAt(g, p, s, i) : i \in J}
           n == Len(q)
           u == Tail(q)
           h == Head(q).at
<1>1. q \in Seq(M(I)) /\ n \in Nat \ {0} /\ Head(q) = q[1]
  <2>1. q \in Seq(M(I))
    BY DEF Queue
  <2> HIDE DEF M
  <2> QED
    BY <2>1, EmptySeq
<1>2. \A i \in 1..n : q[i].at \in I /\ q[i] = MessageAt(g, p, s, q[i].at)
  BY QueueAt
<1>3. 1 \in 1..n
  BY <1>1
<1>4. h \in I /\ Head(q) = MessageAt(g, p, s, h) /\ h = q[1].at
  BY <1>1, <1>2, <1>3
<1>5. \A i, j \in 1..n : i < j => q[i].at < q[j].at
  BY DEF Queue
<1>6. \A k \in I : h <= k
  <2> TAKE k \in I
  <2>1. PICK i \in 1..n : q[i].at = k
    BY DEF Queue
  <2>2. i = 1 \/ 1 < i
    BY <1>1
  <2>3. h \in Nat /\ k \in Nat
    BY <1>4
  <2> HIDE DEF h
  <2> QED
    BY <1>3, <1>4, <1>5, <2>1, <2>2, <2>3
<1>7. Len(u) = n - 1 /\ (\A i \in 1..(n - 1) : u[i] = q[i + 1]) /\ u \in Seq(M(I))
  <2> HIDE DEF M
  <2> QED
    BY <1>1, HeadTailProperties
<1> HIDE DEF u
<1>8. \A i \in 1..(n - 1) : i + 1 \in 1..n /\ u[i] = q[i + 1] /\ u[i].at \in I \ {h}
  <2> TAKE i \in 1..(n - 1)
  <2>1. i + 1 \in 1..n /\ 1 < i + 1
    BY <1>1
  <2>2. q[1].at < q[i + 1].at /\ q[i + 1].at \in I
    BY <1>2, <1>3, <1>5, <2>1
  <2>3. q[1].at \in Nat /\ q[i + 1].at \in Nat
    BY <1>2, <1>3, <2>1
  <2>4. q[i + 1].at # h
    BY <1>4, <2>2, <2>3
  <2> QED
    BY <1>7, <2>1, <2>2, <2>4
<1>9. u \in Seq(M(I \ {h}))
  <2>1. \A i \in 1..(n - 1) : u[i] \in M(I \ {h})
    <3> TAKE i \in 1..(n - 1)
    <3>1. u[i] = MessageAt(g, p, s, u[i].at) /\ u[i].at \in I \ {h}
      BY <1>2, <1>8
    <3> QED
      BY <3>1
  <2> DEFINE A == M(I)
             B == M(I \ {h})
  <2>2. u \in Seq(A) /\ \A i \in 1..(n - 1) : u[i] \in B
    BY <1>7, <2>1
  <2> HIDE DEF A, B
  <2>3. u \in [1..(n - 1) -> B] /\ n - 1 \in Nat
    <3>1. u \in [1..Len(u) -> A]
      BY <2>2, LenProperties
    <3> QED
      BY <1>1, <1>7, <2>2, <3>1
  <2>4. u \in Seq(B)
    BY <2>3, SeqIntro
  <2> QED
    BY <2>4 DEF B
<1>10. \A i, j \in 1..Len(u) : i < j => u[i].at < u[j].at
  <2> TAKE i, j \in 1..Len(u)
  <2> SUFFICES ASSUME i < j PROVE u[i].at < u[j].at
    OBVIOUS
  <2>1. i + 1 \in 1..n /\ j + 1 \in 1..n /\ u[i] = q[i + 1] /\ u[j] = q[j + 1] /\ i + 1 < j + 1
    BY <1>7, <1>8
  <2> QED
    BY <1>5, <2>1
<1>11. \A k \in I \ {h} : \E i \in 1..Len(u) : u[i].at = k
  <2> TAKE k \in I \ {h}
  <2>1. PICK i \in 1..n : q[i].at = k
    BY DEF Queue
  <2>2. i # 1
    BY <1>4, <2>1
  <2>3. i - 1 \in 1..(n - 1) /\ (i - 1) + 1 = i
    BY <1>1, <2>2
  <2>4. i - 1 \in 1..Len(u) /\ u[i - 1] = q[i]
    BY <1>7, <2>3
  <2> QED
    BY <2>1, <2>4
<1> QED
  BY <1>4, <1>6, <1>9, <1>10, <1>11 DEF Queue, u

\* Going on past entry c, a rank passes no half of an entry that names it but c's.
LEMMA GoesPast ==
  ASSUME NEW g, NEW p, NEW r, NEW c \in 1..Len(p), NEW k \in 1..Len(p), NEW half,
         NEW op, NEW ow, PlanOK(g, p), Concerns(p[k], r), k = c => op /\ half \notin ow
  PROVE  Past(NextFor(r, p, c), FALSE, {}, half, k) <=> Past(c, op, ow, half, k)
<1> DEFINE n == NextFor(r, p, c)
<1>1. Len(p) \in Nat /\ c \in 0..Len(p)
  BY DEF PlanOK
<1>2. n \in (c + 1)..(Len(p) + 1) /\ \A i \in (c + 1)..(n - 1) : ~Concerns(p[i], r)
  BY <1>1, NextIs
<1> HIDE DEF n
<1>3. k \notin (c + 1)..(n - 1)
  BY <1>2
<1>4. Past(n, FALSE, {}, half, k) <=> k <= c
  BY <1>1, <1>2, <1>3 DEF Past
<1>5. Past(c, op, ow, half, k) <=> k <= c
  BY <1>1 DEF Past
<1> QED
  BY <1>4, <1>5 DEF n

(***************************************************************************)
(* Pairs of ranks.  x and y are a sender and a receiver: their positions,  *)
(* groups and halves.                                                      *)
(***************************************************************************)
\* The sender has sent the payload of entry k; the receiver has taken it.
Sent(x, k)  == Past(x.pos, x.open, x.owes, "send", k)
Taken(y, k) == Past(y.pos, y.open, y.owes, "recv", k)

\* The entries whose payload is under way from s to t.
Flying(p, s, t, x, y) == {k \in DOMAIN p : Carries(p[k], s, t) /\ Sent(x, k) /\ ~Taken(y, k)}

\* The queue from s to t has them, and nothing was taken before it was sent.
PairOK(g, p, s, t, x, y, q) ==
  /\ Queue(g, p, s, Flying(p, s, t, x, y), q)
  /\ \A k \in DOMAIN p : Carries(p[k], s, t) /\ Taken(y, k) => Sent(x, k)

\* A rank that is at x or x1 has sent to t the same; at y or y1, taken from s.
SentAlike(p, s, t, x, x1) ==
  \A k \in DOMAIN p : Carries(p[k], s, t) => (Sent(x, k) <=> Sent(x1, k))
\* A receiver at y or y1 has taken from s the same.
TakenAlike(p, s, t, y, y1) ==
  \A k \in DOMAIN p : Carries(p[k], s, t) => (Taken(y, k) <=> Taken(y1, k))

\* A pair is in order however its ranks are described.
LEMMA AlikePairs ==
  ASSUME NEW g, NEW p, NEW s, NEW t, NEW x, NEW y, NEW x1, NEW y1, NEW q,
         PairOK(g, p, s, t, x, y, q), SentAlike(p, s, t, x, x1), TakenAlike(p, s, t, y, y1)
  PROVE  PairOK(g, p, s, t, x1, y1, q)
<1>1. Flying(p, s, t, x1, y1) = Flying(p, s, t, x, y)
  BY DEF Flying, SentAlike, TakenAlike
<1>2. \A k \in DOMAIN p : Carries(p[k], s, t) /\ Taken(y1, k) => Sent(x1, k)
  BY DEF PairOK, SentAlike, TakenAlike
<1> QED
  BY <1>1, <1>2 DEF PairOK

\* A position and its group.
At(c, op, ow) == [pos |-> c, open |-> op, owes |-> ow]

\* Rank r going on past entry c, if whatever it exchanges there is done.
LEMMA AlikeOn ==
  ASSUME NEW g, NEW p, NEW r \in RanksOf(g), NEW c \in 1..Len(p), NEW op, NEW ow,
         PlanOK(g, p), Joins(r, p[c]) => op /\ ow = {}
  PROVE  \A u \in RanksOf(g) :
           /\ SentAlike(p, r, u, At(c, op, ow), At(NextFor(r, p, c), FALSE, {}))
           /\ TakenAlike(p, u, r, At(c, op, ow), At(NextFor(r, p, c), FALSE, {}))
<1> TAKE u \in RanksOf(g)
<1>1. DOMAIN p = 1..Len(p)
  BY DEF PlanOK
<1>2. ASSUME NEW k \in 1..Len(p), NEW half, Carries(p[k], r, u) \/ Carries(p[k], u, r)
      PROVE  Past(NextFor(r, p, c), FALSE, {}, half, k) <=> Past(c, op, ow, half, k)
  <2>1. BatchOK(g, p[k])
    BY <1>2, EntryIs DEF Carries
  <2>2. Concerns(p[k], r) /\ Joins(r, p[k])
    BY <1>2, <2>1, CarriesIs DEF Carries, Joins
  <2>3. k = c => op /\ half \notin ow
    BY <2>2
  <2> QED
    BY <2>2, <2>3, GoesPast
<1> QED
  BY <1>1, <1>2 DEF SentAlike, TakenAlike, Sent, Taken, At

\* Posting a group sends and takes nothing.
LEMMA AlikePost ==
  ASSUME NEW g, NEW p, NEW r \in RanksOf(g), NEW c \in 1..Len(p), NEW ow, PlanOK(g, p)
  PROVE  \A u \in RanksOf(g) :
           /\ SentAlike(p, r, u, At(c, FALSE, ow), At(c, TRUE, Halves(r, p[c])))
           /\ TakenAlike(p, u, r, At(c, FALSE, ow), At(c, TRUE, Halves(r, p[c])))
<1> TAKE u \in RanksOf(g)
<1>1. DOMAIN p = 1..Len(p)
  BY DEF PlanOK
<1>2. ASSUME NEW k \in 1..Len(p), Carries(p[k], r, u)
      PROVE  Sent(At(c, FALSE, ow), k) <=> Sent(At(c, TRUE, Halves(r, p[c])), k)
  <2>1. k = c => "send" \in Halves(r, p[c])
    BY <1>2 DEF Carries, Halves
  <2> QED
    BY <2>1 DEF Sent, Past, At
<1>3. ASSUME NEW k \in 1..Len(p), Carries(p[k], u, r)
      PROVE  Taken(At(c, FALSE, ow), k) <=> Taken(At(c, TRUE, Halves(r, p[c])), k)
  <2>1. BatchOK(g, p[k])
    BY <1>3, EntryIs DEF Carries
  <2>2. RecvsOf(r, p[k]) # {}
    BY <1>3, <2>1, CarriesIs
  <2>3. k = c => "recv" \in Halves(r, p[c])
    BY <2>2 DEF Halves
  <2> QED
    BY <2>3 DEF Taken, Past, At
<1> QED
  BY <1>1, <1>2, <1>3 DEF SentAlike, TakenAlike

\* A rank that only sends has taken as before, and one that only takes has sent.
LEMMA AlikeHalf ==
  ASSUME NEW p, NEW s, NEW t, NEW c, NEW ow
  PROVE  /\ TakenAlike(p, s, t, At(c, TRUE, ow), At(c, TRUE, ow \ {"send"}))
         /\ SentAlike(p, s, t, At(c, TRUE, ow), At(c, TRUE, ow \ {"recv"}))
  BY DEF TakenAlike, SentAlike, Taken, Sent, Past, At

\* Sending at entry c is news only to the rank it sends to.
LEMMA AlikeOthers ==
  ASSUME NEW p, NEW s, NEW t, NEW c, NEW ow, SendStep(s, p[c]).to # t
  PROVE  SentAlike(p, s, t, At(c, TRUE, ow), At(c, TRUE, ow \ {"send"}))
  BY DEF SentAlike, Sent, Past, At, Carries

\* Taking at entry c is news only to the pair it takes from.
LEMMA AlikeOtherSources ==
  ASSUME NEW g, NEW p, NEW s \in RanksOf(g), NEW t \in RanksOf(g), NEW c \in 1..Len(p), NEW ow,
         PlanOK(g, p), RecvStep(t, p[c]).from # s
  PROVE  TakenAlike(p, s, t, At(c, TRUE, ow), At(c, TRUE, ow \ {"recv"}))
<1>1. ~Carries(p[c], s, t)
  <2> SUFFICES ASSUME Carries(p[c], s, t) PROVE FALSE
    OBVIOUS
  <2>1. BatchOK(g, p[c])
    BY EntryIs DEF Carries
  <2> QED
    BY <2>1, CarriesIs
<1> QED
  BY <1>1 DEF TakenAlike, Taken, Past, At

\* The payload a rank sends is the last in flight to the receiver.
LEMMA PairSend ==
  ASSUME NEW g, NEW p, NEW s, NEW t, NEW c \in 1..Len(p), NEW ow, NEW y, NEW q,
         PlanOK(g, p), PairOK(g, p, s, t, At(c, TRUE, ow), y, q), "send" \in ow,
         Carries(p[c], s, t)
  PROVE  PairOK(g, p, s, t, At(c, TRUE, ow \ {"send"}), y, Append(q, MessageAt(g, p, s, c)))
<1> DEFINE x  == At(c, TRUE, ow)
           x1 == At(c, TRUE, ow \ {"send"})
           I  == Flying(p, s, t, x, y)
<1>1. DOMAIN p = 1..Len(p) /\ c \in Nat /\ Len(p) \in Nat
  BY DEF PlanOK
<1>2. ~Sent(x, c) /\ Sent(x1, c)
  BY <1>1 DEF Sent, Past, At
<1>3. \A k \in 1..Len(p) : k # c => (Sent(x, k) <=> Sent(x1, k))
  BY <1>1 DEF Sent, Past, At
<1>4. \A k \in 1..Len(p) : Sent(x, k) => k < c
  BY <1>1 DEF Sent, Past, At
<1> HIDE DEF x, x1
<1>5. ~Taken(y, c)
  BY <1>1, <1>2 DEF PairOK, x
<1>6. Flying(p, s, t, x1, y) = I \cup {c}
  BY <1>1, <1>2, <1>3, <1>5 DEF Flying
<1>7. I \in SUBSET Nat /\ \A i \in I : i < c
  BY <1>1, <1>4 DEF Flying
<1>8. Queue(g, p, s, I, q)
  BY DEF PairOK, x
<1> HIDE DEF I
<1>9. Queue(g, p, s, I \cup {c}, Append(q, MessageAt(g, p, s, c)))
  BY <1>1, <1>7, <1>8, QueueAppend
<1>10. \A k \in DOMAIN p : Carries(p[k], s, t) /\ Taken(y, k) => Sent(x1, k)
  BY <1>1, <1>2, <1>3 DEF PairOK, x
<1> QED
  BY <1>6, <1>9, <1>10 DEF PairOK, x1

\* Between y and y1 a rank takes what it exchanges at entry c, and it had taken
\* nothing later.
Takes(p, c, y, y1) ==
  /\ ~Taken(y, c) /\ Taken(y1, c)
  /\ \A k \in 1..Len(p) : k # c => (Taken(y, k) <=> Taken(y1, k))
  /\ \A k \in 1..Len(p) : ~Taken(y, k) => k >= c

\* The oldest payload in flight to a rank is that of the batch it is at.
LEMMA PairTakes ==
  ASSUME NEW g, NEW p, NEW s, NEW t, NEW c \in 1..Len(p), NEW x, NEW y, NEW y1, NEW q,
         PlanOK(g, p), PairOK(g, p, s, t, x, y, q), Takes(p, c, y, y1),
         x.pos \in Nat, Carries(p[c], s, t), q # <<>>
  PROVE  /\ Head(q) = MessageAt(g, p, s, c)
         /\ PairOK(g, p, s, t, x, y1, Tail(q))
<1> DEFINE I  == Flying(p, s, t, x, y)
<1>1. DOMAIN p = 1..Len(p) /\ c \in Nat /\ Len(p) \in Nat
  BY DEF PlanOK
<1>2. ~Taken(y, c) /\ Taken(y1, c)
  BY DEF Takes
<1>3. \A k \in 1..Len(p) : k # c => (Taken(y, k) <=> Taken(y1, k))
  BY DEF Takes
<1>4. \A k \in 1..Len(p) : ~Taken(y, k) => k >= c
  BY DEF Takes
<1>5. Queue(g, p, s, I, q)
  BY DEF PairOK
<1>6. I \in SUBSET Nat
  BY <1>1 DEF Flying
<1>7. \A i \in I : i \in 1..Len(p) /\ Carries(p[i], s, t) /\ Sent(x, i) /\ i >= c
  BY <1>1, <1>4 DEF Flying
<1>8. Sent(x, c) => c \in I
  BY <1>1, <1>2 DEF Flying
<1> HIDE DEF I
<1>9. /\ Head(q).at \in I /\ Head(q) = MessageAt(g, p, s, Head(q).at)
      /\ \A k \in I : Head(q).at <= k
      /\ Queue(g, p, s, I \ {Head(q).at}, Tail(q))
  BY <1>5, <1>6, QueueHead, ZenonT(60)
<1>10. Sent(x, c)
  <2>1. Head(q).at \in 1..Len(p) /\ Sent(x, Head(q).at) /\ Head(q).at >= c
    BY <1>7, <1>9
  <2>2. CASE Head(q).at = c
    BY <2>1, <2>2
  <2>3. CASE Head(q).at # c
    <3>1. Head(q).at > c /\ x.pos >= Head(q).at
      BY <1>1, <2>1, <2>3 DEF Sent, Past
    <3> QED
      BY <1>1, <2>1, <3>1 DEF Sent, Past
  <2> QED
    BY <2>2, <2>3
<1>11. Head(q).at = c
  <2>1. c \in I /\ Head(q).at <= c /\ Head(q).at >= c /\ Head(q).at \in Nat
    BY <1>6, <1>7, <1>8, <1>9, <1>10
  <2> QED
    BY <1>1, <2>1
<1>12. Flying(p, s, t, x, y1) = I \ {c}
  BY <1>1, <1>2, <1>3 DEF Flying, I
<1>13. \A k \in DOMAIN p : Carries(p[k], s, t) /\ Taken(y1, k) => Sent(x, k)
  BY <1>1, <1>3, <1>10 DEF PairOK
<1> QED
  BY <1>9, <1>11, <1>12, <1>13 DEF PairOK

\* The receive half takes at the rank's position.
LEMMA TakesHere ==
  ASSUME NEW p, NEW c \in 1..Len(p), NEW ow, Len(p) \in Nat, "recv" \in ow
  PROVE  Takes(p, c, At(c, TRUE, ow), At(c, TRUE, ow \ {"recv"}))
  BY DEF Takes, Taken, Past, At

(***************************************************************************)
(* The inductive invariant of the executor.                                *)
(***************************************************************************)
\* The planners make plans the executor is made for.
Planned == \A g \in Geometries : PlanOK(g, Plan(g))

\* Where rank r stands.
Standing(r) == At(pos[r], open[r], owes[r])

\* Every rank has run its part of the plan as if all ranks were in lockstep.
RanksRun ==
  \A r \in Ranks : /\ RankInv(geo, plan, r, pos[r], open[r], owes[r])
                   /\ HasRun(geo, plan, r, pos[r], open[r], owes[r], mem[r], scratch[r])

\* Every pair of ranks has in flight what one has sent and the other not taken.
PairsRun ==
  \A s, t \in Ranks : PairOK(geo, plan, s, t, Standing(s), Standing(t), chan[<<s, t>>])

\* What the variables are functions of.
Shapes ==
  /\ geo \in Geometries /\ plan = Plan(geo) /\ depth \in BufferDepths
  /\ DOMAIN pos = Ranks /\ pos = [r \in Ranks |-> pos[r]]
  /\ DOMAIN owes = Ranks /\ owes = [r \in Ranks |-> owes[r]]
  /\ DOMAIN open = Ranks /\ open = [r \in Ranks |-> open[r]]
  /\ DOMAIN mem = Ranks /\ mem = [r \in Ranks |-> mem[r]]
  /\ DOMAIN scratch = Ranks /\ scratch = [r \in Ranks |-> scratch[r]]
  /\ DOMAIN chan = Ranks \X Ranks /\ chan = [x \in Ranks \X Ranks |-> chan[x]]

\* The inductive invariant: the executor is where lockstep would have it.
RunInv == Shapes /\ RanksRun /\ PairsRun

\* Nobody but rank r changes, and r has sent and taken nothing.
OnlyRank(r) ==
  /\ UNCHANGED <<geo, plan, depth, chan>>
  /\ Shapes'
  /\ \A u \in Ranks : u # r => /\ pos'[u] = pos[u] /\ open'[u] = open[u] /\ owes'[u] = owes[u]
                               /\ mem'[u] = mem[u] /\ scratch'[u] = scratch[u]

\* A step of one rank that leaves the queues alone keeps the invariant if the rank
\* is still where lockstep would have it and has sent and taken what it had.
LEMMA OnlyRankKeeps ==
  ASSUME NEW r \in Ranks, RunInv, OnlyRank(r),
         RankInv(geo, plan, r, pos'[r], open'[r], owes'[r]),
         HasRun(geo, plan, r, pos'[r], open'[r], owes'[r], mem'[r], scratch'[r]),
         \A u \in Ranks :
           /\ SentAlike(plan, r, u, At(pos[r], open[r], owes[r]),
                        At(pos'[r], open'[r], owes'[r]))
           /\ TakenAlike(plan, u, r, At(pos[r], open[r], owes[r]),
                         At(pos'[r], open'[r], owes'[r]))
  PROVE  RunInv'
<1>1. Ranks' = Ranks /\ geo' = geo /\ plan' = plan /\ chan' = chan /\ Shapes'
  BY DEF OnlyRank, Ranks
<1>2. RanksRun'
  <2> SUFFICES ASSUME NEW u \in Ranks
               PROVE  /\ RankInv(geo, plan, u, pos'[u], open'[u], owes'[u])
                      /\ HasRun(geo, plan, u, pos'[u], open'[u], owes'[u], mem'[u], scratch'[u])
    BY <1>1 DEF RanksRun
  <2>1. CASE u = r
    BY <2>1
  <2>2. CASE u # r
    <3>1. /\ pos'[u] = pos[u] /\ open'[u] = open[u] /\ owes'[u] = owes[u]
          /\ mem'[u] = mem[u] /\ scratch'[u] = scratch[u]
      BY <2>2 DEF OnlyRank
    <3>2. /\ RankInv(geo, plan, u, pos[u], open[u], owes[u])
          /\ HasRun(geo, plan, u, pos[u], open[u], owes[u], mem[u], scratch[u])
      BY DEF RunInv, RanksRun
    <3> QED
      BY <3>1, <3>2
  <2> QED
    BY <2>1, <2>2
<1>3. PairsRun'
  <2> DEFINE X(u) == At(pos[u], open[u], owes[u])
             Y(u) == At(pos'[u], open'[u], owes'[u])
  <2> SUFFICES ASSUME NEW s \in Ranks, NEW t \in Ranks
               PROVE  PairOK(geo, plan, s, t, Y(s), Y(t), chan[<<s, t>>])
    BY <1>1 DEF PairsRun, Standing
  <2>1. PairOK(geo, plan, s, t, X(s), X(t), chan[<<s, t>>])
    BY DEF RunInv, PairsRun, Standing
  <2>2. \A u \in Ranks : u # r => X(u) = Y(u)
    BY DEF OnlyRank
  <2>3. SentAlike(plan, s, t, X(s), Y(s))
    <3>1. CASE s = r
      BY <3>1
    <3>2. CASE s # r
      BY <2>2, <3>2 DEF SentAlike
    <3> QED
      BY <3>1, <3>2
  <2>4. TakenAlike(plan, s, t, X(t), Y(t))
    <3>1. CASE t = r
      BY <3>1
    <3>2. CASE t # r
      BY <2>2, <3>2 DEF TakenAlike
    <3> QED
      BY <3>1, <3>2
  <2> HIDE DEF X, Y
  <2> QED
    BY <2>1, <2>3, <2>4, AlikePairs
<1> QED
  BY <1>1, <1>2, <1>3 DEF RunInv

\* What the invariant and Planned say of a rank.
LEMMA OfRank ==
  ASSUME NEW r \in Ranks, RunInv, Planned
  PROVE  /\ r \in RanksOf(geo) /\ Ranks = RanksOf(geo)
         /\ GeometryOK(geo) /\ PlanOK(geo, plan)
         /\ DOMAIN plan = 1..Len(plan) /\ Len(plan) \in Nat
         /\ RankInv(geo, plan, r, pos[r], open[r], owes[r])
         /\ HasRun(geo, plan, r, pos[r], open[r], owes[r], mem[r], scratch[r])
         /\ pos[r] \in 1..(Len(plan) + 1)
<1>1. geo \in Geometries /\ plan = Plan(geo)
  BY DEF RunInv, Shapes
<1>2. GeometryOK(geo) /\ PlanOK(geo, plan)
  BY <1>1, GeometryIsOK DEF Planned
<1>3. Ranks = RanksOf(geo)
  BY DEF Ranks, RanksOf
<1>4. /\ RankInv(geo, plan, r, pos[r], open[r], owes[r])
      /\ HasRun(geo, plan, r, pos[r], open[r], owes[r], mem[r], scratch[r])
  BY DEF RunInv, RanksRun
<1>5. DOMAIN plan = 1..Len(plan) /\ Len(plan) \in Nat
  BY <1>2 DEF PlanOK
<1>6. pos[r] \in 1..(Len(plan) + 1)
  BY <1>4 DEF RankInv
<1> QED
  BY <1>2, <1>3, <1>4, <1>5, <1>6

\* At the start.
LEMMA RunInit == Planned /\ Init => RunInv
<1> SUFFICES ASSUME Planned, Init PROVE RunInv
  OBVIOUS
<1>1. geo \in Geometries /\ plan = Plan(geo) /\ Ranks = RanksOf(geo)
  BY DEF Init, Ranks, RanksOf
<1>2. PlanOK(geo, plan)
  BY <1>1 DEF Planned
<1>3. Shapes
  BY DEF Init, Shapes
<1>4. \A r \in Ranks : /\ pos[r] = NextFor(r, plan, 0) /\ open[r] = FALSE /\ owes[r] = {}
                       /\ mem[r] = GivenMemories(geo).mem[r]
                       /\ scratch[r] = GivenMemories(geo).scratch[r]
  BY <1>1 DEF Init, After, GivenMemories, ScratchCells
<1>5. 0 \in 0..Len(plan)
  BY <1>2 DEF PlanOK
<1>6. RanksRun
  <2> SUFFICES ASSUME NEW r \in Ranks
               PROVE  /\ RankInv(geo, plan, r, pos[r], open[r], owes[r])
                      /\ HasRun(geo, plan, r, pos[r], open[r], owes[r], mem[r], scratch[r])
    BY DEF RanksRun
  <2> DEFINE n == NextFor(r, plan, 0)
  <2>1. n \in 1..(Len(plan) + 1) /\ (n # Len(plan) + 1 => Concerns(plan[n], r))
    BY <1>2, <1>5, NextIs
  <2>2. /\ Lockstep(geo, plan)[n - 1].mem[r] = Lockstep(geo, plan)[0].mem[r]
        /\ Lockstep(geo, plan)[n - 1].scratch[r] = Lockstep(geo, plan)[0].scratch[r]
    BY <1>1, <1>2, <1>5, SkipKeeps
  <2>3. Lockstep(geo, plan)[0] = GivenMemories(geo)
    BY <1>2, LockstepIs
  <2> HIDE DEF n
  <2>4. RankInv(geo, plan, r, n, FALSE, {})
    BY <2>1 DEF RankInv
  <2>5. HasRun(geo, plan, r, n, FALSE, {}, mem[r], scratch[r])
    BY <1>4, <2>2, <2>3 DEF HasRun
  <2>6. pos[r] = n /\ open[r] = FALSE /\ owes[r] = {}
    BY <1>4 DEF n
  <2> QED
    BY <2>4, <2>5, <2>6
<1>7. PairsRun
  <2> SUFFICES ASSUME NEW s \in Ranks, NEW t \in Ranks
               PROVE  PairOK(geo, plan, s, t, Standing(s), Standing(t), chan[<<s, t>>])
    BY DEF PairsRun
  <2>1. chan[<<s, t>>] = <<>>
    BY DEF Init
  <2>2. \A k \in DOMAIN plan : Carries(plan[k], s, t)
                                 => ~Sent(Standing(s), k) /\ ~Taken(Standing(t), k)
    <3> SUFFICES ASSUME NEW k \in 1..Len(plan), Carries(plan[k], s, t)
                 PROVE  ~Sent(Standing(s), k) /\ ~Taken(Standing(t), k)
      BY <1>2 DEF PlanOK
    <3>1. BatchOK(geo, plan[k])
      BY <1>2, EntryIs DEF Carries
    <3>2. Concerns(plan[k], s) /\ Concerns(plan[k], t)
      BY <1>1, <3>1, CarriesIs
    <3>3. \A r \in {s, t} : NextFor(r, plan, 0) <= k
      <4> TAKE r \in {s, t}
      <4>1. NextFor(r, plan, 0) \in 1..(Len(plan) + 1)
            /\ \A i \in 1..(NextFor(r, plan, 0) - 1) : ~Concerns(plan[i], r)
        BY <1>2, <1>5, NextIs
      <4>2. Len(plan) \in Nat
        BY <1>2 DEF PlanOK
      <4>3. k \notin 1..(NextFor(r, plan, 0) - 1)
        BY <3>2, <4>1
      <4> QED
        BY <4>1, <4>2, <4>3
    <3>4. \A r \in {s, t} : NextFor(r, plan, 0) \in Nat /\ k \in Nat
      <4>1. Len(plan) \in Nat
        BY <1>2 DEF PlanOK
      <4>2. \A r : NextFor(r, plan, 0) \in (0 + 1)..(Len(plan) + 1)
        BY <1>2, <1>5, NextIs
      <4> QED
        BY <4>1, <4>2
    <3> QED
      BY <1>4, <3>3, <3>4 DEF Sent, Taken, Past, Standing, At
  <2>3. Flying(plan, s, t, Standing(s), Standing(t)) = {}
    BY <2>2 DEF Flying
  <2> QED
    BY <2>1, <2>2, <2>3, QueueEmpty DEF PairOK
<1> QED
  BY <1>3, <1>6, <1>7 DEF RunInv

\* Where a rank that is at a batch, its group not posted, stands.
LEMMA Ready ==
  ASSUME NEW r \in Ranks, RunInv, Planned, AtBatch(r), ~open[r]
  PROVE  /\ pos[r] \in 1..Len(plan) /\ plan[pos[r]].exec # "solve"
         /\ open[r] = FALSE /\ owes[r] = {}
         /\ RankInv(geo, plan, r, pos[r], FALSE, {})
         /\ HasRun(geo, plan, r, pos[r], FALSE, {}, mem[r], scratch[r])
<1>1. /\ RankInv(geo, plan, r, pos[r], open[r], owes[r])
      /\ HasRun(geo, plan, r, pos[r], open[r], owes[r], mem[r], scratch[r])
      /\ DOMAIN plan = 1..Len(plan)
  BY OfRank
<1>2. open[r] = FALSE /\ owes[r] = {}
  BY <1>1 DEF RankInv
<1> QED
  BY <1>1, <1>2 DEF AtBatch, Batch

\* A step that takes rank r on past its entry, touching nothing of others.
LEMMA MovesOn ==
  ASSUME NEW r \in Ranks, RunInv, Planned, NEW c \in 1..Len(plan), c = pos[r],
         OnlyRank(r), Joins(r, plan[c]) => open[r] /\ owes[r] = {},
         pos'[r] = NextFor(r, plan, c), open'[r] = FALSE, owes'[r] = {},
         RankInv(geo, plan, r, NextFor(r, plan, c), FALSE, {}),
         HasRun(geo, plan, r, NextFor(r, plan, c), FALSE, {}, mem'[r], scratch'[r])
  PROVE  RunInv'
<1>1. Ranks = RanksOf(geo) /\ PlanOK(geo, plan) /\ r \in RanksOf(geo)
      /\ RankInv(geo, plan, r, pos[r], open[r], owes[r])
  BY OfRank
<1>2. open[r] \in BOOLEAN
  BY <1>1 DEF RankInv
<1>3. \A u \in RanksOf(geo) :
        /\ SentAlike(plan, r, u, At(c, open[r], owes[r]), At(NextFor(r, plan, c), FALSE, {}))
        /\ TakenAlike(plan, u, r, At(c, open[r], owes[r]), At(NextFor(r, plan, c), FALSE, {}))
  BY <1>1, <1>2, AlikeOn
<1> QED
  BY <1>1, <1>3, OnlyRankKeeps

\* The slab executor's save keeps the invariant.
LEMMA SaveSlabKeeps ==
  ASSUME NEW r \in Ranks, RunInv, Planned, SaveSlab(r)
  PROVE  RunInv'
<1> DEFINE c == pos[r]
           b == plan[c]
<1>1. /\ c \in 1..Len(plan) /\ b.exec # "solve" /\ open[r] = FALSE /\ owes[r] = {}
      /\ RankInv(geo, plan, r, c, FALSE, {})
      /\ HasRun(geo, plan, r, c, FALSE, {}, mem[r], scratch[r])
  BY Ready DEF SaveSlab
<1>2. r \in RanksOf(geo) /\ PlanOK(geo, plan) /\ c \in DOMAIN plan
  BY <1>1, OfRank
<1>3. b.kind = Save
  BY DEF SaveSlab, Batch
<1>4. /\ RankInv(geo, plan, r, NextFor(r, plan, c), FALSE, {})
      /\ HasRun(geo, plan, r, NextFor(r, plan, c), FALSE, {}, mem[r],
                PackedFrom(geo, r, b, mem[r], scratch[r]))
  BY <1>1, <1>2, <1>3, SaveRuns
<1>5. PackedScratch(r, b) = PackedFrom(geo, r, b, mem[r], scratch[r])
  BY DEF PackedScratch, PackedFrom
<1>6. /\ pos' = [pos EXCEPT ![r] = NextFor(r, plan, c)]
      /\ scratch' = [scratch EXCEPT ![r] = PackedScratch(r, b)]
      /\ UNCHANGED <<geo, plan, depth, owes, open, mem, chan>>
  BY DEF SaveSlab, Advance, After, Batch
<1>7. Shapes
  BY DEF RunInv
<1>8. ~Joins(r, b)
  BY <1>3 DEF Joins
<1> HIDE DEF b, c
<1>9. OnlyRank(r) /\ pos'[r] = NextFor(r, plan, c) /\ scratch'[r] = PackedScratch(r, b)
  BY <1>6, <1>7 DEF OnlyRank, Shapes, Ranks
<1> QED
  BY <1>1, <1>4, <1>5, <1>6, <1>8, <1>9, MovesOn DEF b, c

\* So does a move within a rank,
LEMMA LocalMoveKeeps ==
  ASSUME NEW r \in Ranks, RunInv, Planned, LocalMove(r)
  PROVE  RunInv'
<1> DEFINE c == pos[r]
           b == plan[c]
           packed == PackedScratch(r, b)
           m == UnpackRect(geo, RecvStep(r, b).target, packed, SendBase(geo, b), mem[r])
<1>1. /\ c \in 1..Len(plan) /\ b.exec # "solve" /\ open[r] = FALSE /\ owes[r] = {}
      /\ RankInv(geo, plan, r, c, FALSE, {})
      /\ HasRun(geo, plan, r, c, FALSE, {}, mem[r], scratch[r])
  BY Ready DEF LocalMove
<1>2. r \in RanksOf(geo) /\ PlanOK(geo, plan) /\ c \in DOMAIN plan
  BY <1>1, OfRank
<1>3. IsLocal(r, b)
  BY DEF LocalMove, Batch
<1>4. packed = PackedFrom(geo, r, b, mem[r], scratch[r])
  BY DEF PackedScratch, PackedFrom
<1>5. /\ RankInv(geo, plan, r, NextFor(r, plan, c), FALSE, {})
      /\ HasRun(geo, plan, r, NextFor(r, plan, c), FALSE, {}, m, packed)
  BY <1>1, <1>2, <1>3, <1>4, LocalMoveRuns, ZenonT(60)
<1>6. /\ pos' = [pos EXCEPT ![r] = NextFor(r, plan, c)]
      /\ scratch' = [scratch EXCEPT ![r] = packed]
      /\ mem' = [mem EXCEPT ![r] = m]
      /\ UNCHANGED <<geo, plan, depth, owes, open, chan>>
  BY DEF LocalMove, Advance, After, Batch
<1>7. Shapes
  BY DEF RunInv
<1>8. ~Joins(r, b)
  BY <1>3 DEF Joins
<1> HIDE DEF b, c, packed, m
<1>9. OnlyRank(r) /\ pos'[r] = NextFor(r, plan, c) /\ scratch'[r] = packed /\ mem'[r] = m
  BY <1>6, <1>7 DEF OnlyRank, Shapes, Ranks
<1> QED
  BY <1>1, <1>5, <1>6, <1>8, <1>9, MovesOn DEF b, c

\* the end of an NCCL group,
LEMMA CompleteGroupKeeps ==
  ASSUME NEW r \in Ranks, RunInv, Planned, CompleteGroup(r)
  PROVE  RunInv'
<1> DEFINE c == pos[r]
           b == plan[c]
           m == IF RecvsOf(r, b) = {} THEN mem[r]
                ELSE UnpackRect(geo, RecvStep(r, b).target, scratch[r], RecvBase(geo, b), mem[r])
<1>1. /\ r \in RanksOf(geo) /\ PlanOK(geo, plan) /\ DOMAIN plan = 1..Len(plan)
      /\ RankInv(geo, plan, r, c, open[r], owes[r])
      /\ HasRun(geo, plan, r, c, open[r], owes[r], mem[r], scratch[r])
      /\ Len(plan) \in Nat
  BY OfRank
<1>2. open[r] = TRUE /\ owes[r] = {}
  BY <1>1 DEF CompleteGroup, RankInv
<1>3. c \in 1..Len(plan)
  BY <1>1, <1>2 DEF RankInv
<1>4. /\ RankInv(geo, plan, r, NextFor(r, plan, c), FALSE, {})
      /\ HasRun(geo, plan, r, NextFor(r, plan, c), FALSE, {}, m, scratch[r])
  BY <1>1, <1>2, CompleteRuns
<1>5. /\ pos' = [pos EXCEPT ![r] = NextFor(r, plan, c)]
      /\ open' = [open EXCEPT ![r] = FALSE]
      /\ UNCHANGED <<geo, plan, depth, owes, scratch, chan>>
  BY DEF CompleteGroup, Advance, After
<1>6. mem' = [mem EXCEPT ![r] = m]
  <2>1. DOMAIN mem = Ranks /\ mem = [q \in Ranks |-> mem[q]]
    BY DEF RunInv, Shapes
  <2>2. CASE RecvsOf(r, b) = {}
    <3>1. mem' = mem
      BY <2>2 DEF CompleteGroup
    <3> QED
      BY <2>1, <2>2, <3>1
  <2>3. CASE RecvsOf(r, b) # {}
    BY <2>3 DEF CompleteGroup
  <2> QED
    BY <2>2, <2>3
<1>7. Shapes
  BY DEF RunInv
<1> HIDE DEF b, c, m
<1>8. OnlyRank(r) /\ pos'[r] = NextFor(r, plan, c) /\ open'[r] = FALSE /\ mem'[r] = m
  BY <1>5, <1>6, <1>7 DEF OnlyRank, Shapes, Ranks
<1> QED
  BY <1>2, <1>3, <1>4, <1>5, <1>8, MovesOn DEF c

\* its start,
LEMMA PostKeeps ==
  ASSUME NEW r \in Ranks, RunInv, Planned, Post(r)
  PROVE  RunInv'
<1> DEFINE c == pos[r]
           b == plan[c]
           packed == PackedScratch(r, b)
<1>1. /\ c \in 1..Len(plan) /\ b.exec # "solve" /\ open[r] = FALSE /\ owes[r] = {}
      /\ RankInv(geo, plan, r, c, FALSE, {})
      /\ HasRun(geo, plan, r, c, FALSE, {}, mem[r], scratch[r])
  BY Ready DEF Post
<1>2. r \in RanksOf(geo) /\ PlanOK(geo, plan) /\ c \in DOMAIN plan /\ Ranks = RanksOf(geo)
  BY <1>1, OfRank
<1>3. Joins(r, b)
  BY <1>1 DEF Post, Batch, Joins
<1>4. packed = PackedFrom(geo, r, b, mem[r], scratch[r])
  BY DEF PackedScratch, PackedFrom
<1>5. /\ RankInv(geo, plan, r, c, TRUE, Halves(r, b))
      /\ HasRun(geo, plan, r, c, TRUE, Halves(r, b), mem[r], packed)
  <2>1. /\ RankInv(geo, plan, r, c, TRUE, Halves(r, b))
        /\ HasRun(geo, plan, r, c, TRUE, Halves(r, b), mem[r],
                  PackedFrom(geo, r, b, mem[r], scratch[r]))
    BY <1>1, <1>2, <1>3, PostRuns
  <2> QED
    BY <1>4, <2>1
<1>6. /\ owes' = [owes EXCEPT ![r] = Halves(r, b)]
      /\ scratch' = [scratch EXCEPT ![r] = packed]
      /\ open' = [open EXCEPT ![r] = TRUE]
      /\ UNCHANGED <<geo, plan, depth, pos, mem, chan>>
  BY DEF Post, Batch
<1>7. Shapes
  BY DEF RunInv
<1>8. \A u \in RanksOf(geo) :
        /\ SentAlike(plan, r, u, At(c, FALSE, {}), At(c, TRUE, Halves(r, b)))
        /\ TakenAlike(plan, u, r, At(c, FALSE, {}), At(c, TRUE, Halves(r, b)))
  BY <1>1, <1>2, AlikePost
<1> HIDE DEF b, c, packed
<1>9. /\ OnlyRank(r) /\ pos'[r] = pos[r] /\ owes'[r] = Halves(r, b) /\ open'[r] = TRUE
      /\ scratch'[r] = packed /\ mem'[r] = mem[r]
  BY <1>6, <1>7 DEF OnlyRank, Shapes, Ranks
<1>10. pos[r] = c
  BY DEF c
<1> QED
  BY <1>1, <1>2, <1>5, <1>8, <1>9, <1>10, OnlyRankKeeps

\* Where a rank that owes a half of a group stands.
LEMMA Owing ==
  ASSUME NEW r \in Ranks, NEW h \in {"send", "recv"}, RunInv, Planned, h \in owes[r]
  PROVE  /\ pos[r] \in 1..Len(plan) /\ open[r] = TRUE
         /\ BatchOK(geo, plan[pos[r]]) /\ Joins(r, plan[pos[r]])
         /\ h \in Halves(r, plan[pos[r]])
<1>1. RankInv(geo, plan, r, pos[r], open[r], owes[r]) /\ PlanOK(geo, plan) /\ Len(plan) \in Nat
  BY OfRank
<1>2. open[r] = TRUE /\ pos[r] \in 1..Len(plan) /\ Joins(r, plan[pos[r]])
      /\ owes[r] \subseteq Halves(r, plan[pos[r]])
  BY <1>1 DEF RankInv
<1>3. BatchOK(geo, plan[pos[r]])
  BY <1>1, <1>2, EntryIs DEF Joins
<1> QED
  BY <1>2, <1>3

\* A step in which rank r does a half of its group changes no other rank.
LEMMA HalfKeeps ==
  ASSUME NEW r \in Ranks, RunInv, Planned, NEW h, Shapes',
         UNCHANGED <<geo, plan, depth, pos, open, mem>>,
         owes' = [owes EXCEPT ![r] = owes[r] \ {h}],
         \A u \in Ranks \ {r} : scratch'[u] = scratch[u],
         RankInv(geo, plan, r, pos[r], open[r], owes[r] \ {h}),
         HasRun(geo, plan, r, pos[r], open[r], owes[r] \ {h}, mem[r], scratch'[r])
  PROVE  RanksRun'
<1>1. Ranks' = Ranks /\ Shapes
  BY DEF Ranks, RunInv
<1> SUFFICES ASSUME NEW u \in Ranks
             PROVE  /\ RankInv(geo, plan, u, pos[u], open[u], owes'[u])
                    /\ HasRun(geo, plan, u, pos[u], open[u], owes'[u], mem[u], scratch'[u])
  BY <1>1 DEF RanksRun
<1>2. owes'[u] = IF u = r THEN owes[r] \ {h} ELSE owes[u]
  BY <1>1 DEF Shapes
<1>3. CASE u = r
  BY <1>2, <1>3
<1>4. CASE u # r
  <2>1. owes'[u] = owes[u] /\ scratch'[u] = scratch[u]
    BY <1>2, <1>4
  <2> QED
    BY <2>1 DEF RunInv, RanksRun
<1> QED
  BY <1>3, <1>4

\* its send half,
LEMMA SendKeeps ==
  ASSUME NEW r \in Ranks, RunInv, Planned, Send(r)
  PROVE  RunInv'
<1> DEFINE c == pos[r]
           b == plan[c]
           t == SendStep(r, b).to
           ow == owes[r]
           msg == MessageAt(geo, plan, r, c)
<1>1. /\ r \in RanksOf(geo) /\ Ranks = RanksOf(geo) /\ PlanOK(geo, plan) /\ GeometryOK(geo)
      /\ RankInv(geo, plan, r, c, open[r], ow)
      /\ HasRun(geo, plan, r, c, open[r], ow, mem[r], scratch[r])
  BY OfRank
<1>2. "send" \in ow
  BY DEF Send
<1>3. c \in 1..Len(plan) /\ open[r] = TRUE /\ BatchOK(geo, b) /\ Joins(r, b)
      /\ "send" \in Halves(r, b)
  BY <1>2, Owing
<1>4. SendsOf(r, b) # {} /\ b.kind # Save /\ b.exec # "solve" /\ ~IsLocal(r, b)
  BY <1>3 DEF Joins, Halves
<1>5. t \in Ranks /\ t # r /\ Carries(b, r, t)
  BY <1>1, <1>3, <1>4, PartnerOfSender, RemoteStep DEF Carries
<1>6. RankInv(geo, plan, r, c, TRUE, ow) /\ HasRun(geo, plan, r, c, TRUE, ow, mem[r], scratch[r])
  BY <1>1, <1>3
<1>7. SentFrom(geo, r, b, scratch[r]) = PayloadOf(geo, Lockstep(geo, plan)[c - 1], b, r)
  <2>1. SentFrom(geo, r, plan[c], scratch[r])
          = PayloadOf(geo, Lockstep(geo, plan)[c - 1], plan[c], r)
    <3> HIDE DEF b, t, c, ow, msg
    <3>1. MaySend(geo, plan, r, c, ow, mem[r], scratch[r])
      BY <1>1, <1>2, <1>6 DEF MaySend
    <3> QED
      BY <3>1, SendsPayload
  <2> QED
    BY <2>1
<1>8. /\ chan' = [chan EXCEPT ![<<r, t>>] = Append(@, msg)]
      /\ owes' = [owes EXCEPT ![r] = ow \ {"send"}]
      /\ UNCHANGED <<geo, plan, depth, pos, open, mem, scratch>>
  BY <1>7 DEF Send, MessageAt, SentFrom
<1>9. /\ RankInv(geo, plan, r, c, TRUE, ow \ {"send"})
      /\ HasRun(geo, plan, r, c, TRUE, ow \ {"send"}, mem[r], scratch[r])
  BY <1>6, SendRuns
<1>10. Shapes
  BY DEF RunInv
<1> HIDE DEF msg, t, b, c, ow
<1>11. Shapes' /\ Ranks' = Ranks
  BY <1>8, <1>10 DEF Shapes, Ranks
<1>12. RanksRun'
  <2>1. pos[r] = c /\ open[r] = TRUE /\ ow = owes[r]
    BY <1>3 DEF c, ow
  <2>2. \A u \in Ranks \ {r} : scratch'[u] = scratch[u]
    BY <1>8
  <2> QED
    BY <1>8, <1>9, <1>11, <2>1, <2>2, HalfKeeps
<1>13. PairsRun'
  <2> DEFINE X(u) == At(pos[u], open[u], owes[u])
             Y(u) == At(pos[u], open[u], owes'[u])
  <2>1. X(r) = At(c, TRUE, ow) /\ Y(r) = At(c, TRUE, ow \ {"send"})
    BY <1>3, <1>8, <1>10 DEF c, ow, Shapes
  <2>2. \A u \in Ranks : u # r => X(u) = Y(u)
    BY <1>8, <1>10 DEF Shapes
  <2> SUFFICES ASSUME NEW s \in Ranks, NEW u \in Ranks
               PROVE  PairOK(geo, plan, s, u, Y(s), Y(u), chan'[<<s, u>>])
    BY <1>8, <1>11 DEF PairsRun, Standing
  <2>3. PairOK(geo, plan, s, u, X(s), X(u), chan[<<s, u>>])
    BY DEF RunInv, PairsRun, Standing
  <2> HIDE DEF X, Y
  <2>4. CASE s = r /\ u = t
    <3>1. chan'[<<s, u>>] = Append(chan[<<s, u>>], msg)
      BY <1>8, <1>10, <2>4 DEF Shapes
    <3>2. PairOK(geo, plan, r, t, At(c, TRUE, ow), X(t), chan[<<r, t>>])
      BY <2>1, <2>3, <2>4
    <3>3. Carries(plan[c], r, t)
      BY <1>5 DEF b
    <3>4. PairOK(geo, plan, r, t, At(c, TRUE, ow \ {"send"}), X(t),
                 Append(chan[<<r, t>>], MessageAt(geo, plan, r, c)))
      BY <1>1, <1>2, <1>3, <3>2, <3>3, PairSend DEF ow
    <3>5. Y(u) = X(t) /\ Y(s) = At(c, TRUE, ow \ {"send"})
      BY <1>5, <2>1, <2>2, <2>4
    <3> QED
      BY <2>4, <3>1, <3>4, <3>5 DEF msg
  <2>5. CASE ~(s = r /\ u = t)
    <3>1. chan'[<<s, u>>] = chan[<<s, u>>]
      <4>1. <<s, u>> # <<r, t>>
        BY <2>5
      <4> QED
        BY <1>8, <1>10, <4>1 DEF Shapes
    <3>2. SentAlike(plan, s, u, X(s), Y(s))
      <4>1. CASE s = r
        <5>1. SendStep(r, plan[c]).to # u
          BY <2>5, <4>1 DEF t, b
        <5>2. SentAlike(plan, r, u, At(c, TRUE, ow), At(c, TRUE, ow \ {"send"}))
          BY <5>1, AlikeOthers
        <5> QED
          BY <2>1, <4>1, <5>2
      <4>2. CASE s # r
        BY <2>2, <4>2 DEF SentAlike
      <4> QED
        BY <4>1, <4>2
    <3>3. TakenAlike(plan, s, u, X(u), Y(u))
      <4>1. CASE u = r
        <5>1. TakenAlike(plan, s, r, At(c, TRUE, ow), At(c, TRUE, ow \ {"send"}))
          BY AlikeHalf
        <5> QED
          BY <2>1, <4>1, <5>1
      <4>2. CASE u # r
        BY <2>2, <4>2 DEF TakenAlike
      <4> QED
        BY <4>1, <4>2
    <3> QED
      BY <2>3, <3>1, <3>2, <3>3, AlikePairs
  <2> QED
    BY <2>4, <2>5
<1> QED
  BY <1>11, <1>12, <1>13 DEF RunInv

\* its receive half,
LEMMA ReceiveKeeps ==
  ASSUME NEW r \in Ranks, RunInv, Planned, Receive(r)
  PROVE  RunInv'
<1> DEFINE c == pos[r]
           b == plan[c]
           s == RecvStep(r, b).from
           ow == owes[r]
           q == chan[<<s, r>>]
           d == PayloadOf(geo, Lockstep(geo, plan)[c - 1], b, s)
<1>1. /\ r \in RanksOf(geo) /\ Ranks = RanksOf(geo) /\ PlanOK(geo, plan) /\ GeometryOK(geo)
      /\ RankInv(geo, plan, r, c, open[r], ow) /\ Len(plan) \in Nat
      /\ HasRun(geo, plan, r, c, open[r], ow, mem[r], scratch[r])
  BY OfRank, SMTT(30)
<1>2. "recv" \in ow /\ q # <<>>
  BY DEF Receive
<1>3. c \in 1..Len(plan) /\ open[r] = TRUE /\ BatchOK(geo, b) /\ Joins(r, b)
      /\ "recv" \in Halves(r, b)
  BY <1>2, Owing
<1>4. RecvsOf(r, b) # {} /\ ~IsLocal(r, b)
  BY <1>3 DEF Joins, Halves
<1>5. s \in Ranks /\ Carries(b, s, r) /\ s # r
  BY <1>1, <1>3, <1>4, Partner, CarriesIs DEF Carries
<1>6. RankInv(geo, plan, r, c, TRUE, ow) /\ HasRun(geo, plan, r, c, TRUE, ow, mem[r], scratch[r])
  BY <1>1, <1>3
<1>7. Shapes
  BY DEF RunInv
<1>8. /\ chan' = [chan EXCEPT ![<<s, r>>] = Tail(@)]
      /\ owes' = [owes EXCEPT ![r] = ow \ {"recv"}]
      /\ scratch' = [scratch EXCEPT ![r] = Landed(geo, scratch[r], b, Head(q).data)]
      /\ UNCHANGED <<geo, plan, depth, pos, open, mem>>
  BY <1>7 DEF Receive, Landed, Shapes
<1>9. /\ RankInv(geo, plan, r, c, TRUE, ow \ {"recv"})
      /\ HasRun(geo, plan, r, c, TRUE, ow \ {"recv"}, mem[r], Landed(geo, scratch[r], b, d))
  BY <1>2, <1>6, ReceiveRuns
<1> HIDE DEF c, b, s, ow, q, d
<1>10. Shapes' /\ Ranks' = Ranks
  BY <1>7, <1>8 DEF Shapes, Ranks
<1>11. Head(q) = MessageAt(geo, plan, s, c)
       /\ PairOK(geo, plan, s, r, Standing(s), At(c, TRUE, ow \ {"recv"}), Tail(q))
  <2>1. PairOK(geo, plan, s, r, Standing(s), At(c, TRUE, ow), q)
    <3>1. PairOK(geo, plan, s, r, Standing(s), Standing(r), chan[<<s, r>>])
      BY <1>5 DEF RunInv, PairsRun
    <3>2. Standing(r) = At(c, TRUE, ow)
      BY <1>3 DEF Standing, c, ow
    <3> QED
      BY <3>1, <3>2 DEF q
  <2>2. Standing(s).pos \in Nat
    <3>1. pos[s] \in 1..(Len(plan) + 1)
      BY <1>5, OfRank
    <3> QED
      BY <1>1, <3>1 DEF Standing, At
  <2>3. Carries(plan[c], s, r)
    BY <1>5 DEF b
  <2>4. Takes(plan, c, At(c, TRUE, ow), At(c, TRUE, ow \ {"recv"}))
    BY <1>1, <1>2, <1>3, TakesHere
  <2> QED
    BY <1>1, <1>2, <1>3, <2>1, <2>2, <2>3, <2>4, PairTakes
<1>12. scratch'[r] = Landed(geo, scratch[r], b, d)
  <2>1. Head(q).data = d
    BY <1>11 DEF MessageAt, d, b
  <2> QED
    BY <1>7, <1>8, <2>1 DEF Shapes
<1>13. RanksRun'
  <2>1. pos[r] = c /\ open[r] = TRUE /\ ow = owes[r]
    BY <1>3 DEF c, ow
  <2>2. \A u \in Ranks \ {r} : scratch'[u] = scratch[u]
    BY <1>7, <1>8 DEF Shapes
  <2> QED
    BY <1>8, <1>9, <1>10, <1>12, <2>1, <2>2, HalfKeeps
<1>14. PairsRun'
  <2> DEFINE X(u) == At(pos[u], open[u], owes[u])
             Y(u) == At(pos[u], open[u], owes'[u])
  <2>1. X(r) = At(c, TRUE, ow) /\ Y(r) = At(c, TRUE, ow \ {"recv"})
    BY <1>3, <1>7, <1>8 DEF c, ow, Shapes
  <2>2. \A u \in Ranks : u # r => X(u) = Y(u)
    BY <1>7, <1>8 DEF Shapes
  <2>3. X(s) = Standing(s)
    BY DEF Standing
  <2> SUFFICES ASSUME NEW v \in Ranks, NEW u \in Ranks
               PROVE  PairOK(geo, plan, v, u, Y(v), Y(u), chan'[<<v, u>>])
    BY <1>8, <1>10 DEF PairsRun, Standing
  <2>4. PairOK(geo, plan, v, u, X(v), X(u), chan[<<v, u>>])
    BY DEF RunInv, PairsRun, Standing
  <2> HIDE DEF X, Y
  <2>5. CASE v = s /\ u = r
    <3>1. chan'[<<v, u>>] = Tail(q)
      BY <1>5, <1>7, <1>8, <2>5 DEF Shapes, q
    <3>2. Y(v) = Standing(s) /\ Y(u) = At(c, TRUE, ow \ {"recv"})
      BY <1>5, <2>1, <2>2, <2>3, <2>5
    <3> QED
      BY <1>11, <2>5, <3>1, <3>2
  <2>6. CASE ~(v = s /\ u = r)
    <3>1. chan'[<<v, u>>] = chan[<<v, u>>]
      <4>1. <<v, u>> # <<s, r>>
        BY <2>6
      <4> QED
        BY <1>7, <1>8, <4>1 DEF Shapes
    <3>2. SentAlike(plan, v, u, X(v), Y(v))
      <4>1. CASE v = r
        <5>1. SentAlike(plan, r, u, At(c, TRUE, ow), At(c, TRUE, ow \ {"recv"}))
          BY AlikeHalf
        <5> QED
          BY <2>1, <4>1, <5>1
      <4>2. CASE v # r
        BY <2>2, <4>2 DEF SentAlike
      <4> QED
        BY <4>1, <4>2
    <3>3. TakenAlike(plan, v, u, X(u), Y(u))
      <4>1. CASE u = r
        <5>1. RecvStep(r, plan[c]).from # v
          BY <2>6, <4>1 DEF s, b
        <5>2. TakenAlike(plan, v, r, At(c, TRUE, ow), At(c, TRUE, ow \ {"recv"}))
          BY <1>1, <1>3, <5>1, AlikeOtherSources
        <5> QED
          BY <2>1, <4>1, <5>2
      <4>2. CASE u # r
        BY <2>2, <4>2 DEF TakenAlike
      <4> QED
        BY <4>1, <4>2
    <3> QED
      BY <2>4, <3>1, <3>2, <3>3, AlikePairs
  <2> QED
    BY <2>5, <2>6
<1> QED
  BY <1>10, <1>13, <1>14 DEF RunInv

\* The one entry that is the solver call.
LEMMA SolveAtIs ==
  ASSUME PlanOK(geo, plan)
  PROVE  solveAt \in 1..Len(plan) /\ plan[solveAt].exec = "solve"
<1>1. PICK at \in 1..Len(plan) : plan[at] = SolveEntry
  BY DEF PlanOK
<1>2. at \in DOMAIN plan /\ plan[at].exec = "solve"
  BY <1>1 DEF SolveEntry, PlanOK
<1> QED
  BY <1>2 DEF solveAt, PlanOK

\* and the solve between the two redistributions.
LEMMA SolveKeeps ==
  ASSUME RunInv, Planned, Solve
  PROVE  RunInv'
<1> DEFINE c == solveAt
<1>1. /\ Shapes /\ PlanOK(geo, plan) /\ Ranks = RanksOf(geo)
  BY GeometryIsOK DEF RunInv, Shapes, Planned, Ranks, RanksOf
<1>2. c \in 1..Len(plan) /\ plan[c].exec = "solve"
  BY <1>1, SolveAtIs
<1>3. \A r \in Ranks : /\ pos[r] = c /\ open[r] = FALSE /\ owes[r] = {}
                       /\ RankInv(geo, plan, r, c, FALSE, {})
                       /\ HasRun(geo, plan, r, c, FALSE, {}, mem[r], scratch[r])
  <2> TAKE r \in Ranks
  <2>1. /\ RankInv(geo, plan, r, pos[r], open[r], owes[r])
        /\ HasRun(geo, plan, r, pos[r], open[r], owes[r], mem[r], scratch[r])
    BY OfRank
  <2>2. pos[r] = c
    BY DEF Solve
  <2>3. open[r] = FALSE /\ owes[r] = {}
    BY <1>2, <2>1, <2>2 DEF RankInv, Joins
  <2> QED
    BY <2>1, <2>2, <2>3
<1>4. /\ pos' = [r \in Ranks |-> NextFor(r, plan, c)]
      /\ UNCHANGED <<geo, plan, depth, owes, open, scratch, chan>>
  BY DEF Solve, After
<1>5. mem' = [r \in Ranks |-> SolvedMem(geo, mem[r], r)]
  <2>1. \A r \in Ranks : \A o \in DOMAIN mem[r] :
          (o \in {o1 \in DOMAIN mem[r] : \E e \in Entries : CyclicHome(geo, e) = <<r, o1>>})
            <=> \E e \in EntriesOf(geo) : CyclicHome(geo, e) = <<r, o>>
    BY DEF Entries, EntriesOf
  <2> DEFINE real(r) == {o \in DOMAIN mem[r] : \E e \in Entries : CyclicHome(geo, e) = <<r, o>>}
             kept(r) == [o \in DOMAIN mem[r] |-> IF o \in real(r) THEN mem[r][o] ELSE Junk]
  <2>2. mem' = [r \in Ranks |-> kept(r)]
    BY DEF Solve
  <2>3. \A r \in Ranks : kept(r) = SolvedMem(geo, mem[r], r)
    BY <2>1 DEF SolvedMem
  <2> HIDE DEF kept
  <2> QED
    BY <2>2, <2>3
<1>6. \A r \in Ranks : /\ RankInv(geo, plan, r, NextFor(r, plan, c), FALSE, {})
                       /\ HasRun(geo, plan, r, NextFor(r, plan, c), FALSE, {},
                                 SolvedMem(geo, mem[r], r), scratch[r])
  BY <1>1, <1>2, <1>3, SolveRuns
<1> HIDE DEF c
<1>7. Shapes' /\ Ranks' = Ranks
  <2> HIDE DEF PlanOK
  <2> QED
    BY <1>1, <1>4, <1>5 DEF Shapes, Ranks
<1>8. \A r \in Ranks : pos'[r] = NextFor(r, plan, c) /\ mem'[r] = SolvedMem(geo, mem[r], r)
  BY <1>4, <1>5
<1>9. RanksRun'
  <2> SUFFICES ASSUME NEW r \in Ranks
               PROVE  /\ RankInv(geo, plan, r, pos'[r], open[r], owes[r])
                      /\ HasRun(geo, plan, r, pos'[r], open[r], owes[r], mem'[r], scratch[r])
    BY <1>4, <1>7 DEF RanksRun
  <2> QED
    BY <1>3, <1>6, <1>8
<1>10. PairsRun'
  <2> DEFINE X(u) == At(c, FALSE, {})
             Y(u) == At(NextFor(u, plan, c), FALSE, {})
  <2> SUFFICES ASSUME NEW s \in Ranks, NEW t \in Ranks
               PROVE  PairOK(geo, plan, s, t, Y(s), Y(t), chan[<<s, t>>])
    BY <1>3, <1>4, <1>7, <1>8 DEF PairsRun, Standing
  <2>1. PairOK(geo, plan, s, t, X(s), X(t), chan[<<s, t>>])
    BY <1>3 DEF RunInv, PairsRun, Standing
  <2>2. ~Joins(s, plan[c]) /\ ~Joins(t, plan[c])
    BY <1>2 DEF Joins
  <2>3. SentAlike(plan, s, t, X(s), Y(s)) /\ TakenAlike(plan, s, t, X(t), Y(t))
    BY <1>1, <1>2, <2>2, AlikeOn
  <2> HIDE DEF X, Y
  <2> QED
    BY <2>1, <2>3, AlikePairs
<1> QED
  BY <1>7, <1>9, <1>10 DEF RunInv

\* Every step keeps the invariant.
LEMMA RunNext == Planned /\ RunInv /\ [Next]_vars => RunInv'
<1> SUFFICES ASSUME Planned, RunInv, [Next]_vars PROVE RunInv'
  OBVIOUS
<1>1. CASE UNCHANGED vars
  BY <1>1 DEF vars, RunInv, Shapes, RanksRun, PairsRun, Ranks, Standing
<1>2. ASSUME NEW r \in Ranks, RankStep(r) PROVE RunInv'
  BY <1>2, SaveSlabKeeps, LocalMoveKeeps, PostKeeps, SendKeeps, ReceiveKeeps, CompleteGroupKeeps
     DEF RankStep
<1>3. CASE Solve
  BY <1>3, SolveKeeps
<1> QED
  BY <1>1, <1>2, <1>3 DEF Next, Terminated

\* Every step does, and the first state has it.
LEMMA Runs ==
  ASSUME Planned
  PROVE  Spec => []RunInv
<1>1. Init => RunInv
  BY RunInit
<1>2. RunInv /\ [Next]_vars => RunInv'
  BY RunNext
<1> QED
  BY <1>1, <1>2, PTL DEF Spec

\* A payload of lockstep has the batch's load, and its values.
LEMMA PayloadTyped ==
  ASSUME NEW g, NEW p, NEW k \in 1..Len(p), NEW s \in RanksOf(g), PlanOK(g, p),
         p[k].exec # "solve", SendsOf(s, p[k]) # {}
  PROVE  PayloadOf(g, Lockstep(g, p)[k - 1], p[k], s) \in [0..(Load(p[k]) - 1) -> Values(g)]
<1> DEFINE w == Lockstep(g, p)[k - 1]
           b == p[k]
<1>1. BatchOK(g, b)
  BY EntryIs
<1>2. w \in Memories(g)
  <2>1. k - 1 \in 0..Len(p)
    BY DEF PlanOK
  <2> QED
    BY <2>1, LockstepIs
<1>3. GroupCount(s, b) = Load(b)
  BY <1>1, CountIsLoad
<1>4. PackedIn(g, w, b, s) \in [ScratchCells(g) -> Values(g)]
  <2>1. w.mem[s] \in [LocalCells(g) -> Values(g)] /\ w.scratch[s] \in [ScratchCells(g) -> Values(g)]
    BY <1>2 DEF Memories
  <2> QED
    BY <2>1, PackTyped DEF PackedIn
<1> HIDE DEF w, b
<1>5. \A i : Peek(PackedIn(g, w, b, s), i) \in Values(g)
  BY <1>4, PeekTyped
<1>6. PayloadOf(g, w, b, s) \in [0..(Load(b) - 1) -> Values(g)]
  BY <1>3, <1>5 DEF PayloadOf
<1> QED
  BY <1>6 DEF w, b

\* A rank's memories have their values.
LEMMA HasRunTyped ==
  ASSUME NEW g, NEW p, NEW r \in RanksOf(g), NEW c, NEW op, NEW ow, NEW m, NEW s,
         PlanOK(g, p), RankInv(g, p, r, c, op, ow), HasRun(g, p, r, c, op, ow, m, s)
  PROVE  m \in [LocalCells(g) -> Values(g)] /\ s \in [ScratchCells(g) -> Values(g)]
<1> DEFINE w == Lockstep(g, p)[c - 1]
           b == p[c]
<1>1. Len(p) \in Nat /\ c \in 1..(Len(p) + 1)
  BY DEF PlanOK, RankInv
<1>2. w \in Memories(g)
  <2>1. c - 1 \in 0..Len(p)
    BY <1>1
  <2> QED
    BY <2>1, LockstepIs
<1>3. w.mem[r] \in [LocalCells(g) -> Values(g)] /\ w.scratch[r] \in [ScratchCells(g) -> Values(g)]
  BY <1>2 DEF Memories
<1>4. m = w.mem[r]
  BY DEF HasRun
<1>5. CASE ~op
  BY <1>3, <1>4, <1>5 DEF HasRun
<1>6. CASE op /\ ~(Receives(r, b) /\ "recv" \notin ow)
  <2>1. s = PackedIn(g, w, b, r)
    BY <1>6 DEF HasRun
  <2> HIDE DEF w, b
  <2> QED
    BY <1>3, <1>4, <2>1, PackTyped DEF PackedIn
<1>7. CASE op /\ Receives(r, b) /\ "recv" \notin ow
  <2>1. s = ScratchAfter(g, w, b, r)
    BY <1>7 DEF HasRun
  <2>2. c \in 1..Len(p) /\ b.exec # "solve"
    BY <1>1, <1>7 DEF RankInv, Joins
  <2>3. Lockstep(g, p)[c].scratch[r] = ScratchAfter(g, w, b, r)
    BY <2>2, AfterBatch
  <2>4. Lockstep(g, p)[c] \in Memories(g)
    <3>1. c \in 0..Len(p)
      BY <2>2
    <3> QED
      BY <3>1, LockstepIs
  <2> QED
    BY <1>3, <1>4, <2>1, <2>3, <2>4 DEF Memories
<1> QED
  BY <1>5, <1>6, <1>7

\* A message in flight is that of a batch from its sender.
LEMMA InFlightIs ==
  ASSUME NEW s \in Ranks, NEW t \in Ranks, RunInv, Planned,
         NEW i \in DOMAIN chan[<<s, t>>]
  PROVE  /\ chan[<<s, t>>][i].at \in 1..Len(plan)
         /\ chan[<<s, t>>][i] = MessageAt(geo, plan, s, chan[<<s, t>>][i].at)
         /\ Carries(plan[chan[<<s, t>>][i].at], s, t)
<1> DEFINE q == chan[<<s, t>>]
           I == Flying(plan, s, t, Standing(s), Standing(t))
<1>1. Queue(geo, plan, s, I, q)
  BY DEF RunInv, PairsRun, PairOK
<1>2. DOMAIN plan = 1..Len(plan)
  BY OfRank
<1>3. \A k \in I : k \in 1..Len(plan) /\ Carries(plan[k], s, t)
  BY <1>2 DEF Flying
<1>4. i \in 1..Len(q)
  <2> DEFINE S == {MessageAt(geo, plan, s, k) : k \in I}
  <2>1. q \in Seq(S)
    BY <1>1 DEF Queue
  <2> HIDE DEF S
  <2> QED
    BY <2>1, LenProperties
<1> HIDE DEF I, q
<1>5. q[i].at \in I /\ q[i] = MessageAt(geo, plan, s, q[i].at)
  BY <1>1, <1>4, QueueAt
<1> QED
  BY <1>3, <1>5 DEF q

\* Lockstep is typed, so the memories are.
LEMMA TypesFollow == Planned /\ RunInv => TypeOK
<1> SUFFICES ASSUME Planned, RunInv PROVE TypeOK
  OBVIOUS
<1>1. Shapes /\ geo \in Geometries /\ depth \in BufferDepths
  BY DEF RunInv, Shapes
<1>2. Cells = Values(geo)
  BY DEF Cells, Values, Entries, EntriesOf
<1>3. \A r \in Ranks : /\ pos[r] \in 1..(Len(plan) + 1)
                       /\ owes[r] \in SUBSET {"send", "recv"} /\ open[r] \in BOOLEAN
  BY OfRank DEF RankInv
<1>4. pos \in [Ranks -> 1..planEnd] /\ owes \in [Ranks -> SUBSET {"send", "recv"}]
      /\ open \in [Ranks -> BOOLEAN]
  <2>1. pos \in [Ranks -> 1..planEnd]
    BY <1>1, <1>3 DEF Shapes, planEnd
  <2>2. owes \in [Ranks -> SUBSET {"send", "recv"}]
    BY <1>1, <1>3 DEF Shapes
  <2>3. open \in [Ranks -> BOOLEAN]
    BY <1>1, <1>3, Zenon DEF Shapes
  <2> QED
    BY <2>1, <2>2, <2>3
<1>5. mem \in [Ranks -> [0..(geo.rows * geo.cols - 1) -> Cells]]
      /\ scratch \in [Ranks -> [0..(geo.scratch - 1) -> Cells]]
  <2>1. \A r \in Ranks : /\ mem[r] \in [LocalCells(geo) -> Values(geo)]
                         /\ scratch[r] \in [ScratchCells(geo) -> Values(geo)]
    <3> TAKE r \in Ranks
    <3>1. /\ r \in RanksOf(geo) /\ PlanOK(geo, plan)
          /\ RankInv(geo, plan, r, pos[r], open[r], owes[r])
          /\ HasRun(geo, plan, r, pos[r], open[r], owes[r], mem[r], scratch[r])
      BY OfRank
    <3> QED
      BY <3>1, HasRunTyped
  <2> HIDE DEF Values
  <2>2. mem = [r \in Ranks |-> mem[r]] /\ scratch = [r \in Ranks |-> scratch[r]]
    BY <1>1 DEF Shapes
  <2> QED
    BY <1>2, <2>1, <2>2, Zenon DEF LocalCells, ScratchCells
<1>6. ASSUME NEW p \in Ranks \X Ranks, NEW i \in DOMAIN chan[p]
      PROVE  /\ chan[p][i].at \in DOMAIN plan
             /\ \E n \in 1..geo.scratch : chan[p][i].data \in [0..(n - 1) -> Cells]
  <2>1. PICK s \in Ranks, t \in Ranks : p = <<s, t>>
    OBVIOUS
  <2> DEFINE k == chan[p][i].at
             b == plan[k]
  <2>2. /\ k \in 1..Len(plan) /\ chan[p][i] = MessageAt(geo, plan, s, k)
        /\ Carries(b, s, t)
    BY <1>6, <2>1, InFlightIs
  <2>3. /\ s \in RanksOf(geo) /\ PlanOK(geo, plan) /\ GeometryOK(geo)
        /\ DOMAIN plan = 1..Len(plan)
    BY <2>1, OfRank
  <2>4. chan[p][i].data = PayloadOf(geo, Lockstep(geo, plan)[k - 1], b, s)
    BY <2>2 DEF MessageAt
  <2> HIDE DEF k
  <2>5. PayloadOf(geo, Lockstep(geo, plan)[k - 1], b, s) \in [0..(Load(b) - 1) -> Values(geo)]
    BY <2>2, <2>3, PayloadTyped DEF Carries
  <2>6. BatchOK(geo, b)
    BY <2>2, <2>3, EntryIs DEF Carries
  <2>7. Load(b) \in 1..geo.scratch
    <3>1. /\ PackBase(geo, b) \in Nat /\ PackBase(geo, b) + Load(b) <= geo.scratch
          /\ Load(b) \in Nat \ {0}
      BY <2>3, <2>6, Bases
    <3>2. geo.scratch \in Nat
      BY <2>3 DEF GeometryOK
    <3> QED
      BY <3>1, <3>2
  <2>8. chan[p][i].data \in [0..(Load(b) - 1) -> Cells]
    BY <1>2, <2>4, <2>5
  <2>9. k \in DOMAIN plan
    BY <2>2, <2>3
  <2> QED
    BY <2>7, <2>8, <2>9 DEF k
<1> QED
  BY <1>1, <1>4, <1>5, <1>6 DEF TypeOK

\* The oldest message to a rank that waits for it is that of the rank's batch.
LEMMA HeadHere ==
  ASSUME NEW s \in Ranks, NEW r \in Ranks, RunInv, Planned, "recv" \in owes[r],
         RecvStep(r, plan[pos[r]]).from = s, chan[<<s, r>>] # <<>>
  PROVE  /\ Head(chan[<<s, r>>]) = MessageAt(geo, plan, s, pos[r])
         /\ DOMAIN Head(chan[<<s, r>>]).data = 0..(GroupCount(r, plan[pos[r]]) - 1)
<1> DEFINE c == pos[r]
           b == plan[c]
           ow == owes[r]
           q == chan[<<s, r>>]
<1>1. r \in RanksOf(geo) /\ Ranks = RanksOf(geo) /\ PlanOK(geo, plan) /\ Len(plan) \in Nat
  BY OfRank
<1>2. "recv" \in ow /\ q # <<>> /\ RecvStep(r, b).from = s
  OBVIOUS
<1>3. c \in 1..Len(plan) /\ open[r] = TRUE /\ BatchOK(geo, b) /\ Joins(r, b)
      /\ "recv" \in Halves(r, b)
  BY <1>2, Owing
<1>4. RecvsOf(r, b) # {} /\ ~IsLocal(r, b)
  BY <1>3 DEF Joins, Halves
<1>5. Carries(b, s, r)
  <2> HIDE DEF b, q
  <2> QED
    BY <1>1, <1>2, <1>3, <1>4, CarriesIs
<1> HIDE DEF c, b, ow, q
<1>6. Head(q) = MessageAt(geo, plan, s, c)
      /\ PairOK(geo, plan, s, r, Standing(s), At(c, TRUE, ow \ {"recv"}), Tail(q))
  <2>1. PairOK(geo, plan, s, r, Standing(s), At(c, TRUE, ow), q)
    <3>1. PairOK(geo, plan, s, r, Standing(s), Standing(r), chan[<<s, r>>])
      BY DEF RunInv, PairsRun
    <3>2. Standing(r) = At(c, TRUE, ow)
      BY <1>3 DEF Standing, c, ow
    <3> QED
      BY <3>1, <3>2 DEF q
  <2>2. Standing(s).pos \in Nat
    <3>1. pos[s] \in 1..(Len(plan) + 1)
      BY OfRank
    <3> QED
      BY <1>1, <3>1 DEF Standing, At
  <2>3. Carries(plan[c], s, r)
    BY <1>5 DEF b
  <2>4. Takes(plan, c, At(c, TRUE, ow), At(c, TRUE, ow \ {"recv"}))
    BY <1>1, <1>2, <1>3, TakesHere
  <2> QED
    BY <1>1, <1>2, <1>3, <2>1, <2>2, <2>3, <2>4, PairTakes
<1>7. GroupCount(s, b) = Load(b) /\ GroupCount(r, b) = Load(b)
  BY <1>1, <1>3, <1>4, <1>5, CountIsLoad DEF Carries
<1>8. DOMAIN Head(q).data = 0..(GroupCount(r, b) - 1)
  BY <1>6, <1>7 DEF MessageAt, PayloadOf, b
<1> QED
  BY <1>6, <1>8 DEF q, b, c

\* The payloads in flight are those of the receiver's own batches, in order.
LEMMA MatchFollows == Planned /\ RunInv => ExchangeMatched
<1> SUFFICES ASSUME Planned, RunInv, NEW p \in Ranks \X Ranks,
                    chan[p] # <<>>, AwaitsFrom(p[2], p[1])
             PROVE  /\ Head(chan[p]).at = pos[p[2]]
                    /\ DOMAIN Head(chan[p]).data
                         = 0..(GroupCount(p[2], plan[pos[p[2]]]) - 1)
  BY DEF ExchangeMatched
<1>1. PICK s \in Ranks, r \in Ranks : p = <<s, r>>
  OBVIOUS
<1>2. "recv" \in owes[r] /\ RecvStep(r, plan[pos[r]]).from = s /\ chan[<<s, r>>] # <<>>
  BY <1>1 DEF AwaitsFrom
<1>3. /\ Head(chan[<<s, r>>]) = MessageAt(geo, plan, s, pos[r])
      /\ DOMAIN Head(chan[<<s, r>>]).data = 0..(GroupCount(r, plan[pos[r]]) - 1)
  BY <1>2, HeadHere
<1>4. Head(chan[<<s, r>>]).at = pos[r]
  BY <1>3 DEF MessageAt
<1> QED
  BY <1>1, <1>3, <1>4

\* A batch of the plan is one its executor takes.
LEMMA AcceptsFollow == Planned /\ RunInv => ExecutorAccepts
<1> SUFFICES ASSUME Planned, RunInv, NEW r \in Ranks, AtBatch(r)
             PROVE  LET b == Batch(r)
                    IN  /\ b.exec = "edge" /\ SendsOf(r, b) # {} /\ RecvsOf(r, b) # {}
                             => IsLocal(r, b)
                        /\ GroupCount(r, b) <= IF b.exec = "edge" THEN geo.scratch
                                               ELSE RequiredCyclicSlotElements(geo)
  BY DEF ExecutorAccepts
<1> DEFINE b == plan[pos[r]]
<1>1. /\ r \in RanksOf(geo) /\ PlanOK(geo, plan) /\ GeometryOK(geo)
      /\ RankInv(geo, plan, r, pos[r], open[r], owes[r])
  BY OfRank
<1>2. pos[r] \in DOMAIN plan /\ b.exec # "solve"
  BY DEF AtBatch, Batch
<1>3. BatchOK(geo, b) /\ (SendsOf(r, b) # {} \/ RecvsOf(r, b) # {})
  BY <1>1, <1>2, AtABatch
<1> HIDE DEF b
<1>4. ASSUME b.exec = "edge", SendsOf(r, b) # {}, RecvsOf(r, b) # {}
      PROVE  IsLocal(r, b)
  <2>1. OneWay(b)
    BY <1>3, <1>4 DEF BatchOK
  <2>2. PICK i \in DOMAIN b.steps : /\ SendStep(r, b) = b.steps[i]
                                    /\ b.steps[i].from = r
                                    /\ StepOK(geo, b.kind, b.steps[i], Load(b))
    BY <1>3, <1>4, Sender
  <2>3. PICK j \in DOMAIN b.steps : b.steps[j].to = r
    BY <1>4 DEF RecvsOf
  <2>4. b.steps[i].to = b.steps[i].from
    BY <2>1, <2>2, <2>3 DEF OneWay
  <2> QED
    BY <1>4, <2>2, <2>4 DEF IsLocal
<1>5. GroupCount(r, b) = Load(b) /\ Load(b) \in 1..Limit(geo, b.exec)
  BY <1>1, <1>3, CountIsLoad DEF BatchOK
<1>6. Limit(geo, b.exec) \in Nat
  BY <1>1, Slots DEF Limit
<1>7. GroupCount(r, b) <= Limit(geo, b.exec)
  BY <1>5, <1>6
<1>8. Batch(r) = b
  BY DEF Batch, b
<1> QED
  BY <1>4, <1>7, <1>8 DEF Limit

\* Packing for a slab batch that is not a save leaves the saved slot alone.
LEMMA PackedSpares ==
  ASSUME NEW r \in Ranks, RunInv, Planned, AtBatch(r), NEW b, b = Batch(r),
         b.exec # "edge", b.kind # Save, NEW k \in 0..(RequiredCyclicSlotElements(geo) - 1)
  PROVE  PackedScratch(r, b)[SavedSlot(geo) + k] = scratch[r][SavedSlot(geo) + k]
<1>1. /\ r \in RanksOf(geo) /\ PlanOK(geo, plan) /\ GeometryOK(geo)
      /\ RankInv(geo, plan, r, pos[r], open[r], owes[r])
      /\ HasRun(geo, plan, r, pos[r], open[r], owes[r], mem[r], scratch[r])
  BY OfRank
<1>2. BatchOK(geo, b) /\ b.exec # "solve" /\ b = plan[pos[r]]
  <2>1. pos[r] \in DOMAIN plan /\ plan[pos[r]].exec # "solve" /\ b = plan[pos[r]]
    BY DEF AtBatch, Batch
  <2> QED
    BY <1>1, <2>1, AtABatch
<1>3. scratch[r] \in [ScratchCells(geo) -> Values(geo)]
  BY <1>1, HasRunTyped
<1>4. SavedSlot(geo) = 0 /\ RequiredCyclicSlotElements(geo) \in Nat
      /\ 3 * RequiredCyclicSlotElements(geo) <= geo.scratch /\ geo.scratch \in Nat
  BY <1>1, Slots
<1>5. SavedSlot(geo) + k \in DOMAIN scratch[r] /\ SavedSlot(geo) + k = k
  BY <1>3, <1>4 DEF ScratchCells
<1>6. CASE SendsOf(r, b) # {} /\ b.kind # Restore
  <2>1. b.kind = Move
    BY <1>2, <1>6 DEF BatchOK
  <2>2. RequiredCyclicSlotElements(geo) <= PackBase(geo, b) /\ PackBase(geo, b) \in Nat
    BY <1>1, <1>2, <2>1, Bases
  <2>3. k - PackBase(geo, b) \notin 0..(Size(SendStep(r, b).source) - 1)
    BY <1>4, <2>2
  <2>4. PackedScratch(r, b)
          = PackRect(geo, SendStep(r, b).source, mem[r], scratch[r], PackBase(geo, b))
    BY <1>6 DEF PackedScratch
  <2>5. PackRect(geo, SendStep(r, b).source, mem[r], scratch[r], PackBase(geo, b))[k]
          = scratch[r][k]
    BY <1>5, <2>3, PackKeeps
  <2> QED
    BY <1>5, <2>4, <2>5
<1>7. CASE ~(SendsOf(r, b) # {} /\ b.kind # Restore)
  <2>1. PackedScratch(r, b) = scratch[r]
    BY <1>7 DEF PackedScratch
  <2> QED
    BY <2>1
<1> QED
  BY <1>6, <1>7

\* So does receiving for one.
LEMMA ReceiveSpares ==
  ASSUME NEW r \in Ranks, RunInv, Planned, AtBatch(r), NEW b, b = Batch(r),
         b.exec # "edge", NEW k \in 0..(RequiredCyclicSlotElements(geo) - 1), NEW data
  PROVE  DOMAIN data \subseteq Nat
           => Landed(geo, scratch[r], b, data)[SavedSlot(geo) + k]
                = scratch[r][SavedSlot(geo) + k]
<1>1. /\ r \in RanksOf(geo) /\ PlanOK(geo, plan) /\ GeometryOK(geo)
      /\ RankInv(geo, plan, r, pos[r], open[r], owes[r])
      /\ HasRun(geo, plan, r, pos[r], open[r], owes[r], mem[r], scratch[r])
  BY OfRank
<1>2. BatchOK(geo, b) /\ b.exec # "solve" /\ b = plan[pos[r]]
  <2>1. pos[r] \in DOMAIN plan /\ plan[pos[r]].exec # "solve" /\ b = plan[pos[r]]
    BY DEF AtBatch, Batch
  <2> QED
    BY <1>1, <2>1, AtABatch
<1>3. scratch[r] \in [ScratchCells(geo) -> Values(geo)]
  BY <1>1, HasRunTyped
<1>4. SavedSlot(geo) = 0 /\ RequiredCyclicSlotElements(geo) \in Nat
      /\ 3 * RequiredCyclicSlotElements(geo) <= geo.scratch /\ geo.scratch \in Nat
  BY <1>1, Slots
<1>5. SavedSlot(geo) + k \in DOMAIN scratch[r] /\ SavedSlot(geo) + k = k
  BY <1>3, <1>4 DEF ScratchCells
<1>6. RequiredCyclicSlotElements(geo) <= RecvBase(geo, b) /\ RecvBase(geo, b) \in Nat
  BY <1>1, <1>2, Bases
<1>7. k - RecvBase(geo, b) \notin Nat
  BY <1>4, <1>6
<1>8. ASSUME DOMAIN data \subseteq Nat
      PROVE  Landed(geo, scratch[r], b, data)[k] = scratch[r][k]
  <2>1. k - RecvBase(geo, b) \notin DOMAIN data
    BY <1>7, <1>8
  <2> QED
    BY <1>5, <2>1 DEF Landed
<1> QED
  BY <1>5, <1>8

\* What rank r has in its saved slot changes only while the rank is at an edge
\* batch or at a save of its own.
MayFill(r) == AtBatch(r) /\ (Batch(r).exec = "edge" \/ Saves(Batch(r), r))

Spares(r) ==
  (\E k \in 0..(RequiredCyclicSlotElements(geo) - 1) :
     scratch'[r][SavedSlot(geo) + k] # scratch[r][SavedSlot(geo) + k])
    => MayFill(r)

\* From a state of lockstep no step does more.
LEMMA SlabFollows == Planned /\ RunInv /\ [Next]_vars => \A r \in Ranks : Spares(r)
<1> SUFFICES ASSUME Planned, RunInv, [Next]_vars, NEW r \in Ranks, ~MayFill(r),
                    NEW k \in 0..(RequiredCyclicSlotElements(geo) - 1)
             PROVE  scratch'[r][SavedSlot(geo) + k] = scratch[r][SavedSlot(geo) + k]
  BY DEF Spares
<1>1. Shapes
  BY DEF RunInv
<1>2. CASE scratch' = scratch
  BY <1>2
<1>3. ASSUME NEW u \in Ranks, NEW a, scratch' = [scratch EXCEPT ![u] = a], u # r
      PROVE  scratch' [r] = scratch[r]
  BY <1>1, <1>3 DEF Shapes
<1>4. ASSUME NEW u \in Ranks, SaveSlab(u)
      PROVE  scratch'[r][SavedSlot(geo) + k] = scratch[r][SavedSlot(geo) + k]
  <2>1. scratch' = [scratch EXCEPT ![u] = PackedScratch(u, Batch(u))]
        /\ AtBatch(u) /\ Batch(u).kind = Save
    BY <1>4 DEF SaveSlab
  <2>2. CASE u # r
    BY <1>3, <2>1, <2>2
  <2>3. CASE u = r
    <3>1. SendsOf(r, Batch(r)) = {}
      BY <2>1, <2>3 DEF MayFill, Saves
    <3>2. PackedScratch(r, Batch(r)) = scratch[r]
      BY <3>1 DEF PackedScratch
    <3> QED
      BY <1>1, <2>1, <2>3, <3>2 DEF Shapes
  <2> QED
    BY <2>2, <2>3
<1>5. ASSUME NEW u \in Ranks, LocalMove(u) \/ Post(u)
      PROVE  scratch'[r][SavedSlot(geo) + k] = scratch[r][SavedSlot(geo) + k]
  <2>1. scratch' = [scratch EXCEPT ![u] = PackedScratch(u, Batch(u))]
        /\ AtBatch(u) /\ Batch(u).kind # Save
    BY <1>5 DEF LocalMove, Post
  <2>2. CASE u # r
    BY <1>3, <2>1, <2>2
  <2>3. CASE u = r
    <3>1. scratch'[r] = PackedScratch(r, Batch(r))
      BY <1>1, <2>1, <2>3 DEF Shapes
    <3>2. AtBatch(r) /\ Batch(r).exec # "edge" /\ Batch(r).kind # Save
      BY <2>1, <2>3 DEF MayFill
    <3>3. PackedScratch(r, Batch(r))[SavedSlot(geo) + k] = scratch[r][SavedSlot(geo) + k]
      BY <3>2, PackedSpares, SMTT(60)
    <3> QED
      BY <3>1, <3>3
  <2> QED
    BY <2>2, <2>3
<1>6. ASSUME NEW u \in Ranks, Receive(u)
      PROVE  scratch'[r][SavedSlot(geo) + k] = scratch[r][SavedSlot(geo) + k]
  <2> DEFINE b == plan[pos[u]]
             s == RecvStep(u, b).from
             data == Head(chan[<<s, u>>]).data
  <2>1. scratch' = [scratch EXCEPT ![u] = Landed(geo, scratch[u], b, data)]
        /\ "recv" \in owes[u] /\ chan[<<s, u>>] # <<>>
    BY <1>1, <1>6 DEF Receive, Landed, Shapes
  <2>2. CASE u # r
    BY <1>3, <2>1, <2>2
  <2>3. CASE u = r
    <3>1. scratch'[r] = Landed(geo, scratch[r], b, data)
      BY <1>1, <2>1, <2>3 DEF Shapes
    <3>2. /\ pos[u] \in 1..Len(plan) /\ open[u] = TRUE /\ BatchOK(geo, b) /\ Joins(u, b)
          /\ "recv" \in Halves(u, b)
      BY <2>1, Owing
    <3>3. u \in RanksOf(geo) /\ Ranks = RanksOf(geo) /\ DOMAIN plan = 1..Len(plan)
      BY OfRank
    <3>4. RecvsOf(u, b) # {}
      BY <3>2 DEF Halves
    <3>5. s \in Ranks
      BY <3>2, <3>3, <3>4, Partner
    <3>6. DOMAIN data = 0..(GroupCount(u, b) - 1)
      BY <2>1, <3>5, HeadHere
    <3>7. DOMAIN data \subseteq Nat
      <4>1. GroupCount(u, b) = Load(b) /\ GeometryOK(geo)
        BY <3>2, <3>3, <3>4, CountIsLoad, OfRank
      <4>2. Load(b) \in Nat
        BY <3>2, <4>1, Bases
      <4> HIDE DEF data, b
      <4> QED
        BY <3>6, <4>1, <4>2
    <3>8. AtBatch(r) /\ b = Batch(r) /\ b.exec # "edge"
      <4>1. AtBatch(r) /\ b = Batch(r)
        BY <2>3, <3>2, <3>3 DEF AtBatch, Batch, Joins
      <4> QED
        BY <4>1 DEF MayFill
    <3> HIDE DEF b, data
    <3>9. Landed(geo, scratch[r], b, data)[SavedSlot(geo) + k] = scratch[r][SavedSlot(geo) + k]
      BY <3>7, <3>8, ReceiveSpares
    <3> QED
      BY <3>1, <3>9
  <2> QED
    BY <2>2, <2>3
<1>7. CASE UNCHANGED vars
  BY <1>2, <1>7 DEF vars
<1>8. ASSUME NEW u \in Ranks, RankStep(u)
      PROVE  scratch'[r][SavedSlot(geo) + k] = scratch[r][SavedSlot(geo) + k]
  <2>1. ASSUME Send(u) \/ CompleteGroup(u) PROVE scratch' = scratch
    BY <2>1 DEF Send, CompleteGroup
  <2> QED
    BY <1>2, <1>4, <1>5, <1>6, <1>8, <2>1 DEF RankStep
<1>9. CASE Solve
  BY <1>2, <1>9 DEF Solve
<1> QED
  BY <1>7, <1>8, <1>9 DEF Next, Terminated

(***************************************************************************)
(* Sequences put together.                                                 *)
(***************************************************************************)
\* f is a recursion over 1..n that starts at 1, over the values V.
FromOne(f, n, V, first, F) ==
  /\ f \in [1..n -> V]
  /\ \A k \in 1..n : f[k] = IF k = 1 THEN first ELSE F[<<k, f[k - 1]>>]

\* w satisfies its equations wherever the value before is one of V's.
FollowsFromOne(w, n, V, first, F) ==
  /\ w[1] = first
  /\ \A k \in 2..n : w[k - 1] \in V => w[k] = F[<<k, w[k - 1]>>]

\* It has a solution, and what follows its equations has values of V.
LEMMA RecursionFromOne ==
  ASSUME NEW n \in Nat \ {0}, NEW V, NEW first \in V, NEW F \in [(1..n) \X V -> V]
  PROVE  /\ \E f : FromOne(f, n, V, first, F)
         /\ \A w : FollowsFromOne(w, n, V, first, F) => \A k \in 1..n : w[k] \in V
<1> DEFINE G == [x \in Nat \X V |-> IF x[1] \in 1..(n - 1) THEN F[<<x[1] + 1, x[2]>>] ELSE x[2]]
<1>1. G \in [Nat \X V -> V]
  <2>1. \A x \in Nat \X V : x[2] \in V /\ x[1] \in Nat
    OBVIOUS
  <2>2. \A x \in Nat \X V : x[1] \in 1..(n - 1) => <<x[1] + 1, x[2]>> \in (1..n) \X V
    BY <2>1
  <2> QED
    BY <2>1, <2>2
<1>2. \A k \in 1..(n - 1), v \in V : G[<<k, v>>] = F[<<k + 1, v>>]
  <2> TAKE k \in 1..(n - 1), v \in V
  <2>1. <<k, v>> \in Nat \X V
    OBVIOUS
  <2> QED
    BY <2>1
<1> HIDE DEF G
<1>3. n - 1 \in Nat
  OBVIOUS
<1>4. Recursion(n - 1, V, first, G)
  BY <1>1, <1>3 DEF Recursion
<1>5. PICK h \in [0..(n - 1) -> V] :
        h = [k \in 0..(n - 1) |-> IF k = 0 THEN first ELSE G[<<k, h[k - 1]>>]]
  <2>1. ASSUME NEW N, Recursion(N, V, first, G)
        PROVE  \E h \in [0..N -> V] :
                 h = [k \in 0..N |-> IF k = 0 THEN first ELSE G[<<k, h[k - 1]>>]]
    BY <2>1, RecursionExists
  <2> QED
    BY <1>4, <2>1, Zenon
<1> DEFINE f == [k \in 1..n |-> h[k - 1]]
<1>6. f \in [1..n -> V]
  <2>1. \A k \in 1..n : k - 1 \in 0..(n - 1)
    OBVIOUS
  <2> QED
    BY <1>5, <2>1
<1>7. \A k \in 1..n : f[k] = IF k = 1 THEN first ELSE F[<<k, f[k - 1]>>]
  <2>1. \A k \in 1..n : f[k] = IF k = 1 THEN first ELSE F[<<k, f[k - 1]>>]
    <3> TAKE k \in 1..n
    <3>1. CASE k = 1
      <4>1. f[k] = h[0] /\ 0 \in 0..(n - 1)
        BY <3>1
      <4>2. h[0] = first
        BY <1>5, <4>1
      <4> QED
        BY <3>1, <4>1, <4>2
    <3>2. CASE k # 1
      <4>1. k - 1 \in 1..(n - 1) /\ k - 1 \in 0..(n - 1) /\ k - 1 # 0 /\ (k - 1) - 1 \in 0..(n - 1)
            /\ k - 1 \in 1..n /\ (k - 1) + 1 = k
        BY <3>2
      <4>2. f[k] = h[k - 1] /\ f[k - 1] = h[(k - 1) - 1]
        BY <4>1
      <4>3. h[k - 1] = G[<<k - 1, h[(k - 1) - 1]>>]
        BY <1>5, <4>1
      <4>4. h[(k - 1) - 1] \in V
        BY <1>5, <4>1
      <4>5. G[<<k - 1, h[(k - 1) - 1]>>] = F[<<k, h[(k - 1) - 1]>>]
        BY <1>2, <4>1, <4>4
      <4> HIDE DEF f
      <4> QED
        BY <3>2, <4>2, <4>3, <4>5
    <3> QED
      BY <3>1, <3>2
  <2> QED
    BY <2>1
<1>8. ASSUME NEW w, FollowsFromOne(w, n, V, first, F)
      PROVE  \A k \in 1..n : w[k] \in V
  <2>0. /\ w[1] = first
        /\ \A k \in 2..n : w[k - 1] \in V => w[k] = F[<<k, w[k - 1]>>]
    BY <1>8 DEF FollowsFromOne
  <2> DEFINE u == [k \in 0..(n - 1) |-> w[k + 1]]
  <2>1. u[0] = first
    BY <1>3, <2>0
  <2>2. \A k \in 1..(n - 1) : u[k - 1] \in V => u[k] = G[<<k, u[k - 1]>>]
    <3> TAKE k \in 1..(n - 1)
    <3>1. k \in 0..(n - 1) /\ k - 1 \in 0..(n - 1) /\ (k - 1) + 1 = k /\ k + 1 \in 2..n
          /\ (k + 1) - 1 = k
      OBVIOUS
    <3>2. u[k] = w[k + 1] /\ u[k - 1] = w[k]
      BY <3>1
    <3>3. w[k] \in V => w[k + 1] = F[<<k + 1, w[k]>>]
      BY <2>0, <3>1
    <3> HIDE DEF u
    <3> QED
      BY <1>2, <3>2, <3>3
  <2> HIDE DEF u
  <2>3. \A k \in 0..(n - 1) : u[k] \in V
    BY <1>4, <2>1, <2>2, RecursionTyped
  <2>4. \A k \in 1..n : k - 1 \in 0..(n - 1) /\ u[k - 1] = w[k]
    <3> TAKE k \in 1..n
    <3>1. k - 1 \in 0..(n - 1) /\ (k - 1) + 1 = k
      OBVIOUS
    <3> QED
      BY <3>1 DEF u
  <2> QED
    BY <2>3, <2>4
<1> HIDE DEF f
<1>9. FromOne(f, n, V, first, F)
  BY <1>6, <1>7 DEF FromOne
<1> QED
  BY <1>8, <1>9

\* Sequences over S, one after the other, are one over S.
LEMMA FlattenTyped ==
  ASSUME NEW S, NEW n \in Nat, NEW seqs \in [1..n -> Seq(S)]
  PROVE  FlattenSeq(seqs) \in Seq(S)
<1> DEFINE V == Seq(S)
           F == [x \in (1..n) \X V |-> x[2] \o seqs[x[1]]]
           Step1(w) == [i \in 1..Len(seqs) |-> IF i = 1 THEN seqs[i] ELSE w[i - 1] \o seqs[i]]
           flat == CHOOSE w : w = Step1(w)
<1>1. Len(seqs) = n /\ \A i \in 1..n : seqs[i] \in V
  <2>1. \A i \in 1..n : seqs[i] \in V
    OBVIOUS
  <2> HIDE DEF V
  <2> QED
    BY <2>1, SeqIntro
<1>2. FlattenSeq(seqs) = IF Len(seqs) = 0 THEN seqs ELSE flat[Len(seqs)]
  BY DEF FlattenSeq
<1> HIDE DEF flat
<1>3. CASE n = 0
  <2>1. seqs \in [1..0 -> S]
    BY <1>3
  <2>2. seqs \in Seq(S)
    BY <2>1, SeqIntro
  <2> QED
    BY <1>1, <1>2, <1>3, <2>2
<1>4. CASE n # 0
  <2>1. n \in Nat \ {0}
    BY <1>4
  <2>2. \A s, t \in V : s \o t \in V
    BY ConcatProperties
  <2> HIDE DEF V
  <2>3. F \in [(1..n) \X V -> V]
    BY <1>1, <2>2
  <2>4. \A k \in 1..n, v \in V : F[<<k, v>>] = v \o seqs[k]
    <3> TAKE k \in 1..n, v \in V
    <3>1. <<k, v>> \in (1..n) \X V
      OBVIOUS
    <3> QED
      BY <3>1
  <2> HIDE DEF F
  <2>5. seqs[1] \in V
    BY <1>1, <2>1
  <2>6. PICK f : FromOne(f, n, V, seqs[1], F)
    BY <2>1, <2>3, <2>5, RecursionFromOne
  <2>7. f = Step1(f)
    <3>1. \A k \in 1..n : (IF k = 1 THEN seqs[1] ELSE F[<<k, f[k - 1]>>])
                          = (IF k = 1 THEN seqs[k] ELSE f[k - 1] \o seqs[k])
      <4> TAKE k \in 1..n
      <4>1. k # 1 => k - 1 \in 1..n /\ f[k - 1] \in V
        BY <2>6 DEF FromOne
      <4> QED
        BY <2>4, <4>1
    <3>2. f = [k \in 1..n |-> IF k = 1 THEN seqs[k] ELSE f[k - 1] \o seqs[k]]
      <4>1. f \in [1..n -> V]
            /\ \A k \in 1..n : f[k] = IF k = 1 THEN seqs[k] ELSE f[k - 1] \o seqs[k]
        BY <2>6, <3>1 DEF FromOne
      <4> QED
        BY <4>1
    <3> QED
      BY <1>1, <3>2
  <2>8. flat = Step1(flat)
    <3> HIDE DEF Step1
    <3> QED
      BY <2>7 DEF flat
  <2>9. \A k \in 1..n : flat[k] = IF k = 1 THEN seqs[k] ELSE flat[k - 1] \o seqs[k]
    BY <1>1, <2>8
  <2>10. flat[1] = seqs[1] /\ \A k \in 2..n : flat[k - 1] \in V => flat[k] = F[<<k, flat[k - 1]>>]
    <3>1. 1 \in 1..n
      BY <2>1
    <3>2. \A k \in 2..n : k \in 1..n /\ k # 1
      BY <2>1
    <3> QED
      BY <2>4, <2>9, <3>1, <3>2
  <2>11. \A k \in 1..n : flat[k] \in V
    <3>1. FollowsFromOne(flat, n, V, seqs[1], F)
      BY <2>10 DEF FollowsFromOne
    <3> QED
      BY <3>1, <2>1, <2>3, <2>5, <2>10, RecursionFromOne
  <2>12. n \in 1..n
    BY <2>1
  <2> QED
    BY <1>1, <1>2, <2>1, <2>11, <2>12 DEF V
<1> QED
  BY <1>3, <1>4

(***************************************************************************)
(* Sets in order.                                                          *)
(***************************************************************************)
\* R orders S strictly.
StrictOrder(S, R) ==
  /\ \A x \in S : <<x, x>> \notin R
  /\ \A x, y \in S : x # y => <<x, y>> \in R \/ <<y, x>> \in R
  /\ \A x, y, z \in S : <<x, y>> \in R /\ <<y, z>> \in R => <<x, z>> \in R

\* Every place in an order of S is some element's.
Placed(S, R) ==
  \A i \in 1..Cardinality(S) : \E x \in S : Cardinality({y \in S : <<y, x>> \in R}) = i - 1

\* In a finite set it is.
LEMMA PlacesTaken ==
  ASSUME NEW S, NEW R, IsFiniteSet(S), StrictOrder(S, R)
  PROVE  Placed(S, R)
<1> DEFINE Below(x) == {y \in S : <<y, x>> \in R}
           n == Cardinality(S)
           f == [x \in S |-> Cardinality(Below(x))]
<1>1. n \in Nat
  BY FS_CardinalityType
<1>2. \A x \in S : /\ IsFiniteSet(Below(x)) /\ Cardinality(Below(x)) \in 0..(n - 1)
  <2> TAKE x \in S
  <2>1. Below(x) \in SUBSET (S \ {x})
    BY DEF StrictOrder
  <2>2. IsFiniteSet(S \ {x}) /\ Cardinality(S \ {x}) = n - 1
    BY OneLess
  <2>3. IsFiniteSet(Below(x)) /\ Cardinality(Below(x)) <= n - 1
    <3> HIDE DEF Below
    <3> QED
      BY <2>1, <2>2, FS_Subset
  <2>4. Cardinality(Below(x)) \in Nat
    <3> HIDE DEF Below
    <3> QED
      BY <2>3, FS_CardinalityType
  <2> QED
    BY <1>1, <2>3, <2>4
<1>3. ASSUME NEW x \in S, NEW y \in S, <<x, y>> \in R
      PROVE  Cardinality(Below(x)) < Cardinality(Below(y))
  <2>1. Below(x) \in SUBSET Below(y) /\ x \in Below(y) /\ x \notin Below(x)
    BY <1>3 DEF StrictOrder
  <2>2. Cardinality(Below(x)) <= Cardinality(Below(y))
        /\ (Cardinality(Below(y)) = Cardinality(Below(x)) => Below(y) = Below(x))
    <3>1. IsFiniteSet(Below(y))
      BY <1>2
    <3> HIDE DEF Below
    <3> QED
      BY <2>1, <3>1, FS_Subset
  <2>3. Cardinality(Below(x)) \in 0..(n - 1) /\ Cardinality(Below(y)) \in 0..(n - 1)
    BY <1>2
  <2> HIDE DEF Below
  <2> QED
    BY <1>1, <2>1, <2>2, <2>3
<1>4. f \in [S -> 0..(n - 1)]
  BY <1>2
<1>5. \A x, y \in S : x # y => f[x] # f[y]
  <2> TAKE x, y \in S
  <2> SUFFICES ASSUME x # y PROVE f[x] # f[y]
    OBVIOUS
  <2>1. f[x] = Cardinality(Below(x)) /\ f[y] = Cardinality(Below(y))
    OBVIOUS
  <2>2. f[x] \in 0..(n - 1) /\ f[y] \in 0..(n - 1)
    BY <1>4
  <2>3. f[x] < f[y] \/ f[y] < f[x]
    <3>1. <<x, y>> \in R \/ <<y, x>> \in R
      BY DEF StrictOrder
    <3> HIDE DEF f, Below
    <3> QED
      BY <1>3, <2>1, <3>1
  <2> HIDE DEF f
  <2> QED
    BY <1>1, <2>2, <2>3
<1> DEFINE T == 0..(n - 1)
<1>6. f \in Injection(S, T)
  <2> HIDE DEF f, T
  <2>1. f \in [S -> T]
    BY <1>4 DEF T
  <2> QED
    BY <1>5, <2>1 DEF Injection, IsInjective
<1>7. IsFiniteSet(T) /\ Cardinality(T) = n
  <2>1. IsFiniteSet(0..(n - 1)) /\ Cardinality(0..(n - 1)) = IF 0 > n - 1 THEN 0 ELSE (n - 1) - 0 + 1
    <3>1. n - 1 \in Int /\ 0 \in Int
      BY <1>1
    <3> HIDE DEF n
    <3> QED
      BY <3>1, FS_Interval
  <2> HIDE DEF n
  <2> QED
    BY <1>1, <2>1
<1>8. f \in Surjection(S, T)
  <2> HIDE DEF f, T
  <2> QED
    BY <1>6, <1>7, FS_Injection
<1>9. \A t \in T : \E x \in S : f[x] = t
  <2> HIDE DEF f, T
  <2> QED
    BY <1>8 DEF Surjection
<1> SUFFICES ASSUME NEW i \in 1..Cardinality(S)
             PROVE  \E x \in S : Cardinality({y \in S : <<y, x>> \in R}) = i - 1
  BY DEF Placed
<1>10. i - 1 \in T
  BY <1>1
<1>11. PICK x \in S : f[x] = i - 1
  <2> HIDE DEF f, T
  <2> QED
    BY <1>9, <1>10
<1> QED
  BY <1>11

\* A finite set of numbers in order has its elements.
LEMMA NumbersInOrder ==
  ASSUME NEW S \in SUBSET Int, IsFiniteSet(S)
  PROVE  /\ Ordered(S, <) \in [1..Cardinality(S) -> S]
         /\ Cardinality(S) \in Nat
<1> DEFINE R == {z \in S \X S : z[1] < z[2]}
<1>1. StrictOrder(S, R)
  BY DEF StrictOrder
<1>2. \A x \in S : {y \in S : <<y, x>> \in R} = {y \in S : y < x}
  OBVIOUS
<1>3. Placed(S, R)
  <2> HIDE DEF R
  <2> QED
    BY <1>1, PlacesTaken
<1>4. \A i \in 1..Cardinality(S) : \E x \in S : Cardinality({y \in S : y < x}) = i - 1
  BY <1>2, <1>3 DEF Placed
<1> DEFINE O == [i \in 1..Cardinality(S) |->
                   CHOOSE x \in S : Cardinality({y \in S : y < x}) = i - 1]
<1>5. Ordered(S, <) = O
  BY DEF Ordered
<1>6. O \in [1..Cardinality(S) -> S]
  BY <1>4
<1> QED
  BY <1>5, <1>6, FS_CardinalityType

\* So has a finite set of rounds.
LEMMA RoundsInOrder ==
  ASSUME NEW S \in SUBSET (Int \X Int \X Int), IsFiniteSet(S)
  PROVE  /\ Ordered(S, RoundBefore) \in [1..Cardinality(S) -> S]
         /\ Cardinality(S) \in Nat
<1> DEFINE R == {z \in S \X S : RoundBefore(z[1], z[2])}
<1>1. StrictOrder(S, R)
  <2>1. \A x \in S : x \in Int \X Int \X Int
    OBVIOUS
  <2>2. \A x, y \in S : <<x, y>> \in R <=> RoundBefore(x, y)
    OBVIOUS
  <2> HIDE DEF R
  <2>3. \A x \in S : <<x, x>> \notin R
    BY <2>1, <2>2 DEF RoundBefore
  <2>4. \A x, y \in S : x # y => <<x, y>> \in R \/ <<y, x>> \in R
    <3> TAKE x, y \in S
    <3>1. PICK a \in Int, b \in Int, c \in Int : x = <<a, b, c>>
      BY <2>1
    <3>2. PICK d \in Int, e \in Int, f \in Int : y = <<d, e, f>>
      BY <2>1
    <3> QED
      BY <2>2, <3>1, <3>2 DEF RoundBefore
  <2>5. \A x, y, z \in S : <<x, y>> \in R /\ <<y, z>> \in R => <<x, z>> \in R
    <3> TAKE x, y, z \in S
    <3>1. /\ x[1] \in Int /\ x[2] \in Int /\ x[3] \in Int
          /\ y[1] \in Int /\ y[2] \in Int /\ y[3] \in Int
          /\ z[1] \in Int /\ z[2] \in Int /\ z[3] \in Int
      BY <2>1
    <3> QED
      BY <2>2, <3>1 DEF RoundBefore
  <2> QED
    BY <2>3, <2>4, <2>5 DEF StrictOrder
<1>2. \A x \in S : {y \in S : <<y, x>> \in R} = {y \in S : RoundBefore(y, x)}
  OBVIOUS
<1>3. Placed(S, R)
  <2> HIDE DEF R
  <2> QED
    BY <1>1, PlacesTaken
<1>4. \A i \in 1..Cardinality(S) : \E x \in S : Cardinality({y \in S : RoundBefore(y, x)}) = i - 1
  BY <1>2, <1>3 DEF Placed
<1> DEFINE O == [i \in 1..Cardinality(S) |->
                   CHOOSE x \in S : Cardinality({y \in S : RoundBefore(y, x)}) = i - 1]
<1>5. Ordered(S, RoundBefore) = O
  BY DEF Ordered
<1>6. O \in [1..Cardinality(S) -> S]
  BY <1>4
<1> QED
  BY <1>5, <1>6, FS_CardinalityType

\* The elements of a sequence at some places.
LEMMA PickedTyped ==
  ASSUME NEW S, NEW seq \in Seq(S), NEW P \in SUBSET (1..Len(seq))
  PROVE  /\ Picked(seq, P) \in Seq({seq[i] : i \in P})
         /\ P # {} => Len(Picked(seq, P)) # 0
<1> DEFINE T == {seq[i] : i \in P}
           order == Ordered(P, <)
           n == Cardinality(P)
<1>1. IsFiniteSet(P) /\ P \in SUBSET Int
  <2>1. Len(seq) \in Nat
    BY LenProperties
  <2> DEFINE A == 1..Len(seq)
  <2>2. IsFiniteSet(A)
    BY <2>1, FS_Interval
  <2>3. P \in SUBSET A /\ A \subseteq Int
    BY <2>1
  <2> HIDE DEF A
  <2> QED
    BY <2>2, <2>3, FS_Subset
<1>2. order \in [1..n -> P] /\ n \in Nat
  BY <1>1, NumbersInOrder
<1>3. P # {} => n # 0
  BY <1>1, FS_EmptySet
<1>4. Picked(seq, P) = [k \in DOMAIN order |-> seq[order[k]]]
  BY DEF Picked
<1> HIDE DEF order, n
<1>5. DOMAIN order = 1..n /\ \A k \in 1..n : seq[order[k]] \in T
  BY <1>2
<1> HIDE DEF T
<1>6. Picked(seq, P) \in [1..n -> T]
  BY <1>4, <1>5
<1>7. Picked(seq, P) \in Seq(T) /\ Len(Picked(seq, P)) = n
  BY <1>2, <1>6, SeqIntro
<1> QED
  BY <1>3, <1>7 DEF T

(***************************************************************************)
(* First fit.                                                              *)
(***************************************************************************)
\* Batches of one kind, of steps in S none of which share a sender or receiver.
Fitted(S, kind) ==
  {b \in [kind : {kind}, steps : Seq(S)] : Len(b.steps) # 0 /\ NoneShared(b)}

\* First fit puts a step where it shares none, or in a batch of its own.
LEMMA PlaceKeeps ==
  ASSUME NEW S, NEW kind, \A s \in S : s.kind = kind,
         NEW batches \in Seq(Fitted(S, kind)), NEW step \in S
  PROVE  PlaceFirstFit(batches, step) \in Seq(Fitted(S, kind))
<1> DEFINE B == Fitted(S, kind)
           free == {i \in DOMAIN batches : \A j \in DOMAIN batches[i].steps :
                                             ~Conflicts(step, batches[i].steps[j])}
           first == CHOOSE i \in free : \A k \in free : i <= k
           one == [kind |-> step.kind, steps |-> <<step>>]
<1>1. DOMAIN batches = 1..Len(batches) /\ Len(batches) \in Nat
  BY LenProperties
<1>2. \A i \in 1..Len(batches) : batches[i] \in B
  <2> HIDE DEF B
  <2>1. batches \in Seq(B)
    BY DEF B
  <2> QED
    BY <2>1, ElementOfSeq
<1>3. PlaceFirstFit(batches, step)
        = IF free = {} THEN Append(batches, one)
          ELSE [batches EXCEPT ![first].steps = Append(@, step)]
  BY DEF PlaceFirstFit
<1>4. CASE free = {}
  <2>1. <<step>> \in Seq(S) /\ Len(<<step>>) = 1 /\ DOMAIN <<step>> = 1..1
    OBVIOUS
  <2>2. one \in B
    <3>1. NoneShared(one)
      BY <2>1 DEF NoneShared
    <3>2. one \in [kind : {kind}, steps : Seq(S)] /\ Len(one.steps) # 0
      <4>1. step.kind = kind
        OBVIOUS
      <4> QED
        BY <2>1, <4>1
    <3> HIDE DEF one
    <3> QED
      BY <3>1, <3>2 DEF Fitted
  <2> HIDE DEF B, one
  <2>3. Append(batches, one) \in Seq(B)
    <3>1. batches \in Seq(B)
      BY DEF B
    <3> QED
      BY <2>2, <3>1, AppendProperties
  <2> QED
    BY <1>3, <1>4, <2>3 DEF B
<1>5. CASE free # {}
  <2>1. first \in free
    <3>1. first = Least(free)
      BY DEF Least
    <3>2. free \in SUBSET Nat
      BY <1>1, SMTT(30)
    <3> HIDE DEF free, first
    <3> QED
      BY <1>5, <3>1, <3>2, LeastIs
  <2>2. /\ first \in 1..Len(batches)
        /\ \A j \in DOMAIN batches[first].steps : ~Conflicts(step, batches[first].steps[j])
    BY <1>1, <2>1
  <2> HIDE DEF free, first
  <2> DEFINE b == batches[first]
             u == Append(b.steps, step)
             c == [kind |-> kind, steps |-> u]
  <2>3. b \in [kind : {kind}, steps : Seq(S)] /\ Len(b.steps) # 0 /\ NoneShared(b)
    BY <1>2, <2>2 DEF Fitted
  <2>4. /\ u \in Seq(S) /\ Len(u) = Len(b.steps) + 1 /\ Len(b.steps) \in Nat
        /\ DOMAIN u = 1..(Len(b.steps) + 1) /\ DOMAIN b.steps = 1..Len(b.steps)
        /\ \A j \in 1..Len(b.steps) : u[j] = b.steps[j]
        /\ u[Len(b.steps) + 1] = step
    <3>1. b.steps \in Seq(S)
      BY <2>3
    <3> HIDE DEF b
    <3> QED
      BY <3>1, AppendProperties, LenProperties
  <2>5. NoneShared(c)
    <3> HIDE DEF u, b
    <3>1. \A j \in 1..Len(b.steps) :
            b.steps[j].from # step.from /\ (step.kind # Save => b.steps[j].to # step.to)
      BY <2>2, <2>4 DEF Conflicts, b
    <3>2. step.kind = kind /\ b.kind = kind
      BY <2>3
    <3> SUFFICES ASSUME NEW i \in 1..(Len(b.steps) + 1), NEW j \in 1..(Len(b.steps) + 1), i # j
                 PROVE  u[i].from # u[j].from /\ (kind # Save => u[i].to # u[j].to)
      BY <2>4 DEF NoneShared
    <3>3. CASE i # Len(b.steps) + 1 /\ j # Len(b.steps) + 1
      <4>1. i \in 1..Len(b.steps) /\ j \in 1..Len(b.steps)
        <5> DEFINE n == Len(b.steps)
        <5>1. n \in Nat /\ i \in 1..(n + 1) /\ j \in 1..(n + 1) /\ i # n + 1 /\ j # n + 1
          BY <2>4, <3>3
        <5> HIDE DEF n
        <5>2. i \in 1..n /\ j \in 1..n
          BY <5>1
        <5> QED
          BY <5>2 DEF n
      <4> QED
        BY <2>3, <2>4, <3>2, <4>1 DEF NoneShared
    <3>4. CASE i = Len(b.steps) + 1
      <4>1. j \in 1..Len(b.steps)
        BY <2>4, <3>4
      <4> QED
        BY <2>4, <3>1, <3>2, <3>4, <4>1
    <3>5. CASE j = Len(b.steps) + 1
      <4>1. i \in 1..Len(b.steps)
        BY <2>4, <3>5
      <4> QED
        BY <2>4, <3>1, <3>2, <3>5, <4>1
    <3> QED
      BY <3>3, <3>4, <3>5
  <2>6. c \in B
    <3>1. Len(u) # 0
      BY <2>4
    <3> QED
      BY <2>4, <2>5, <3>1 DEF Fitted
  <2>7. [batches EXCEPT ![first].steps = Append(@, step)] = [batches EXCEPT ![first] = c]
    <3>1. \A v : [b EXCEPT !.steps = v] = [kind |-> kind, steps |-> v]
      <4>1. b \in [kind : {kind}, steps : Seq(S)]
        BY <2>3
      <4> HIDE DEF b
      <4> QED
        BY <4>1
    <3>2. [b EXCEPT !.steps = u] = c
      BY <3>1
    <3> QED
      BY <1>1, <2>2, <3>2
  <2> HIDE DEF c, B
  <2>8. [batches EXCEPT ![first] = c] \in Seq(B)
    <3>1. batches \in Seq(B)
      BY DEF B
    <3> QED
      BY <2>2, <2>6, <3>1, ExceptSeq
  <2> QED
    BY <1>3, <1>5, <2>7, <2>8 DEF B
<1> QED
  BY <1>4, <1>5

\* So the batches it makes share none.
LEMMA FirstFitTyped ==
  ASSUME NEW S, NEW kind, \A s \in S : s.kind = kind, NEW steps \in Seq(S)
  PROVE  FirstFit(steps) \in Seq(Fitted(S, kind))
<1> DEFINE V == Seq(Fitted(S, kind))
           N == Len(steps)
           F == [x \in Nat \X V |-> IF x[1] \in 1..N THEN PlaceFirstFit(x[2], steps[x[1]])
                                    ELSE x[2]]
           Step1(w) == [n \in 0..N |-> IF n = 0 THEN <<>> ELSE PlaceFirstFit(w[n - 1], steps[n])]
           it == CHOOSE w : w = Step1(w)
<1>1. N \in Nat /\ \A k \in 1..N : steps[k] \in S
  BY LenProperties, ElementOfSeq
<1>2. FirstFit(steps) = it[N]
  BY DEF FirstFit
<1>3. \A k \in 1..N, v \in V : PlaceFirstFit(v, steps[k]) \in V
  BY <1>1, PlaceKeeps
<1>4. <<>> \in V
  BY EmptySeq
<1> HIDE DEF V, it, N
<1>5. F \in [Nat \X V -> V]
  <2>1. \A x \in Nat \X V : x[2] \in V
    OBVIOUS
  <2> QED
    BY <1>3, <2>1
<1>6. \A k \in 1..N, w \in V : F[<<k, w>>] = PlaceFirstFit(w, steps[k])
  <2> TAKE k \in 1..N, w \in V
  <2>1. <<k, w>> \in Nat \X V
    BY <1>1
  <2> QED
    BY <2>1
<1> HIDE DEF F
<1>7. Recursion(N, V, <<>>, F)
  BY <1>1, <1>4, <1>5 DEF Recursion
<1>8. PICK f \in [0..N -> V] : f = [k \in 0..N |-> IF k = 0 THEN <<>> ELSE F[<<k, f[k - 1]>>]]
  BY <1>7, RecursionExists
<1>9. f = Step1(f)
  <2>1. \A k \in 0..N : (IF k = 0 THEN <<>> ELSE F[<<k, f[k - 1]>>])
                        = (IF k = 0 THEN <<>> ELSE PlaceFirstFit(f[k - 1], steps[k]))
    <3> TAKE k \in 0..N
    <3>1. k # 0 => k \in 1..N /\ k - 1 \in 0..N
      BY <1>1
    <3>2. k # 0 => f[k - 1] \in V
      BY <1>8, <3>1
    <3> QED
      BY <1>6, <3>1, <3>2
  <2> QED
    BY <1>8, <2>1
<1>10. it = Step1(it)
  <2> HIDE DEF Step1
  <2> QED
    BY <1>9 DEF it
<1>11. it[0] = <<>> /\ \A k \in 1..N : it[k] = PlaceFirstFit(it[k - 1], steps[k])
  <2>1. \A k \in 0..N : it[k] = IF k = 0 THEN <<>> ELSE PlaceFirstFit(it[k - 1], steps[k])
    BY <1>10
  <2>2. 0 \in 0..N /\ \A k \in 1..N : k \in 0..N /\ k # 0
    BY <1>1
  <2> QED
    BY <2>1, <2>2
<1>12. \A k \in 1..N : it[k - 1] \in V => it[k] = F[<<k, it[k - 1]>>]
  BY <1>6, <1>11
<1>13. \A k \in 0..N : it[k] \in V
  BY <1>7, <1>11, <1>12, RecursionTyped
<1>14. N \in 0..N
  BY <1>1
<1> QED
  BY <1>2, <1>13, <1>14 DEF V

(***************************************************************************)
(* Steps made into batches.                                                *)
(***************************************************************************)
\* The elements a step moves.
StepLoad(s) == IF s.kind = Restore THEN Size(s.target) ELSE Size(s.source)

\* Steps that a batching of rounds can be run of: each is in order, those of a
\* round have one load, and those of the edge executor go one way.
Schedulable(g, exec, S) ==
  /\ \A s \in S : /\ s.phase \in Int /\ s.seq \in Int
                  /\ s.kind \in {Move, Save, Restore}
                  /\ StepLoad(s) \in 1..Limit(g, exec)
                  /\ StepOK(g, s.kind, s, StepLoad(s))
  /\ \A s, t \in S : RoundOf(s) = RoundOf(t) => StepLoad(s) = StepLoad(t)
  /\ exec = "edge" => /\ \A s \in S : s.kind = Move
                      /\ \A s, t \in S : RoundOf(s) = RoundOf(t) /\ t.to = s.from
                                            => s.to = s.from

\* A list of batches the executor is made for.
Runnable(g, p) ==
  /\ Len(p) \in Nat /\ p = [k \in 1..Len(p) |-> p[k]]
  /\ \A k \in 1..Len(p) : BatchOK(g, p[k])

\* A batch with its executor.
WithExec(exec, b) == [exec |-> exec, kind |-> b.kind, steps |-> b.steps]

\* Batches of steps of S.
BatchesOf(g, exec, S) ==
  {b \in [kind : {Move, Save, Restore}, steps : Seq(S)] : BatchOK(g, WithExec(exec, b))}

\* Steps of one round fitted together make a batch.
LEMMA FittedIsBatch ==
  ASSUME NEW g, NEW exec \in {"edge", "slab"}, NEW S, Schedulable(g, exec, S),
         NEW kind \in {Move, Save, Restore}, NEW T \in SUBSET S,
         \A s \in T : s.kind = kind,
         \A s, t \in T : RoundOf(s) = RoundOf(t)
  PROVE  Fitted(T, kind) \subseteq BatchesOf(g, exec, S)
<1> SUFFICES ASSUME NEW b \in Fitted(T, kind)
             PROVE  b \in BatchesOf(g, exec, S)
  OBVIOUS
<1>1. b \in [kind : {kind}, steps : Seq(T)] /\ Len(b.steps) # 0 /\ NoneShared(b)
  BY DEF Fitted
<1>2. b.kind = kind /\ b.steps \in Seq(T)
  BY <1>1
<1>3. b.steps \in Seq(S) /\ Len(b.steps) \in Nat \ {0} /\ DOMAIN b.steps = 1..Len(b.steps)
      /\ \A i \in 1..Len(b.steps) : b.steps[i] \in T
  <2> DEFINE seq == b.steps
  <2>1. seq \in Seq(T) /\ Len(seq) # 0
    BY <1>1, <1>2
  <2> HIDE DEF seq
  <2>2. seq \in Seq(S) /\ Len(seq) \in Nat /\ DOMAIN seq = 1..Len(seq)
        /\ \A i \in 1..Len(seq) : seq[i] \in T
    BY <2>1, SeqMonotonic, LenProperties, ElementOfSeq
  <2> QED
    BY <2>1, <2>2 DEF seq
<1> DEFINE c == WithExec(exec, b)
<1>4. c.exec = exec /\ c.kind = kind /\ c.steps = b.steps
  BY <1>2 DEF WithExec
<1> HIDE DEF c
<1>5. b.steps[1] \in T /\ 1 \in 1..Len(b.steps)
  BY <1>3
<1>6. Load(c) = StepLoad(b.steps[1])
  <2>1. b.steps[1].kind = kind
    BY <1>5
  <2> QED
    BY <1>4, <2>1 DEF Load, StepLoad
<1>7. \A s \in T : /\ StepLoad(s) = Load(c)
                   /\ StepLoad(s) \in 1..Limit(g, exec)
                   /\ StepOK(g, kind, s, StepLoad(s))
  <2> TAKE s \in T
  <2>1. s \in S /\ b.steps[1] \in S /\ RoundOf(s) = RoundOf(b.steps[1]) /\ s.kind = kind
    BY <1>5
  <2>2. StepLoad(s) = StepLoad(b.steps[1])
    BY <2>1 DEF Schedulable
  <2>3. StepLoad(s) \in 1..Limit(g, exec) /\ StepOK(g, s.kind, s, StepLoad(s))
    BY <2>1 DEF Schedulable
  <2> QED
    BY <1>6, <2>1, <2>2, <2>3
<1>8. NoneShared(c)
  BY <1>1, <1>2, <1>4 DEF NoneShared
<1>9. exec = "edge" => c.kind = Move /\ OneWay(c)
  <2> SUFFICES ASSUME exec = "edge" PROVE c.kind = Move /\ OneWay(c)
    OBVIOUS
  <2>1. c.kind = Move
    BY <1>4, <1>5 DEF Schedulable
  <2>2. \A s, t \in T : t.to = s.from => s.to = s.from
    BY DEF Schedulable
  <2>3. OneWay(c)
    BY <1>3, <1>4, <2>2 DEF OneWay
  <2> QED
    BY <2>1, <2>3
<1>10. BatchOK(g, c)
  <2>1. Load(c) \in 1..Limit(g, exec)
    BY <1>5, <1>7
  <2>2. \A i \in 1..Len(b.steps) : StepOK(g, kind, b.steps[i], Load(c))
    BY <1>3, <1>7
  <2> QED
    BY <1>3, <1>4, <1>8, <1>9, <2>1, <2>2 DEF BatchOK
<1>11. b \in [kind : {Move, Save, Restore}, steps : Seq(S)]
  BY <1>1, <1>3
<1> QED
  BY <1>10, <1>11 DEF BatchesOf, c

\* The rounds of a sequence of steps are finitely many.
LEMMA RoundsFinite ==
  ASSUME NEW S, \A s \in S : s.phase \in Int /\ s.seq \in Int /\ s.kind \in Int,
         NEW steps \in Seq(S)
  PROVE  /\ {RoundOf(steps[i]) : i \in DOMAIN steps} \in SUBSET (Int \X Int \X Int)
         /\ IsFiniteSet({RoundOf(steps[i]) : i \in DOMAIN steps})
<1> DEFINE n == Len(steps)
           Q == {RoundOf(steps[i]) : i \in DOMAIN steps}
           A == 1..n
           f == [i \in A |-> RoundOf(steps[i])]
<1>1. n \in Nat /\ DOMAIN steps = A /\ \A i \in A : steps[i] \in S
  BY LenProperties, ElementOfSeq
<1>2. Q \in SUBSET (Int \X Int \X Int)
  BY <1>1 DEF RoundOf
<1>3. IsFiniteSet(A)
  <2> HIDE DEF n
  <2> QED
    BY <1>1, FS_Interval
<1>4. f \in [A -> Q] /\ \A q \in Q : \E i \in A : f[i] = q
  BY <1>1
<1>5. f \in Surjection(A, Q)
  <2> HIDE DEF f, A, Q
  <2> QED
    BY <1>4 DEF Surjection
<1>6. IsFiniteSet(Q)
  <2> HIDE DEF f, A, Q
  <2> QED
    BY <1>3, <1>5, FS_Surjection
<1> QED
  BY <1>2, <1>6

\* Batching schedulable steps makes a list of batches the executor is made for.
LEMMA BatchesRun ==
  ASSUME NEW g, NEW exec \in {"edge", "slab"}, NEW S, Schedulable(g, exec, S),
         NEW steps \in Seq(S)
  PROVE  Runnable(g, Tagged(exec, BatchNative2DSteps(steps)))
<1> DEFINE n == Len(steps)
           Q == {RoundOf(steps[i]) : i \in DOMAIN steps}
           rounds == Ordered(Q, RoundBefore)
           P(q) == {i \in DOMAIN steps : RoundOf(steps[i]) = q}
           T(q) == {s \in S : RoundOf(s) = q}
           B == BatchesOf(g, exec, S)
           fits == [i \in DOMAIN rounds |-> FirstFit(Picked(steps, P(rounds[i])))]
<1>1. n \in Nat /\ DOMAIN steps = 1..n /\ \A i \in 1..n : steps[i] \in S
  BY LenProperties, ElementOfSeq
<1>2. \A s \in S : s.phase \in Int /\ s.seq \in Int /\ s.kind \in Int
                   /\ s.kind \in {Move, Save, Restore}
  BY DEF Schedulable, Move, Save, Restore
<1>3. Q \in SUBSET (Int \X Int \X Int) /\ IsFiniteSet(Q)
  BY <1>2, RoundsFinite
<1>4. rounds \in [1..Cardinality(Q) -> Q] /\ Cardinality(Q) \in Nat
  <2> HIDE DEF Q
  <2> QED
    BY <1>3, RoundsInOrder
<1>5. BatchNative2DSteps(steps) = FlattenSeq(fits)
  BY DEF BatchNative2DSteps
<1>6. ASSUME NEW q \in Q
      PROVE  FirstFit(Picked(steps, P(q))) \in Seq(B)
  <2>1. PICK k \in 1..n : q = RoundOf(steps[k])
    BY <1>1
  <2> DEFINE kind == steps[k].kind
  <2>2. kind \in {Move, Save, Restore}
    BY <1>1, <1>2
  <2>3. T(q) \in SUBSET S /\ (\A s \in T(q) : s.kind = kind)
        /\ (\A s, t \in T(q) : RoundOf(s) = RoundOf(t))
    BY <2>1 DEF RoundOf
  <2>4. Fitted(T(q), kind) \subseteq B
    <3> HIDE DEF T, kind
    <3> QED
      BY <2>2, <2>3, FittedIsBatch
  <2>5. Picked(steps, P(q)) \in Seq({steps[i] : i \in P(q)})
    <3>1. P(q) \in SUBSET (1..Len(steps))
      BY <1>1
    <3> HIDE DEF P, n
    <3> QED
      BY <3>1, PickedTyped
  <2>6. {steps[i] : i \in P(q)} \subseteq T(q)
    BY <1>1
  <2>7. Picked(steps, P(q)) \in Seq(T(q))
    <3> DEFINE U == {steps[i] : i \in P(q)}
               V == T(q)
               seq == Picked(steps, P(q))
    <3>1. seq \in Seq(U) /\ U \subseteq V
      BY <2>5, <2>6
    <3> HIDE DEF U, V, seq
    <3>2. seq \in Seq(V)
      BY <3>1, SeqMonotonic
    <3> QED
      BY <3>2 DEF V, seq
  <2>8. FirstFit(Picked(steps, P(q))) \in Seq(Fitted(T(q), kind))
    <3> HIDE DEF T, kind, P
    <3> QED
      BY <2>3, <2>7, FirstFitTyped
  <2> DEFINE F == Fitted(T(q), kind)
             seq == FirstFit(Picked(steps, P(q)))
  <2>9. seq \in Seq(F) /\ F \subseteq B
    BY <2>4, <2>8
  <2> HIDE DEF F, seq, B
  <2>10. seq \in Seq(B)
    BY <2>9, SeqMonotonic
  <2> QED
    BY <2>10 DEF seq
<1>7. fits \in [1..Cardinality(Q) -> Seq(B)]
  <2> HIDE DEF Q, P, B, rounds
  <2>1. DOMAIN rounds = 1..Cardinality(Q)
        /\ \A i \in 1..Cardinality(Q) : rounds[i] \in Q
    BY <1>4
  <2>2. \A i \in 1..Cardinality(Q) : FirstFit(Picked(steps, P(rounds[i]))) \in Seq(B)
    BY <1>6, <2>1
  <2> QED
    BY <2>1, <2>2
<1>8. FlattenSeq(fits) \in Seq(B)
  <2> HIDE DEF fits, B, Q
  <2> QED
    BY <1>4, <1>7, FlattenTyped
<1> DEFINE bs == BatchNative2DSteps(steps)
<1>9. /\ bs \in Seq(B)
  BY <1>5, <1>8
<1>10. /\ Len(bs) \in Nat /\ DOMAIN bs = 1..Len(bs)
       /\ \A i \in 1..Len(bs) : bs[i] \in B
  <2> HIDE DEF bs, B
  <2> QED
    BY <1>9, LenProperties, ElementOfSeq
<1> DEFINE p == Tagged(exec, bs)
<1> HIDE DEF bs
<1>11. p = [k \in 1..Len(bs) |-> WithExec(exec, bs[k])]
  BY <1>10 DEF Tagged, WithExec
<1>12. Len(p) = Len(bs) /\ p = [k \in 1..Len(bs) |-> p[k]]
       /\ \A k \in 1..Len(bs) : p[k] = WithExec(exec, bs[k])
  <2> HIDE DEF p
  <2>1. DOMAIN p = 1..Len(bs)
    BY <1>11
  <2> QED
    BY <1>10, <1>11, <2>1
<1>13. \A k \in 1..Len(bs) : BatchOK(g, WithExec(exec, bs[k]))
  BY <1>10 DEF BatchesOf
<1>14. Runnable(g, p)
  <2> HIDE DEF p
  <2> QED
    BY <1>10, <1>12, <1>13 DEF Runnable
<1> QED
  BY <1>14 DEF bs

(***************************************************************************)
(* Slot maps and their cycles.                                             *)
(***************************************************************************)
\* A place among a rows of b is a row and a place in it.
LEMMA RowAndPlace ==
  ASSUME NEW a \in Nat \ {0}, NEW b \in Nat \ {0}, NEW s \in 0..(a * b - 1)
  PROVE  /\ s \div b \in 0..(a - 1)
         /\ s % b \in 0..(b - 1)
         /\ s = (s \div b) * b + (s % b)
         /\ s \in Nat
<1> DEFINE q == s \div b
           r == s % b
           x == a * b
<1>0. x \in Nat
  BY SMT
<1>1. s \in Nat /\ s < x
  <2>1. s \in 0..(x - 1)
    OBVIOUS
  <2> HIDE DEF x
  <2> QED
    BY <1>0, <2>1
<1>2. q \in Nat /\ r \in 0..(b - 1) /\ s = q * b + r
  BY <1>1, DivMod
<1>3. q < a
  <2> SUFFICES ASSUME ~(q < a) PROVE FALSE
    OBVIOUS
  <2> DEFINE y == q * b
  <2>1. x <= y
    <3>1. CASE q = a
      BY <3>1
    <3>2. CASE a < q
      <4>1. a * b + b <= q * b
        <5> HIDE DEF q
        <5> QED
          BY <1>2, <3>2, Apart
      <4>2. y \in Nat
        <5> HIDE DEF q
        <5> QED
          BY <1>2, SMT
      <4> HIDE DEF q, x, y
      <4> QED
        BY <1>0, <4>1, <4>2 DEF x, y
    <3> HIDE DEF x, y
    <3> QED
      BY <1>2, <3>1, <3>2
  <2>2. s = y + r /\ y \in Nat
    <3> HIDE DEF q
    <3> QED
      BY <1>2, SMT
  <2> HIDE DEF q, x, y, r
  <2> QED
    BY <1>0, <1>1, <1>2, <2>1, <2>2
<1> HIDE DEF q, r
<1> QED
  BY <1>1, <1>2, <1>3 DEF q, r

\* And a row and a place in it are a place.
LEMMA PlaceInRow ==
  ASSUME NEW a \in Nat \ {0}, NEW b \in Nat \ {0}, NEW q \in 0..(a - 1), NEW r \in 0..(b - 1)
  PROVE  q * b + r \in 0..(a * b - 1)
<1> DEFINE x == a * b
           y == q * b
<1>1. x \in Nat /\ y \in Nat
  BY SMT
<1>2. y + b <= x
  <2>1. q \in Int /\ a \in Int /\ q < a
    OBVIOUS
  <2> QED
    BY <2>1, Apart
<1> HIDE DEF x, y
<1>3. y + r \in 0..(x - 1)
  BY <1>1, <1>2
<1> QED
  BY <1>3 DEF x, y

\* A map of n slots that loses none.
Shuffles(map, n) ==
  /\ n \in Nat \ {0}
  /\ map \in [0..(n - 1) -> 0..(n - 1)]
  /\ \A s, t \in 0..(n - 1) : map[s] = map[t] => s = t

\* The place of a tile once ownership is cyclic, as its process and block there.
LEMMA CyclicSlotIs ==
  ASSUME NEW procs \in Nat \ {0}, NEW blocks \in Nat \ {0}, NEW t \in 0..(procs * blocks - 1)
  PROVE  /\ t % procs \in 0..(procs - 1) /\ t \div procs \in 0..(blocks - 1)
         /\ t = (t \div procs) * procs + (t % procs)
         /\ CyclicSlot(t, procs, blocks) = (t % procs) * blocks + (t \div procs)
         /\ CyclicSlot(t, procs, blocks) \in 0..(procs * blocks - 1)
<1>1. procs * blocks = blocks * procs
  BY SMT
<1>2. t \in 0..(blocks * procs - 1)
  BY <1>1
<1>3. t \div procs \in 0..(blocks - 1) /\ t % procs \in 0..(procs - 1)
      /\ t = (t \div procs) * procs + (t % procs)
  BY <1>2, RowAndPlace
<1>4. (t % procs) * blocks + (t \div procs) \in 0..(procs * blocks - 1)
  BY <1>3, PlaceInRow
<1> QED
  BY <1>3, <1>4 DEF CyclicSlot

\* The slot map of an axis loses no slot.
LEMMA AxisSlotMapShuffles ==
  ASSUME NEW groups \in Nat \ {0}, NEW procs \in Nat \ {0}, NEW blocks \in Nat \ {0}
  PROVE  Shuffles(AxisSlotMap(groups, procs, blocks), groups * (procs * blocks))
<1> DEFINE z == procs * blocks
           n == groups * z
           map == AxisSlotMap(groups, procs, blocks)
           C(t) == CyclicSlot(t, procs, blocks)
<1>1. z \in Nat \ {0}
  BY SMT
<1>2. n \in Nat \ {0}
  <2> HIDE DEF z
  <2> QED
    BY <1>1, SMT
<1>3. groups * procs * blocks = n
  <2>1. \A a, b, c \in Int : a * b * c = a * (b * c)
    BY SMT
  <2> QED
    BY <2>1
<1>4. \A t \in 0..(z - 1) : C(t) \in 0..(z - 1)
  BY CyclicSlotIs
<1>5. \A t, u \in 0..(z - 1) : C(t) = C(u) => t = u
  <2> SUFFICES ASSUME NEW t \in 0..(z - 1), NEW u \in 0..(z - 1), C(t) = C(u)
               PROVE  t = u
    OBVIOUS
  <2>0. C(t) = C(u)
    OBVIOUS
  <2> DEFINE tp == t % procs
             tb == t \div procs
             up == u % procs
             ub == u \div procs
  <2>1. /\ tp \in 0..(procs - 1) /\ tb \in 0..(blocks - 1) /\ t = tb * procs + tp
        /\ up \in 0..(procs - 1) /\ ub \in 0..(blocks - 1) /\ u = ub * procs + up
        /\ tp * blocks + tb = up * blocks + ub
    <3>1. t % procs \in 0..(procs - 1) /\ t \div procs \in 0..(blocks - 1)
          /\ t = (t \div procs) * procs + (t % procs)
          /\ C(t) = (t % procs) * blocks + (t \div procs)
      BY CyclicSlotIs DEF z
    <3>2. u % procs \in 0..(procs - 1) /\ u \div procs \in 0..(blocks - 1)
          /\ u = (u \div procs) * procs + (u % procs)
          /\ C(u) = (u % procs) * blocks + (u \div procs)
      BY CyclicSlotIs DEF z
    <3> HIDE DEF C
    <3> QED
      BY <2>0, <3>1, <3>2
  <2> HIDE DEF tp, tb, up, ub
  <2>2. tp = up /\ tb = ub
    <3>1. tp \in Int /\ up \in Int
      BY <2>1
    <3> QED
      BY <2>1, <3>1, Unique
  <2> QED
    BY <2>1, <2>2
<1>6. map = [s \in 0..(n - 1) |-> (s - (s % z)) + C(s % z)]
  BY <1>3 DEF AxisSlotMap
<1> HIDE DEF z, map, C
<1>7. \A s \in 0..(n - 1) :
        /\ s % z \in 0..(z - 1) /\ C(s % z) \in 0..(z - 1) /\ s \div z \in 0..(groups - 1)
        /\ s = (s \div z) * z + (s % z)
        /\ map[s] = (s \div z) * z + C(s % z)
  <2> TAKE s \in 0..(n - 1)
  <2>1. s \div z \in 0..(groups - 1) /\ s % z \in 0..(z - 1) /\ s = (s \div z) * z + (s % z)
        /\ s \in Nat
    BY <1>1, RowAndPlace
  <2>2. map[s] = (s - (s % z)) + C(s % z)
    BY <1>6
  <2>3. C(s % z) \in 0..(z - 1)
    BY <1>4, <2>1
  <2> DEFINE q == s \div z
             r == s % z
             x == q * z
             c == C(r)
  <2>4. x \in Nat /\ s = x + r /\ r \in 0..(z - 1) /\ c \in 0..(z - 1) /\ s \in Nat
    <3>1. q \in Nat
      BY <2>1
    <3>2. x \in Nat
      <4> HIDE DEF q
      <4> QED
        BY <1>1, <3>1, SMT
    <3> QED
      BY <2>1, <2>3, <3>2
  <2>5. (s - r) + c = x + c
    <3> HIDE DEF q, r, x, c
    <3> QED
      BY <1>1, <2>4
  <2> QED
    BY <2>1, <2>2, <2>3, <2>5
<1>8. \A s \in 0..(n - 1) : map[s] \in 0..(n - 1)
  <2> TAKE s \in 0..(n - 1)
  <2>1. (s \div z) * z + C(s % z) \in 0..(groups * z - 1)
    BY <1>1, <1>7, PlaceInRow
  <2> QED
    BY <1>7, <2>1
<1>9. \A s, t \in 0..(n - 1) : map[s] = map[t] => s = t
  <2> SUFFICES ASSUME NEW s \in 0..(n - 1), NEW t \in 0..(n - 1), map[s] = map[t]
               PROVE  s = t
    OBVIOUS
  <2> DEFINE sq == s \div z
             sr == s % z
             tq == t \div z
             tr == t % z
  <2>1. /\ sq \in Int /\ tq \in Int /\ C(sr) \in 0..(z - 1) /\ C(tr) \in 0..(z - 1)
        /\ sr \in 0..(z - 1) /\ tr \in 0..(z - 1)
        /\ s = sq * z + sr /\ t = tq * z + tr
        /\ sq * z + C(sr) = tq * z + C(tr)
    BY <1>7
  <2> HIDE DEF sq, sr, tq, tr
  <2>2. sq = tq /\ C(sr) = C(tr)
    BY <1>1, <2>1, Unique
  <2>3. sr = tr
    BY <1>5, <2>1, <2>2
  <2> QED
    BY <2>1, <2>2, <2>3
<1>10. map \in [0..(n - 1) -> 0..(n - 1)]
  <2>1. map = [s \in 0..(n - 1) |-> map[s]]
    BY <1>6
  <2> QED
    BY <1>8, <2>1
<1>11. Shuffles(map, n)
  BY <1>2, <1>9, <1>10 DEF Shuffles
<1> QED
  BY <1>11 DEF map, z

\* A map that loses no slot fills every slot.
LEMMA ShuffleFills ==
  ASSUME NEW map, NEW n, Shuffles(map, n)
  PROVE  \A t \in 0..(n - 1) : \E s \in 0..(n - 1) : map[s] = t
<1> DEFINE A == 0..(n - 1)
<1>1. IsFiniteSet(A)
  <2>1. n \in Nat
    BY DEF Shuffles
  <2>2. n - 1 \in Int /\ 0 \in Int
    BY <2>1
  <2>3. \A m \in Int : IsFiniteSet(0..m)
    BY FS_Interval
  <2> QED
    BY <2>2, <2>3
<1>2. map \in Injection(A, A)
  BY DEF Shuffles, Injection, IsInjective
<1> HIDE DEF A
<1>3. map \in Surjection(A, A)
  BY <1>1, <1>2, FS_Injection
<1>4. \A t \in A : \E s \in A : map[s] = t
  BY <1>3 DEF Surjection
<1> QED
  BY <1>4 DEF A

\* The way back loses no slot either.
LEMMA InverseShuffles ==
  ASSUME NEW map, NEW n, Shuffles(map, n)
  PROVE  Shuffles(InvertSlotMap(map), n)
<1> DEFINE A == 0..(n - 1)
           inv == InvertSlotMap(map)
<1>1. n \in Nat \ {0} /\ map \in [A -> A] /\ DOMAIN map = A
  BY DEF Shuffles
<1>2. inv = [t \in A |-> CHOOSE s \in A : map[s] = t]
  BY <1>1 DEF InvertSlotMap
<1>3. \A t \in A : \E s \in A : map[s] = t
  BY ShuffleFills
<1> HIDE DEF A, inv
<1>4. \A t \in A : inv[t] \in A /\ map[inv[t]] = t
  BY <1>2, <1>3
<1>5. inv \in [A -> A]
  BY <1>2, <1>4
<1>6. \A s, t \in A : inv[s] = inv[t] => s = t
  BY <1>4
<1> QED
  BY <1>1, <1>5, <1>6 DEF Shuffles, A, inv

\* The slots a map of n slots visits from one of them.
LEMMA IterateIs ==
  ASSUME NEW map, NEW n, Shuffles(map, n), NEW key \in 0..(n - 1)
  PROVE  /\ Iterate(map, key) \in [0..n -> 0..(n - 1)]
         /\ Iterate(map, key)[0] = key
         /\ \A k \in 1..n : Iterate(map, key)[k] = map[Iterate(map, key)[k - 1]]
<1> DEFINE V == 0..(n - 1)
           F == [x \in Nat \X V |-> map[x[2]]]
           Step1(w) == [k \in 0..Cardinality(DOMAIN map) |-> IF k = 0 THEN key ELSE map[w[k - 1]]]
           it == CHOOSE w : w = Step1(w)
<1>1. n \in Nat /\ map \in [V -> V] /\ DOMAIN map = V
  BY DEF Shuffles
<1>2. Cardinality(DOMAIN map) = n
  <2>1. n - 1 \in Int /\ 0 \in Int
    BY <1>1
  <2>2. \A m \in Int : Cardinality(0..m) = IF 0 > m THEN 0 ELSE m - 0 + 1
    BY FS_Interval
  <2>3. Cardinality(0..(n - 1)) = IF 0 > n - 1 THEN 0 ELSE (n - 1) - 0 + 1
    BY <2>1, <2>2
  <2> QED
    BY <1>1, <2>3
<1>3. Iterate(map, key) = it
  BY DEF Iterate
<1>4. key \in V
  OBVIOUS
<1> HIDE DEF V, it
<1>5. F \in [Nat \X V -> V]
  BY <1>1
<1>6. \A k \in Nat, v \in V : F[<<k, v>>] = map[v]
  <2> TAKE k \in Nat, v \in V
  <2>1. <<k, v>> \in Nat \X V
    OBVIOUS
  <2> QED
    BY <2>1
<1> HIDE DEF F
<1>7. Recursion(n, V, key, F)
  BY <1>1, <1>4, <1>5 DEF Recursion
<1>8. PICK f \in [0..n -> V] : f = [k \in 0..n |-> IF k = 0 THEN key ELSE F[<<k, f[k - 1]>>]]
  BY <1>7, RecursionExists
<1>9. f = Step1(f)
  <2>1. \A k \in 0..n : (IF k = 0 THEN key ELSE F[<<k, f[k - 1]>>])
                        = (IF k = 0 THEN key ELSE map[f[k - 1]])
    <3> TAKE k \in 0..n
    <3>1. k \in Nat /\ (k # 0 => k - 1 \in 0..n)
      BY <1>1
    <3>2. k # 0 => f[k - 1] \in V
      BY <1>8, <3>1
    <3> QED
      BY <1>6, <3>1, <3>2
  <2>2. f = [k \in 0..n |-> IF k = 0 THEN key ELSE map[f[k - 1]]]
    BY <1>8, <2>1
  <2> QED
    BY <1>2, <2>2
<1>10. it = Step1(it)
  <2> HIDE DEF Step1
  <2> QED
    BY <1>9 DEF it
<1>11. it = [k \in 0..n |-> IF k = 0 THEN key ELSE map[it[k - 1]]]
  BY <1>2, <1>10
<1>12. it[0] = key /\ \A k \in 1..n : it[k] = map[it[k - 1]]
  <2>1. \A k \in 0..n : it[k] = IF k = 0 THEN key ELSE map[it[k - 1]]
    BY <1>11
  <2>2. 0 \in 0..n /\ \A k \in 1..n : k \in 0..n /\ k # 0
    BY <1>1
  <2> QED
    BY <2>1, <2>2
<1>13. \A k \in 1..n : it[k - 1] \in V => it[k] = F[<<k, it[k - 1]>>]
  <2>1. \A k \in 1..n : k \in Nat
    BY <1>1
  <2> QED
    BY <1>6, <1>12, <2>1
<1>14. \A k \in 0..n : it[k] \in V
  BY <1>7, <1>12, <1>13, RecursionTyped
<1>15. it \in [0..n -> V]
  BY <1>11, <1>14
<1> QED
  BY <1>3, <1>12, <1>15 DEF V

\* It comes back to the first.
LEMMA Returns ==
  ASSUME NEW map, NEW n, Shuffles(map, n), NEW key \in 0..(n - 1)
  PROVE  \E m \in 1..n : /\ Iterate(map, key)[m] = key
                         /\ \A k \in 1..(m - 1) : Iterate(map, key)[k] # key
<1> DEFINE V == 0..(n - 1)
           A == 0..n
           it == Iterate(map, key)
<1>1. n \in Nat \ {0} /\ map \in [V -> V] /\ \A s, t \in V : map[s] = map[t] => s = t
  BY DEF Shuffles
<1>2. /\ it \in [A -> V]
      /\ it[0] = key
      /\ \A k \in 1..n : it[k] = map[it[k - 1]]
  BY IterateIs
<1> HIDE DEF it
<1>3. \E i, j \in A : i # j /\ it[i] = it[j]
  <2>1. n - 1 \in Int /\ 0 \in Int /\ n \in Int
    BY <1>1
  <2>2. \A m \in Int : IsFiniteSet(0..m) /\ Cardinality(0..m) = IF 0 > m THEN 0 ELSE m - 0 + 1
    BY FS_Interval
  <2>3. IsFiniteSet(V) /\ Cardinality(V) = IF 0 > n - 1 THEN 0 ELSE (n - 1) - 0 + 1
    BY <2>1, <2>2
  <2>4. IsFiniteSet(A) /\ Cardinality(A) = IF 0 > n THEN 0 ELSE n - 0 + 1
    BY <2>1, <2>2
  <2>5. Cardinality(V) = n /\ Cardinality(A) = n + 1
    BY <1>1, <2>3, <2>4
  <2>6. Cardinality(V) < Cardinality(A)
    BY <1>1, <2>5
  <2> HIDE DEF A, V
  <2> QED
    BY <1>2, <2>3, <2>4, <2>6, FS_PigeonHole
<1>4. PICK i \in A, j \in A : i < j /\ it[i] = it[j]
  <2>1. PICK a \in A, b \in A : a # b /\ it[a] = it[b]
    BY <1>3
  <2>2. a < b \/ b < a
    BY <1>1, <2>1
  <2> QED
    BY <2>1, <2>2
<1> DEFINE Back(d) == i - d \in Nat => it[i - d] = it[j - d]
           T == {d \in Nat : Back(d)}
<1>5. Nat \subseteq T
  <2>1. 0 \in T
    <3>1. i - 0 = i /\ j - 0 = j
      BY <1>1
    <3> QED
      BY <1>4, <3>1
  <2>2. ASSUME NEW d \in Nat, d \in T PROVE d + 1 \in T
    <3> SUFFICES ASSUME i - (d + 1) \in Nat PROVE it[i - (d + 1)] = it[j - (d + 1)]
      OBVIOUS
    <3>1. /\ i - d \in 1..n /\ j - d \in 1..n
          /\ (i - d) - 1 = i - (d + 1) /\ (j - d) - 1 = j - (d + 1)
          /\ i - (d + 1) \in A /\ j - (d + 1) \in A /\ i - d \in Nat
      BY <1>1, <1>4
    <3>2. it[i - d] = it[j - d]
      BY <2>2, <3>1
    <3>3. it[i - d] = map[it[i - (d + 1)]] /\ it[j - d] = map[it[j - (d + 1)]]
      BY <1>2, <3>1
    <3>4. it[i - (d + 1)] \in V /\ it[j - (d + 1)] \in V
      BY <1>2, <3>1
    <3> QED
      BY <1>1, <3>2, <3>3, <3>4
  <2> HIDE DEF T
  <2> QED
    BY <2>1, <2>2, SetInduction
<1>6. j - i \in 1..n /\ it[j - i] = key
  <2>1. i \in Nat /\ i - i = 0 /\ j - i \in 1..n
    BY <1>1, <1>4
  <2>2. Back(i)
    BY <1>5, <2>1
  <2> QED
    BY <1>2, <2>1, <2>2
<1> DEFINE R == {m \in 1..n : it[m] = key}
           m == Least(R)
<1>7. m \in R /\ \A k \in R : m <= k
  <2>1. R \in SUBSET Nat /\ R # {}
    <3>1. j - i \in R
      BY <1>6
    <3>2. \A k \in R : k \in Nat
      BY <1>1
    <3> QED
      BY <3>1, <3>2
  <2> HIDE DEF R
  <2> QED
    BY <2>1, LeastIs
<1> HIDE DEF m
<1>8. m \in 1..n /\ it[m] = key /\ \A k \in 1..(m - 1) : it[k] # key
  <2>1. m \in 1..n
    BY <1>7
  <2>2. \A k \in 1..(m - 1) : k \in 1..n /\ ~(m <= k)
    BY <1>1, <2>1
  <2> QED
    BY <1>7, <2>1, <2>2
<1> QED
  BY <1>8 DEF it

\* Closed walks over n slots.
Cycles(n) == {c \in Seq(0..(n - 1)) : Len(c) >= 2}

\* The walk from a slot of a permutation is a cycle of its slots,
LEMMA CycleTyped ==
  ASSUME NEW map, NEW n, Shuffles(map, n), NEW key \in 0..(n - 1)
  PROVE  CycleFrom(map, key) \in Cycles(n)
<1> DEFINE V == 0..(n - 1)
           it == Iterate(map, key)
           len == CHOOSE m \in 1..Cardinality(DOMAIN map) :
                    it[m] = key /\ \A k \in 1..(m - 1) : it[k] # key
           c == CycleFrom(map, key)
<1>1. n \in Nat \ {0} /\ DOMAIN map = 0..(n - 1)
  BY DEF Shuffles
<1>2. Cardinality(DOMAIN map) = n
  <2>1. n - 1 \in Int /\ 0 \in Int
    BY <1>1
  <2>2. \A m \in Int : Cardinality(0..m) = IF 0 > m THEN 0 ELSE m - 0 + 1
    BY FS_Interval
  <2>3. Cardinality(0..(n - 1)) = IF 0 > n - 1 THEN 0 ELSE (n - 1) - 0 + 1
    BY <2>1, <2>2
  <2> QED
    BY <1>1, <2>3
<1>3. it \in [0..n -> V]
  BY IterateIs
<1>4. \E m \in 1..n : it[m] = key /\ \A k \in 1..(m - 1) : it[k] # key
  BY Returns
<1>5. c = [i \in 1..(len + 1) |-> it[i - 1]]
  BY DEF CycleFrom
<1> HIDE DEF it, c
<1>6. len \in 1..n
  BY <1>2, <1>4
<1> HIDE DEF len
<1>7. len + 1 \in Nat /\ len + 1 >= 2 /\ \A i \in 1..(len + 1) : i - 1 \in 0..n
  BY <1>1, <1>6
<1>8. c \in [1..(len + 1) -> V]
  BY <1>3, <1>5, <1>7
<1> HIDE DEF V
<1>9. c \in Seq(V) /\ Len(c) = len + 1
  <2> DEFINE m == len + 1
  <2>1. m \in Nat /\ c \in [1..m -> V]
    BY <1>7, <1>8
  <2> HIDE DEF m
  <2>2. c \in Seq(V) /\ Len(c) = m
    BY <2>1, SeqIntro
  <2> QED
    BY <2>2 DEF m
<1>10. Len(c) >= 2
  BY <1>7, <1>9
<1> QED
  BY <1>9, <1>10 DEF Cycles, V, c

\* and the slots make a list of cycles.
LEMMA CyclesTyped ==
  ASSUME NEW map, NEW n, Shuffles(map, n)
  PROVE  BuildNative2DCycles(map) \in Seq(Cycles(n))
<1> DEFINE V == 0..(n - 1)
           starts == {k \in DOMAIN map :
                        /\ map[k] # k
                        /\ \A i \in DOMAIN Iterate(map, k) : k <= Iterate(map, k)[i]}
           order == Ordered(starts, <)
           C == Cycles(n)
           m == Cardinality(starts)
           bs == BuildNative2DCycles(map)
<1>1. n \in Nat \ {0} /\ DOMAIN map = V
  BY DEF Shuffles
<1>2. starts \in SUBSET V
  BY <1>1
<1>3. IsFiniteSet(V) /\ V \subseteq Int
  <2>1. n - 1 \in Int /\ 0 \in Int
    BY <1>1
  <2>2. \A k \in Int : IsFiniteSet(0..k)
    BY FS_Interval
  <2> QED
    BY <1>1, <2>1, <2>2
<1>4. bs = [i \in DOMAIN order |-> CycleFrom(map, order[i])]
  BY DEF BuildNative2DCycles
<1>5. \A key \in V : CycleFrom(map, key) \in C
  BY CycleTyped
<1> HIDE DEF V, starts, C, bs
<1>6. IsFiniteSet(starts) /\ starts \in SUBSET Int
  BY <1>2, <1>3, FS_Subset
<1>7. order \in [1..m -> starts] /\ m \in Nat
  BY <1>6, NumbersInOrder
<1> HIDE DEF order, m
<1>8. bs \in [1..m -> C]
  <2>1. \A i \in 1..m : order[i] \in V
    BY <1>2, <1>7
  <2> QED
    BY <1>4, <1>5, <1>7, <2>1
<1>9. bs \in Seq(C)
  BY <1>7, <1>8, SeqIntro
<1> QED
  BY <1>9 DEF bs, C

(***************************************************************************)
(* The steps of the slab executor.                                         *)
(***************************************************************************)
\* The rectangles of one shape inside a local matrix.
Rects(g, h, w) == {r \in [row : Nat, col : Nat, height : {h}, width : {w}] : Inside(g, r)}

\* The steps that move slabs of one shape.
SlabSteps(g, phase, h, w) ==
  [phase : {phase}, seq : Nat, kind : {Save}, from : RanksOf(g), to : {-1},
   source : Rects(g, h, w), target : {NoRect}]
  \cup [phase : {phase}, seq : Nat, kind : {Move}, from : RanksOf(g), to : RanksOf(g),
        source : Rects(g, h, w), target : Rects(g, h, w)]
  \cup [phase : {phase}, seq : Nat, kind : {Restore}, from : RanksOf(g), to : RanksOf(g),
        source : {NoRect}, target : Rects(g, h, w)]

\* Where slots are: a rank and a slab of its local matrix.
Decodes(decode, g, n, h, w) ==
  /\ n \in Nat \ {0}
  /\ \A s \in 0..(n - 1) : decode[s].rank \in RanksOf(g) /\ decode[s].rect \in Rects(g, h, w)

\* A cycle makes steps that move slabs of its shape,
LEMMA CycleStepsTyped ==
  ASSUME NEW g, NEW phase, NEW n, NEW h, NEW w, NEW decode, Decodes(decode, g, n, h, w),
         NEW slots, slots \in Cycles(n), NEW offset, offset \in Nat
  PROVE  AppendCycleSteps(phase, decode, slots, offset) \in Seq(SlabSteps(g, phase, h, w))
<1> DEFINE S == SlabSteps(g, phase, h, w)
           L == Len(slots)
           saved == decode[slots[L - 1]]
           first == decode[slots[1]]
           save == Step(phase, offset, Save, saved.rank, -1, saved.rect, NoRect)
           Mv(k) == LET source == decode[slots[RotationSource(L, k)]]
                        target == decode[slots[RotationSource(L, k) + 1]]
                    IN  Step(phase, offset + k, Move,
                             source.rank, target.rank, source.rect, target.rect)
           moves == [k \in 1..(L - 2) |-> Mv(k)]
           restore == Step(phase, offset + L - 1, Restore,
                           saved.rank, first.rank, NoRect, first.rect)
<1>1. L \in Nat /\ L >= 2 /\ \A i \in 1..L : slots[i] \in 0..(n - 1)
  <2> DEFINE V == 0..(n - 1)
  <2>1. slots \in Seq(V) /\ Len(slots) >= 2
    BY DEF Cycles
  <2> HIDE DEF V
  <2>2. Len(slots) \in Nat /\ \A i \in 1..Len(slots) : slots[i] \in V
    BY <2>1, LenProperties, ElementOfSeq
  <2> QED
    BY <2>1, <2>2 DEF V
<1> HIDE DEF L
<1>2. \A i \in 1..L : /\ decode[slots[i]].rank \in RanksOf(g)
                      /\ decode[slots[i]].rect \in Rects(g, h, w)
  BY <1>1 DEF Decodes
<1>3. AppendCycleSteps(phase, decode, slots, offset) = <<save>> \o moves \o <<restore>>
  BY DEF AppendCycleSteps, L
<1>4. L - 1 \in 1..L /\ 1 \in 1..L /\ L - 2 \in Nat /\ offset + L - 1 \in Nat
  BY <1>1
<1>5. save \in S
  <2>1. saved.rank \in RanksOf(g) /\ saved.rect \in Rects(g, h, w)
    BY <1>2, <1>4
  <2> HIDE DEF saved
  <2> QED
    BY <2>1 DEF SlabSteps, Step
<1>6. restore \in S
  <2>1. saved.rank \in RanksOf(g) /\ first.rank \in RanksOf(g) /\ first.rect \in Rects(g, h, w)
    BY <1>2, <1>4
  <2> HIDE DEF saved, first
  <2> QED
    BY <1>4, <2>1 DEF SlabSteps, Step
<1>7. \A k \in 1..(L - 2) : Mv(k) \in S
  <2> TAKE k \in 1..(L - 2)
  <2> DEFINE source == decode[slots[RotationSource(L, k)]]
             target == decode[slots[RotationSource(L, k) + 1]]
  <2>1. RotationSource(L, k) \in 1..L /\ RotationSource(L, k) + 1 \in 1..L /\ offset + k \in Nat
    BY <1>1 DEF RotationSource
  <2>2. /\ source.rank \in RanksOf(g) /\ source.rect \in Rects(g, h, w)
        /\ target.rank \in RanksOf(g) /\ target.rect \in Rects(g, h, w)
    BY <1>2, <2>1
  <2>3. Mv(k) = Step(phase, offset + k, Move, source.rank, target.rank, source.rect, target.rect)
    OBVIOUS
  <2> HIDE DEF source, target, Mv
  <2> QED
    BY <2>1, <2>2, <2>3 DEF SlabSteps, Step
<1> HIDE DEF S, save, restore, Mv
<1>8. moves \in Seq(S)
  <2> DEFINE m == L - 2
  <2>1. m \in Nat /\ moves \in [1..m -> S]
    BY <1>4, <1>7
  <2> HIDE DEF moves, m
  <2> QED
    BY <2>1, SeqIntro
<1>9. <<save>> \in Seq(S) /\ <<restore>> \in Seq(S)
  BY <1>5, <1>6
<1> HIDE DEF moves
<1>10. <<save>> \o moves \o <<restore>> \in Seq(S)
  BY <1>8, <1>9, ConcatProperties
<1> QED
  BY <1>3, <1>10 DEF S

\* Where the cycles of a group start.
Offsets(cs) ==
  LET offset[i \in 1..Len(cs)] == IF i = 1 THEN 0 ELSE offset[i - 1] + Len(cs[i - 1])
  IN  offset

\* as many as its length says, one cycle after the other,
LEMMA OffsetsTyped ==
  ASSUME NEW n, NEW cs, cs \in Seq(Cycles(n))
  PROVE  \A i \in 1..Len(cs) :
           /\ Offsets(cs)[i] \in Nat
           /\ Offsets(cs)[i] = IF i = 1 THEN 0 ELSE Offsets(cs)[i - 1] + Len(cs[i - 1])
<1> DEFINE N == Len(cs)
           C == Cycles(n)
           F == [x \in (1..N) \X Nat |-> IF x[1] = 1 THEN 0 ELSE x[2] + Len(cs[x[1] - 1])]
           Step1(w) == [i \in 1..N |-> IF i = 1 THEN 0 ELSE w[i - 1] + Len(cs[i - 1])]
           it == CHOOSE w : w = Step1(w)
<1>1. N \in Nat /\ \A i \in 1..N : Len(cs[i]) \in Nat
  <2>1. \A c \in C : Len(c) \in Nat
    BY LenProperties DEF Cycles
  <2> HIDE DEF C
  <2>2. cs \in Seq(C)
    BY DEF C
  <2>3. Len(cs) \in Nat /\ \A i \in 1..Len(cs) : cs[i] \in C
    BY <2>2, LenProperties, ElementOfSeq
  <2> QED
    BY <2>1, <2>3
<1>2. Offsets(cs) = it
  BY DEF Offsets
<1> HIDE DEF it, N
<1>3. CASE N = 0
  BY <1>3 DEF N
<1>4. CASE N # 0
  <2>1. N \in Nat \ {0} /\ 0 \in Nat
    BY <1>1, <1>4
  <2>2. F \in [(1..N) \X Nat -> Nat]
    <3>1. \A x \in (1..N) \X Nat : (IF x[1] = 1 THEN 0 ELSE x[2] + Len(cs[x[1] - 1])) \in Nat
      <4> TAKE x \in (1..N) \X Nat
      <4>1. x[1] \in 1..N /\ x[2] \in Nat
        OBVIOUS
      <4>2. x[1] # 1 => x[1] - 1 \in 1..N
        BY <1>1, <4>1
      <4>3. x[1] # 1 => Len(cs[x[1] - 1]) \in Nat
        BY <1>1, <4>2
      <4> QED
        BY <4>1, <4>3
    <3> QED
      BY <3>1
  <2>3. \A k \in 1..N, v \in Nat : F[<<k, v>>] = IF k = 1 THEN 0 ELSE v + Len(cs[k - 1])
    <3> TAKE k \in 1..N, v \in Nat
    <3>1. <<k, v>> \in (1..N) \X Nat
      OBVIOUS
    <3> QED
      BY <3>1
  <2> HIDE DEF F
  <2>4. PICK f : FromOne(f, N, Nat, 0, F)
    BY <2>1, <2>2, RecursionFromOne
  <2>5. f = Step1(f)
    <3>1. f \in [1..N -> Nat]
          /\ \A k \in 1..N : f[k] = IF k = 1 THEN 0 ELSE F[<<k, f[k - 1]>>]
      BY <2>4 DEF FromOne
    <3>2. \A k \in 1..N : f[k] = IF k = 1 THEN 0 ELSE f[k - 1] + Len(cs[k - 1])
      <4> TAKE k \in 1..N
      <4>1. k # 1 => k - 1 \in 1..N
        BY <1>1
      <4>2. k # 1 => f[k - 1] \in Nat
        BY <3>1, <4>1
      <4> QED
        BY <2>3, <3>1, <4>2
    <3> QED
      BY <3>1, <3>2
  <2>6. it = Step1(it)
    <3> HIDE DEF Step1
    <3> QED
      BY <2>5 DEF it
  <2>7. \A k \in 1..N : it[k] = IF k = 1 THEN 0 ELSE it[k - 1] + Len(cs[k - 1])
    BY <2>6
  <2>8. FollowsFromOne(it, N, Nat, 0, F)
    <3>1. 1 \in 1..N /\ \A k \in 2..N : k \in 1..N /\ k # 1
      BY <2>1
    <3>2. it[1] = 0
      BY <2>7, <3>1
    <3>3. \A k \in 2..N : it[k - 1] \in Nat => it[k] = F[<<k, it[k - 1]>>]
      BY <2>3, <2>7, <3>1
    <3> QED
      BY <3>2, <3>3 DEF FollowsFromOne
  <2>9. \A k \in 1..N : it[k] \in Nat
    BY <2>1, <2>2, <2>8, RecursionFromOne
  <2> QED
    BY <1>2, <2>7, <2>9 DEF N
<1> QED
  BY <1>3, <1>4

\* The cycles of one group, one after the other.
Serially(phase, decode, cs) ==
  LET offset[i \in 1..Len(cs)] == IF i = 1 THEN 0 ELSE offset[i - 1] + Len(cs[i - 1])
  IN  FlattenSeq([i \in DOMAIN cs |-> AppendCycleSteps(phase, decode, cs[i], offset[i])])

\* in a series of cycles
LEMMA SeriallyTyped ==
  ASSUME NEW g, NEW phase, NEW n, NEW h, NEW w, NEW decode, Decodes(decode, g, n, h, w),
         NEW cs, cs \in Seq(Cycles(n))
  PROVE  Serially(phase, decode, cs) \in Seq(SlabSteps(g, phase, h, w))
<1> DEFINE S == SlabSteps(g, phase, h, w)
           C == Cycles(n)
           offset == Offsets(cs)
           f == [i \in DOMAIN cs |-> AppendCycleSteps(phase, decode, cs[i], offset[i])]
           N == Len(cs)
<1>1. N \in Nat /\ DOMAIN cs = 1..N /\ \A i \in 1..N : cs[i] \in C
  <2> HIDE DEF C
  <2>1. cs \in Seq(C)
    BY DEF C
  <2> QED
    BY <2>1, LenProperties, ElementOfSeq
<1>2. \A i \in 1..N : offset[i] \in Nat
  BY OffsetsTyped
<1>3. Serially(phase, decode, cs) = FlattenSeq(f)
  BY DEF Serially, Offsets
<1> HIDE DEF offset
<1>4. \A i \in 1..N : AppendCycleSteps(phase, decode, cs[i], offset[i]) \in Seq(S)
  BY <1>1, <1>2, CycleStepsTyped
<1> HIDE DEF S
<1>5. f \in [1..N -> Seq(S)]
  BY <1>1, <1>4
<1> HIDE DEF f, N
<1>6. FlattenSeq(f) \in Seq(S)
  BY <1>1, <1>5, FlattenTyped
<1> QED
  BY <1>3, <1>6 DEF S

\* and in all groups of an axis.
LEMMA AxisGroupsTyped ==
  ASSUME NEW g, NEW phase, NEW n, NEW h, NEW w, NEW decode, Decodes(decode, g, n, h, w),
         NEW size \in Nat \ {0}, NEW cycles, cycles \in Seq(Cycles(n))
  PROVE  AppendAxisGroupSerialCycles(phase, decode, size, cycles)
           \in Seq(SlabSteps(g, phase, h, w))
<1> DEFINE S == SlabSteps(g, phase, h, w)
           C == Cycles(n)
           N == Len(cycles)
           group == [i \in DOMAIN cycles |-> cycles[i][1] \div size]
           G == {group[i] : i \in DOMAIN cycles}
           groups == Ordered(G, <)
           P(x) == {k \in DOMAIN cycles : group[k] = x}
           f == [i \in DOMAIN groups |-> Serially(phase, decode, Picked(cycles, P(groups[i])))]
<1>1. N \in Nat /\ DOMAIN cycles = 1..N /\ \A i \in 1..N : cycles[i] \in C
  <2> HIDE DEF C
  <2>1. cycles \in Seq(C)
    BY DEF C
  <2> QED
    BY <2>1, LenProperties, ElementOfSeq
<1>2. \A i \in 1..N : group[i] \in Int
  <2> TAKE i \in 1..N
  <2>1. cycles[i][1] \in Int
    <3> DEFINE V == 0..(n - 1)
               c == cycles[i]
    <3>1. c \in Seq(V) /\ Len(c) >= 2
      BY <1>1 DEF Cycles
    <3> HIDE DEF V, c
    <3>2. Len(c) \in Nat /\ \A k \in 1..Len(c) : c[k] \in V
      BY <3>1, LenProperties, ElementOfSeq
    <3>3. c[1] \in V
      BY <3>1, <3>2
    <3> QED
      BY <3>3 DEF V, c
  <2>2. \A z \in Int : z \div size \in Int
    BY SMT
  <2> QED
    BY <1>1, <2>1, <2>2
<1>3. AppendAxisGroupSerialCycles(phase, decode, size, cycles) = FlattenSeq(f)
  BY DEF AppendAxisGroupSerialCycles, Serially, SequenceCount
<1>4. G \in SUBSET Int /\ IsFiniteSet(G)
  <2> DEFINE A == 1..N
             h1 == [i \in A |-> group[i]]
  <2>1. IsFiniteSet(A)
    <3> HIDE DEF N
    <3> QED
      BY <1>1, FS_Interval
  <2>2. h1 \in [A -> G] /\ \A x \in G : \E i \in A : h1[i] = x
    <3> HIDE DEF group, N
    <3> QED
      BY <1>1
  <2>3. h1 \in Surjection(A, G)
    <3> HIDE DEF h1, A, G
    <3> QED
      BY <2>2 DEF Surjection
  <2>4. IsFiniteSet(G)
    <3> HIDE DEF h1, A, G
    <3> QED
      BY <2>1, <2>3, FS_Surjection
  <2>5. G \in SUBSET Int
    <3> HIDE DEF group, N
    <3> QED
      BY <1>1, <1>2
  <2> QED
    BY <2>4, <2>5
<1> DEFINE m == Cardinality(G)
<1>5. groups \in [1..m -> G] /\ m \in Nat
  <2> HIDE DEF G
  <2> QED
    BY <1>4, NumbersInOrder
<1>6. \A x \in G : Serially(phase, decode, Picked(cycles, P(x))) \in Seq(S)
  <2> TAKE x \in G
  <2>1. P(x) \in SUBSET (1..Len(cycles))
    BY <1>1
  <2> DEFINE Q == P(x)
             cs == Picked(cycles, Q)
             U == {cycles[i] : i \in Q}
  <2> HIDE DEF P
  <2>2. cs \in Seq(U)
    <3> HIDE DEF Q, C, N
    <3>1. cycles \in Seq(C) /\ Q \in SUBSET (1..Len(cycles))
      BY <2>1 DEF Q, C
    <3> QED
      BY <3>1, PickedTyped
  <2>3. U \subseteq C
    <3> HIDE DEF C, Q
    <3>1. Q \subseteq 1..N
      BY <2>1 DEF Q
    <3> QED
      BY <1>1, <3>1
  <2> HIDE DEF U, cs
  <2>4. cs \in Seq(C)
    <3> HIDE DEF C
    <3> QED
      BY <2>2, <2>3, SeqMonotonic
  <2>5. Serially(phase, decode, cs) \in Seq(S)
    BY <2>4, SeriallyTyped
  <2> QED
    BY <2>5 DEF cs, Q
<1> HIDE DEF S, G, P, groups, m
<1>7. f \in [1..m -> Seq(S)]
  <2>1. DOMAIN groups = 1..m /\ \A i \in 1..m : groups[i] \in G
    BY <1>5
  <2> QED
    BY <1>6, <2>1
<1> HIDE DEF f
<1>8. FlattenSeq(f) \in Seq(S)
  BY <1>5, <1>7, FlattenTyped
<1> QED
  BY <1>3, <1>8 DEF S

(***************************************************************************)
(* Slots and the slabs they stand for.                                     *)
(***************************************************************************)
\* The blocks of a shard.
LEMMA BlocksFit ==
  ASSUME NEW g, GeometryOK(g)
  PROVE  /\ ColBlocks(g) \in Nat \ {0} /\ g.cols = ColBlocks(g) * g.tcols
         /\ RowBlocks(g) \in Nat \ {0} /\ g.rows = RowBlocks(g) * g.trows
<1>1. \A a, b \in Nat \ {0} : a % b = 0 => a \div b \in Nat \ {0} /\ a = (a \div b) * b
  <2> TAKE a \in Nat \ {0}, b \in Nat \ {0}
  <2> SUFFICES ASSUME a % b = 0 PROVE a \div b \in Nat \ {0} /\ a = (a \div b) * b
    OBVIOUS
  <2>1. a \div b \in Nat /\ a = (a \div b) * b + (a % b)
    BY DivMod
  <2>2. a = (a \div b) * b
    BY <2>1, SMT
  <2>3. a \div b # 0
    BY <2>2, SMT
  <2> QED
    BY <2>1, <2>2, <2>3
<1>2. /\ g.rows \in Nat \ {0} /\ g.cols \in Nat \ {0}
      /\ g.trows \in Nat \ {0} /\ g.tcols \in Nat \ {0}
      /\ g.rows % g.trows = 0 /\ g.cols % g.tcols = 0
  BY DEF GeometryOK, SlabArgumentsOK
<1> QED
  BY <1>1, <1>2 DEF ColBlocks, RowBlocks

\* The ranks of a grid.
LEMMA RankAtTyped ==
  ASSUME NEW g, GeometryOK(g), NEW p \in 0..(g.prows - 1), NEW q \in 0..(g.pcols - 1)
  PROVE  RankAt(g, p, q) \in RanksOf(g)
<1>1. p * g.pcols + q \in 0..(g.prows * g.pcols - 1)
  BY PlaceInRow DEF GeometryOK
<1>2. g.rankMap \in [RanksOf(g) -> RanksOf(g)]
  BY DEF GeometryOK
<1> QED
  BY <1>1, <1>2 DEF RankAt, RanksOf

\* A block of an axis lies inside it.
LEMMA BlockInside ==
  ASSUME NEW blocks \in Nat \ {0}, NEW tile \in Nat \ {0}, NEW b \in 0..(blocks - 1)
  PROVE  b * tile \in Nat /\ b * tile + tile <= blocks * tile
<1>1. b * tile \in Nat
  BY SMT
<1>2. b \in Int /\ blocks \in Int /\ b < blocks
  OBVIOUS
<1> QED
  BY <1>1, <1>2, Apart

\* A slot of the column phase stands for a slab of whole columns.
LEMMA ColumnDecodes ==
  ASSUME NEW g, GeometryOK(g), NEW decode,
         \A s \in 0..(g.prows * (g.pcols * ColBlocks(g)) - 1) :
           decode[s] = ColumnPhaseSlotToRankLocal(g, s)
  PROVE  Decodes(decode, g, g.prows * (g.pcols * ColBlocks(g)), g.rows, g.tcols)
<1> DEFINE per == g.pcols * ColBlocks(g)
           n == g.prows * per
<1>1. ColBlocks(g) \in Nat \ {0} /\ g.cols = ColBlocks(g) * g.tcols
  BY BlocksFit
<1>2. g.prows \in Nat \ {0} /\ g.pcols \in Nat \ {0} /\ g.rows \in Nat \ {0}
      /\ g.tcols \in Nat \ {0} /\ g.cols \in Nat
  BY DEF GeometryOK
<1>3. per \in Nat \ {0}
  BY <1>1, <1>2, SMT
<1>4. n \in Nat \ {0}
  <2> HIDE DEF per
  <2> QED
    BY <1>2, <1>3, SMT
<1>5. ASSUME NEW s \in 0..(n - 1)
      PROVE  decode[s].rank \in RanksOf(g) /\ decode[s].rect \in Rects(g, g.rows, g.tcols)
  <2> DEFINE prow == s \div per
             inRow == s % per
             pcol == inRow \div ColBlocks(g)
             block == inRow % ColBlocks(g)
  <2>1. prow \in 0..(g.prows - 1) /\ inRow \in 0..(per - 1)
    <3>1. \A a, b \in Nat \ {0} : \A x \in 0..(a * b - 1) :
            x \div b \in 0..(a - 1) /\ x % b \in 0..(b - 1)
      BY RowAndPlace
    <3> HIDE DEF per
    <3> QED
      BY <1>2, <1>3, <3>1
  <2>2. pcol \in 0..(g.pcols - 1) /\ block \in 0..(ColBlocks(g) - 1)
    <3> HIDE DEF inRow
    <3> QED
      BY <1>1, <1>2, <2>1, RowAndPlace
  <2>3. decode[s] = [rank |-> RankAt(g, prow, pcol), rect |-> ColumnSlabRect(g, block)]
    BY DEF ColumnPhaseSlotToRankLocal
  <2> HIDE DEF prow, inRow, pcol, block
  <2>4. RankAt(g, prow, pcol) \in RanksOf(g)
    BY <2>1, <2>2, RankAtTyped
  <2>5. block * g.tcols \in Nat /\ block * g.tcols + g.tcols <= g.cols
    BY <1>1, <1>2, <2>2, BlockInside
  <2>6. ColumnSlabRect(g, block) \in Rects(g, g.rows, g.tcols)
    <3> DEFINE x == block * g.tcols
    <3>1. x \in Nat /\ x + g.tcols <= g.cols
      BY <2>5
    <3> HIDE DEF x
    <3>2. Rect(0, x, g.rows, g.tcols) \in Rects(g, g.rows, g.tcols)
      BY <1>2, <3>1 DEF Rects, Rect, Inside
    <3> QED
      BY <3>2 DEF x, ColumnSlabRect
  <2> QED
    BY <2>3, <2>4, <2>6
<1> QED
  BY <1>4, <1>5 DEF Decodes

\* A slot of the row phase stands for a slab of whole rows.
LEMMA RowDecodes ==
  ASSUME NEW g, GeometryOK(g), NEW decode,
         \A s \in 0..(g.pcols * (g.prows * RowBlocks(g)) - 1) :
           decode[s] = RowPhaseSlotToRankLocal(g, s)
  PROVE  Decodes(decode, g, g.pcols * (g.prows * RowBlocks(g)), g.trows, g.cols)
<1> DEFINE per == g.prows * RowBlocks(g)
           n == g.pcols * per
<1>1. RowBlocks(g) \in Nat \ {0} /\ g.rows = RowBlocks(g) * g.trows
  BY BlocksFit
<1>2. g.prows \in Nat \ {0} /\ g.pcols \in Nat \ {0} /\ g.cols \in Nat \ {0}
      /\ g.trows \in Nat \ {0} /\ g.rows \in Nat
  BY DEF GeometryOK
<1>3. per \in Nat \ {0}
  BY <1>1, <1>2, SMT
<1>4. n \in Nat \ {0}
  <2> HIDE DEF per
  <2> QED
    BY <1>2, <1>3, SMT
<1>5. ASSUME NEW s \in 0..(n - 1)
      PROVE  decode[s].rank \in RanksOf(g) /\ decode[s].rect \in Rects(g, g.trows, g.cols)
  <2> DEFINE pcol == s \div per
             inCol == s % per
             prow == inCol \div RowBlocks(g)
             block == inCol % RowBlocks(g)
  <2>1. pcol \in 0..(g.pcols - 1) /\ inCol \in 0..(per - 1)
    <3>1. \A a, b \in Nat \ {0} : \A x \in 0..(a * b - 1) :
            x \div b \in 0..(a - 1) /\ x % b \in 0..(b - 1)
      BY RowAndPlace
    <3> HIDE DEF per
    <3> QED
      BY <1>2, <1>3, <3>1
  <2>2. prow \in 0..(g.prows - 1) /\ block \in 0..(RowBlocks(g) - 1)
    <3> HIDE DEF inCol
    <3> QED
      BY <1>1, <1>2, <2>1, RowAndPlace
  <2>3. decode[s] = [rank |-> RankAt(g, prow, pcol), rect |-> RowSlabRect(g, block)]
    BY DEF RowPhaseSlotToRankLocal
  <2> HIDE DEF prow, inCol, pcol, block
  <2>4. RankAt(g, prow, pcol) \in RanksOf(g)
    BY <2>1, <2>2, RankAtTyped
  <2>5. block * g.trows \in Nat /\ block * g.trows + g.trows <= g.rows
    BY <1>1, <1>2, <2>2, BlockInside
  <2>6. RowSlabRect(g, block) \in Rects(g, g.trows, g.cols)
    <3> DEFINE x == block * g.trows
    <3>1. x \in Nat /\ x + g.trows <= g.rows
      BY <2>5
    <3> HIDE DEF x
    <3>2. Rect(x, 0, g.trows, g.cols) \in Rects(g, g.trows, g.cols)
      BY <1>2, <3>1 DEF Rects, Rect, Inside
    <3> QED
      BY <3>2 DEF x, RowSlabRect
  <2> QED
    BY <2>3, <2>4, <2>6
<1> QED
  BY <1>4, <1>5 DEF Decodes

\* The column phase moves slabs of columns between ranks.
LEMMA ColumnPhaseTyped ==
  ASSUME NEW g, GeometryOK(g), NEW phase, NEW map,
         Shuffles(map, g.prows * (g.pcols * ColBlocks(g)))
  PROVE  ColumnPhase(g, phase, map) \in Seq(SlabSteps(g, phase, g.rows, g.tcols))
<1> DEFINE size == g.pcols * ColBlocks(g)
           n == g.prows * size
           decode == [s \in DOMAIN map |-> ColumnPhaseSlotToRankLocal(g, s)]
           cycles == BuildNative2DCycles(map)
<1>1. size \in Nat \ {0}
  <2>1. g.pcols \in Nat \ {0} /\ ColBlocks(g) \in Nat \ {0}
    BY BlocksFit DEF GeometryOK
  <2> QED
    BY <2>1, SMT
<1>2. DOMAIN map = 0..(n - 1)
  BY DEF Shuffles
<1>3. Decodes(decode, g, n, g.rows, g.tcols)
  <2>1. \A s \in 0..(n - 1) : decode[s] = ColumnPhaseSlotToRankLocal(g, s)
    BY <1>2
  <2> HIDE DEF decode
  <2> QED
    BY <2>1, ColumnDecodes
<1>4. cycles \in Seq(Cycles(n))
  BY CyclesTyped
<1>5. ColumnPhase(g, phase, map) = AppendAxisGroupSerialCycles(phase, decode, size, cycles)
  BY DEF ColumnPhase
<1> HIDE DEF decode, cycles, n, size
<1>6. AppendAxisGroupSerialCycles(phase, decode, size, cycles)
        \in Seq(SlabSteps(g, phase, g.rows, g.tcols))
  BY <1>1, <1>3, <1>4, AxisGroupsTyped
<1> QED
  BY <1>5, <1>6

\* The row phase moves slabs of rows.
LEMMA RowPhaseTyped ==
  ASSUME NEW g, GeometryOK(g), NEW phase, NEW map,
         Shuffles(map, g.pcols * (g.prows * RowBlocks(g)))
  PROVE  RowPhase(g, phase, map) \in Seq(SlabSteps(g, phase, g.trows, g.cols))
<1> DEFINE size == g.prows * RowBlocks(g)
           n == g.pcols * size
           decode == [s \in DOMAIN map |-> RowPhaseSlotToRankLocal(g, s)]
           cycles == BuildNative2DCycles(map)
<1>1. size \in Nat \ {0}
  <2>1. g.prows \in Nat \ {0} /\ RowBlocks(g) \in Nat \ {0}
    BY BlocksFit DEF GeometryOK
  <2> QED
    BY <2>1, SMT
<1>2. DOMAIN map = 0..(n - 1)
  BY DEF Shuffles
<1>3. Decodes(decode, g, n, g.trows, g.cols)
  <2>1. \A s \in 0..(n - 1) : decode[s] = RowPhaseSlotToRankLocal(g, s)
    BY <1>2
  <2> HIDE DEF decode
  <2> QED
    BY <2>1, RowDecodes
<1>4. cycles \in Seq(Cycles(n))
  BY CyclesTyped
<1>5. RowPhase(g, phase, map) = AppendAxisGroupSerialCycles(phase, decode, size, cycles)
  BY DEF RowPhase
<1> HIDE DEF decode, cycles, n, size
<1>6. AppendAxisGroupSerialCycles(phase, decode, size, cycles)
        \in Seq(SlabSteps(g, phase, g.trows, g.cols))
  BY <1>1, <1>3, <1>4, AxisGroupsTyped
<1> QED
  BY <1>5, <1>6

\* The slabs of both phases fit a slot of the scratch.
LEMMA SlabsFit ==
  ASSUME NEW g, GeometryOK(g)
  PROVE  /\ g.rows * g.tcols \in 1..RequiredCyclicSlotElements(g)
         /\ g.trows * g.cols \in 1..RequiredCyclicSlotElements(g)
<1> DEFINE a == g.tcols * g.rows
           b == g.trows * g.cols
<1>1. /\ g.rows \in Nat \ {0} /\ g.cols \in Nat \ {0}
      /\ g.trows \in Nat \ {0} /\ g.tcols \in Nat \ {0}
  BY DEF GeometryOK
<1>2. a \in Nat \ {0} /\ b \in Nat \ {0} /\ g.rows * g.tcols = a
  <2>1. \A x, y \in Nat \ {0} : x * y \in Nat \ {0} /\ x * y = y * x
    BY SMT
  <2> QED
    BY <1>1, <2>1
<1>3. RequiredCyclicSlotElements(g) = IF a >= b THEN a ELSE b
  BY DEF RequiredCyclicSlotElements, Larger
<1> HIDE DEF a, b
<1>4. a \in 1..RequiredCyclicSlotElements(g) /\ b \in 1..RequiredCyclicSlotElements(g)
  BY <1>2, <1>3
<1> QED
  BY <1>2, <1>4 DEF b

\* A step of the slab executor is in order.
LEMMA SlabStepOK ==
  ASSUME NEW g, NEW phase, NEW h, NEW w, NEW s \in SlabSteps(g, phase, h, w)
  PROVE  /\ s.phase = phase /\ s.seq \in Int /\ s.kind \in {Move, Save, Restore}
         /\ StepLoad(s) = h * w
         /\ StepOK(g, s.kind, s, h * w)
<1> DEFINE R == Rects(g, h, w)
<1>1. \A r \in R : Inside(g, r) /\ Size(r) = h * w /\ r.height = h
  BY DEF Rects, Size
<1>2. Save # Restore /\ Save # Move /\ Move # Restore
  BY DEF Save, Restore, Move
<1> HIDE DEF R
<1>3. CASE s \in [phase : {phase}, seq : Nat, kind : {Save}, from : RanksOf(g), to : {-1},
                  source : R, target : {NoRect}]
  <2>1. /\ s.phase = phase /\ s.seq \in Nat /\ s.kind = Save
        /\ s.from \in RanksOf(g) /\ s.to = -1 /\ s.source \in R
    BY <1>3
  <2> QED
    BY <1>1, <1>2, <2>1 DEF StepLoad, StepOK
<1>4. CASE s \in [phase : {phase}, seq : Nat, kind : {Move}, from : RanksOf(g),
                  to : RanksOf(g), source : R, target : R]
  <2>1. /\ s.phase = phase /\ s.seq \in Nat /\ s.kind = Move
        /\ s.from \in RanksOf(g) /\ s.to \in RanksOf(g) /\ s.source \in R /\ s.target \in R
    BY <1>4
  <2> QED
    BY <1>1, <1>2, <2>1 DEF StepLoad, StepOK
<1>5. CASE s \in [phase : {phase}, seq : Nat, kind : {Restore}, from : RanksOf(g),
                  to : RanksOf(g), source : {NoRect}, target : R]
  <2>1. /\ s.phase = phase /\ s.seq \in Nat /\ s.kind = Restore
        /\ s.from \in RanksOf(g) /\ s.to \in RanksOf(g) /\ s.target \in R
    BY <1>5
  <2> QED
    BY <1>1, <1>2, <2>1 DEF StepLoad, StepOK
<1> QED
  BY <1>3, <1>4, <1>5 DEF SlabSteps, R

\* Slabs of one shape in each phase can be batched.
LEMMA SlabSchedulable ==
  ASSUME NEW g, NEW h0, NEW w0, NEW h1, NEW w1,
         h0 * w0 \in 1..RequiredCyclicSlotElements(g),
         h1 * w1 \in 1..RequiredCyclicSlotElements(g)
  PROVE  Schedulable(g, "slab", SlabSteps(g, 0, h0, w0) \cup SlabSteps(g, 1, h1, w1))
<1> DEFINE S0 == SlabSteps(g, 0, h0, w0)
           S1 == SlabSteps(g, 1, h1, w1)
           n0 == h0 * w0
           n1 == h1 * w1
<1>1. \A s \in S0 : /\ s.phase = 0 /\ s.seq \in Int /\ s.kind \in {Move, Save, Restore}
                    /\ StepLoad(s) = n0 /\ StepOK(g, s.kind, s, n0)
  BY SlabStepOK
<1>2. \A s \in S1 : /\ s.phase = 1 /\ s.seq \in Int /\ s.kind \in {Move, Save, Restore}
                    /\ StepLoad(s) = n1 /\ StepOK(g, s.kind, s, n1)
  BY SlabStepOK
<1>3. n0 \in 1..Limit(g, "slab") /\ n1 \in 1..Limit(g, "slab")
  BY DEF Limit
<1> HIDE DEF S0, S1, n0, n1
<1>4. \A s \in S0 \cup S1 : /\ s.phase \in Int /\ s.seq \in Int
                            /\ s.kind \in {Move, Save, Restore}
                            /\ StepLoad(s) \in 1..Limit(g, "slab")
                            /\ StepOK(g, s.kind, s, StepLoad(s))
  BY <1>1, <1>2, <1>3
<1>5. \A s, t \in S0 \cup S1 : RoundOf(s) = RoundOf(t) => StepLoad(s) = StepLoad(t)
  <2> TAKE s, t \in S0 \cup S1
  <2> SUFFICES ASSUME RoundOf(s) = RoundOf(t) PROVE StepLoad(s) = StepLoad(t)
    OBVIOUS
  <2>1. s.phase = t.phase
    BY DEF RoundOf
  <2> QED
    BY <1>1, <1>2, <2>1
<1>6. Schedulable(g, "slab", S0 \cup S1)
  BY <1>4, <1>5 DEF Schedulable
<1> QED
  BY <1>6 DEF S0, S1

\* The slab batches of a geometry.
LEMMA SlabBatchesRun ==
  ASSUME NEW g, GeometryOK(g), NEW reverse \in BOOLEAN
  PROVE  Runnable(g, Tagged("slab", BatchNative2DSteps(BuildSlabNative2DSteps(g, reverse))))
<1> DEFINE Col(phase) == SlabSteps(g, phase, g.rows, g.tcols)
           Row(phase) == SlabSteps(g, phase, g.trows, g.cols)
           nc == g.prows * (g.pcols * ColBlocks(g))
           nr == g.pcols * (g.prows * RowBlocks(g))
           cm == BuildColumnSlabSlotMap(g)
           rm == BuildRowSlabSlotMap(g)
<1>1. Shuffles(cm, nc) /\ Shuffles(rm, nr)
  <2>1. /\ g.prows \in Nat \ {0} /\ g.pcols \in Nat \ {0}
        /\ ColBlocks(g) \in Nat \ {0} /\ RowBlocks(g) \in Nat \ {0}
    BY BlocksFit DEF GeometryOK
  <2> QED
    BY <2>1, AxisSlotMapShuffles DEF BuildColumnSlabSlotMap, BuildRowSlabSlotMap
<1> HIDE DEF cm, rm
<1>2. Shuffles(InvertSlotMap(cm), nc) /\ Shuffles(InvertSlotMap(rm), nr)
  BY <1>1, InverseShuffles
<1>3. \A phase : /\ ColumnPhase(g, phase, cm) \in Seq(Col(phase))
                 /\ RowPhase(g, phase, rm) \in Seq(Row(phase))
                 /\ ColumnPhase(g, phase, InvertSlotMap(cm)) \in Seq(Col(phase))
                 /\ RowPhase(g, phase, InvertSlotMap(rm)) \in Seq(Row(phase))
  <2> TAKE phase
  <2>1. ColumnPhase(g, phase, cm) \in Seq(Col(phase))
    BY <1>1, ColumnPhaseTyped
  <2>2. RowPhase(g, phase, rm) \in Seq(Row(phase))
    BY <1>1, RowPhaseTyped
  <2>3. ColumnPhase(g, phase, InvertSlotMap(cm)) \in Seq(Col(phase))
    BY <1>2, ColumnPhaseTyped
  <2>4. RowPhase(g, phase, InvertSlotMap(rm)) \in Seq(Row(phase))
    BY <1>2, RowPhaseTyped
  <2> QED
    BY <2>1, <2>2, <2>3, <2>4
<1>4. \A S, T : \A a \in Seq(S), b \in Seq(T) : a \o b \in Seq(S \cup T)
  <2> TAKE S, T
  <2> TAKE a \in Seq(S), b \in Seq(T)
  <2> DEFINE U == S \cup T
  <2>1. S \subseteq U /\ T \subseteq U
    OBVIOUS
  <2> HIDE DEF U
  <2>2. a \in Seq(U) /\ b \in Seq(U)
    BY <2>1, SeqMonotonic
  <2>3. a \o b \in Seq(U)
    BY <2>2, ConcatProperties
  <2> QED
    BY <2>3 DEF U
<1>5. Schedulable(g, "slab", Col(0) \cup Row(1)) /\ Schedulable(g, "slab", Row(0) \cup Col(1))
  <2>1. /\ g.rows * g.tcols \in 1..RequiredCyclicSlotElements(g)
        /\ g.trows * g.cols \in 1..RequiredCyclicSlotElements(g)
    BY SlabsFit
  <2> QED
    BY <2>1, SlabSchedulable
<1> HIDE DEF Col, Row
<1> DEFINE steps == BuildSlabNative2DSteps(g, reverse)
<1>6. CASE reverse
  <2>1. steps = RowPhase(g, 0, InvertSlotMap(rm)) \o ColumnPhase(g, 1, InvertSlotMap(cm))
    BY <1>6 DEF BuildSlabNative2DSteps, cm, rm
  <2> HIDE DEF steps
  <2>2. steps \in Seq(Row(0) \cup Col(1))
    BY <1>3, <1>4, <2>1
  <2>3. Runnable(g, Tagged("slab", BatchNative2DSteps(steps)))
    BY <1>5, <2>2, BatchesRun
  <2> QED
    BY <2>3 DEF steps
<1>7. CASE ~reverse
  <2>1. steps = ColumnPhase(g, 0, cm) \o RowPhase(g, 1, rm)
    BY <1>7 DEF BuildSlabNative2DSteps, cm, rm
  <2> HIDE DEF steps
  <2>2. steps \in Seq(Col(0) \cup Row(1))
    BY <1>3, <1>4, <2>1
  <2>3. Runnable(g, Tagged("slab", BatchNative2DSteps(steps)))
    BY <1>5, <2>2, BatchesRun
  <2> QED
    BY <2>3 DEF steps
<1> QED
  BY <1>6, <1>7

(***************************************************************************)
(* The moves of one axis of the edge padding.                              *)
(***************************************************************************)
\* A recursion over 0..N that goes on at a later number, next, up to N.
Onward(N, V, base, next, F) ==
  /\ N \in Nat /\ base \in V
  /\ next \in [0..N -> 0..N] /\ \A c \in 0..(N - 1) : c < next[c]
  /\ F \in [(0..N) \X V -> V]

\* f is a solution of it.
IsOnward(f, N, V, base, next, F) ==
  /\ f \in [0..N -> V]
  /\ \A c \in 0..N : f[c] = IF c = N THEN base ELSE F[<<c, f[next[c]]>>]

\* Such a recursion has a solution, built from N down.
LEMMA OnwardExists ==
  ASSUME NEW N, NEW V, NEW base, NEW next, NEW F, Onward(N, V, base, next, F)
  PROVE  \E f : IsOnward(f, N, V, base, next, F)
<1> DEFINE Good(f, n) == /\ f \in [(N - n)..N -> V]
                         /\ \A c \in (N - n)..N :
                              f[c] = IF c = N THEN base ELSE F[<<c, f[next[c]]>>]
           T == {n \in Nat : n <= N => \E f : Good(f, n)}
<1>1. /\ N \in Nat /\ base \in V
      /\ \A c \in 0..N : next[c] \in 0..N
      /\ \A c \in 0..(N - 1) : c < next[c]
      /\ \A c \in 0..N, v \in V : F[<<c, v>>] \in V
  BY DEF Onward
<1>2. 0 \in T
  <2> DEFINE f == [c \in (N - 0)..N |-> base]
  <2>1. \A c \in (N - 0)..N : c = N
    BY <1>1
  <2>2. Good(f, 0)
    BY <1>1, <2>1
  <2> QED
    BY <2>2
<1>3. ASSUME NEW n \in Nat, n \in T PROVE n + 1 \in T
  <2> SUFFICES ASSUME n + 1 <= N PROVE \E f : Good(f, n + 1)
    OBVIOUS
  <2>1. PICK f : Good(f, n)
    BY <1>1, <1>3
  <2>1a. /\ f \in [(N - n)..N -> V]
         /\ \A c \in (N - n)..N : f[c] = IF c = N THEN base ELSE F[<<c, f[next[c]]>>]
    BY <2>1
  <2> DEFINE d == N - (n + 1)
             h == [c \in d..N |-> IF c = d THEN F[<<d, f[next[d]]>>] ELSE f[c]]
  <2>2. d \in 0..(N - 1) /\ d \in 0..N /\ next[d] \in (N - n)..N
    <3>1. d \in 0..(N - 1) /\ d \in 0..N /\ d + 1 = N - n
      BY <1>1
    <3>2. next[d] \in 0..N /\ d < next[d]
      BY <1>1, <3>1
    <3> HIDE DEF d
    <3> QED
      BY <1>1, <3>1, <3>2
  <2>3. \A c \in d..N : c # d => c \in (N - n)..N
    BY <1>1
  <2>4. f[next[d]] \in V /\ F[<<d, f[next[d]]>>] \in V
    BY <1>1, <2>1a, <2>2
  <2>5. h \in [d..N -> V]
    <3> HIDE DEF d
    <3> QED
      BY <2>1a, <2>3, <2>4
  <2>6. \A c \in d..N : h[c] = IF c = N THEN base ELSE F[<<c, h[next[c]]>>]
    <3> TAKE c \in d..N
    <3>1. CASE c = d
      <4>1. next[d] \in d..N /\ next[d] # d /\ d # N
        BY <1>1, <2>2
      <4>2. h[d] = F[<<d, f[next[d]]>>] /\ h[next[d]] = f[next[d]]
        <5> HIDE DEF d
        <5> QED
          BY <3>1, <4>1
      <4> HIDE DEF d, h
      <4> QED
        BY <3>1, <4>1, <4>2
    <3>2. CASE c # d
      <4>1. c \in (N - n)..N
        BY <2>3, <3>2
      <4>2. h[c] = f[c]
        BY <3>2
      <4>3. c # N => h[next[c]] = f[next[c]]
        <5> SUFFICES ASSUME c # N PROVE h[next[c]] = f[next[c]]
          OBVIOUS
        <5>1. c \in 0..(N - 1) /\ c \in 0..N /\ d < c
          BY <1>1, <2>2, <3>2
        <5>2. next[c] \in 0..N /\ c < next[c]
          BY <1>1, <5>1
        <5>3. next[c] \in d..N /\ next[c] # d
          BY <1>1, <2>2, <5>1, <5>2
        <5> HIDE DEF d
        <5> QED
          BY <5>3
      <4> HIDE DEF d, h
      <4> QED
        BY <2>1a, <4>1, <4>2, <4>3
    <3> QED
      BY <3>1, <3>2
  <2> HIDE DEF h
  <2>7. Good(h, n + 1)
    BY <2>5, <2>6
  <2> QED
    BY <2>7
<1> HIDE DEF T
<1>4. Nat \subseteq T
  BY <1>2, <1>3, SetInduction
<1>5. PICK f : Good(f, N)
  <2>1. N \in T /\ N <= N
    BY <1>1, <1>4
  <2> HIDE DEF Good
  <2> QED
    BY <2>1 DEF T
<1>6. N - N = 0
  BY <1>1
<1>7. IsOnward(f, N, V, base, next, F)
  BY <1>5, <1>6 DEF IsOnward
<1> QED
  BY <1>7

\* What follows its equations has values of V.
LEMMA OnwardTyped ==
  ASSUME NEW N, NEW V, NEW base, NEW next, NEW F, Onward(N, V, base, next, F),
         NEW w, w[N] = base,
         \A c \in 0..(N - 1) : w[next[c]] \in V => w[c] = F[<<c, w[next[c]]>>]
  PROVE  \A c \in 0..N : w[c] \in V
<1> DEFINE T == {n \in Nat : \A c \in 0..N : N - c <= n => w[c] \in V}
<1>1. /\ N \in Nat /\ base \in V
      /\ \A c \in 0..N : next[c] \in 0..N
      /\ \A c \in 0..(N - 1) : c < next[c]
      /\ \A c \in 0..N, v \in V : F[<<c, v>>] \in V
  BY DEF Onward
<1>2. 0 \in T
  <2>1. \A c \in 0..N : N - c <= 0 => c = N
    BY <1>1
  <2> QED
    BY <1>1, <2>1
<1>3. ASSUME NEW n \in Nat, n \in T PROVE n + 1 \in T
  <2> SUFFICES ASSUME NEW c \in 0..N, N - c <= n + 1 PROVE w[c] \in V
    OBVIOUS
  <2>1. CASE c = N
    BY <1>1, <2>1
  <2>2. CASE c # N
    <3>1. c \in 0..(N - 1)
      BY <1>1, <2>2
    <3>2. next[c] \in 0..N /\ c < next[c]
      BY <1>1, <3>1
    <3>3. N - next[c] <= n
      BY <1>1, <3>2
    <3>4. w[next[c]] \in V
      BY <1>3, <3>2, <3>3
    <3> QED
      BY <1>1, <3>1, <3>4
  <2> QED
    BY <2>1, <2>2
<1> HIDE DEF T
<1>4. Nat \subseteq T
  BY <1>2, <1>3, SetInduction
<1>5. N \in T /\ \A c \in 0..N : N - c <= N
  BY <1>1, <1>4
<1> QED
  BY <1>5 DEF T

\* A move is not empty, and crosses no end of a shard and no budget.
LEMMA ExtentIs ==
  ASSUME NEW remaining \in Nat \ {0}, NEW source \in Nat, NEW target \in Nat,
         NEW physical \in Nat \ {0}, NEW maxExtent \in Nat \ {0}
  PROVE  /\ MoveExtent(remaining, source, target, physical, maxExtent) \in Nat \ {0}
         /\ MoveExtent(remaining, source, target, physical, maxExtent) <= remaining
         /\ MoveExtent(remaining, source, target, physical, maxExtent) <= maxExtent
         /\ (source % physical)
              + MoveExtent(remaining, source, target, physical, maxExtent) <= physical
         /\ (target % physical)
              + MoveExtent(remaining, source, target, physical, maxExtent) <= physical
<1> DEFINE a == source % physical
           b == target % physical
           R == {remaining, maxExtent, physical - a, physical - b}
           e == Least(R)
<1>1. a \in 0..(physical - 1) /\ b \in 0..(physical - 1)
  BY DivMod
<1>2. MoveExtent(remaining, source, target, physical, maxExtent) = e
  BY DEF MoveExtent
<1> HIDE DEF a, b
<1>3. \A x \in R : x \in Nat \ {0}
  BY <1>1
<1>4. e \in R /\ \A x \in R : e <= x
  <2>1. R \in SUBSET Nat /\ R # {}
    BY <1>3
  <2> HIDE DEF R
  <2> QED
    BY <2>1, LeastIs
<1>5. /\ e \in Nat \ {0} /\ e <= remaining /\ e <= maxExtent
      /\ e <= physical - a /\ e <= physical - b
  <2>1. e \in Nat \ {0}
    BY <1>3, <1>4
  <2> HIDE DEF e
  <2> QED
    BY <1>4, <2>1
<1> HIDE DEF e
<1>6. a + e <= physical /\ b + e <= physical
  BY <1>1, <1>5
<1> QED
  BY <1>2, <1>5, <1>6 DEF a, b

\* The moves of one axis: between shards of it, within each.
AxisMoves(blocks, physical, maxExtent) ==
  {m \in [source : Nat, target : Nat, extent : Nat \ {0}] :
     /\ m.extent <= maxExtent
     /\ (m.source % physical) + m.extent <= physical
     /\ (m.target % physical) + m.extent <= physical
     /\ m.source \div physical < blocks
     /\ m.target \div physical < blocks}

\* What a shard of an axis that a chain of moves passes holds.
LEMMA WithinAxis ==
  ASSUME NEW blocks \in Nat \ {0}, NEW b \in 0..(blocks - 1),
         NEW physical \in Nat \ {0}, NEW logical \in Nat \ {0}, logical <= physical,
         NEW c \in 0..(logical - 1)
  PROVE  /\ b * physical + c \in Nat /\ b * logical + c \in Nat
         /\ (b * physical + c) \div physical < blocks
         /\ (b * logical + c) \div physical < blocks
<1> DEFINE x == b * physical
           y == b * logical
           z == blocks * physical
<1>1. x \in Nat /\ y \in Nat /\ z \in Nat /\ y <= x
  <2>1. \A p, q, r \in Nat : p <= q => r * p <= r * q
    BY SMT
  <2>2. x \in Nat /\ y \in Nat /\ z \in Nat
    BY SMT
  <2> QED
    BY <2>1, <2>2
<1>2. x + physical <= z
  <2>1. b \in Int /\ blocks \in Int /\ b < blocks
    OBVIOUS
  <2> QED
    BY <2>1, Apart
<1> HIDE DEF x, y
<1>3. x + c \in 0..(z - 1) /\ y + c \in 0..(z - 1) /\ x + c \in Nat /\ y + c \in Nat
  <2> HIDE DEF z
  <2> QED
    BY <1>1, <1>2
<1>4. (x + c) \div physical \in 0..(blocks - 1) /\ (y + c) \div physical \in 0..(blocks - 1)
  BY <1>3, RowAndPlace
<1>5. (x + c) \div physical < blocks /\ (y + c) \div physical < blocks
  BY <1>4
<1> QED
  BY <1>3, <1>5 DEF x, y

\* The moves of one shard of an axis.
BlockMoves(b, logical, physical, maxExtent) ==
  LET from[consumed \in 0..logical] ==
        IF consumed = logical THEN <<>>
        ELSE LET source == b * physical + consumed
                 target == b * logical + consumed
                 extent == MoveExtent(logical - consumed, source, target, physical, maxExtent)
                 rest   == from[consumed + extent]
             IN  IF source = target THEN rest
                 ELSE <<[source |-> source, target |-> target, extent |-> extent]>> \o rest
  IN  from[0]

\* The move of a shard at an offset.
MoveAt(b, logical, physical, maxExtent, c) ==
  [source |-> b * physical + c, target |-> b * logical + c,
   extent |-> MoveExtent(logical - c, b * physical + c, b * logical + c, physical, maxExtent)]

\* A move starts where the block is not covered yet and stays in it.
LEMMA MoveAtTyped ==
  ASSUME NEW blocks \in Nat \ {0}, NEW b \in 0..(blocks - 1),
         NEW physical \in Nat \ {0}, NEW logical \in Nat \ {0}, NEW maxExtent \in Nat \ {0},
         logical <= physical, NEW c \in 0..(logical - 1)
  PROVE  /\ MoveAt(b, logical, physical, maxExtent, c) \in AxisMoves(blocks, physical, maxExtent)
         /\ MoveAt(b, logical, physical, maxExtent, c).extent \in 1..(logical - c)
<1> DEFINE s == b * physical + c
           t == b * logical + c
           e == MoveExtent(logical - c, s, t, physical, maxExtent)
<1>1. s \in Nat /\ t \in Nat /\ s \div physical < blocks /\ t \div physical < blocks
  BY WithinAxis
<1>2. MoveAt(b, logical, physical, maxExtent, c) = [source |-> s, target |-> t, extent |-> e]
  BY DEF MoveAt
<1>3. logical - c \in Nat \ {0}
  OBVIOUS
<1> HIDE DEF s, t
<1>4. /\ e \in Nat \ {0} /\ e <= logical - c /\ e <= maxExtent
      /\ (s % physical) + e <= physical /\ (t % physical) + e <= physical
  BY <1>1, <1>3, ExtentIs
<1> HIDE DEF e
<1>5. [source |-> s, target |-> t, extent |-> e] \in AxisMoves(blocks, physical, maxExtent)
  BY <1>1, <1>4 DEF AxisMoves
<1> QED
  BY <1>2, <1>3, <1>4, <1>5

\* The moves of a block,
LEMMA BlockMovesTyped ==
  ASSUME NEW blocks \in Nat \ {0}, NEW b \in 0..(blocks - 1),
         NEW physical \in Nat \ {0}, NEW logical \in Nat \ {0}, NEW maxExtent \in Nat \ {0},
         logical <= physical
  PROVE  BlockMoves(b, logical, physical, maxExtent) \in Seq(AxisMoves(blocks, physical, maxExtent))
<1> DEFINE M == AxisMoves(blocks, physical, maxExtent)
           V == Seq(M)
           mv(c) == MoveAt(b, logical, physical, maxExtent, c)
           next == [c \in 0..logical |-> IF c = logical THEN logical ELSE c + mv(c).extent]
           Go(c, v) == IF mv(c).source = mv(c).target THEN v ELSE <<mv(c)>> \o v
           F == [x \in (0..logical) \X V |-> IF x[1] = logical THEN x[2] ELSE Go(x[1], x[2])]
           Step1(w) == [consumed \in 0..logical |->
                          IF consumed = logical THEN <<>>
                          ELSE LET source == b * physical + consumed
                                   target == b * logical + consumed
                                   extent == MoveExtent(logical - consumed, source, target,
                                                        physical, maxExtent)
                                   rest   == w[consumed + extent]
                               IN  IF source = target THEN rest
                                   ELSE <<[source |-> source, target |-> target,
                                           extent |-> extent]>> \o rest]
           it == CHOOSE w : w = Step1(w)
<1>1. \A c \in 0..(logical - 1) : mv(c) \in M /\ mv(c).extent \in 1..(logical - c)
  BY MoveAtTyped
<1>2. BlockMoves(b, logical, physical, maxExtent) = it[0]
  BY DEF BlockMoves
<1>3. \A w : Step1(w) = [c \in 0..logical |-> IF c = logical THEN <<>>
                                              ELSE Go(c, w[c + mv(c).extent])]
  BY DEF MoveAt
<1> HIDE DEF it, Step1, mv, M
<1>4. <<>> \in V /\ \A c \in 0..(logical - 1), v \in V : Go(c, v) \in V
  <2>1. <<>> \in V
    BY EmptySeq
  <2>2. \A m \in M, v \in V : <<m>> \o v \in V
    <3> TAKE m \in M, v \in V
    <3>1. <<m>> \in Seq(M)
      OBVIOUS
    <3> QED
      BY <3>1, ConcatProperties
  <2> QED
    BY <1>1, <2>1, <2>2
<1> HIDE DEF V, Go
<1>5. /\ next \in [0..logical -> 0..logical]
      /\ \A c \in 0..(logical - 1) : c < next[c] /\ next[c] = c + mv(c).extent
  <2>1. \A c \in 0..(logical - 1) : c + mv(c).extent \in 0..logical /\ c < c + mv(c).extent
    BY <1>1
  <2>2. \A c \in 0..logical : c # logical => c \in 0..(logical - 1)
    OBVIOUS
  <2>3. \A c \in 0..(logical - 1) : c \in 0..logical /\ c # logical
    OBVIOUS
  <2> QED
    BY <2>1, <2>2, <2>3
<1>6. F \in [(0..logical) \X V -> V]
  <2>1. \A x \in (0..logical) \X V : (IF x[1] = logical THEN x[2] ELSE Go(x[1], x[2])) \in V
    <3> TAKE x \in (0..logical) \X V
    <3>1. x[1] \in 0..logical /\ x[2] \in V
      OBVIOUS
    <3>2. x[1] # logical => x[1] \in 0..(logical - 1)
      BY <3>1
    <3> QED
      BY <1>4, <3>1, <3>2
  <2> QED
    BY <2>1
<1>7. \A c \in 0..(logical - 1), v \in V : F[<<c, v>>] = Go(c, v)
  <2> TAKE c \in 0..(logical - 1), v \in V
  <2>1. <<c, v>> \in (0..logical) \X V /\ c # logical
    OBVIOUS
  <2> QED
    BY <2>1
<1> HIDE DEF F, next
<1>8. Onward(logical, V, <<>>, next, F)
  BY <1>4, <1>5, <1>6 DEF Onward
<1>9. PICK f : IsOnward(f, logical, V, <<>>, next, F)
  BY <1>8, OnwardExists
<1>10. f = Step1(f)
  <2>1. f \in [0..logical -> V]
        /\ \A c \in 0..logical : f[c] = IF c = logical THEN <<>> ELSE F[<<c, f[next[c]]>>]
    BY <1>9 DEF IsOnward
  <2>2. \A c \in 0..logical : f[c] = IF c = logical THEN <<>> ELSE Go(c, f[c + mv(c).extent])
    <3> TAKE c \in 0..logical
    <3>1. CASE c = logical
      BY <2>1, <3>1
    <3>2. CASE c # logical
      <4>1. c \in 0..(logical - 1)
        BY <3>2
      <4>2. next[c] = c + mv(c).extent /\ next[c] \in 0..logical
        BY <1>5, <4>1
      <4>3. f[next[c]] \in V
        BY <2>1, <4>2
      <4> QED
        BY <1>7, <2>1, <3>2, <4>1, <4>2, <4>3
    <3> QED
      BY <3>1, <3>2
  <2>3. f = [c \in 0..logical |-> IF c = logical THEN <<>> ELSE Go(c, f[c + mv(c).extent])]
    BY <2>1, <2>2
  <2> QED
    BY <1>3, <2>3
<1>11. it = Step1(it)
  BY <1>10 DEF it
<1>12. \A c \in 0..logical : it[c] = IF c = logical THEN <<>> ELSE Go(c, it[c + mv(c).extent])
  <2>1. it = [c \in 0..logical |-> IF c = logical THEN <<>> ELSE Go(c, it[c + mv(c).extent])]
    BY <1>3, <1>11
  <2> QED
    BY <2>1
<1>13. /\ it[logical] = <<>>
       /\ \A c \in 0..(logical - 1) : it[next[c]] \in V => it[c] = F[<<c, it[next[c]]>>]
  <2>1. logical \in 0..logical /\ \A c \in 0..(logical - 1) : c \in 0..logical /\ c # logical
    OBVIOUS
  <2>2. \A c \in 0..(logical - 1) : it[c] = Go(c, it[next[c]])
    BY <1>5, <1>12, <2>1
  <2> QED
    BY <1>7, <1>12, <2>1, <2>2
<1>14. \A c \in 0..logical : it[c] \in V
  BY <1>8, <1>13, OnwardTyped
<1>15. 0 \in 0..logical
  OBVIOUS
<1> QED
  BY <1>2, <1>14, <1>15 DEF V, M

\* and of all blocks of an axis.
LEMMA AxisMovesTyped ==
  ASSUME NEW blocks \in Nat \ {0}, NEW physical \in Nat \ {0}, NEW logical \in Nat \ {0},
         NEW maxExtent \in Nat \ {0}, logical <= physical
  PROVE  BuildAxisEdgePaddingMoves(blocks, logical, physical, maxExtent)
           \in Seq(AxisMoves(blocks, physical, maxExtent))
<1> DEFINE M == AxisMoves(blocks, physical, maxExtent)
           f == [b \in 1..blocks |-> BlockMoves(b - 1, logical, physical, maxExtent)]
<1>1. BuildAxisEdgePaddingMoves(blocks, logical, physical, maxExtent)
        = IF logical = physical THEN <<>> ELSE FlattenSeq(f)
  BY DEF BuildAxisEdgePaddingMoves, BlockMoves
<1>2. \A b \in 1..blocks : BlockMoves(b - 1, logical, physical, maxExtent) \in Seq(M)
  <2> TAKE b \in 1..blocks
  <2>1. b - 1 \in 0..(blocks - 1)
    OBVIOUS
  <2> QED
    BY <2>1, BlockMovesTyped
<1> HIDE DEF M
<1>3. f \in [1..blocks -> Seq(M)]
  BY <1>2
<1> HIDE DEF f
<1>4. FlattenSeq(f) \in Seq(M) /\ <<>> \in Seq(M)
  BY <1>3, FlattenTyped, EmptySeq
<1> QED
  BY <1>1, <1>4 DEF M

(***************************************************************************)
(* The steps of the edge executor.                                         *)
(***************************************************************************)
\* Moves between ranks and within one, in order; of those of a round, which have
\* one load, none receives what another sends from.
Chained(g, S) ==
  /\ \A s \in S : /\ s.phase \in {0, 1} /\ s.seq \in Int /\ s.kind = Move
                  /\ StepLoad(s) \in 1..g.scratch
                  /\ StepOK(g, Move, s, StepLoad(s))
  /\ \A s, t \in S : RoundOf(s) = RoundOf(t) => /\ StepLoad(s) = StepLoad(t)
                                                /\ t.to = s.from => s = t /\ s.to = s.from

\* Batches can be made of such steps.
LEMMA ChainedSchedulable ==
  ASSUME NEW g, NEW S, Chained(g, S)
  PROVE  Schedulable(g, "edge", S)
<1>1. Limit(g, "edge") = g.scratch
  BY DEF Limit
<1>2. \A s \in S : /\ s.phase \in Int /\ s.seq \in Int /\ s.kind \in {Move, Save, Restore}
                   /\ StepLoad(s) \in 1..Limit(g, "edge")
                   /\ StepOK(g, s.kind, s, StepLoad(s))
                   /\ s.kind = Move
  BY <1>1 DEF Chained
<1>3. \A s, t \in S : RoundOf(s) = RoundOf(t) => StepLoad(s) = StepLoad(t)
  BY DEF Chained
<1>4. \A s, t \in S : RoundOf(s) = RoundOf(t) /\ t.to = s.from => s.to = s.from
  BY DEF Chained
<1> QED
  BY <1>2, <1>3, <1>4 DEF Schedulable

\* A step turned around.
Turned(s, last) ==
  Step(1 - s.phase, last[s.phase] - s.seq, Move, s.to, s.from, s.target, s.source)

\* A reversed step goes back, in the reverse order.
LEMMA TurnedIs ==
  ASSUME NEW s, NEW last
  PROVE  /\ Turned(s, last).phase = 1 - s.phase
         /\ Turned(s, last).seq = last[s.phase] - s.seq
         /\ Turned(s, last).kind = Move
         /\ Turned(s, last).from = s.to /\ Turned(s, last).to = s.from
         /\ Turned(s, last).source = s.target /\ Turned(s, last).target = s.source
  BY DEF Turned, Step

\* Steps turned around can be chained when they could be before.
LEMMA TurnedChained ==
  ASSUME NEW g, NEW S, Chained(g, S), NEW last, last[0] \in Int, last[1] \in Int
  PROVE  Chained(g, {Turned(s, last) : s \in S})
<1> DEFINE R == {Turned(s, last) : s \in S}
<1>0. Move # Save /\ Move # Restore
  BY DEF Move, Save, Restore
<1>1. ASSUME NEW s \in S
      PROVE  /\ StepLoad(Turned(s, last)) = StepLoad(s)
             /\ StepLoad(s) \in 1..g.scratch
             /\ StepOK(g, Move, Turned(s, last), StepLoad(s))
             /\ s.phase \in {0, 1} /\ s.seq \in Int /\ s.kind = Move
  <2>1. /\ s.phase \in {0, 1} /\ s.seq \in Int /\ s.kind = Move
        /\ StepLoad(s) \in 1..g.scratch /\ StepOK(g, Move, s, StepLoad(s))
    BY DEF Chained
  <2>2. StepLoad(s) = Size(s.source)
    BY <1>0, <2>1 DEF StepLoad
  <2>3. StepLoad(Turned(s, last)) = Size(s.target)
    BY <1>0, TurnedIs DEF StepLoad
  <2>4. /\ s.from \in RanksOf(g) /\ s.to \in RanksOf(g)
        /\ Inside(g, s.target) /\ Size(s.target) = StepLoad(s)
        /\ Inside(g, s.source) /\ Size(s.source) = StepLoad(s)
        /\ s.source.height = s.target.height
    BY <1>0, <2>1 DEF StepOK
  <2>5. StepOK(g, Move, Turned(s, last), StepLoad(s))
    <3> DEFINE t == Turned(s, last)
    <3>1. t.from = s.to /\ t.to = s.from /\ t.source = s.target /\ t.target = s.source
      BY TurnedIs
    <3> HIDE DEF t
    <3>2. StepOK(g, Move, t, StepLoad(s))
      BY <1>0, <2>4, <3>1 DEF StepOK
    <3> QED
      BY <3>2 DEF t
  <2> QED
    BY <2>1, <2>2, <2>3, <2>4, <2>5
<1>2. \A r \in R : /\ r.phase \in {0, 1} /\ r.seq \in Int /\ r.kind = Move
                   /\ StepLoad(r) \in 1..g.scratch
                   /\ StepOK(g, Move, r, StepLoad(r))
  <2> TAKE r \in R
  <2>1. PICK s \in S : r = Turned(s, last)
    OBVIOUS
  <2>2. r.phase = 1 - s.phase /\ r.seq = last[s.phase] - s.seq /\ r.kind = Move
    BY <2>1, TurnedIs
  <2>3. r.phase \in {0, 1} /\ r.seq \in Int
    BY <1>1, <2>2
  <2>4. StepLoad(r) = StepLoad(s) /\ StepOK(g, Move, r, StepLoad(s)) /\ StepLoad(s) \in 1..g.scratch
    BY <1>1, <2>1
  <2> QED
    BY <2>2, <2>3, <2>4
<1>3. \A q, r \in R : RoundOf(q) = RoundOf(r) => /\ StepLoad(q) = StepLoad(r)
                                                 /\ r.to = q.from => q = r /\ q.to = q.from
  <2> TAKE q, r \in R
  <2> SUFFICES ASSUME RoundOf(q) = RoundOf(r)
               PROVE  /\ StepLoad(q) = StepLoad(r)
                      /\ r.to = q.from => q = r /\ q.to = q.from
    OBVIOUS
  <2>1. PICK s \in S : q = Turned(s, last)
    OBVIOUS
  <2>2. PICK t \in S : r = Turned(t, last)
    OBVIOUS
  <2>3. /\ q.phase = 1 - s.phase /\ q.seq = last[s.phase] - s.seq
        /\ q.from = s.to /\ q.to = s.from
    BY <2>1, TurnedIs
  <2>4. /\ r.phase = 1 - t.phase /\ r.seq = last[t.phase] - t.seq
        /\ r.from = t.to /\ r.to = t.from
    BY <2>2, TurnedIs
  <2>5. q.phase = r.phase /\ q.seq = r.seq
    BY DEF RoundOf
  <2>6. s.phase \in {0, 1} /\ s.seq \in Int /\ s.kind = Move
        /\ t.phase \in {0, 1} /\ t.seq \in Int /\ t.kind = Move
    BY <1>1
  <2>7. s.phase = t.phase
    BY <2>3, <2>4, <2>5, <2>6
  <2>8. s.seq = t.seq
    <3>1. last[s.phase] \in Int
      BY <2>6
    <3> QED
      BY <2>3, <2>4, <2>5, <2>6, <2>7, <3>1
  <2>9. RoundOf(s) = RoundOf(t)
    BY <2>6, <2>7, <2>8 DEF RoundOf
  <2>10. StepLoad(s) = StepLoad(t)
    BY <2>9 DEF Chained
  <2>11. r.to = q.from => q = r /\ q.to = q.from
    <3> SUFFICES ASSUME r.to = q.from PROVE q = r /\ q.to = q.from
      OBVIOUS
    <3>1. s.to = t.from /\ RoundOf(t) = RoundOf(s)
      BY <2>3, <2>4, <2>9
    <3>2. t = s /\ t.to = t.from
      BY <3>1 DEF Chained
    <3> QED
      BY <2>1, <2>2, <2>3, <3>2
  <2>12. StepLoad(q) = StepLoad(s) /\ StepLoad(r) = StepLoad(t)
    BY <1>1, <2>1, <2>2
  <2> QED
    BY <2>10, <2>11, <2>12
<1> QED
  BY <1>2, <1>3 DEF Chained

(***************************************************************************)
(* The chains of a geometry.                                               *)
(***************************************************************************)
\* A share of an axis, and what fits the scratch.
LEMMA SharesFit ==
  ASSUME NEW g, GeometryOK(g)
  PROVE  /\ LocalLogicalRows(g) \in Nat \ {0} /\ LocalLogicalRows(g) <= g.rows
         /\ LocalLogicalCols(g) \in Nat \ {0} /\ LocalLogicalCols(g) <= g.cols
<1>1. \A a, b \in Nat \ {0} : a % b = 0 => a \div b \in Nat \ {0}
  <2> TAKE a \in Nat \ {0}, b \in Nat \ {0}
  <2> SUFFICES ASSUME a % b = 0 PROVE a \div b \in Nat \ {0}
    OBVIOUS
  <2>1. a \div b \in Nat /\ a = (a \div b) * b + (a % b)
    BY DivMod
  <2>2. a = (a \div b) * b
    BY <2>1, SMT
  <2>3. a \div b # 0
    BY <2>2, SMT
  <2> QED
    BY <2>1, <2>3
<1>2. /\ g.lrows \in Nat \ {0} /\ g.lcols \in Nat \ {0}
      /\ g.prows \in Nat \ {0} /\ g.pcols \in Nat \ {0}
      /\ g.trows \in Nat \ {0} /\ g.tcols \in Nat \ {0}
      /\ g.lrows % g.prows = 0 /\ g.lcols % g.pcols = 0
      /\ g.rows = LocalLogicalRows(g) + AxisPadding(LocalLogicalRows(g), g.trows)
      /\ g.cols = LocalLogicalCols(g) + AxisPadding(LocalLogicalCols(g), g.tcols)
  BY DEF GeometryOK, EdgeArgumentsOK
<1>3. LocalLogicalRows(g) \in Nat \ {0} /\ LocalLogicalCols(g) \in Nat \ {0}
  BY <1>1, <1>2 DEF LocalLogicalRows, LocalLogicalCols
<1>4. \A q \in Nat, t \in Nat \ {0} : AxisPadding(q, t) \in Nat
  <2> TAKE q \in Nat, t \in Nat \ {0}
  <2>1. q % t \in 0..(t - 1)
    BY DivMod
  <2> QED
    BY <2>1 DEF AxisPadding
<1>5. AxisPadding(LocalLogicalRows(g), g.trows) \in Nat
      /\ AxisPadding(LocalLogicalCols(g), g.tcols) \in Nat
  BY <1>2, <1>3, <1>4
<1> HIDE DEF LocalLogicalRows, LocalLogicalCols
<1> QED
  BY <1>2, <1>3, <1>5

\* The widest slab that fits the scratch.
LEMMA BudgetIs ==
  ASSUME NEW room \in Nat, NEW side \in Nat \ {0}, room >= side
  PROVE  /\ Larger(1, room \div side) \in Nat \ {0}
         /\ \A e \in Nat \ {0} : e <= Larger(1, room \div side) => side * e \in 1..room
<1> DEFINE q == room \div side
           x == q * side
<1>1. q \in Nat /\ room = x + (room % side) /\ room % side \in 0..(side - 1)
  BY DivMod
<1>2. q # 0
  <2> SUFFICES ASSUME q = 0 PROVE FALSE
    OBVIOUS
  <2>1. x = 0
    <3> HIDE DEF q
    <3> QED
      BY SMT
  <2> HIDE DEF q, x
  <2> QED
    BY <1>1, <2>1
<1>3. Larger(1, q) = q
  <2> HIDE DEF q
  <2> QED
    BY <1>1, <1>2 DEF Larger
<1>4. x <= room /\ x \in Nat
  <2>1. x \in Nat
    <3> HIDE DEF q
    <3> QED
      BY <1>1, SMT
  <2> HIDE DEF x, q
  <2> QED
    BY <1>1, <2>1
<1>5. ASSUME NEW e \in Nat \ {0}, e <= q PROVE side * e \in 1..room
  <2>1. side * e \in Nat \ {0} /\ side * e <= x
    <3>1. \A a, b, c \in Nat : b <= c => a * b <= c * a
      BY SMT
    <3>2. \A a, b \in Nat \ {0} : a * b \in Nat \ {0}
      BY SMT
    <3> HIDE DEF q
    <3> QED
      BY <1>1, <1>5, <3>1, <3>2
  <2> DEFINE y == side * e
  <2> HIDE DEF x, y
  <2>2. y \in 1..room
    BY <1>4, <2>1 DEF y
  <2> QED
    BY <2>2 DEF y
<1> HIDE DEF q
<1>6. q \in Nat \ {0}
  BY <1>1, <1>2
<1> QED
  BY <1>3, <1>5, <1>6 DEF q

\* The rank map gives every place of the grid a rank of its own.
LEMMA RankAtOne ==
  ASSUME NEW g, GeometryOK(g),
         NEW p \in 0..(g.prows - 1), NEW q \in 0..(g.pcols - 1),
         NEW r \in 0..(g.prows - 1), NEW s \in 0..(g.pcols - 1),
         RankAt(g, p, q) = RankAt(g, r, s)
  PROVE  p = r /\ q = s
<1> DEFINE x == p * g.pcols + q
           y == r * g.pcols + s
<1>1. g.prows \in Nat \ {0} /\ g.pcols \in Nat \ {0}
  BY DEF GeometryOK
<1>2. x \in 0..(g.prows * g.pcols - 1) /\ y \in 0..(g.prows * g.pcols - 1)
  BY <1>1, PlaceInRow
<1>3. x \div g.pcols = p /\ x % g.pcols = q /\ y \div g.pcols = r /\ y % g.pcols = s
  <2>1. p \in Nat /\ r \in Nat
    OBVIOUS
  <2>2. \A b \in Nat \ {0} : \A a \in Nat, c \in 0..(b - 1) :
          (a * b + c) \div b = a /\ (a * b + c) % b = c
    BY Parts
  <2> QED
    BY <1>1, <2>1, <2>2
<1>4. g.rankMap[x] = g.rankMap[y]
  BY DEF RankAt
<1>5. CASE \A z \in 0..(g.prows * g.pcols - 1) : g.rankMap[z] = z
  <2>1. x = y
    <3> HIDE DEF x, y
    <3> QED
      BY <1>2, <1>4, <1>5
  <2> HIDE DEF x, y
  <2> QED
    BY <1>3, <2>1
<1>6. CASE \A z \in 0..(g.prows * g.pcols - 1) :
             g.rankMap[z] = (z % g.pcols) * g.prows + (z \div g.pcols)
  <2>1. q * g.prows + p = s * g.prows + r
    <3> HIDE DEF x, y
    <3> QED
      BY <1>2, <1>3, <1>4, <1>6
  <2> QED
    BY <1>1, <2>1, Unique
<1> QED
  BY <1>5, <1>6 DEF GeometryOK, ValidStandardGridRankMap

\* A step in order that moves n elements in wave w.
MoveOf(g, s, phase, w, from, to, n) ==
  /\ s.phase = phase /\ s.seq = w - 1 /\ s.kind = Move
  /\ s.from = from /\ s.to = to
  /\ StepLoad(s) = n /\ n \in 1..g.scratch
  /\ StepOK(g, Move, s, n)

\* The step of a column move in one process row, and those of all.
HorizontalStep(g, mv, w, p) ==
  Step(0, w - 1, Move,
       RankAt(g, p - 1, mv.source \div g.cols),
       RankAt(g, p - 1, mv.target \div g.cols),
       Rect(0, mv.source % g.cols, g.rows, mv.extent),
       Rect(0, mv.target % g.cols, g.rows, mv.extent))

\* The steps along the rows of the grid.
Horizontals(g, moves) ==
  {HorizontalStep(g, moves[w], w, p) : w \in 1..Len(moves), p \in 1..g.prows}

\* The planner makes those.
LEMMA HorizontalTyped ==
  ASSUME NEW g, GeometryOK(g), NEW M, NEW moves \in Seq(M)
  PROVE  HorizontalSteps(g, moves) \in Seq(Horizontals(g, moves))
<1> DEFINE S == Horizontals(g, moves)
           N == Len(moves)
           P == g.prows
           f == [w \in DOMAIN moves |-> [p \in 1..P |-> HorizontalStep(g, moves[w], w, p)]]
<1>1. N \in Nat /\ DOMAIN moves = 1..N /\ P \in Nat
  BY LenProperties DEF GeometryOK
<1>2. HorizontalSteps(g, moves) = FlattenSeq(f)
  BY DEF HorizontalSteps, HorizontalStep
<1>3. \A w \in 1..N, p \in 1..P : HorizontalStep(g, moves[w], w, p) \in S
  BY DEF Horizontals
<1> HIDE DEF S, N, P
<1>4. \A w \in 1..N : [p \in 1..P |-> HorizontalStep(g, moves[w], w, p)] \in Seq(S)
  <2> TAKE w \in 1..N
  <2> DEFINE h == [p \in 1..P |-> HorizontalStep(g, moves[w], w, p)]
  <2>1. h \in [1..P -> S]
    BY <1>3
  <2> HIDE DEF h
  <2>2. h \in Seq(S)
    BY <1>1, <2>1, SeqIntro
  <2> QED
    BY <2>2 DEF h
<1>5. f \in [1..N -> Seq(S)]
  BY <1>1, <1>4
<1> HIDE DEF f
<1>6. FlattenSeq(f) \in Seq(S)
  BY <1>1, <1>5, FlattenTyped
<1> QED
  BY <1>2, <1>6 DEF S

\* Each moves whole columns between two ranks of one row of the grid.
LEMMA HorizontalStepIs ==
  ASSUME NEW g, GeometryOK(g), NEW maxExtent,
         \A e \in Nat \ {0} : e <= maxExtent => g.rows * e \in 1..g.scratch,
         NEW mv \in AxisMoves(g.pcols, g.cols, maxExtent),
         NEW w \in Nat \ {0}, NEW p \in 1..g.prows
  PROVE  /\ MoveOf(g, HorizontalStep(g, mv, w, p), 0, w,
                   RankAt(g, p - 1, mv.source \div g.cols),
                   RankAt(g, p - 1, mv.target \div g.cols),
                   g.rows * mv.extent)
         /\ mv.source \div g.cols \in 0..(g.pcols - 1)
         /\ mv.target \div g.cols \in 0..(g.pcols - 1)
<1> DEFINE s == HorizontalStep(g, mv, w, p)
           a == mv.source \div g.cols
           b == mv.target \div g.cols
           c == mv.source % g.cols
           d == mv.target % g.cols
           n == g.rows * mv.extent
           src == Rect(0, c, g.rows, mv.extent)
           tgt == Rect(0, d, g.rows, mv.extent)
<1>0. Move # Save /\ Move # Restore
  BY DEF Move, Save, Restore
<1>1. /\ g.rows \in Nat \ {0} /\ g.cols \in Nat \ {0} /\ g.pcols \in Nat \ {0}
      /\ g.prows \in Nat \ {0}
  BY DEF GeometryOK
<1>2. /\ mv.source \in Nat /\ mv.target \in Nat /\ mv.extent \in Nat \ {0}
      /\ mv.extent <= maxExtent
      /\ c + mv.extent <= g.cols /\ d + mv.extent <= g.cols
      /\ a < g.pcols /\ b < g.pcols
  BY DEF AxisMoves
<1>3. a \in Nat /\ b \in Nat /\ c \in Nat /\ d \in Nat
  <2>1. \A x \in Nat, y \in Nat \ {0} : x \div y \in Nat /\ x % y \in 0..(y - 1)
    BY DivMod
  <2>2. a \in Nat /\ b \in Nat /\ c \in 0..(g.cols - 1) /\ d \in 0..(g.cols - 1)
    BY <1>1, <1>2, <2>1
  <2> QED
    BY <1>1, <2>2
<1> HIDE DEF a, b, c, d
<1>4. a \in 0..(g.pcols - 1) /\ b \in 0..(g.pcols - 1) /\ p - 1 \in 0..(g.prows - 1)
  BY <1>1, <1>2, <1>3
<1>5. n \in 1..g.scratch
  BY <1>2
<1>6. /\ s.phase = 0 /\ s.seq = w - 1 /\ s.kind = Move
      /\ s.from = RankAt(g, p - 1, a) /\ s.to = RankAt(g, p - 1, b)
      /\ s.source = src /\ s.target = tgt
  BY DEF HorizontalStep, Step, a, b, c, d
<1> HIDE DEF s
<1>7. Inside(g, src) /\ Inside(g, tgt) /\ src.height = tgt.height
  BY <1>1, <1>2, <1>3 DEF Inside, Rect
<1>8. Size(src) = n /\ Size(tgt) = n
  <2>1. /\ src.height * src.width = g.rows * mv.extent
        /\ tgt.height * tgt.width = g.rows * mv.extent
    BY DEF Rect
  <2>2. \A x, y \in Nat : x * y = y * x
    BY SMT
  <2> QED
    BY <1>1, <1>2, <2>1, <2>2 DEF Size
<1> HIDE DEF src, tgt, n
<1>9. RankAt(g, p - 1, a) \in RanksOf(g) /\ RankAt(g, p - 1, b) \in RanksOf(g)
  BY <1>4, RankAtTyped
<1>10. StepOK(g, Move, s, n)
  BY <1>0, <1>6, <1>7, <1>8, <1>9 DEF StepOK
<1>11. StepLoad(s) = n
  BY <1>0, <1>6, <1>8 DEF StepLoad
<1> QED
  BY <1>4, <1>5, <1>6, <1>10, <1>11 DEF MoveOf, s, a, b, n

\* In a round none receives what another sends from.
LEMMA HorizontalChained ==
  ASSUME NEW g, GeometryOK(g), NEW maxExtent,
         \A e \in Nat \ {0} : e <= maxExtent => g.rows * e \in 1..g.scratch,
         NEW moves \in Seq(AxisMoves(g.pcols, g.cols, maxExtent))
  PROVE  /\ Chained(g, Horizontals(g, moves))
         /\ \A s \in Horizontals(g, moves) : s.phase = 0 /\ s.seq \in 0..Len(moves)
<1> DEFINE N == Len(moves)
           S == Horizontals(g, moves)
           M == AxisMoves(g.pcols, g.cols, maxExtent)
<1>1. N \in Nat /\ \A w \in 1..N : moves[w] \in M
  <2> HIDE DEF M
  <2>1. moves \in Seq(M)
    BY DEF M
  <2> QED
    BY <2>1, LenProperties, ElementOfSeq
<1>2. \A s \in S : \E w \in 1..N, p \in 1..g.prows : s = HorizontalStep(g, moves[w], w, p)
  BY DEF Horizontals
<1> HIDE DEF N, S
<1>3. \A w \in 1..N, p \in 1..g.prows :
        /\ MoveOf(g, HorizontalStep(g, moves[w], w, p), 0, w,
                  RankAt(g, p - 1, moves[w].source \div g.cols),
                  RankAt(g, p - 1, moves[w].target \div g.cols),
                  g.rows * moves[w].extent)
        /\ moves[w].source \div g.cols \in 0..(g.pcols - 1)
        /\ moves[w].target \div g.cols \in 0..(g.pcols - 1)
  <2> TAKE w \in 1..N, p \in 1..g.prows
  <2> DEFINE mv == moves[w]
  <2>1. mv \in M /\ w \in Nat \ {0}
    BY <1>1
  <2> HIDE DEF mv
  <2>2. /\ MoveOf(g, HorizontalStep(g, mv, w, p), 0, w,
                  RankAt(g, p - 1, mv.source \div g.cols),
                  RankAt(g, p - 1, mv.target \div g.cols),
                  g.rows * mv.extent)
        /\ mv.source \div g.cols \in 0..(g.pcols - 1)
        /\ mv.target \div g.cols \in 0..(g.pcols - 1)
    BY <2>1, HorizontalStepIs
  <2> QED
    BY <2>2 DEF mv
<1>4. \A s \in S : /\ s.phase = 0 /\ s.seq \in 0..N /\ s.kind = Move
                   /\ StepLoad(s) \in 1..g.scratch
                   /\ StepOK(g, Move, s, StepLoad(s))
  <2> TAKE s \in S
  <2>1. PICK w \in 1..N, p \in 1..g.prows : s = HorizontalStep(g, moves[w], w, p)
    BY <1>2
  <2>2. w - 1 \in 0..N
    BY <1>1
  <2> QED
    BY <1>3, <2>1, <2>2 DEF MoveOf
<1>5. \A s, t \in S : RoundOf(s) = RoundOf(t) => /\ StepLoad(s) = StepLoad(t)
                                                 /\ t.to = s.from => s = t /\ s.to = s.from
  <2> TAKE s, t \in S
  <2> SUFFICES ASSUME RoundOf(s) = RoundOf(t)
               PROVE  StepLoad(s) = StepLoad(t) /\ (t.to = s.from => s = t /\ s.to = s.from)
    OBVIOUS
  <2>1. PICK w \in 1..N, p \in 1..g.prows : s = HorizontalStep(g, moves[w], w, p)
    BY <1>2
  <2>2. PICK v \in 1..N, q \in 1..g.prows : t = HorizontalStep(g, moves[v], v, q)
    BY <1>2
  <2>3. w = v
    <3>1. s.seq = t.seq
      BY DEF RoundOf
    <3>2. w - 1 = v - 1
      BY <1>3, <2>1, <2>2, <3>1, SMTT(30) DEF MoveOf
    <3> QED
      BY <1>1, <3>2
  <2>4. StepLoad(s) = StepLoad(t)
    <3>1. StepLoad(s) = g.rows * moves[w].extent
      BY <1>3, <2>1 DEF MoveOf
    <3>2. StepLoad(t) = g.rows * moves[v].extent
      BY <1>3, <2>2 DEF MoveOf
    <3> QED
      BY <2>3, <3>1, <3>2
  <2>5. ASSUME t.to = s.from PROVE s = t /\ s.to = s.from
    <3> DEFINE a == moves[w].source \div g.cols
               b == moves[w].target \div g.cols
    <3>1. s.from = RankAt(g, p - 1, a) /\ s.to = RankAt(g, p - 1, b)
          /\ a \in 0..(g.pcols - 1) /\ b \in 0..(g.pcols - 1)
      BY <1>3, <2>1 DEF MoveOf
    <3>2. t.to = RankAt(g, q - 1, b)
      BY <1>3, <2>2, <2>3 DEF MoveOf
    <3> HIDE DEF a, b
    <3>3. p - 1 \in 0..(g.prows - 1) /\ q - 1 \in 0..(g.prows - 1) /\ p \in Int /\ q \in Int
      <4>1. g.prows \in Nat
        BY DEF GeometryOK
      <4> QED
        BY <4>1
    <3>4. RankAt(g, q - 1, b) = RankAt(g, p - 1, a)
      BY <2>5, <3>1, <3>2
    <3>5. b = a /\ q - 1 = p - 1
      BY <3>1, <3>3, <3>4, RankAtOne
    <3>6. p = q
      BY <3>3, <3>5
    <3> QED
      BY <2>1, <2>2, <2>3, <3>1, <3>5, <3>6
  <2> QED
    BY <2>4, <2>5
<1>6. Chained(g, S)
  <2>1. \A s \in S : s.phase \in {0, 1} /\ s.seq \in Int
    BY <1>1, <1>4
  <2> QED
    BY <1>4, <1>5, <2>1 DEF Chained
<1> QED
  BY <1>4, <1>6 DEF S, N

\* The step of a row move in one process column, and those of all.
VerticalStep(g, mv, w, p) ==
  Step(1, w - 1, Move,
       RankAt(g, mv.source \div g.rows, p - 1),
       RankAt(g, mv.target \div g.rows, p - 1),
       Rect(mv.source % g.rows, 0, mv.extent, g.cols),
       Rect(mv.target % g.rows, 0, mv.extent, g.cols))

\* The steps along the columns of the grid.
Verticals(g, moves) ==
  {VerticalStep(g, moves[w], w, p) : w \in 1..Len(moves), p \in 1..g.pcols}

\* The planner makes those.
LEMMA VerticalTyped ==
  ASSUME NEW g, GeometryOK(g), NEW M, NEW moves \in Seq(M)
  PROVE  VerticalSteps(g, moves) \in Seq(Verticals(g, moves))
<1> DEFINE S == Verticals(g, moves)
           N == Len(moves)
           P == g.pcols
           f == [w \in DOMAIN moves |-> [p \in 1..P |-> VerticalStep(g, moves[w], w, p)]]
<1>1. N \in Nat /\ DOMAIN moves = 1..N /\ P \in Nat
  BY LenProperties DEF GeometryOK
<1>2. VerticalSteps(g, moves) = FlattenSeq(f)
  BY DEF VerticalSteps, VerticalStep
<1>3. \A w \in 1..N, p \in 1..P : VerticalStep(g, moves[w], w, p) \in S
  BY DEF Verticals
<1> HIDE DEF S, N, P
<1>4. \A w \in 1..N : [p \in 1..P |-> VerticalStep(g, moves[w], w, p)] \in Seq(S)
  <2> TAKE w \in 1..N
  <2> DEFINE h == [p \in 1..P |-> VerticalStep(g, moves[w], w, p)]
  <2>1. h \in [1..P -> S]
    BY <1>3
  <2> HIDE DEF h
  <2>2. h \in Seq(S)
    BY <1>1, <2>1, SeqIntro
  <2> QED
    BY <2>2 DEF h
<1>5. f \in [1..N -> Seq(S)]
  BY <1>1, <1>4
<1> HIDE DEF f
<1>6. FlattenSeq(f) \in Seq(S)
  BY <1>1, <1>5, FlattenTyped
<1> QED
  BY <1>2, <1>6 DEF S

\* Each moves whole rows between two ranks of one column of the grid.
LEMMA VerticalStepIs ==
  ASSUME NEW g, GeometryOK(g), NEW maxExtent,
         \A e \in Nat \ {0} : e <= maxExtent => g.cols * e \in 1..g.scratch,
         NEW mv \in AxisMoves(g.prows, g.rows, maxExtent),
         NEW w \in Nat \ {0}, NEW p \in 1..g.pcols
  PROVE  /\ MoveOf(g, VerticalStep(g, mv, w, p), 1, w,
                   RankAt(g, mv.source \div g.rows, p - 1),
                   RankAt(g, mv.target \div g.rows, p - 1),
                   g.cols * mv.extent)
         /\ mv.source \div g.rows \in 0..(g.prows - 1)
         /\ mv.target \div g.rows \in 0..(g.prows - 1)
<1> DEFINE s == VerticalStep(g, mv, w, p)
           a == mv.source \div g.rows
           b == mv.target \div g.rows
           c == mv.source % g.rows
           d == mv.target % g.rows
           n == g.cols * mv.extent
           src == Rect(c, 0, mv.extent, g.cols)
           tgt == Rect(d, 0, mv.extent, g.cols)
<1>0. Move # Save /\ Move # Restore
  BY DEF Move, Save, Restore
<1>1. /\ g.rows \in Nat \ {0} /\ g.cols \in Nat \ {0} /\ g.prows \in Nat \ {0}
      /\ g.pcols \in Nat \ {0}
  BY DEF GeometryOK
<1>2. /\ mv.source \in Nat /\ mv.target \in Nat /\ mv.extent \in Nat \ {0}
      /\ mv.extent <= maxExtent
      /\ c + mv.extent <= g.rows /\ d + mv.extent <= g.rows
      /\ a < g.prows /\ b < g.prows
  BY DEF AxisMoves
<1>3. a \in Nat /\ b \in Nat /\ c \in Nat /\ d \in Nat
  <2>1. \A x \in Nat, y \in Nat \ {0} : x \div y \in Nat /\ x % y \in 0..(y - 1)
    BY DivMod
  <2>2. a \in Nat /\ b \in Nat /\ c \in 0..(g.rows - 1) /\ d \in 0..(g.rows - 1)
    BY <1>1, <1>2, <2>1
  <2> QED
    BY <1>1, <2>2
<1> HIDE DEF a, b, c, d
<1>4. a \in 0..(g.prows - 1) /\ b \in 0..(g.prows - 1) /\ p - 1 \in 0..(g.pcols - 1)
  BY <1>1, <1>2, <1>3
<1>5. n \in 1..g.scratch
  BY <1>2
<1>6. /\ s.phase = 1 /\ s.seq = w - 1 /\ s.kind = Move
      /\ s.from = RankAt(g, a, p - 1) /\ s.to = RankAt(g, b, p - 1)
      /\ s.source = src /\ s.target = tgt
  BY DEF VerticalStep, Step, a, b, c, d
<1> HIDE DEF s
<1>7. Inside(g, src) /\ Inside(g, tgt) /\ src.height = tgt.height
  BY <1>1, <1>2, <1>3 DEF Inside, Rect
<1>8. Size(src) = n /\ Size(tgt) = n
  <2>1. /\ src.height * src.width = mv.extent * g.cols
        /\ tgt.height * tgt.width = mv.extent * g.cols
    BY DEF Rect
  <2>2. \A x, y \in Nat : x * y = y * x
    BY SMT
  <2> QED
    BY <1>1, <1>2, <2>1, <2>2 DEF Size
<1> HIDE DEF src, tgt, n
<1>9. RankAt(g, a, p - 1) \in RanksOf(g) /\ RankAt(g, b, p - 1) \in RanksOf(g)
  BY <1>4, RankAtTyped
<1>10. StepOK(g, Move, s, n)
  BY <1>0, <1>6, <1>7, <1>8, <1>9 DEF StepOK
<1>11. StepLoad(s) = n
  BY <1>0, <1>6, <1>8 DEF StepLoad
<1> QED
  BY <1>4, <1>5, <1>6, <1>10, <1>11 DEF MoveOf, s, a, b, n

\* In a round none receives what another sends from.
LEMMA VerticalChained ==
  ASSUME NEW g, GeometryOK(g), NEW maxExtent,
         \A e \in Nat \ {0} : e <= maxExtent => g.cols * e \in 1..g.scratch,
         NEW moves \in Seq(AxisMoves(g.prows, g.rows, maxExtent))
  PROVE  /\ Chained(g, Verticals(g, moves))
         /\ \A s \in Verticals(g, moves) : s.phase = 1 /\ s.seq \in 0..Len(moves)
<1> DEFINE N == Len(moves)
           S == Verticals(g, moves)
           M == AxisMoves(g.prows, g.rows, maxExtent)
<1>1. N \in Nat /\ \A w \in 1..N : moves[w] \in M
  <2> HIDE DEF M
  <2>1. moves \in Seq(M)
    BY DEF M
  <2> QED
    BY <2>1, LenProperties, ElementOfSeq
<1>2. \A s \in S : \E w \in 1..N, p \in 1..g.pcols : s = VerticalStep(g, moves[w], w, p)
  BY DEF Verticals
<1> HIDE DEF N, S
<1>3. \A w \in 1..N, p \in 1..g.pcols :
        /\ MoveOf(g, VerticalStep(g, moves[w], w, p), 1, w,
                  RankAt(g, moves[w].source \div g.rows, p - 1),
                  RankAt(g, moves[w].target \div g.rows, p - 1),
                  g.cols * moves[w].extent)
        /\ moves[w].source \div g.rows \in 0..(g.prows - 1)
        /\ moves[w].target \div g.rows \in 0..(g.prows - 1)
  <2> TAKE w \in 1..N, p \in 1..g.pcols
  <2> DEFINE mv == moves[w]
  <2>1. mv \in M /\ w \in Nat \ {0}
    BY <1>1
  <2> HIDE DEF mv
  <2>2. /\ MoveOf(g, VerticalStep(g, mv, w, p), 1, w,
                  RankAt(g, mv.source \div g.rows, p - 1),
                  RankAt(g, mv.target \div g.rows, p - 1),
                  g.cols * mv.extent)
        /\ mv.source \div g.rows \in 0..(g.prows - 1)
        /\ mv.target \div g.rows \in 0..(g.prows - 1)
    BY <2>1, VerticalStepIs
  <2> QED
    BY <2>2 DEF mv
<1>4. \A s \in S : /\ s.phase = 1 /\ s.seq \in 0..N /\ s.kind = Move
                   /\ StepLoad(s) \in 1..g.scratch
                   /\ StepOK(g, Move, s, StepLoad(s))
  <2> TAKE s \in S
  <2>1. PICK w \in 1..N, p \in 1..g.pcols : s = VerticalStep(g, moves[w], w, p)
    BY <1>2
  <2>2. w - 1 \in 0..N
    BY <1>1
  <2> QED
    BY <1>3, <2>1, <2>2 DEF MoveOf
<1>5. \A s, t \in S : RoundOf(s) = RoundOf(t) => /\ StepLoad(s) = StepLoad(t)
                                                 /\ t.to = s.from => s = t /\ s.to = s.from
  <2> TAKE s, t \in S
  <2> SUFFICES ASSUME RoundOf(s) = RoundOf(t)
               PROVE  StepLoad(s) = StepLoad(t) /\ (t.to = s.from => s = t /\ s.to = s.from)
    OBVIOUS
  <2>1. PICK w \in 1..N, p \in 1..g.pcols : s = VerticalStep(g, moves[w], w, p)
    BY <1>2
  <2>2. PICK v \in 1..N, q \in 1..g.pcols : t = VerticalStep(g, moves[v], v, q)
    BY <1>2
  <2>3. w = v
    <3>1. s.seq = t.seq
      BY DEF RoundOf
    <3>2. w - 1 = v - 1
      BY <1>3, <2>1, <2>2, <3>1, SMTT(30) DEF MoveOf
    <3> QED
      BY <1>1, <3>2
  <2>4. StepLoad(s) = StepLoad(t)
    <3>1. StepLoad(s) = g.cols * moves[w].extent
      BY <1>3, <2>1 DEF MoveOf
    <3>2. StepLoad(t) = g.cols * moves[v].extent
      BY <1>3, <2>2 DEF MoveOf
    <3> QED
      BY <2>3, <3>1, <3>2
  <2>5. ASSUME t.to = s.from PROVE s = t /\ s.to = s.from
    <3> DEFINE a == moves[w].source \div g.rows
               b == moves[w].target \div g.rows
    <3>1. s.from = RankAt(g, a, p - 1) /\ s.to = RankAt(g, b, p - 1)
          /\ a \in 0..(g.prows - 1) /\ b \in 0..(g.prows - 1)
      BY <1>3, <2>1 DEF MoveOf
    <3>2. t.to = RankAt(g, b, q - 1)
      BY <1>3, <2>2, <2>3 DEF MoveOf
    <3> HIDE DEF a, b
    <3>3. p - 1 \in 0..(g.pcols - 1) /\ q - 1 \in 0..(g.pcols - 1) /\ p \in Int /\ q \in Int
      <4>1. g.pcols \in Nat
        BY DEF GeometryOK
      <4> QED
        BY <4>1
    <3>4. RankAt(g, b, q - 1) = RankAt(g, a, p - 1)
      BY <2>5, <3>1, <3>2
    <3>5. b = a /\ q - 1 = p - 1
      BY <3>1, <3>3, <3>4, RankAtOne
    <3>6. p = q
      BY <3>3, <3>5
    <3> QED
      BY <2>1, <2>2, <2>3, <3>1, <3>5, <3>6
  <2> QED
    BY <2>4, <2>5
<1>6. Chained(g, S)
  <2>1. \A s \in S : s.phase \in {0, 1} /\ s.seq \in Int
    BY <1>1, <1>4
  <2> QED
    BY <1>4, <1>5, <2>1 DEF Chained
<1> QED
  BY <1>4, <1>6 DEF S, N

\* Chains of the two phases can be run as one list.
LEMMA ChainsTogether ==
  ASSUME NEW g, NEW S, NEW T, Chained(g, S), Chained(g, T),
         \A s \in S : s.phase = 0, \A t \in T : t.phase = 1
  PROVE  Chained(g, S \cup T)
<1>1. \A s \in S \cup T : /\ s.phase \in {0, 1} /\ s.seq \in Int /\ s.kind = Move
                          /\ StepLoad(s) \in 1..g.scratch
                          /\ StepOK(g, Move, s, StepLoad(s))
  BY DEF Chained
<1>2. \A s, t \in S \cup T :
        RoundOf(s) = RoundOf(t) => /\ StepLoad(s) = StepLoad(t)
                                   /\ t.to = s.from => s = t /\ s.to = s.from
  <2> TAKE s, t \in S \cup T
  <2> SUFFICES ASSUME RoundOf(s) = RoundOf(t)
               PROVE  StepLoad(s) = StepLoad(t) /\ (t.to = s.from => s = t /\ s.to = s.from)
    OBVIOUS
  <2>1. s.phase = t.phase
    BY DEF RoundOf
  <2>2. (s \in S /\ t \in S) \/ (s \in T /\ t \in T)
    BY <2>1
  <2> QED
    BY <2>2 DEF Chained
<1> QED
  BY <1>1, <1>2 DEF Chained

\* The steps of a geometry's edge padding.
LEMMA EdgeStepsChained ==
  ASSUME NEW g, GeometryOK(g)
  PROVE  \E S : \E N \in Nat : /\ EdgeSteps(g) \in Seq(S) /\ Chained(g, S)
                               /\ \A s \in S : s.seq \in 0..N
<1> DEFINE mh == Larger(1, g.scratch \div g.rows)
           mv == Larger(1, g.scratch \div g.cols)
           hm == BuildAxisEdgePaddingMoves(g.pcols, LocalLogicalCols(g), g.cols, mh)
           vm == BuildAxisEdgePaddingMoves(g.prows, LocalLogicalRows(g), g.rows, mv)
           S == Horizontals(g, hm)
           T == Verticals(g, vm)
<1>1. /\ g.prows \in Nat \ {0} /\ g.pcols \in Nat \ {0}
      /\ g.rows \in Nat \ {0} /\ g.cols \in Nat \ {0}
      /\ g.scratch \in Nat /\ g.scratch >= g.rows /\ g.scratch >= g.cols
  BY DEF GeometryOK, EdgeArgumentsOK
<1>2. mh \in Nat \ {0} /\ \A e \in Nat \ {0} : e <= mh => g.rows * e \in 1..g.scratch
  BY <1>1, BudgetIs
<1>3. mv \in Nat \ {0} /\ \A e \in Nat \ {0} : e <= mv => g.cols * e \in 1..g.scratch
  BY <1>1, BudgetIs
<1>4. /\ LocalLogicalRows(g) \in Nat \ {0} /\ LocalLogicalRows(g) <= g.rows
      /\ LocalLogicalCols(g) \in Nat \ {0} /\ LocalLogicalCols(g) <= g.cols
  BY SharesFit
<1>5. EdgeSteps(g) = HorizontalSteps(g, hm) \o VerticalSteps(g, vm)
  BY DEF EdgeSteps, BuildEdgePaddingNative2DSteps
<1> HIDE DEF mh, mv
<1>6. hm \in Seq(AxisMoves(g.pcols, g.cols, mh))
  BY <1>1, <1>2, <1>4, AxisMovesTyped
<1>7. vm \in Seq(AxisMoves(g.prows, g.rows, mv))
  BY <1>1, <1>3, <1>4, AxisMovesTyped
<1> HIDE DEF hm, vm
<1>8. Chained(g, S) /\ \A s \in S : s.phase = 0 /\ s.seq \in 0..Len(hm)
  BY <1>2, <1>6, HorizontalChained
<1>9. Chained(g, T) /\ \A s \in T : s.phase = 1 /\ s.seq \in 0..Len(vm)
  BY <1>3, <1>7, VerticalChained
<1>10. HorizontalSteps(g, hm) \in Seq(S)
  BY <1>6, HorizontalTyped
<1>11. VerticalSteps(g, vm) \in Seq(T)
  BY <1>7, VerticalTyped
<1> DEFINE N == Len(hm) + Len(vm)
           U == S \cup T
<1>12. Len(hm) \in Nat /\ Len(vm) \in Nat
  <2>1. \A M : \A q \in Seq(M) : Len(q) \in Nat
    BY LenProperties
  <2> QED
    BY <1>6, <1>7, <2>1
<1> HIDE DEF S, T
<1>13. Chained(g, U)
  BY <1>8, <1>9, ChainsTogether
<1>14. N \in Nat /\ \A s \in U : s.seq \in 0..N
  BY <1>8, <1>9, <1>12
<1>15. S \subseteq U /\ T \subseteq U
  OBVIOUS
<1> HIDE DEF U, N
<1>16. EdgeSteps(g) \in Seq(U)
  <2>1. HorizontalSteps(g, hm) \in Seq(U) /\ VerticalSteps(g, vm) \in Seq(U)
    BY <1>10, <1>11, <1>15, SeqMonotonic
  <2> QED
    BY <1>5, <2>1, ConcatProperties
<1> QED
  BY <1>13, <1>14, <1>16

\* The last wave of a phase.
LastWave(steps, phase) ==
  LET ofPhase == {k \in DOMAIN steps : steps[k].phase = phase}
      waves   == {0} \cup {steps[i].seq : i \in ofPhase}
  IN  CHOOSE w \in waves : \A v \in waves : v <= w

\* The last wave of a phase is a number.
LEMMA LastWaveIs ==
  ASSUME NEW S, NEW N \in Nat, \A s \in S : s.seq \in 0..N, NEW steps \in Seq(S), NEW phase
  PROVE  LastWave(steps, phase) \in Int
<1> DEFINE ofPhase == {k \in DOMAIN steps : steps[k].phase = phase}
           waves == {0} \cup {steps[i].seq : i \in ofPhase}
           R == {N - v : v \in waves}
<1>1. DOMAIN steps = 1..Len(steps) /\ \A i \in 1..Len(steps) : steps[i] \in S
  BY LenProperties, ElementOfSeq
<1>2. \A w \in waves : w \in 0..N
  BY <1>1
<1>3. LastWave(steps, phase) = CHOOSE w \in waves : \A v \in waves : v <= w
  BY DEF LastWave
<1>4. 0 \in waves
  OBVIOUS
<1> HIDE DEF waves
<1>5. R \in SUBSET Nat /\ R # {}
  BY <1>2, <1>4
<1> DEFINE m == Least(R)
<1>6. m \in R /\ \A x \in R : m <= x
  <2> HIDE DEF R
  <2> QED
    BY <1>5, LeastIs
<1> HIDE DEF m
<1>7. PICK w \in waves : m = N - w
  BY <1>6
<1>8. \A v \in waves : v <= w
  <2> TAKE v \in waves
  <2>1. N - v \in R
    OBVIOUS
  <2>2. N - w <= N - v
    BY <1>6, <1>7, <2>1
  <2> QED
    BY <1>2, <2>2
<1>9. \E x \in waves : \A v \in waves : v <= x
  BY <1>8
<1>10. LastWave(steps, phase) \in waves
  BY <1>3, <1>9
<1> QED
  BY <1>2, <1>10

\* The way back of chained steps is a chain.
LEMMA ReverseChained ==
  ASSUME NEW g, NEW S, Chained(g, S), NEW N \in Nat, \A s \in S : s.seq \in 0..N,
         NEW steps \in Seq(S)
  PROVE  \E T : Chained(g, T) /\ ReverseEdgePaddingSteps(steps) \in Seq(T)
<1> DEFINE last == [p \in {0, 1} |-> LastWave(steps, p)]
           T == {Turned(s, last) : s \in S}
           n == Len(steps)
           back == [i \in DOMAIN steps |-> Turned(steps[i], last)]
<1>1. n \in Nat /\ DOMAIN steps = 1..n /\ \A i \in 1..n : steps[i] \in S
  BY LenProperties, ElementOfSeq
<1>2. last[0] \in Int /\ last[1] \in Int
  BY LastWaveIs
<1>3. \A p \in {0, 1} : last[p] = LastWave(steps, p)
  OBVIOUS
<1>4. \A s \in S : s.phase \in {0, 1}
  BY DEF Chained
<1> DEFINE rev == ReverseEdgePaddingSteps(steps)
<1>5. rev = [i \in DOMAIN steps |->
               Step(1 - steps[i].phase, LastWave(steps, steps[i].phase) - steps[i].seq, Move,
                    steps[i].to, steps[i].from, steps[i].target, steps[i].source)]
  BY DEF ReverseEdgePaddingSteps, LastWave
<1> HIDE DEF last, rev, n
<1>6. rev = back
  <2>1. \A i \in DOMAIN steps :
          Turned(steps[i], last)
            = Step(1 - steps[i].phase, LastWave(steps, steps[i].phase) - steps[i].seq, Move,
                   steps[i].to, steps[i].from, steps[i].target, steps[i].source)
    BY <1>1, <1>3, <1>4 DEF Turned
  <2> QED
    BY <1>5, <2>1
<1>7. Chained(g, T)
  BY <1>2, TurnedChained
<1>8. rev \in [1..n -> T]
  BY <1>1, <1>6
<1> HIDE DEF T
<1>9. rev \in Seq(T)
  BY <1>1, <1>8, SeqIntro
<1> QED
  BY <1>7, <1>9 DEF rev

(***************************************************************************)
(* Every plan of a geometry can be run.                                    *)
(***************************************************************************)
\* A list of elements of T.
ListOf(T, p) == Len(p) \in Nat /\ p \in [1..Len(p) -> T]

\* Lists one after the other.
LEMMA Joined ==
  ASSUME NEW T, NEW p, NEW q, ListOf(T, p), ListOf(T, q)
  PROVE  /\ ListOf(T, p \o q)
         /\ Len(p \o q) = Len(p) + Len(q)
         /\ \A k \in 1..(Len(p) + Len(q)) :
              (p \o q)[k] = IF k <= Len(p) THEN p[k] ELSE q[k - Len(p)]
<1>0. Len(p) \in Nat /\ Len(q) \in Nat
  BY DEF ListOf
<1>1. p \in Seq(T) /\ q \in Seq(T)
  BY SeqIntro DEF ListOf
<1>2. p \o q \in Seq(T) /\ Len(p \o q) = Len(p) + Len(q)
      /\ \A k \in 1..(Len(p) + Len(q)) :
           (p \o q)[k] = IF k <= Len(p) THEN p[k] ELSE q[k - Len(p)]
  BY <1>1, ConcatProperties
<1> DEFINE s == p \o q
<1>3. ListOf(T, s)
  <2>1. s \in Seq(T)
    BY <1>2
  <2> HIDE DEF s
  <2> QED
    BY <2>1, LenProperties DEF ListOf
<1> QED
  BY <1>2, <1>3

\* Batches that can be run can be run one after the other,
LEMMA RunnableTogether ==
  ASSUME NEW g, NEW p, NEW q, Runnable(g, p), Runnable(g, q)
  PROVE  Runnable(g, p \o q)
<1> DEFINE T == {p[k] : k \in 1..Len(p)} \cup {q[k] : k \in 1..Len(q)}
           s == p \o q
<1>1. /\ Len(p) \in Nat /\ p = [k \in 1..Len(p) |-> p[k]]
      /\ Len(q) \in Nat /\ q = [k \in 1..Len(q) |-> q[k]]
  BY DEF Runnable
<1>2. \A t \in T : BatchOK(g, t)
  BY DEF Runnable
<1>3. p \in [1..Len(p) -> T] /\ q \in [1..Len(q) -> T]
  <2>1. (\A k \in 1..Len(p) : p[k] \in T) /\ (\A k \in 1..Len(q) : q[k] \in T)
    OBVIOUS
  <2> HIDE DEF T
  <2> QED
    BY <1>1, <2>1
<1> HIDE DEF T
<1>4. ListOf(T, s)
  <2>1. ListOf(T, p) /\ ListOf(T, q)
    BY <1>1, <1>3 DEF ListOf
  <2> QED
    BY <2>1, Joined
<1> HIDE DEF s
<1>5. Len(s) \in Nat /\ s \in [1..Len(s) -> T]
  BY <1>4 DEF ListOf
<1>6. Runnable(g, s)
  BY <1>2, <1>5 DEF Runnable
<1> QED
  BY <1>6 DEF s

\* and with the solve between them.
LEMMA PlanRuns ==
  ASSUME NEW g, NEW p, NEW q, Runnable(g, p), Runnable(g, q)
  PROVE  PlanOK(g, p \o <<SolveEntry>> \o q)
<1> DEFINE T == {p[k] : k \in 1..Len(p)} \cup {q[k] : k \in 1..Len(q)} \cup {SolveEntry}
           e == <<SolveEntry>>
           a == p \o e
           s == a \o q
           at == Len(p) + 1
<1>1. /\ Len(p) \in Nat /\ p = [k \in 1..Len(p) |-> p[k]]
      /\ \A k \in 1..Len(p) : BatchOK(g, p[k])
      /\ Len(q) \in Nat /\ q = [k \in 1..Len(q) |-> q[k]]
      /\ \A k \in 1..Len(q) : BatchOK(g, q[k])
  BY DEF Runnable
<1>2. p \in [1..Len(p) -> T] /\ q \in [1..Len(q) -> T]
  <2>1. (\A k \in 1..Len(p) : p[k] \in T) /\ (\A k \in 1..Len(q) : q[k] \in T)
    OBVIOUS
  <2> HIDE DEF T
  <2> QED
    BY <1>1, <2>1
<1>3. Len(e) = 1 /\ e \in [1..Len(e) -> T] /\ e[1] = SolveEntry
  OBVIOUS
<1> HIDE DEF T, e
<1>4. /\ ListOf(T, a) /\ Len(a) = Len(p) + Len(e)
      /\ \A k \in 1..(Len(p) + Len(e)) : a[k] = IF k <= Len(p) THEN p[k] ELSE e[k - Len(p)]
  <2>1. ListOf(T, p) /\ ListOf(T, e)
    BY <1>1, <1>2, <1>3 DEF ListOf
  <2> QED
    BY <2>1, Joined
<1> HIDE DEF a
<1>5. /\ Len(a) = Len(p) + 1 /\ a[at] = SolveEntry
      /\ \A k \in 1..Len(p) : a[k] = p[k]
  <2>1. at \in 1..(Len(p) + Len(e)) /\ ~(at <= Len(p)) /\ at - Len(p) = 1
    BY <1>1, <1>3
  <2>2. a[at] = SolveEntry
    BY <1>3, <1>4, <2>1
  <2>3. \A k \in 1..Len(p) : k \in 1..(Len(p) + Len(e)) /\ k <= Len(p)
    BY <1>1, <1>3
  <2> QED
    BY <1>3, <1>4, <2>2, <2>3
<1>6. /\ ListOf(T, s) /\ Len(s) = Len(a) + Len(q)
      /\ \A k \in 1..(Len(a) + Len(q)) : s[k] = IF k <= Len(a) THEN a[k] ELSE q[k - Len(a)]
  <2>1. ListOf(T, q) /\ ListOf(T, a)
    BY <1>1, <1>2, <1>4 DEF ListOf
  <2> QED
    BY <2>1, Joined
<1> HIDE DEF s
<1>7. Len(s) \in Nat \ {0} /\ DOMAIN s = 1..Len(s) /\ at \in 1..Len(s)
  <2>1. Len(s) \in Nat /\ DOMAIN s = 1..Len(s)
    BY <1>6 DEF ListOf
  <2> QED
    BY <1>1, <1>5, <1>6, <2>1
<1>8. s[at] = SolveEntry
  <2>1. at \in 1..(Len(a) + Len(q)) /\ at <= Len(a)
    BY <1>1, <1>5
  <2> QED
    BY <1>5, <1>6, <2>1
<1>9. ASSUME NEW k \in 1..Len(s), k # at PROVE BatchOK(g, s[k])
  <2>1. k \in 1..(Len(a) + Len(q))
    BY <1>6
  <2>2. CASE k <= Len(a)
    <3>1. k \in 1..Len(p)
      BY <1>1, <1>5, <1>9, <2>1, <2>2
    <3>2. s[k] = p[k]
      BY <1>5, <1>6, <2>1, <2>2, <3>1
    <3> QED
      BY <1>1, <3>1, <3>2
  <2>3. CASE ~(k <= Len(a))
    <3>1. k - Len(a) \in 1..Len(q)
      BY <1>1, <1>5, <2>1, <2>3
    <3>2. s[k] = q[k - Len(a)]
      BY <1>6, <2>1, <2>3
    <3> QED
      BY <1>1, <3>1, <3>2
  <2> QED
    BY <2>2, <2>3
<1>10. PlanOK(g, s)
  BY <1>7, <1>8, <1>9 DEF PlanOK
<1> QED
  BY <1>10 DEF s, a, e

\* Every geometry's plan is one the executor is made for.
THEOREM PlanIsOK ==
  ASSUME NEW g, GeometryOK(g)
  PROVE  PlanOK(g, Plan(g))
<1> DEFINE Ef == Tagged("edge", BatchNative2DSteps(EdgeSteps(g)))
           Er == Tagged("edge", BatchNative2DSteps(ReverseEdgePaddingSteps(EdgeSteps(g))))
           Slab(reverse) == Tagged("slab", BatchNative2DSteps(BuildSlabNative2DSteps(g, reverse)))
<1>1. Runnable(g, Slab(FALSE)) /\ Runnable(g, Slab(TRUE))
  BY SlabBatchesRun
<1>2. PICK S : \E N \in Nat : /\ EdgeSteps(g) \in Seq(S) /\ Chained(g, S)
                              /\ \A s \in S : s.seq \in 0..N
  BY EdgeStepsChained
<1>3. PICK N \in Nat : /\ EdgeSteps(g) \in Seq(S) /\ Chained(g, S)
                       /\ \A s \in S : s.seq \in 0..N
  BY <1>2
<1>4. PICK T : Chained(g, T) /\ ReverseEdgePaddingSteps(EdgeSteps(g)) \in Seq(T)
  BY <1>3, ReverseChained
<1>5. Schedulable(g, "edge", S) /\ Schedulable(g, "edge", T)
  BY <1>3, <1>4, ChainedSchedulable
<1>6. Runnable(g, Ef)
  BY <1>3, <1>5, BatchesRun
<1>7. Runnable(g, Er)
  BY <1>4, <1>5, BatchesRun
<1>8. ForwardBatches(g) = Ef \o Slab(FALSE) /\ ReverseBatches(g) = Slab(TRUE) \o Er
  BY DEF ForwardBatches, ReverseBatches
<1> HIDE DEF Ef, Er, Slab
<1>9. Runnable(g, ForwardBatches(g)) /\ Runnable(g, ReverseBatches(g))
  BY <1>1, <1>6, <1>7, <1>8, RunnableTogether
<1> QED
  BY <1>9, PlanRuns DEF Plan

(***************************************************************************)
(* What a batch does to the matrices and to the saved slabs.               *)
(***************************************************************************)
\* The address of a cell of a local matrix.
LEMMA OffsetIs ==
  ASSUME NEW g, GeometryOK(g), NEW i, NEW j, i \in 0..(g.rows - 1), j \in 0..(g.cols - 1)
  PROVE  /\ Offset(g, i, j) \in LocalCells(g)
         /\ Offset(g, i, j) % g.rows = i
         /\ Offset(g, i, j) \div g.rows = j
<1>1. g.rows \in Nat \ {0} /\ g.cols \in Nat \ {0} /\ i \in Nat /\ j \in Nat
  BY DEF GeometryOK
<1>2. Offset(g, i, j) = j * g.rows + i
  BY DEF Offset
<1>3. j * g.rows + i \in 0..(g.cols * g.rows - 1)
  BY <1>1, PlaceInRow
<1>4. g.cols * g.rows = g.rows * g.cols
  BY <1>1
<1>5. (j * g.rows + i) % g.rows = i /\ (j * g.rows + i) \div g.rows = j
  BY <1>1, Parts
<1> QED
  BY <1>2, <1>3, <1>4, <1>5 DEF LocalCells

\* A cell of a rectangle is a cell of the local matrix, and packed at a place of its own.
LEMMA RectIs ==
  ASSUME NEW g, NEW rect, NEW i, NEW j, GeometryOK(g), Inside(g, rect),
         i \in 0..(rect.height - 1), j \in 0..(rect.width - 1)
  PROVE  /\ rect.row + i \in 0..(g.rows - 1) /\ rect.col + j \in 0..(g.cols - 1)
         /\ j * rect.height + i \in 0..(Size(rect) - 1)
         /\ (j * rect.height + i) % rect.height = i
         /\ (j * rect.height + i) \div rect.height = j
         /\ Size(rect) \in Nat
<1>1. /\ rect.row \in Nat /\ rect.col \in Nat /\ g.rows \in Nat /\ g.cols \in Nat
      /\ rect.height \in Nat \ {0} /\ rect.width \in Nat \ {0}
      /\ rect.row + rect.height <= g.rows
      /\ rect.col + rect.width <= g.cols
  BY DEF Inside, GeometryOK
<1>2. rect.row + i \in 0..(g.rows - 1) /\ rect.col + j \in 0..(g.cols - 1)
  BY <1>1
<1>3. j * rect.height + i \in 0..(rect.width * rect.height - 1)
  BY <1>1, PlaceInRow
<1>4. rect.width * rect.height = rect.height * rect.width /\ rect.height * rect.width \in Nat
  BY <1>1
<1>5. i \in Nat /\ j \in Nat
  BY <1>1
<1>6. (j * rect.height + i) % rect.height = i /\ (j * rect.height + i) \div rect.height = j
  BY <1>1, <1>5, Parts
<1> QED
  BY <1>2, <1>3, <1>4, <1>6 DEF Size

\* A packed cell.
LEMMA PackedCell ==
  ASSUME NEW g, NEW m \in [LocalCells(g) -> Values(g)],
         NEW s \in [ScratchCells(g) -> Values(g)], NEW rect, NEW base \in Nat,
         NEW i, NEW j, GeometryOK(g), Inside(g, rect), base + Size(rect) <= g.scratch,
         i \in 0..(rect.height - 1), j \in 0..(rect.width - 1)
  PROVE  PackRect(g, rect, m, s, base)[base + (j * rect.height + i)]
           = m[Offset(g, rect.row + i, rect.col + j)]
<1> DEFINE k == j * rect.height + i
<1>1. /\ rect.row + i \in 0..(g.rows - 1) /\ rect.col + j \in 0..(g.cols - 1)
      /\ k \in 0..(Size(rect) - 1) /\ k % rect.height = i /\ k \div rect.height = j
      /\ Size(rect) \in Nat
  <2>1. /\ rect.row + i \in 0..(g.rows - 1) /\ rect.col + j \in 0..(g.cols - 1)
        /\ j * rect.height + i \in 0..(Size(rect) - 1)
        /\ (j * rect.height + i) % rect.height = i
        /\ (j * rect.height + i) \div rect.height = j
        /\ Size(rect) \in Nat
    BY RectIs
  <2> QED
    BY <2>1
<1>2. Offset(g, rect.row + i, rect.col + j) \in LocalCells(g)
  BY <1>1, OffsetIs
<1>3. g.scratch \in Nat
  BY DEF GeometryOK
<1> HIDE DEF k
<1>4. base + k \in ScratchCells(g) /\ (base + k) - base = k
  BY <1>1, <1>3 DEF ScratchCells
<1>5. PackRect(g, rect, m, s, base)[base + k]
        = Peek(m, Offset(g, rect.row + i, rect.col + j))
  BY <1>1, <1>4 DEF PackRect
<1> QED
  BY <1>2, <1>5 DEF Peek, k

\* Unpacking leaves a cell outside the rectangle alone.
LEMMA UnpackKeeps ==
  ASSUME NEW g, NEW m \in [LocalCells(g) -> Values(g)], NEW s, NEW rect, NEW base,
         NEW i, NEW j, GeometryOK(g), i \in 0..(g.rows - 1), j \in 0..(g.cols - 1),
         ~(i - rect.row \in 0..(rect.height - 1) /\ j - rect.col \in 0..(rect.width - 1))
  PROVE  UnpackRect(g, rect, s, base, m)[Offset(g, i, j)] = m[Offset(g, i, j)]
<1> DEFINE o == Offset(g, i, j)
<1>1. o \in LocalCells(g) /\ o % g.rows = i /\ o \div g.rows = j
  BY OffsetIs
<1> HIDE DEF o
<1> QED
  BY <1>1 DEF UnpackRect, o

\* What a receiver unpacks is the payload of the rank that sent it.
LEMMA Delivered ==
  ASSUME NEW g, NEW b, NEW w \in Memories(g), NEW r \in RanksOf(g), NEW k,
         GeometryOK(g), BatchOK(g, b), RecvsOf(r, b) # {}, k \in 0..(Load(b) - 1)
  PROVE  Peek(ScratchAfter(g, w, b, r),
              (IF IsLocal(r, b) THEN SendBase(g, b) ELSE RecvBase(g, b)) + k)
           = PayloadOf(g, w, b, RecvStep(r, b).from)[k]
<1> DEFINE u == RecvStep(r, b).from
<1>1. u \in RanksOf(g) /\ SendsOf(u, b) # {}
  BY Partner
<1>2. GroupCount(u, b) = Load(b)
  BY <1>1, CountIsLoad
<1>3. PayloadOf(g, w, b, u)[k] = Peek(PackedIn(g, w, b, u), SendBase(g, b) + k)
  BY <1>2 DEF PayloadOf
<1>4. CASE IsLocal(r, b)
  <2>1. u = r
    BY <1>4, LocalStep
  <2>2. ScratchAfter(g, w, b, r) = PackedIn(g, w, b, r)
    BY <1>4 DEF ScratchAfter, Receives
  <2> QED
    BY <1>3, <1>4, <2>1, <2>2
<1>5. CASE ~IsLocal(r, b)
  <2> DEFINE a == PackedIn(g, w, b, r)
             d == PayloadOf(g, w, b, u)
  <2>1. DOMAIN a = ScratchCells(g)
    <3>1. w.mem[r] \in [LocalCells(g) -> Values(g)]
          /\ w.scratch[r] \in [ScratchCells(g) -> Values(g)]
      BY DEF Memories
    <3>2. a \in [ScratchCells(g) -> Values(g)]
      BY <3>1, PackTyped DEF PackedIn
    <3> QED
      BY <3>2
  <2>2. DOMAIN d = 0..(Load(b) - 1)
    BY <1>2 DEF PayloadOf
  <2>3. /\ RecvBase(g, b) \in Nat /\ Load(b) \in Nat
        /\ RecvBase(g, b) + Load(b) <= g.scratch
    BY Bases
  <2>4. ScratchAfter(g, w, b, r) = Landed(g, a, b, d)
    BY <1>5 DEF ScratchAfter, Receives
  <2> DEFINE i == RecvBase(g, b) + k
  <2>5. g.scratch \in Nat
    BY DEF GeometryOK
  <2>6. i \in ScratchCells(g) /\ i - RecvBase(g, b) = k /\ k \in DOMAIN d
    BY <2>2, <2>3, <2>5 DEF ScratchCells
  <2> HIDE DEF a, d, i
  <2>7. Landed(g, a, b, d)[i] = d[k] /\ i \in DOMAIN Landed(g, a, b, d)
    BY <2>1, <2>6 DEF Landed
  <2>8. Peek(ScratchAfter(g, w, b, r), i) = d[k]
    BY <2>4, <2>7 DEF Peek
  <2> QED
    BY <1>5, <2>8 DEF i, d
<1> QED
  BY <1>4, <1>5

\* The memories of one rank.
LEMMA RankMemories ==
  ASSUME NEW g, NEW w \in Memories(g), NEW r \in RanksOf(g)
  PROVE  /\ w.mem[r] \in [LocalCells(g) -> Values(g)]
         /\ w.scratch[r] \in [ScratchCells(g) -> Values(g)]
  BY DEF Memories

\* A payload of a move is the rectangle it comes from,
LEMMA MovedPayload ==
  ASSUME NEW g, NEW b, NEW w \in Memories(g), NEW r \in RanksOf(g), NEW i, NEW j,
         GeometryOK(g), BatchOK(g, b), SendsOf(r, b) # {}, b.kind = Move,
         i \in 0..(SendStep(r, b).source.height - 1),
         j \in 0..(SendStep(r, b).source.width - 1)
  PROVE  PayloadOf(g, w, b, r)[j * SendStep(r, b).source.height + i]
           = w.mem[r][Offset(g, SendStep(r, b).source.row + i, SendStep(r, b).source.col + j)]
<1> DEFINE rect == SendStep(r, b).source
           k == j * rect.height + i
           base == SendBase(g, b)
<1>1. Inside(g, rect) /\ Size(rect) = Load(b)
  <2>1. Move # Save /\ Move # Restore
    BY DEF Move, Save, Restore
  <2> QED
    BY <2>1, Sender DEF StepOK
<1>2. base \in Nat /\ base + Load(b) <= g.scratch /\ PackBase(g, b) = base
  BY Bases
<1>3. GroupCount(r, b) = Load(b)
  BY CountIsLoad
<1>4. w.mem[r] \in [LocalCells(g) -> Values(g)] /\ w.scratch[r] \in [ScratchCells(g) -> Values(g)]
  BY RankMemories
<1>5. PackedIn(g, w, b, r) = PackRect(g, rect, w.mem[r], w.scratch[r], base)
  <2>1. b.kind # Restore
    BY DEF Move, Restore
  <2> QED
    BY <1>2, <2>1 DEF PackedIn
<1>6. k \in 0..(Load(b) - 1) /\ Load(b) \in Nat
  BY <1>1, RectIs
<1> HIDE DEF rect
<1>7. PackRect(g, rect, w.mem[r], w.scratch[r], base)[base + k]
        = w.mem[r][Offset(g, rect.row + i, rect.col + j)]
  <2>1. i \in 0..(rect.height - 1) /\ j \in 0..(rect.width - 1)
    BY DEF rect
  <2> HIDE DEF base
  <2> QED
    BY <1>1, <1>2, <1>4, <2>1, PackedCell
<1>8. PackRect(g, rect, w.mem[r], w.scratch[r], base) \in [ScratchCells(g) -> Values(g)]
  BY <1>4, PackTyped
<1> HIDE DEF k, base
<1>9. g.scratch \in Nat
  BY DEF GeometryOK
<1>10. base + k \in ScratchCells(g)
  BY <1>2, <1>6, <1>9 DEF ScratchCells
<1>11. Peek(PackedIn(g, w, b, r), base + k) = w.mem[r][Offset(g, rect.row + i, rect.col + j)]
  BY <1>5, <1>7, <1>8, <1>10 DEF Peek
<1>12. PayloadOf(g, w, b, r)[k] = Peek(PackedIn(g, w, b, r), base + k)
  BY <1>3, <1>6 DEF PayloadOf, base
<1> QED
  BY <1>11, <1>12 DEF k, rect

\* and of a restore the saved slab.
LEMMA RestoredPayload ==
  ASSUME NEW g, NEW b, NEW w \in Memories(g), NEW r \in RanksOf(g), NEW k,
         GeometryOK(g), BatchOK(g, b), SendsOf(r, b) # {}, b.kind = Restore,
         k \in 0..(Load(b) - 1)
  PROVE  PayloadOf(g, w, b, r)[k] = w.scratch[r][k]
<1>1. b.exec # "edge"
  BY DEF BatchOK, Move, Restore
<1>2. SendBase(g, b) = 0
  BY <1>1, Slots DEF SendBase
<1>3. GroupCount(r, b) = Load(b)
  BY CountIsLoad
<1>4. PackedIn(g, w, b, r) = w.scratch[r]
  BY DEF PackedIn
<1>5. w.scratch[r] \in [ScratchCells(g) -> Values(g)]
  BY RankMemories
<1>6. Load(b) \in Nat /\ SendBase(g, b) + Load(b) <= g.scratch /\ g.scratch \in Nat
  BY Bases DEF GeometryOK
<1>7. k \in ScratchCells(g) /\ 0 + k = k
  BY <1>2, <1>6 DEF ScratchCells
<1>8. PayloadOf(g, w, b, r)[k] = Peek(w.scratch[r], 0 + k)
  BY <1>2, <1>3, <1>4 DEF PayloadOf
<1> QED
  BY <1>5, <1>7, <1>8 DEF Peek

\* A receiver's cells after a batch.
LEMMA Unpacks ==
  ASSUME NEW g, NEW b, NEW w \in Memories(g), NEW n \in DOMAIN b.steps, NEW i, NEW j,
         GeometryOK(g), BatchOK(g, b), b.kind # Save,
         i \in 0..(b.steps[n].target.height - 1), j \in 0..(b.steps[n].target.width - 1)
  PROVE  /\ Passed(g, w, b).mem[b.steps[n].to]
              [Offset(g, b.steps[n].target.row + i, b.steps[n].target.col + j)]
              = PayloadOf(g, w, b, b.steps[n].from)[j * b.steps[n].target.height + i]
         /\ j * b.steps[n].target.height + i \in 0..(Load(b) - 1)
<1> DEFINE s == b.steps[n]
           r == s.to
           rect == s.target
           k == j * rect.height + i
           base == IF IsLocal(r, b) THEN SendBase(g, b) ELSE RecvBase(g, b)
<1>1. StepOK(g, b.kind, s, Load(b))
  BY DEF BatchOK
<1>2. r \in RanksOf(g) /\ Inside(g, rect) /\ Size(rect) = Load(b)
  BY <1>1 DEF StepOK
<1>3. RecvsOf(r, b) # {} /\ RecvStep(r, b) = s
  BY RecvOf
<1>4. b.exec # "solve"
  BY DEF BatchOK
<1>5. Passed(g, w, b).mem[r] = MemAfter(g, w, b, r)
  BY <1>2, <1>4 DEF Passed
<1>6. MemAfter(g, w, b, r)
        = UnpackRect(g, rect, ScratchAfter(g, w, b, r), base, w.mem[r])
  BY <1>3 DEF MemAfter
<1>7. w.mem[r] \in [LocalCells(g) -> Values(g)]
  BY <1>2, RankMemories
<1>8. i \in 0..(rect.height - 1) /\ j \in 0..(rect.width - 1)
  OBVIOUS
<1>9. /\ rect.row + i \in 0..(g.rows - 1) /\ rect.col + j \in 0..(g.cols - 1)
      /\ j * rect.height + i \in 0..(Size(rect) - 1)
      /\ (j * rect.height + i) % rect.height = i
      /\ (j * rect.height + i) \div rect.height = j
      /\ Size(rect) \in Nat
  <2> HIDE DEF rect
  <2> QED
    BY <1>2, <1>8, RectIs
<1>10. UnpackRect(g, rect, ScratchAfter(g, w, b, r), base, w.mem[r])
         [Offset(g, rect.row + i, rect.col + j)]
         = Peek(ScratchAfter(g, w, b, r), base + j * rect.height + i)
  <2> DEFINE a == ScratchAfter(g, w, b, r)
             m == w.mem[r]
             o == Offset(g, rect.row + i, rect.col + j)
  <2>1. m \in [LocalCells(g) -> Values(g)]
    BY <1>7
  <2>2. o \in LocalCells(g) /\ o % g.rows = rect.row + i /\ o \div g.rows = rect.col + j
    <3> HIDE DEF rect
    <3> QED
      BY <1>9, OffsetIs
  <2>3. rect.row \in Nat /\ rect.col \in Nat /\ i \in Int /\ j \in Int
    BY <1>2, <1>8 DEF Inside
  <2> HIDE DEF rect, base, r, a, m, o
  <2>4. (o % g.rows) - rect.row = i /\ (o \div g.rows) - rect.col = j
    BY <2>2, <2>3
  <2>5. UnpackRect(g, rect, a, base, m)[o] = Peek(a, base + j * rect.height + i)
    BY <1>8, <2>1, <2>2, <2>4 DEF UnpackRect
  <2> QED
    BY <2>5 DEF a, m, o
<1>11. k \in 0..(Load(b) - 1)
  BY <1>2, <1>9
<1>12. Peek(ScratchAfter(g, w, b, r), base + k) = PayloadOf(g, w, b, s.from)[k]
  <2> HIDE DEF s, k
  <2>1. Peek(ScratchAfter(g, w, b, r),
             (IF IsLocal(r, b) THEN SendBase(g, b) ELSE RecvBase(g, b)) + k)
           = PayloadOf(g, w, b, RecvStep(r, b).from)[k]
    <3> HIDE DEF r
    <3> QED
      BY <1>2, <1>3, <1>11, Delivered, ZenonT(60)
  <2> QED
    BY <1>3, <2>1
<1>13. base + j * rect.height + i = base + k
  <2>1. base \in Nat
    BY Bases
  <2>2. rect.height \in Nat /\ i \in Nat /\ j \in Nat
    BY <1>2, <1>8 DEF Inside
  <2>3. j * rect.height \in Nat
    BY <2>2
  <2> HIDE DEF base, rect
  <2> QED
    BY <2>1, <2>2, <2>3
<1> QED
  BY <1>5, <1>6, <1>10, <1>11, <1>12, <1>13

\* After a batch of moves a rectangle is where another was,
LEMMA MoveLands ==
  ASSUME NEW g, NEW b, NEW w \in Memories(g), NEW n \in DOMAIN b.steps,
         GeometryOK(g), BatchOK(g, b), b.kind = Move
  PROVE  \A i \in 0..(b.steps[n].target.height - 1), j \in 0..(b.steps[n].target.width - 1) :
           Passed(g, w, b).mem[b.steps[n].to]
             [Offset(g, b.steps[n].target.row + i, b.steps[n].target.col + j)]
             = w.mem[b.steps[n].from]
                 [Offset(g, b.steps[n].source.row + i, b.steps[n].source.col + j)]
<1> SUFFICES ASSUME NEW i \in 0..(b.steps[n].target.height - 1),
                    NEW j \in 0..(b.steps[n].target.width - 1)
             PROVE  Passed(g, w, b).mem[b.steps[n].to]
                      [Offset(g, b.steps[n].target.row + i, b.steps[n].target.col + j)]
                      = w.mem[b.steps[n].from]
                          [Offset(g, b.steps[n].source.row + i, b.steps[n].source.col + j)]
  OBVIOUS
<1> DEFINE s == b.steps[n]
<1>0. b.kind # Save /\ b.kind # Restore
  BY DEF Move, Save, Restore
<1>1. StepOK(g, b.kind, s, Load(b))
  BY DEF BatchOK
<1>2. /\ s.from \in RanksOf(g) /\ SendsOf(s.from, b) # {} /\ SendStep(s.from, b) = s
  BY <1>1, SendOf DEF StepOK
<1>3. s.source.height = s.target.height /\ s.source.width = s.target.width
  <2>1. /\ Inside(g, s.source) /\ Inside(g, s.target)
        /\ Size(s.source) = Size(s.target) /\ s.source.height = s.target.height
    BY <1>0, <1>1 DEF StepOK
  <2>2. /\ s.source.height \in Nat \ {0} /\ s.source.width \in Nat \ {0}
        /\ s.target.width \in Nat \ {0}
        /\ s.source.height * s.source.width = s.source.height * s.target.width
    BY <2>1 DEF Inside, Size
  <2>3. \A h, x, y \in Nat \ {0} : h * x = h * y => x = y
    BY SMTT(60)
  <2> HIDE DEF s
  <2> QED
    BY <2>1, <2>2, <2>3
<1>4. /\ Passed(g, w, b).mem[b.steps[n].to]
           [Offset(g, b.steps[n].target.row + i, b.steps[n].target.col + j)]
           = PayloadOf(g, w, b, b.steps[n].from)[j * b.steps[n].target.height + i]
      /\ j * b.steps[n].target.height + i \in 0..(Load(b) - 1)
  BY <1>0, Unpacks
<1>5. i \in 0..(s.source.height - 1) /\ j \in 0..(s.source.width - 1)
  BY <1>3
<1>6. PayloadOf(g, w, b, s.from)[j * SendStep(s.from, b).source.height + i]
        = w.mem[s.from][Offset(g, SendStep(s.from, b).source.row + i,
                                  SendStep(s.from, b).source.col + j)]
  <2> HIDE DEF s
  <2> QED
    BY <1>2, <1>5, MovedPayload
<1> QED
  BY <1>2, <1>3, <1>4, <1>6

\* after one of restores where a saved slab was.
LEMMA RestoreLands ==
  ASSUME NEW g, NEW b, NEW w \in Memories(g), NEW n \in DOMAIN b.steps, NEW i, NEW j,
         GeometryOK(g), BatchOK(g, b), b.kind = Restore,
         i \in 0..(b.steps[n].target.height - 1), j \in 0..(b.steps[n].target.width - 1)
  PROVE  Passed(g, w, b).mem[b.steps[n].to]
           [Offset(g, b.steps[n].target.row + i, b.steps[n].target.col + j)]
           = w.scratch[b.steps[n].from][j * b.steps[n].target.height + i]
<1> DEFINE s == b.steps[n]
           k == j * b.steps[n].target.height + i
<1>0. b.kind # Save
  BY DEF Save, Restore
<1>1. StepOK(g, b.kind, s, Load(b))
  BY DEF BatchOK
<1>2. s.from \in RanksOf(g) /\ SendsOf(s.from, b) # {}
  BY <1>1, SendOf, SMTT(60) DEF StepOK
<1>3. /\ Passed(g, w, b).mem[b.steps[n].to]
           [Offset(g, b.steps[n].target.row + i, b.steps[n].target.col + j)]
           = PayloadOf(g, w, b, b.steps[n].from)[j * b.steps[n].target.height + i]
      /\ j * b.steps[n].target.height + i \in 0..(Load(b) - 1)
  BY <1>0, Unpacks
<1>4. PayloadOf(g, w, b, s.from)[k] = w.scratch[s.from][k]
  <2>1. k \in 0..(Load(b) - 1)
    BY <1>3
  <2> HIDE DEF s, k
  <2> QED
    BY <1>2, <2>1, RestoredPayload
<1> QED
  BY <1>3, <1>4

\* A batch of saves has the rectangle in the saved slot.
LEMMA SaveLands ==
  ASSUME NEW g, NEW b, NEW w \in Memories(g), NEW n \in DOMAIN b.steps, NEW i, NEW j,
         GeometryOK(g), BatchOK(g, b), b.kind = Save,
         i \in 0..(b.steps[n].source.height - 1), j \in 0..(b.steps[n].source.width - 1)
  PROVE  Passed(g, w, b).scratch[b.steps[n].from][j * b.steps[n].source.height + i]
           = w.mem[b.steps[n].from]
               [Offset(g, b.steps[n].source.row + i, b.steps[n].source.col + j)]
<1> DEFINE s == b.steps[n]
           r == s.from
           rect == s.source
           k == j * rect.height + i
<1>0. b.kind # Restore /\ b.exec # "edge" /\ b.exec # "solve"
  BY DEF Move, Save, Restore, BatchOK
<1>1. StepOK(g, b.kind, s, Load(b))
  BY DEF BatchOK
<1>2. r \in RanksOf(g) /\ Inside(g, rect) /\ Size(rect) = Load(b)
  BY <1>0, <1>1 DEF StepOK
<1>3. SendsOf(r, b) # {} /\ SendStep(r, b) = s
  BY SendOf
<1>4. PackBase(g, b) = 0 /\ 0 + Load(b) <= g.scratch
  <2>1. PackBase(g, b) = 0
    BY <1>0, Slots DEF PackBase
  <2>2. PackBase(g, b) + Load(b) <= g.scratch
    BY Bases
  <2> QED
    BY <2>1, <2>2
<1>5. ~Receives(r, b)
  <2> SUFFICES ASSUME RecvsOf(r, b) # {} PROVE FALSE
    BY DEF Receives
  <2> QED
    BY <1>2, Receiver
<1>6. Passed(g, w, b).scratch[r] = PackedIn(g, w, b, r)
  BY <1>0, <1>2, <1>5 DEF Passed, ScratchAfter
<1>7. PackedIn(g, w, b, r) = PackRect(g, rect, w.mem[r], w.scratch[r], 0)
  BY <1>0, <1>3, <1>4 DEF PackedIn
<1>8. w.mem[r] \in [LocalCells(g) -> Values(g)] /\ w.scratch[r] \in [ScratchCells(g) -> Values(g)]
  BY <1>2, RankMemories
<1>9. i \in 0..(rect.height - 1) /\ j \in 0..(rect.width - 1)
  OBVIOUS
<1>10. PackRect(g, rect, w.mem[r], w.scratch[r], 0)[0 + (j * rect.height + i)]
         = w.mem[r][Offset(g, rect.row + i, rect.col + j)]
  <2> HIDE DEF rect, r
  <2>1. 0 \in Nat /\ 0 + Size(rect) <= g.scratch
    BY <1>2, <1>4
  <2> QED
    BY <1>2, <1>8, <1>9, <2>1, PackedCell
<1>11. 0 + k = k
  <2>1. rect.height \in Nat /\ i \in Nat /\ j \in Nat
    BY <1>2, <1>9 DEF Inside
  <2>2. j * rect.height \in Nat
    BY <2>1
  <2> HIDE DEF rect
  <2> QED
    BY <2>1, <2>2
<1> QED
  BY <1>6, <1>7, <1>10, <1>11

\* A cell no step writes stays as it is.
LEMMA CellsKept ==
  ASSUME NEW g, NEW b, NEW w \in Memories(g), NEW r \in RanksOf(g), NEW i, NEW j,
         GeometryOK(g), BatchOK(g, b), i \in 0..(g.rows - 1), j \in 0..(g.cols - 1),
         \A n \in DOMAIN b.steps :
           b.steps[n].to = r =>
             ~(/\ i - b.steps[n].target.row \in 0..(b.steps[n].target.height - 1)
               /\ j - b.steps[n].target.col \in 0..(b.steps[n].target.width - 1))
  PROVE  Passed(g, w, b).mem[r][Offset(g, i, j)] = w.mem[r][Offset(g, i, j)]
<1>1. Passed(g, w, b).mem[r] = MemAfter(g, w, b, r)
  BY DEF Passed, BatchOK
<1>2. CASE RecvsOf(r, b) = {}
  BY <1>1, <1>2 DEF MemAfter
<1>3. CASE RecvsOf(r, b) # {}
  <2>1. PICK n \in DOMAIN b.steps : RecvStep(r, b) = b.steps[n] /\ b.steps[n].to = r
    BY <1>3, Receiver
  <2> DEFINE rect == b.steps[n].target
             base == IF IsLocal(r, b) THEN SendBase(g, b) ELSE RecvBase(g, b)
  <2>2. MemAfter(g, w, b, r)
          = UnpackRect(g, rect, ScratchAfter(g, w, b, r), base, w.mem[r])
    BY <1>3, <2>1 DEF MemAfter
  <2>3. ~(i - rect.row \in 0..(rect.height - 1) /\ j - rect.col \in 0..(rect.width - 1))
    BY <2>1
  <2>4. w.mem[r] \in [LocalCells(g) -> Values(g)]
    BY RankMemories
  <2> HIDE DEF rect, base
  <2>5. UnpackRect(g, rect, ScratchAfter(g, w, b, r), base, w.mem[r])[Offset(g, i, j)]
          = w.mem[r][Offset(g, i, j)]
    BY <2>3, <2>4, UnpackKeeps
  <2> QED
    BY <1>1, <2>2, <2>5
<1> QED
  BY <1>2, <1>3

\* So does a saved slab until the rank saves another.
LEMMA SavedKept ==
  ASSUME NEW g, NEW b, NEW w \in Memories(g), NEW r \in RanksOf(g), NEW k,
         GeometryOK(g), BatchOK(g, b), b.exec # "edge",
         k \in 0..(RequiredCyclicSlotElements(g) - 1),
         b.kind = Save => \A n \in DOMAIN b.steps : b.steps[n].from # r
  PROVE  Passed(g, w, b).scratch[r][k] = w.scratch[r][k]
<1>1. Passed(g, w, b).scratch[r] = ScratchAfter(g, w, b, r)
  BY DEF Passed, BatchOK
<1>2. /\ RequiredCyclicSlotElements(g) \in Nat
      /\ 3 * RequiredCyclicSlotElements(g) <= g.scratch /\ g.scratch \in Nat
  BY Slots
<1>3. k \in ScratchCells(g) /\ k \in Nat
  BY <1>2 DEF ScratchCells
<1>4. w.scratch[r] \in [ScratchCells(g) -> Values(g)] /\ w.mem[r] \in [LocalCells(g) -> Values(g)]
  BY RankMemories
<1> DEFINE a == PackedIn(g, w, b, r)
<1>5. a[k] = w.scratch[r][k] /\ DOMAIN a = ScratchCells(g)
  <2>1. CASE SendsOf(r, b) # {} /\ b.kind # Restore
    <3>1. b.kind = Move
      <4>1. b.kind # Save
        <5> SUFFICES ASSUME b.kind = Save PROVE FALSE
          OBVIOUS
        <5> QED
          BY <2>1 DEF SendsOf
      <4> QED
        BY <2>1, <4>1 DEF BatchOK
    <3>2. RequiredCyclicSlotElements(g) <= PackBase(g, b) /\ PackBase(g, b) \in Nat
      BY <3>1, Bases
    <3>3. k - PackBase(g, b) \notin 0..(Size(SendStep(r, b).source) - 1)
      BY <1>2, <1>3, <3>2
    <3>4. a = PackRect(g, SendStep(r, b).source, w.mem[r], w.scratch[r], PackBase(g, b))
      BY <2>1 DEF PackedIn
    <3>5. a[k] = w.scratch[r][k]
      BY <1>3, <1>4, <3>3, <3>4, PackKeeps
    <3>6. DOMAIN a = DOMAIN w.scratch[r]
      BY <3>4 DEF PackRect
    <3> QED
      BY <1>4, <3>5, <3>6
  <2>2. CASE ~(SendsOf(r, b) # {} /\ b.kind # Restore)
    <3>1. a = w.scratch[r]
      BY <2>2 DEF PackedIn
    <3> QED
      BY <1>4, <3>1
  <2> QED
    BY <2>1, <2>2
<1>6. CASE ~Receives(r, b)
  <2>1. ScratchAfter(g, w, b, r) = a
    BY <1>6 DEF ScratchAfter
  <2> QED
    BY <1>1, <1>5, <2>1
<1>7. CASE Receives(r, b)
  <2> DEFINE d == PayloadOf(g, w, b, RecvStep(r, b).from)
  <2>1. ScratchAfter(g, w, b, r) = Landed(g, a, b, d)
    BY <1>7 DEF ScratchAfter
  <2>2. RequiredCyclicSlotElements(g) <= RecvBase(g, b) /\ RecvBase(g, b) \in Nat
    BY Bases
  <2>3. k - RecvBase(g, b) \notin Nat
    BY <1>2, <1>3, <2>2
  <2>4. DOMAIN d \subseteq Nat
    BY DEF PayloadOf
  <2>5. k - RecvBase(g, b) \notin DOMAIN d
    BY <2>3, <2>4
  <2> HIDE DEF a, d
  <2>6. Landed(g, a, b, d)[k] = a[k]
    BY <1>3, <1>5, <2>5 DEF Landed
  <2> QED
    BY <1>1, <1>5, <2>1, <2>6
<1> QED
  BY <1>6, <1>7

(***************************************************************************)
(* Lines.  A phase of a plan moves data along the lines of one direction:  *)
(* the local matrices of a process row side by side ("cols": its places    *)
(* are columns of the global padded matrix), or those of a process column  *)
(* one below the other ("rows").  A place x of a line has one cell for     *)
(* every y across it.                                                      *)
(***************************************************************************)
Directions == {"cols", "rows"}
Lines(g, dir) == IF dir = "cols" THEN g.prows ELSE g.pcols
Procs(g, dir) == IF dir = "cols" THEN g.pcols ELSE g.prows
Side(g, dir)  == IF dir = "cols" THEN g.cols ELSE g.rows
Cross(g, dir) == IF dir = "cols" THEN g.rows ELSE g.cols
Tile(g, dir)  == IF dir = "cols" THEN g.tcols ELSE g.trows
LinesOf(g, dir) == 0..(Lines(g, dir) - 1)
Places(g, dir)  == 0..(Procs(g, dir) * Side(g, dir) - 1)

\* The rank that has a place of line q.
RankOn(g, dir, q, x) ==
  IF dir = "cols" THEN RankAt(g, q, x \div g.cols) ELSE RankAt(g, x \div g.rows, q)

\* The rectangle of n places from x on.
Band(g, dir, x, n) ==
  IF dir = "cols" THEN Rect(0, x % g.cols, g.rows, n) ELSE Rect(x % g.rows, 0, n, g.cols)

\* What is packed of it d places further, with n places.
PackedAt(g, dir, n, d, y) == IF dir = "cols" THEN d * g.rows + y ELSE y * n + d

\* n places from x on of one rank.
Segment(g, dir, x, n) ==
  x \in Places(g, dir) /\ n \in Nat \ {0} /\ (x % Side(g, dir)) + n <= Side(g, dir)

\* The sizes of a direction.
LEMMA SizesOf ==
  ASSUME NEW g, NEW dir \in Directions, GeometryOK(g)
  PROVE  /\ Lines(g, dir) \in Nat \ {0} /\ Procs(g, dir) \in Nat \ {0}
         /\ Side(g, dir) \in Nat \ {0} /\ Cross(g, dir) \in Nat \ {0}
         /\ Tile(g, dir) \in Nat \ {0}
  BY DEF Directions, Lines, Procs, Side, Cross, Tile, GeometryOK

\* A place of a line is one of a rank.
LEMMA PlaceIs ==
  ASSUME NEW g, NEW dir \in Directions, NEW x, GeometryOK(g), x \in Places(g, dir)
  PROVE  /\ x \in Nat
         /\ x \div Side(g, dir) \in 0..(Procs(g, dir) - 1)
         /\ x % Side(g, dir) \in 0..(Side(g, dir) - 1)
         /\ x = (x \div Side(g, dir)) * Side(g, dir) + (x % Side(g, dir))
<1>1. Procs(g, dir) \in Nat \ {0} /\ Side(g, dir) \in Nat \ {0}
  BY SizesOf
<1> QED
  BY <1>1, RowAndPlace DEF Places

\* It has a rank.
LEMMA RankOnTyped ==
  ASSUME NEW g, NEW dir \in Directions, NEW q \in LinesOf(g, dir), NEW x,
         GeometryOK(g), x \in Places(g, dir)
  PROVE  RankOn(g, dir, q, x) \in RanksOf(g)
<1>1. x \div Side(g, dir) \in 0..(Procs(g, dir) - 1)
  BY PlaceIs
<1>2. CASE dir = "cols"
  <2>1. q \in 0..(g.prows - 1) /\ x \div g.cols \in 0..(g.pcols - 1)
    BY <1>1, <1>2 DEF LinesOf, Lines, Side, Procs
  <2>2. RankAt(g, q, x \div g.cols) \in RanksOf(g)
    BY <2>1, RankAtTyped
  <2> QED
    BY <1>2, <2>2 DEF RankOn
<1>3. CASE dir = "rows"
  <2>1. q \in 0..(g.pcols - 1) /\ x \div g.rows \in 0..(g.prows - 1)
    BY <1>1, <1>3 DEF LinesOf, Lines, Side, Procs
  <2>2. RankAt(g, x \div g.rows, q) \in RanksOf(g)
    BY <2>1, RankAtTyped
  <2> QED
    BY <1>3, <2>2 DEF RankOn
<1> QED
  BY <1>2, <1>3 DEF Directions

\* Different lines have different ranks, and so have different parts of a line.
LEMMA RanksApart ==
  ASSUME NEW g, NEW dir \in Directions, NEW q \in LinesOf(g, dir), NEW u \in LinesOf(g, dir),
         NEW x, NEW z, GeometryOK(g), x \in Places(g, dir), z \in Places(g, dir),
         RankOn(g, dir, q, x) = RankOn(g, dir, u, z)
  PROVE  q = u /\ x \div Side(g, dir) = z \div Side(g, dir)
<1>1. /\ x \div Side(g, dir) \in 0..(Procs(g, dir) - 1)
      /\ z \div Side(g, dir) \in 0..(Procs(g, dir) - 1)
  BY PlaceIs
<1>2. CASE dir = "cols"
  <2>1. /\ q \in 0..(g.prows - 1) /\ x \div g.cols \in 0..(g.pcols - 1)
        /\ u \in 0..(g.prows - 1) /\ z \div g.cols \in 0..(g.pcols - 1)
        /\ RankAt(g, q, x \div g.cols) = RankAt(g, u, z \div g.cols)
    BY <1>1, <1>2 DEF LinesOf, Lines, Side, Procs, RankOn
  <2>2. q = u /\ x \div g.cols = z \div g.cols
    BY <2>1, RankAtOne
  <2> QED
    BY <1>2, <2>2 DEF Side
<1>3. CASE dir = "rows"
  <2>1. /\ q \in 0..(g.pcols - 1) /\ x \div g.rows \in 0..(g.prows - 1)
        /\ u \in 0..(g.pcols - 1) /\ z \div g.rows \in 0..(g.prows - 1)
        /\ RankAt(g, x \div g.rows, q) = RankAt(g, z \div g.rows, u)
    BY <1>1, <1>3 DEF LinesOf, Lines, Side, Procs, RankOn
  <2>2. q = u /\ x \div g.rows = z \div g.rows
    BY <2>1, RankAtOne
  <2> QED
    BY <1>3, <2>2 DEF Side
<1> QED
  BY <1>2, <1>3 DEF Directions

\* The places of a segment.
LEMMA SegmentIs ==
  ASSUME NEW g, NEW dir \in Directions, NEW x, NEW n, NEW d, GeometryOK(g),
         Segment(g, dir, x, n), d \in 0..(n - 1)
  PROVE  /\ x + d \in Places(g, dir)
         /\ (x + d) \div Side(g, dir) = x \div Side(g, dir)
         /\ (x + d) % Side(g, dir) = (x % Side(g, dir)) + d
<1> DEFINE side == Side(g, dir)
           a == x \div side
           b == x % side
<1>1. side \in Nat \ {0} /\ Procs(g, dir) \in Nat \ {0}
  BY SizesOf
<1>2. x \in Nat /\ a \in 0..(Procs(g, dir) - 1) /\ b \in 0..(side - 1) /\ x = a * side + b
  BY PlaceIs DEF Segment
<1>3. b + n <= side /\ n \in Nat /\ d \in Nat
  BY DEF Segment
<1>4. b + d \in 0..(side - 1)
  <2> HIDE DEF side, b
  <2> QED
    BY <1>1, <1>2, <1>3
<1>5. x + d = a * side + (b + d)
  <2>1. a * side \in Nat
    <3> HIDE DEF a, side
    <3> QED
      BY <1>1, <1>2
  <2> HIDE DEF side, a, b
  <2> QED
    BY <1>1, <1>2, <1>3, <2>1
<1> HIDE DEF side, a, b
<1>6. a * side + (b + d) \in 0..(Procs(g, dir) * side - 1)
  BY <1>1, <1>2, <1>4, PlaceInRow
<1>7. /\ (a * side + (b + d)) \div side = a
      /\ (a * side + (b + d)) % side = b + d
  <2>1. a \in Nat
    BY <1>2
  <2> QED
    BY <1>1, <1>4, <2>1, Parts
<1> QED
  BY <1>5, <1>6, <1>7 DEF Places, side, a, b

\* Two places of one rank that are both in a segment's reach.
LEMMA SegmentHas ==
  ASSUME NEW g, NEW dir \in Directions, NEW x, NEW n, NEW z, GeometryOK(g),
         Segment(g, dir, x, n), z \in Places(g, dir),
         z \div Side(g, dir) = x \div Side(g, dir),
         (z % Side(g, dir)) - (x % Side(g, dir)) \in 0..(n - 1)
  PROVE  z \in x..(x + n - 1)
<1> DEFINE side == Side(g, dir)
           a == x \div side
           b == x % side
           c == z % side
           y == a * side
<1>1. side \in Nat \ {0}
  BY SizesOf
<1>2. /\ x \in Nat /\ a \in Nat /\ b \in 0..(side - 1) /\ x = y + b
      /\ z \in Nat /\ c \in 0..(side - 1) /\ z = y + c
  BY PlaceIs DEF Segment
<1>3. n \in Nat /\ c - b \in 0..(n - 1)
  BY DEF Segment
<1>4. y \in Nat
  <2> HIDE DEF a, side
  <2> QED
    BY <1>1, <1>2
<1> HIDE DEF side, b, c, y
<1> QED
  BY <1>2, <1>3, <1>4

(***************************************************************************)
(* Where data is: a cell of a rank's local matrix, or one of the saved     *)
(* slab in its scratch.                                                    *)
(***************************************************************************)
InMatrix(r, i, j) == <<"matrix", r, i, j>>
InSlot(r, k)      == <<"saved", r, k>>

\* What is there.
Read(g, w, loc) ==
  IF loc[1] = "matrix" THEN w.mem[loc[2]][Offset(g, loc[3], loc[4])]
  ELSE w.scratch[loc[2]][loc[3]]

\* The locations data has between the batches of an executor: that of the edge
\* padding leaves nothing in scratch.
MatrixPlace(g, loc) ==
  \E r \in RanksOf(g), i \in 0..(g.rows - 1), j \in 0..(g.cols - 1) : loc = InMatrix(r, i, j)
SavedPlace(g, loc) ==
  \E r \in RanksOf(g), k \in 0..(RequiredCyclicSlotElements(g) - 1) : loc = InSlot(r, k)
LocationOK(g, exec, loc) == MatrixPlace(g, loc) \/ (exec = "slab" /\ SavedPlace(g, loc))

\* A rectangle has this cell.
Covers(rect, i, j) ==
  /\ i - rect.row \in 0..(rect.height - 1)
  /\ j - rect.col \in 0..(rect.width - 1)

\* Step s takes data from one location to another.
MoveCarries(s, loc, new) ==
  /\ s.kind = Move
  /\ \E i \in 0..(s.target.height - 1), j \in 0..(s.target.width - 1) :
       /\ loc = InMatrix(s.from, s.source.row + i, s.source.col + j)
       /\ new = InMatrix(s.to, s.target.row + i, s.target.col + j)
SaveCarries(s, loc, new) ==
  /\ s.kind = Save
  /\ \E i \in 0..(s.source.height - 1), j \in 0..(s.source.width - 1) :
       /\ loc = InMatrix(s.from, s.source.row + i, s.source.col + j)
       /\ new = InSlot(s.from, j * s.source.height + i)
RestoreCarries(s, loc, new) ==
  /\ s.kind = Restore
  /\ \E i \in 0..(s.target.height - 1), j \in 0..(s.target.width - 1) :
       /\ loc = InSlot(s.from, j * s.target.height + i)
       /\ new = InMatrix(s.to, s.target.row + i, s.target.col + j)
Carried(s, loc, new) ==
  MoveCarries(s, loc, new) \/ SaveCarries(s, loc, new) \/ RestoreCarries(s, loc, new)

\* Step s leaves a location alone.
Spared(s, loc) ==
  /\ loc[1] = "matrix" => ~(s.to = loc[2] /\ Covers(s.target, loc[3], loc[4]))
  /\ loc[1] = "saved" => ~(s.kind = Save /\ s.from = loc[2])

\* After a batch, data a step takes is where the step takes it,
LEMMA BatchCarries ==
  ASSUME NEW g, NEW b, NEW w \in Memories(g), NEW n \in DOMAIN b.steps, NEW loc, NEW new,
         GeometryOK(g), BatchOK(g, b), b.steps[n].kind = b.kind, Carried(b.steps[n], loc, new)
  PROVE  Read(g, Passed(g, w, b), new) = Read(g, w, loc)
<1> DEFINE s == b.steps[n]
           after == Passed(g, w, b)
<1>1. CASE MoveCarries(s, loc, new)
  <2>1. PICK i \in 0..(s.target.height - 1), j \in 0..(s.target.width - 1) :
          /\ loc = InMatrix(s.from, s.source.row + i, s.source.col + j)
          /\ new = InMatrix(s.to, s.target.row + i, s.target.col + j)
    BY <1>1 DEF MoveCarries
  <2>2. b.kind = Move
    BY <1>1, SMTT(60) DEF MoveCarries
  <2>3. \A x \in 0..(s.target.height - 1), y \in 0..(s.target.width - 1) :
          after.mem[s.to][Offset(g, s.target.row + x, s.target.col + y)]
            = w.mem[s.from][Offset(g, s.source.row + x, s.source.col + y)]
    BY <2>2, MoveLands
  <2>4. after.mem[s.to][Offset(g, s.target.row + i, s.target.col + j)]
          = w.mem[s.from][Offset(g, s.source.row + i, s.source.col + j)]
    <3> HIDE DEF after, s
    <3> QED
      BY <2>3, SMTT(60)
  <2> QED
    BY <2>1, <2>4 DEF Read, InMatrix, InSlot
<1>2. CASE SaveCarries(s, loc, new)
  <2>1. PICK i \in 0..(s.source.height - 1), j \in 0..(s.source.width - 1) :
          /\ loc = InMatrix(s.from, s.source.row + i, s.source.col + j)
          /\ new = InSlot(s.from, j * s.source.height + i)
    BY <1>2 DEF SaveCarries
  <2>2. b.kind = Save
    BY <1>2, SMTT(60) DEF SaveCarries
  <2>3. after.scratch[b.steps[n].from][j * b.steps[n].source.height + i]
           = w.mem[b.steps[n].from]
               [Offset(g, b.steps[n].source.row + i, b.steps[n].source.col + j)]
    BY <2>2, SaveLands, SMTT(60)
  <2> QED
    BY <2>1, <2>3 DEF Read, InMatrix, InSlot
<1>3. CASE RestoreCarries(s, loc, new)
  <2>1. PICK i \in 0..(s.target.height - 1), j \in 0..(s.target.width - 1) :
          /\ loc = InSlot(s.from, j * s.target.height + i)
          /\ new = InMatrix(s.to, s.target.row + i, s.target.col + j)
    BY <1>3 DEF RestoreCarries
  <2>2. b.kind = Restore
    BY <1>3, SMTT(60) DEF RestoreCarries
  <2>3. after.mem[b.steps[n].to]
           [Offset(g, b.steps[n].target.row + i, b.steps[n].target.col + j)]
           = w.scratch[b.steps[n].from][j * b.steps[n].target.height + i]
    BY <2>2, RestoreLands
  <2> QED
    BY <2>1, <2>3 DEF Read, InMatrix, InSlot
<1> QED
  BY <1>1, <1>2, <1>3, SMTT(60) DEF Carried

\* and data every step leaves alone is where it was.
LEMMA BatchSpares ==
  ASSUME NEW g, NEW b, NEW w \in Memories(g), NEW loc,
         GeometryOK(g), BatchOK(g, b), LocationOK(g, b.exec, loc),
         \A n \in DOMAIN b.steps : b.steps[n].kind = b.kind /\ Spared(b.steps[n], loc)
  PROVE  Read(g, Passed(g, w, b), loc) = Read(g, w, loc)
<1> DEFINE after == Passed(g, w, b)
<1>1. CASE MatrixPlace(g, loc)
  <2>1. PICK r \in RanksOf(g), i \in 0..(g.rows - 1), j \in 0..(g.cols - 1) :
          loc = InMatrix(r, i, j)
    BY <1>1 DEF MatrixPlace
  <2>2. loc[1] = "matrix" /\ loc[2] = r /\ loc[3] = i /\ loc[4] = j
    BY <2>1 DEF InMatrix
  <2>3. \A n \in DOMAIN b.steps :
           b.steps[n].to = r =>
             ~(/\ i - b.steps[n].target.row \in 0..(b.steps[n].target.height - 1)
               /\ j - b.steps[n].target.col \in 0..(b.steps[n].target.width - 1))
    BY <2>2 DEF Spared, Covers
  <2>4. after.mem[r][Offset(g, i, j)] = w.mem[r][Offset(g, i, j)]
    BY <2>3, CellsKept
  <2> QED
    BY <2>1, <2>4 DEF Read, InMatrix, InSlot
<1>2. CASE b.exec = "slab" /\ SavedPlace(g, loc)
  <2>1. PICK r \in RanksOf(g), k \in 0..(RequiredCyclicSlotElements(g) - 1) : loc = InSlot(r, k)
    BY <1>2 DEF SavedPlace
  <2>2. loc[1] = "saved" /\ loc[2] = r
    BY <2>1 DEF InSlot
  <2>3. b.kind = Save => \A n \in DOMAIN b.steps : b.steps[n].from # r
    BY <2>2 DEF Spared
  <2>4. b.exec # "edge"
    BY <1>2
  <2>5. after.scratch[r][k] = w.scratch[r][k]
    BY <2>3, <2>4, SavedKept
  <2> QED
    BY <2>1, <2>5 DEF Read, InMatrix, InSlot
<1> QED
  BY <1>1, <1>2 DEF LocationOK

(***************************************************************************)
(* The course of one piece of data through a list of batches.              *)
(***************************************************************************)
Rounds == Int \X Int \X Int

\* The batches B[1..n] have the steps S, those of round rd[k] in batch k.
InRounds(S, B, n, rd) ==
  /\ n \in Nat /\ rd \in [1..n -> Rounds]
  /\ \A k, l \in 1..n : k < l => RoundBefore(rd[k], rd[l])
  /\ \A k \in 1..n : \A i \in DOMAIN B[k].steps :
       /\ B[k].steps[i] \in S
       /\ RoundOf(B[k].steps[i]) = rd[k]
       /\ B[k].steps[i].kind = B[k].kind
  /\ \A s \in S : \E k \in 1..n : \E i \in DOMAIN B[k].steps : B[k].steps[i] = s

\* P are the steps of S that may take a piece of data along, M of them, in the
\* order of their rounds; trace[c] is where it is after c of them.  The other
\* steps leave it alone where it is at their time.
Course(g, exec, S, M, P, trace) ==
  /\ M \in Nat /\ P \in [1..M -> S]
  /\ \A c, d \in 1..M : c < d => RoundBefore(RoundOf(P[c]), RoundOf(P[d]))
  /\ \A c \in 0..M : LocationOK(g, exec, trace[c])
  /\ \A c \in 1..M : \/ Carried(P[c], trace[c - 1], trace[c])
                     \/ trace[c] = trace[c - 1] /\ Spared(P[c], trace[c - 1])
  /\ \A s \in S, c \in 0..M :
       /\ \A d \in 1..M : s # P[d]
       /\ c > 0 => ~RoundBefore(RoundOf(s), RoundOf(P[c]))
       /\ c < M => ~RoundBefore(RoundOf(P[c + 1]), RoundOf(s))
       => Spared(s, trace[c])

\* The first c of the steps P are those of the first k batches.
InStep(M, P, n, rd, k, c) ==
  \A d \in 1..M, l \in 1..n : rd[l] = RoundOf(P[d]) => (l <= k <=> d <= c)

\* Rounds are in a strict order.
LEMMA RoundsOrdered ==
  /\ \A x \in Rounds : ~RoundBefore(x, x)
  /\ \A x, y \in Rounds : RoundBefore(x, y) => ~RoundBefore(y, x)
  /\ \A x, y, z \in Rounds : RoundBefore(x, y) /\ RoundBefore(y, z) => RoundBefore(x, z)
  /\ \A x, y \in Rounds : x # y => RoundBefore(x, y) \/ RoundBefore(y, x)
<1>1. \A x \in Rounds : x = <<x[1], x[2], x[3]>> /\ x[1] \in Int /\ x[2] \in Int /\ x[3] \in Int
  BY DEF Rounds
<1>2. \A x, y \in Rounds : x # y => x[1] # y[1] \/ x[2] # y[2] \/ x[3] # y[3]
  BY <1>1
<1>3. \A x \in Rounds : ~RoundBefore(x, x)
  BY <1>1 DEF RoundBefore
<1>4. \A x, y \in Rounds : RoundBefore(x, y) => ~RoundBefore(y, x)
  BY <1>1 DEF RoundBefore
<1>5. \A x, y, z \in Rounds : RoundBefore(x, y) /\ RoundBefore(y, z) => RoundBefore(x, z)
  BY <1>1 DEF RoundBefore
<1>6. \A x, y \in Rounds : x # y => RoundBefore(x, y) \/ RoundBefore(y, x)
  BY <1>1, <1>2 DEF RoundBefore
<1> QED
  BY <1>3, <1>4, <1>5, <1>6

\* Batches by their rounds.
LEMMA RoundPlaces ==
  ASSUME NEW S, NEW B, NEW n, NEW rd, InRounds(S, B, n, rd)
  PROVE  /\ \A k \in 1..n : rd[k] \in Rounds
         /\ \A k, l \in 1..n : rd[k] = rd[l] => k = l
         /\ \A k, l \in 1..n : RoundBefore(rd[k], rd[l]) <=> k < l
         /\ \A s \in S : \E k \in 1..n : /\ rd[k] = RoundOf(s)
                                         /\ \E i \in DOMAIN B[k].steps : B[k].steps[i] = s
<1>1. n \in Nat /\ \A k \in 1..n : rd[k] \in Rounds
  BY DEF InRounds
<1>2. \A k, l \in 1..n : k < l => RoundBefore(rd[k], rd[l])
  BY DEF InRounds
<1>3. \A k, l \in 1..n : rd[k] = rd[l] => k = l
  <2> TAKE k, l \in 1..n
  <2>1. k < l \/ l < k \/ k = l
    BY <1>1
  <2> QED
    BY <1>1, <1>2, <2>1, RoundsOrdered
<1>4. \A k, l \in 1..n : RoundBefore(rd[k], rd[l]) => k < l
  <2> TAKE k, l \in 1..n
  <2>1. k < l \/ l < k \/ k = l
    BY <1>1
  <2> QED
    BY <1>1, <1>2, <2>1, RoundsOrdered
<1>5. \A s \in S : \E k \in 1..n : /\ rd[k] = RoundOf(s)
                                   /\ \E i \in DOMAIN B[k].steps : B[k].steps[i] = s
  BY DEF InRounds
<1> QED
  BY <1>1, <1>2, <1>3, <1>4, <1>5

\* The next batch, if it has none of the steps P, leaves the data alone.
LEMMA PassedBy ==
  ASSUME NEW g, NEW exec, NEW S, NEW B, NEW n, NEW rd, NEW M, NEW P, NEW trace,
         InRounds(S, B, n, rd), Course(g, exec, S, M, P, trace),
         NEW k \in 1..n, NEW c \in 0..M, InStep(M, P, n, rd, k - 1, c),
         \A i \in DOMAIN B[k].steps, d \in 1..M : B[k].steps[i] # P[d]
  PROVE  /\ \A i \in DOMAIN B[k].steps : Spared(B[k].steps[i], trace[c])
         /\ InStep(M, P, n, rd, k, c)
<1>1. M \in Nat /\ \A d \in 1..M : P[d] \in S
  BY DEF Course
<1>2. n \in Nat
  BY DEF InRounds
<1>3. \A l \in 1..n : rd[l] \in Rounds
  BY RoundPlaces
<1>4. \A d \in 1..M : \E l \in 1..n : /\ rd[l] = RoundOf(P[d])
                                      /\ \E i \in DOMAIN B[l].steps : B[l].steps[i] = P[d]
  BY <1>1, RoundPlaces
<1>5. ASSUME NEW i \in DOMAIN B[k].steps PROVE Spared(B[k].steps[i], trace[c])
  <2>1. B[k].steps[i] \in S /\ RoundOf(B[k].steps[i]) = rd[k]
    BY DEF InRounds
  <2>2. c > 0 => ~RoundBefore(rd[k], RoundOf(P[c]))
    <3> SUFFICES ASSUME c > 0 PROVE ~RoundBefore(rd[k], RoundOf(P[c]))
      OBVIOUS
    <3>1. c \in 1..M /\ c <= c
      BY <1>1
    <3>2. PICK l \in 1..n : rd[l] = RoundOf(P[c])
      BY <1>4, <3>1
    <3>3. l <= k - 1
      BY <3>1, <3>2 DEF InStep
    <3>4. ~(k < l)
      BY <1>2, <3>3
    <3> QED
      BY <3>2, <3>4, RoundPlaces
  <2>3. c < M => ~RoundBefore(RoundOf(P[c + 1]), rd[k])
    <3> SUFFICES ASSUME c < M PROVE ~RoundBefore(RoundOf(P[c + 1]), rd[k])
      OBVIOUS
    <3>1. c + 1 \in 1..M /\ ~(c + 1 <= c)
      BY <1>1
    <3>2. PICK l \in 1..n : rd[l] = RoundOf(P[c + 1])
      BY <1>4, <3>1
    <3>3. ~(l <= k - 1)
      BY <3>1, <3>2 DEF InStep
    <3>4. ~(l < k)
      BY <1>2, <3>3
    <3> QED
      BY <3>2, <3>4, RoundPlaces
  <2>4. \A d \in 1..M : B[k].steps[i] # P[d]
    OBVIOUS
  <2> QED
    BY <2>1, <2>2, <2>3, <2>4 DEF Course
<1>6. InStep(M, P, n, rd, k, c)
  <2> SUFFICES ASSUME NEW d \in 1..M, NEW l \in 1..n, rd[l] = RoundOf(P[d])
               PROVE  l <= k <=> d <= c
    BY DEF InStep
  <2>1. l <= k - 1 <=> d <= c
    BY DEF InStep
  <2>2. l # k
    <3>1. PICK u \in 1..n : /\ rd[u] = RoundOf(P[d])
                            /\ \E i \in DOMAIN B[u].steps : B[u].steps[i] = P[d]
      BY <1>4
    <3>2. u = l
      BY <3>1, RoundPlaces
    <3> QED
      BY <3>1, <3>2
  <2> QED
    BY <1>2, <2>1, <2>2
<1> QED
  BY <1>5, <1>6

\* If it has one, that is the next of them, and its other steps leave the data
\* alone.
LEMMA TakenAlong ==
  ASSUME NEW g, NEW exec, NEW S, NEW B, NEW n, NEW rd, NEW M, NEW P, NEW trace,
         InRounds(S, B, n, rd), Course(g, exec, S, M, P, trace),
         NEW k \in 1..n, NEW c \in 0..M, InStep(M, P, n, rd, k - 1, c),
         \A i, j \in DOMAIN B[k].steps : i # j => B[k].steps[i] # B[k].steps[j],
         NEW i \in DOMAIN B[k].steps, NEW d \in 1..M, B[k].steps[i] = P[d]
  PROVE  /\ d = c + 1
         /\ \A j \in DOMAIN B[k].steps : j # i => Spared(B[k].steps[j], trace[c])
         /\ InStep(M, P, n, rd, k, c + 1)
<1>1. M \in Nat /\ \A e \in 1..M : P[e] \in S
  BY DEF Course
<1>2. n \in Nat /\ \A l \in 1..n : rd[l] \in Rounds
  BY RoundPlaces DEF InRounds
<1>3. \A e \in 1..M : \E l \in 1..n : rd[l] = RoundOf(P[e])
  BY <1>1, RoundPlaces
<1>4. \A e, f \in 1..M : e < f => RoundBefore(RoundOf(P[e]), RoundOf(P[f]))
  BY DEF Course
<1>5. ASSUME NEW e \in 1..M, RoundOf(P[e]) = rd[k] PROVE e = c + 1
  <2>1. ~(e <= c)
    <3>1. ~(k <= k - 1)
      BY <1>2
    <3> QED
      BY <1>5, <3>1 DEF InStep
  <2>2. c + 1 \in 1..M
    BY <1>1, <2>1
  <2>3. ~(c + 1 < e)
    <3> SUFFICES ASSUME c + 1 < e PROVE FALSE
      OBVIOUS
    <3>1. RoundBefore(RoundOf(P[c + 1]), rd[k])
      BY <1>4, <1>5, <2>2
    <3>2. PICK l \in 1..n : rd[l] = RoundOf(P[c + 1])
      BY <1>3, <2>2
    <3>3. l < k
      BY <3>1, <3>2, RoundPlaces
    <3>4. l <= k - 1
      BY <1>2, <3>3
    <3>5. c + 1 <= c
      BY <2>2, <3>2, <3>4 DEF InStep
    <3> QED
      BY <3>5
  <2> QED
    BY <1>1, <2>1, <2>3
<1>6. RoundOf(P[d]) = rd[k]
  BY DEF InRounds
<1>7. d = c + 1
  BY <1>5, <1>6
<1>8. ASSUME NEW j \in DOMAIN B[k].steps, j # i PROVE Spared(B[k].steps[j], trace[c])
  <2>1. B[k].steps[j] \in S /\ RoundOf(B[k].steps[j]) = rd[k]
    BY DEF InRounds
  <2>2. \A e \in 1..M : B[k].steps[j] # P[e]
    BY <1>5, <1>7, <1>8, <2>1
  <2>3. c > 0 => ~RoundBefore(rd[k], RoundOf(P[c]))
    <3> SUFFICES ASSUME c > 0 PROVE ~RoundBefore(rd[k], RoundOf(P[c]))
      OBVIOUS
    <3>1. c \in 1..M /\ c < d
      BY <1>1, <1>7
    <3>2. RoundBefore(RoundOf(P[c]), rd[k])
      BY <1>4, <1>6, <3>1
    <3>3. RoundOf(P[c]) \in Rounds
      BY <1>2, <1>3, <3>1
    <3> QED
      BY <1>2, <3>2, <3>3, RoundsOrdered
  <2>4. c < M => ~RoundBefore(RoundOf(P[c + 1]), rd[k])
    BY <1>2, <1>6, <1>7, RoundsOrdered
  <2> QED
    BY <2>1, <2>2, <2>3, <2>4 DEF Course
<1>9. InStep(M, P, n, rd, k, c + 1)
  <2> SUFFICES ASSUME NEW e \in 1..M, NEW l \in 1..n, rd[l] = RoundOf(P[e])
               PROVE  l <= k <=> e <= c + 1
    BY DEF InStep
  <2>1. l <= k - 1 <=> e <= c
    BY DEF InStep
  <2>2. l = k => e = c + 1
    BY <1>5
  <2>3. e = c + 1 => l = k
    BY <1>6, <1>7, RoundPlaces
  <2> QED
    BY <1>1, <1>2, <2>1, <2>2, <2>3
<1> QED
  BY <1>7, <1>8, <1>9

\* w are the memories before and after each of the batches B[1..n].
Batched(g, exec, B, n, w) ==
  /\ GeometryOK(g) /\ n \in Nat
  /\ \A k \in 0..n : w[k] \in Memories(g)
  /\ \A k \in 1..n : /\ BatchOK(g, B[k]) /\ B[k].exec = exec
                     /\ w[k] = Passed(g, w[k - 1], B[k])

\* The data is where its trace is after as many of the steps P as are done.
OnCourse(g, w, M, P, n, rd, trace, k) ==
  \E c \in 0..M : /\ InStep(M, P, n, rd, k, c)
                  /\ Read(g, w[k], trace[c]) = Read(g, w[0], trace[0])

\* A batch keeps it there.
LEMMA StaysOnCourse ==
  ASSUME NEW g, NEW exec, NEW S, NEW B, NEW n, NEW rd, NEW M, NEW P, NEW trace, NEW w,
         InRounds(S, B, n, rd), Course(g, exec, S, M, P, trace), Batched(g, exec, B, n, w),
         NEW k \in 1..n, OnCourse(g, w, M, P, n, rd, trace, k - 1)
  PROVE  OnCourse(g, w, M, P, n, rd, trace, k)
<1> DEFINE b == B[k]
           v == Read(g, w[0], trace[0])
<1>1. PICK c \in 0..M : /\ InStep(M, P, n, rd, k - 1, c)
                        /\ Read(g, w[k - 1], trace[c]) = v
  BY DEF OnCourse
<1>2. /\ GeometryOK(g) /\ BatchOK(g, b) /\ b.exec = exec /\ w[k] = Passed(g, w[k - 1], b)
  BY DEF Batched
<1>3. w[k - 1] \in Memories(g)
  <2>1. k - 1 \in 0..n
    BY DEF Batched
  <2> QED
    BY <2>1 DEF Batched
<1>4. \A i \in DOMAIN b.steps : b.steps[i].kind = b.kind
  BY DEF InRounds
<1>5. M \in Nat /\ LocationOK(g, b.exec, trace[c])
  BY <1>2 DEF Course
<1>6. ASSUME \A i \in DOMAIN b.steps : Spared(b.steps[i], trace[c])
      PROVE  Read(g, w[k], trace[c]) = v
  <2> HIDE DEF b, v
  <2> QED
    BY <1>1, <1>2, <1>3, <1>4, <1>5, <1>6, BatchSpares
<1>7. CASE \A i \in DOMAIN b.steps, d \in 1..M : b.steps[i] # P[d]
  <2>1. /\ \A i \in DOMAIN B[k].steps : Spared(B[k].steps[i], trace[c])
        /\ InStep(M, P, n, rd, k, c)
    BY <1>1, <1>7, PassedBy
  <2> QED
    BY <1>6, <2>1 DEF OnCourse
<1>8. CASE \E i \in DOMAIN b.steps, d \in 1..M : b.steps[i] = P[d]
  <2>1. PICK i \in DOMAIN b.steps, d \in 1..M : b.steps[i] = P[d]
    BY <1>8
  <2>2. \A j, l \in DOMAIN B[k].steps : j # l => B[k].steps[j] # B[k].steps[l]
    BY <1>2 DEF BatchOK, NoneShared
  <2>3. /\ d = c + 1
        /\ \A j \in DOMAIN B[k].steps : j # i => Spared(B[k].steps[j], trace[c])
        /\ InStep(M, P, n, rd, k, c + 1)
    BY <1>1, <2>1, <2>2, TakenAlong
  <2>4. d - 1 = c /\ c + 1 \in 0..M
    BY <1>5, <2>3
  <2>5. \/ Carried(P[d], trace[c], trace[c + 1])
        \/ trace[c + 1] = trace[c] /\ Spared(P[d], trace[c])
    BY <2>3, <2>4 DEF Course
  <2>6. Read(g, w[k], trace[c + 1]) = v
    <3>1. CASE Carried(P[d], trace[c], trace[c + 1])
      <4>1. Carried(b.steps[i], trace[c], trace[c + 1]) /\ b.steps[i].kind = b.kind
        BY <1>4, <2>1, <3>1
      <4> HIDE DEF b, v
      <4>2. Read(g, Passed(g, w[k - 1], b), trace[c + 1]) = Read(g, w[k - 1], trace[c])
        BY <1>2, <1>3, <4>1, BatchCarries
      <4> QED
        BY <1>1, <1>2, <4>2
    <3>2. CASE trace[c + 1] = trace[c] /\ Spared(P[d], trace[c])
      <4>1. \A j \in DOMAIN b.steps : Spared(b.steps[j], trace[c])
        BY <2>1, <2>3, <3>2
      <4> QED
        BY <1>6, <3>2, <4>1
    <3> QED
      BY <2>5, <3>1, <3>2
  <2> QED
    BY <2>3, <2>4, <2>6 DEF OnCourse
<1> QED
  BY <1>7, <1>8

\* So it is there after any number of batches, and at its end after all.
LEMMA CourseRuns ==
  ASSUME NEW g, NEW exec, NEW S, NEW B, NEW n, NEW rd, NEW M, NEW P, NEW trace, NEW w,
         InRounds(S, B, n, rd), Course(g, exec, S, M, P, trace), Batched(g, exec, B, n, w)
  PROVE  /\ \A k \in 0..n : \E c \in 0..M : Read(g, w[k], trace[c]) = Read(g, w[0], trace[0])
         /\ Read(g, w[n], trace[M]) = Read(g, w[0], trace[0])
<1> DEFINE T == {k \in Nat : k <= n => OnCourse(g, w, M, P, n, rd, trace, k)}
<1>1. n \in Nat /\ M \in Nat
  BY DEF Batched, Course
<1>2. \A d \in 1..M : \E l \in 1..n : rd[l] = RoundOf(P[d])
  <2>1. \A d \in 1..M : P[d] \in S
    BY DEF Course
  <2> QED
    BY <2>1, RoundPlaces
<1>3. 0 \in T
  <2>1. InStep(M, P, n, rd, 0, 0)
    BY <1>1 DEF InStep
  <2>2. 0 \in 0..M
    BY <1>1
  <2> QED
    BY <2>1, <2>2 DEF OnCourse
<1>4. ASSUME NEW k \in Nat, k \in T PROVE k + 1 \in T
  <2> SUFFICES ASSUME k + 1 <= n PROVE OnCourse(g, w, M, P, n, rd, trace, k + 1)
    OBVIOUS
  <2> DEFINE l == k + 1
  <2>1. l \in 1..n /\ l - 1 = k /\ k <= n
    BY <1>1
  <2>2. OnCourse(g, w, M, P, n, rd, trace, l - 1)
    BY <1>4, <2>1
  <2> HIDE DEF l
  <2>3. OnCourse(g, w, M, P, n, rd, trace, l)
    BY <2>1, <2>2, StaysOnCourse
  <2> QED
    BY <2>3 DEF l
<1>5. Nat \subseteq T
  <2> HIDE DEF T
  <2> QED
    BY <1>3, <1>4, SetInduction
<1>6. \A k \in 0..n : OnCourse(g, w, M, P, n, rd, trace, k)
  BY <1>1, <1>5
<1>7. Read(g, w[n], trace[M]) = Read(g, w[0], trace[0])
  <2>1. PICK c \in 0..M : /\ InStep(M, P, n, rd, n, c)
                          /\ Read(g, w[n], trace[c]) = Read(g, w[0], trace[0])
    BY <1>1, <1>6 DEF OnCourse
  <2>2. ~(c < M)
    <3> SUFFICES ASSUME c < M PROVE FALSE
      OBVIOUS
    <3>1. c + 1 \in 1..M /\ ~(c + 1 <= c)
      BY <1>1
    <3>2. PICK l \in 1..n : rd[l] = RoundOf(P[c + 1])
      BY <1>2, <3>1
    <3> QED
      BY <1>1, <2>1, <3>1, <3>2 DEF InStep
  <2>3. c = M
    BY <1>1, <2>2
  <2> QED
    BY <2>1, <2>3
<1> QED
  BY <1>6, <1>7 DEF OnCourse

(***************************************************************************)
(* Sets in order, completely: every element, each before the later ones.   *)
(***************************************************************************)
\* The elements of S before x.
Preceding(S, R, x) == {y \in S : <<y, x>> \in R}

\* How many come before one element tells it from the others.
LEMMA PrecedingCount ==
  ASSUME NEW S, NEW R, IsFiniteSet(S), StrictOrder(S, R)
  PROVE  /\ \A x \in S : Cardinality(Preceding(S, R, x)) \in 0..(Cardinality(S) - 1)
         /\ \A x, y \in S : <<x, y>> \in R
              => Cardinality(Preceding(S, R, x)) < Cardinality(Preceding(S, R, y))
         /\ \A x, y \in S : Cardinality(Preceding(S, R, x)) = Cardinality(Preceding(S, R, y))
              => x = y
<1> DEFINE n == Cardinality(S)
           B(x) == Preceding(S, R, x)
<1>1. n \in Nat
  BY FS_CardinalityType
<1>2. \A x \in S : IsFiniteSet(B(x)) /\ Cardinality(B(x)) \in 0..(n - 1)
  <2> TAKE x \in S
  <2>1. B(x) \in SUBSET (S \ {x})
    BY DEF StrictOrder, Preceding
  <2>2. IsFiniteSet(S \ {x}) /\ Cardinality(S \ {x}) = n - 1
    BY OneLess
  <2> HIDE DEF B
  <2>3. IsFiniteSet(B(x)) /\ Cardinality(B(x)) <= n - 1
    BY <2>1, <2>2, FS_Subset
  <2>4. Cardinality(B(x)) \in Nat
    BY <2>3, FS_CardinalityType
  <2> QED
    BY <1>1, <2>3, <2>4
<1>3. ASSUME NEW x \in S, NEW y \in S, <<x, y>> \in R
      PROVE  Cardinality(B(x)) < Cardinality(B(y))
  <2>1. B(x) \in SUBSET B(y) /\ x \in B(y) /\ x \notin B(x)
    BY <1>3 DEF StrictOrder, Preceding
  <2>2. /\ IsFiniteSet(B(y)) /\ Cardinality(B(x)) \in 0..(n - 1) /\ Cardinality(B(y)) \in 0..(n - 1)
    BY <1>2
  <2> HIDE DEF B
  <2>3. /\ Cardinality(B(x)) <= Cardinality(B(y))
        /\ (Cardinality(B(y)) = Cardinality(B(x)) => B(y) = B(x))
    BY <2>1, <2>2, FS_Subset
  <2> QED
    BY <1>1, <2>1, <2>2, <2>3
<1>4. \A x, y \in S : <<x, y>> \in R => Cardinality(B(x)) < Cardinality(B(y))
  BY <1>3
<1>5. ASSUME NEW x \in S, NEW y \in S, Cardinality(B(x)) = Cardinality(B(y)), x # y
      PROVE  FALSE
  <2>1. <<x, y>> \in R \/ <<y, x>> \in R
    BY <1>5 DEF StrictOrder
  <2>2. Cardinality(B(x)) < Cardinality(B(y)) \/ Cardinality(B(y)) < Cardinality(B(x))
    <3> HIDE DEF B
    <3> QED
      BY <1>4, <2>1
  <2>3. Cardinality(B(x)) \in 0..(n - 1) /\ Cardinality(B(y)) \in 0..(n - 1)
    BY <1>2
  <2> HIDE DEF B
  <2> QED
    BY <1>1, <1>5, <2>2, <2>3
<1> QED
  BY <1>2, <1>4, <1>5

\* S is put in the order R by O.
InOrder(S, R, O) ==
  /\ O \in [1..Cardinality(S) -> S] /\ Cardinality(S) \in Nat
  /\ \A i, j \in 1..Cardinality(S) : i < j => <<O[i], O[j]>> \in R
  /\ \A x \in S : \E i \in 1..Cardinality(S) : O[i] = x

\* The element with i - 1 before it, for every i, is.
LEMMA OrderIs ==
  ASSUME NEW S, NEW R, IsFiniteSet(S), StrictOrder(S, R), NEW O,
         O = [i \in 1..Cardinality(S) |->
                CHOOSE x \in S : Cardinality(Preceding(S, R, x)) = i - 1]
  PROVE  InOrder(S, R, O)
<1> DEFINE n == Cardinality(S)
           C(x) == Cardinality(Preceding(S, R, x))
<1>1. n \in Nat
  BY FS_CardinalityType
<1>2. /\ \A x \in S : C(x) \in 0..(n - 1)
      /\ \A x, y \in S : <<x, y>> \in R => C(x) < C(y)
      /\ \A x, y \in S : C(x) = C(y) => x = y
  BY PrecedingCount
<1>3. \A i \in 1..n : \E x \in S : C(x) = i - 1
  BY PlacesTaken DEF Placed, Preceding
<1> HIDE DEF C
<1>4. \A i \in 1..n : O[i] = CHOOSE x \in S : C(x) = i - 1
  BY DEF C
<1>5. \A i \in 1..n : O[i] \in S /\ C(O[i]) = i - 1
  BY <1>3, <1>4
<1>6. O \in [1..n -> S]
  BY <1>5
<1> HIDE DEF n
<1>7. ASSUME NEW i \in 1..n, NEW j \in 1..n, i < j PROVE <<O[i], O[j]>> \in R
  <2>1. O[i] \in S /\ O[j] \in S /\ C(O[i]) = i - 1 /\ C(O[j]) = j - 1
    BY <1>5
  <2>2. C(O[i]) < C(O[j]) /\ ~(C(O[j]) < C(O[i])) /\ C(O[i]) # C(O[j])
    BY <1>1, <1>7, <2>1
  <2>3. O[i] # O[j]
    BY <2>2
  <2>4. <<O[i], O[j]>> \in R \/ <<O[j], O[i]>> \in R
    BY <2>1, <2>3 DEF StrictOrder
  <2> QED
    BY <1>2, <2>1, <2>2, <2>4
<1>8. ASSUME NEW x \in S PROVE \E i \in 1..n : O[i] = x
  <2>1. C(x) \in 0..(n - 1)
    BY <1>2
  <2>2. C(x) + 1 \in 1..n /\ (C(x) + 1) - 1 = C(x)
    BY <1>1, <2>1
  <2>3. O[C(x) + 1] \in S /\ C(O[C(x) + 1]) = C(x)
    BY <1>5, <2>2
  <2> QED
    BY <1>2, <2>2, <2>3
<1> QED
  BY <1>1, <1>6, <1>7, <1>8 DEF InOrder, n

\* The pairs of S that < and RoundBefore put in order.
LessIn(S)   == {z \in S \X S : z[1] < z[2]}
BeforeIn(S) == {z \in S \X S : RoundBefore(z[1], z[2])}

\* Numbers,
LEMMA NumbersOrdered ==
  ASSUME NEW S \in SUBSET Int, IsFiniteSet(S)
  PROVE  InOrder(S, LessIn(S), Ordered(S, <))
<1> DEFINE R == LessIn(S)
           O == [i \in 1..Cardinality(S) |->
                   CHOOSE x \in S : Cardinality(Preceding(S, R, x)) = i - 1]
<1>1. StrictOrder(S, R)
  BY DEF StrictOrder, LessIn
<1>2. \A x \in S : Preceding(S, R, x) = {y \in S : y < x}
  BY DEF Preceding, LessIn
<1>3. Ordered(S, <) = O
  <2>1. Ordered(S, <) = [i \in 1..Cardinality(S) |->
                           CHOOSE x \in S : Cardinality({y \in S : y < x}) = i - 1]
    BY DEF Ordered
  <2>2. \A i : (CHOOSE x \in S : Cardinality({y \in S : y < x}) = i - 1)
               = (CHOOSE x \in S : Cardinality(Preceding(S, R, x)) = i - 1)
    <3> TAKE i
    <3>1. \A x \in S : (Cardinality({y \in S : y < x}) = i - 1)
                       <=> (Cardinality(Preceding(S, R, x)) = i - 1)
      BY <1>2
    <3> HIDE DEF R
    <3> QED
      BY <3>1
  <2> HIDE DEF R
  <2> QED
    BY <2>1, <2>2
<1>4. InOrder(S, R, O)
  <2> HIDE DEF R, O
  <2> QED
    BY <1>1, OrderIs DEF O
<1> QED
  BY <1>3, <1>4

\* and rounds.
LEMMA RoundsInFullOrder ==
  ASSUME NEW S \in SUBSET Rounds, IsFiniteSet(S)
  PROVE  InOrder(S, BeforeIn(S), Ordered(S, RoundBefore))
<1> DEFINE R == BeforeIn(S)
           O == [i \in 1..Cardinality(S) |->
                   CHOOSE x \in S : Cardinality(Preceding(S, R, x)) = i - 1]
<1>1. StrictOrder(S, R)
  <2>1. \A x, y \in S : <<x, y>> \in R <=> RoundBefore(x, y)
    BY DEF BeforeIn
  <2>2. \A x \in S : x \in Rounds
    OBVIOUS
  <2> HIDE DEF R
  <2> QED
    BY <2>1, <2>2, RoundsOrdered DEF StrictOrder
<1>2. \A x \in S : Preceding(S, R, x) = {y \in S : RoundBefore(y, x)}
  BY DEF Preceding, BeforeIn
<1>3. Ordered(S, RoundBefore) = O
  <2>1. Ordered(S, RoundBefore) = [i \in 1..Cardinality(S) |->
                           CHOOSE x \in S : Cardinality({y \in S : RoundBefore(y, x)}) = i - 1]
    BY DEF Ordered
  <2>2. \A i : (CHOOSE x \in S : Cardinality({y \in S : RoundBefore(y, x)}) = i - 1)
               = (CHOOSE x \in S : Cardinality(Preceding(S, R, x)) = i - 1)
    <3> TAKE i
    <3>1. \A x \in S : (Cardinality({y \in S : RoundBefore(y, x)}) = i - 1)
                       <=> (Cardinality(Preceding(S, R, x)) = i - 1)
      BY <1>2
    <3> HIDE DEF R
    <3> QED
      BY <3>1
  <2> HIDE DEF R
  <2> QED
    BY <2>1, <2>2
<1>4. InOrder(S, R, O)
  <2> HIDE DEF R, O
  <2> QED
    BY <1>1, OrderIs DEF O
<1> QED
  BY <1>3, <1>4

(***************************************************************************)
(* Sequences put together, place by place.                                 *)
(***************************************************************************)
\* flat are the sequences seqs[1], ..., seqs[k] one after the other, for every k.
Flattens(flat, S, n, seqs) ==
  /\ flat \in [1..n -> Seq(S)]
  /\ flat[1] = seqs[1]
  /\ \A k \in 2..n : flat[k] = flat[k - 1] \o seqs[k]

\* They end with the flattened sequence.
LEMMA FlattenIs ==
  ASSUME NEW S, NEW n \in Nat \ {0}, NEW seqs \in [1..n -> Seq(S)]
  PROVE  \E flat : Flattens(flat, S, n, seqs) /\ FlattenSeq(seqs) = flat[n]
<1> DEFINE V == Seq(S)
           F == [x \in (1..n) \X V |-> x[2] \o seqs[x[1]]]
           Step1(w) == [i \in 1..Len(seqs) |-> IF i = 1 THEN seqs[i] ELSE w[i - 1] \o seqs[i]]
           flat == CHOOSE w : w = Step1(w)
<1>1. Len(seqs) = n /\ \A i \in 1..n : seqs[i] \in V
  <2>1. \A i \in 1..n : seqs[i] \in V
    OBVIOUS
  <2> HIDE DEF V
  <2> QED
    BY <2>1, SeqIntro
<1>2. FlattenSeq(seqs) = flat[n]
  <2>1. FlattenSeq(seqs) = IF Len(seqs) = 0 THEN seqs ELSE flat[Len(seqs)]
    BY DEF FlattenSeq
  <2> HIDE DEF flat
  <2> QED
    BY <1>1, <2>1
<1> HIDE DEF flat
<1>3. \A s, t \in V : s \o t \in V
  BY ConcatProperties
<1> HIDE DEF V
<1>4. F \in [(1..n) \X V -> V]
  BY <1>1, <1>3
<1>5. \A k \in 1..n, v \in V : F[<<k, v>>] = v \o seqs[k]
  <2> TAKE k \in 1..n, v \in V
  <2>1. <<k, v>> \in (1..n) \X V
    OBVIOUS
  <2> QED
    BY <2>1
<1> HIDE DEF F
<1>6. seqs[1] \in V
  BY <1>1
<1>7. PICK f : FromOne(f, n, V, seqs[1], F)
  BY <1>4, <1>6, RecursionFromOne
<1>8. f = Step1(f)
  <2>1. \A k \in 1..n : (IF k = 1 THEN seqs[1] ELSE F[<<k, f[k - 1]>>])
                        = (IF k = 1 THEN seqs[k] ELSE f[k - 1] \o seqs[k])
    <3> TAKE k \in 1..n
    <3>1. k # 1 => k - 1 \in 1..n /\ f[k - 1] \in V
      BY <1>7 DEF FromOne
    <3> QED
      BY <1>5, <3>1
  <2>2. f = [k \in 1..n |-> IF k = 1 THEN seqs[k] ELSE f[k - 1] \o seqs[k]]
    <3>1. f \in [1..n -> V]
          /\ \A k \in 1..n : f[k] = IF k = 1 THEN seqs[k] ELSE f[k - 1] \o seqs[k]
      BY <1>7, <2>1 DEF FromOne
    <3> QED
      BY <3>1
  <2> QED
    BY <1>1, <2>2
<1>9. flat = Step1(flat)
  <2> HIDE DEF Step1
  <2> QED
    BY <1>8 DEF flat
<1>10. flat = [k \in 1..n |-> IF k = 1 THEN seqs[k] ELSE flat[k - 1] \o seqs[k]]
  BY <1>1, <1>9
<1>11. flat[1] = seqs[1] /\ \A k \in 2..n : flat[k] = flat[k - 1] \o seqs[k]
  <2>1. 1 \in 1..n /\ \A k \in 2..n : k \in 1..n /\ k # 1
    OBVIOUS
  <2>2. \A k \in 1..n : flat[k] = IF k = 1 THEN seqs[k] ELSE flat[k - 1] \o seqs[k]
    BY <1>10
  <2> QED
    BY <2>1, <2>2
<1>12. \A k \in 1..n : flat[k] \in V
  <2>1. FollowsFromOne(flat, n, V, seqs[1], F)
    <3>1. \A k \in 2..n : k \in 1..n
      OBVIOUS
    <3> QED
      BY <1>5, <1>11, <3>1 DEF FollowsFromOne
  <2> QED
    BY <1>4, <1>6, <2>1, RecursionFromOne
<1>13. flat \in [1..n -> V]
  BY <1>10, <1>12
<1> QED
  BY <1>2, <1>11, <1>13 DEF Flattens, V

\* The places of a list: at[k] are a sequence and a place in it, and no two are
\* the same; every place of every sequence is one.
PlacedBy(list, n, seqs, at) ==
  /\ \A k \in 1..Len(list) : /\ at[k] \in (1..n) \X Nat
                             /\ at[k][2] \in 1..Len(seqs[at[k][1]])
                             /\ list[k] = seqs[at[k][1]][at[k][2]]
  /\ \A k, l \in 1..Len(list) : k # l => at[k] # at[l]
  /\ \A i \in 1..n : \A j \in 1..Len(seqs[i]) : \E k \in 1..Len(list) : at[k] = <<i, j>>

\* A list and one more sequence.
LEMMA OnePlaced ==
  ASSUME NEW S, NEW list \in Seq(S), NEW n \in Nat, NEW seqs, NEW at,
         PlacedBy(list, n, seqs, at), seqs[n + 1] \in Seq(S)
  PROVE  \E new : PlacedBy(list \o seqs[n + 1], n + 1, seqs, new)
<1> DEFINE m == Len(list)
           q == seqs[n + 1]
           l == Len(q)
           both == list \o q
           new == [k \in 1..(m + l) |-> IF k <= m THEN at[k] ELSE <<n + 1, k - m>>]
<1>1. m \in Nat /\ l \in Nat
  BY LenProperties
<1>2. /\ Len(both) = m + l
      /\ \A k \in 1..(m + l) : both[k] = IF k <= m THEN list[k] ELSE q[k - m]
  BY ConcatProperties
<1>3. /\ \A k \in 1..m : /\ at[k] \in (1..n) \X Nat
                         /\ at[k][2] \in 1..Len(seqs[at[k][1]])
                         /\ list[k] = seqs[at[k][1]][at[k][2]]
      /\ \A k, e \in 1..m : k # e => at[k] # at[e]
      /\ \A i \in 1..n : \A j \in 1..Len(seqs[i]) : \E k \in 1..m : at[k] = <<i, j>>
  BY DEF PlacedBy
<1> HIDE DEF m, l, both
<1>4. \A k \in 1..(m + l) : new[k] = IF k <= m THEN at[k] ELSE <<n + 1, k - m>>
  OBVIOUS
<1> HIDE DEF new
<1>5. \A k \in 1..(m + l) : /\ k <= m => k \in 1..m
                            /\ ~(k <= m) => k - m \in 1..l /\ k - m \in Nat
  BY <1>1
<1>6. n + 1 \in 1..(n + 1) /\ \A i \in 1..n : i \in 1..(n + 1) /\ i # n + 1
  OBVIOUS
<1>7. \A k \in 1..m : at[k][1] \in 1..n /\ at[k][1] # n + 1 /\ at[k][2] \in Nat
                      /\ at[k] = <<at[k][1], at[k][2]>>
  BY <1>3, <1>6
<1>8. ASSUME NEW k \in 1..(m + l)
      PROVE  /\ new[k] \in (1..(n + 1)) \X Nat
             /\ new[k][2] \in 1..Len(seqs[new[k][1]])
             /\ both[k] = seqs[new[k][1]][new[k][2]]
  <2>1. CASE k <= m
    <3>1. k \in 1..m /\ new[k] = at[k] /\ both[k] = list[k]
      BY <1>2, <1>4, <1>5, <2>1
    <3>2. new[k] \in (1..(n + 1)) \X Nat
      <4>1. at[k][1] \in 1..(n + 1) /\ at[k][2] \in Nat /\ at[k] = <<at[k][1], at[k][2]>>
        BY <1>6, <1>7, <3>1
      <4>2. <<at[k][1], at[k][2]>> \in (1..(n + 1)) \X Nat
        BY <4>1
      <4> QED
        BY <3>1, <4>1, <4>2
    <3> QED
      BY <1>3, <3>1, <3>2
  <2>2. CASE ~(k <= m)
    <3>1. k - m \in 1..l /\ k - m \in Nat /\ new[k] = <<n + 1, k - m>> /\ both[k] = q[k - m]
      BY <1>2, <1>4, <1>5, <2>2
    <3>2. new[k][1] = n + 1 /\ new[k][2] = k - m
      BY <3>1
    <3> QED
      BY <1>6, <3>1, <3>2 DEF l
  <2> QED
    BY <2>1, <2>2
<1>9. ASSUME NEW k \in 1..(m + l), NEW e \in 1..(m + l), new[k] = new[e] PROVE k = e
  <2>1. CASE k <= m /\ e <= m
    BY <1>3, <1>4, <1>5, <1>9, <2>1
  <2>2. CASE ~(k <= m) /\ ~(e <= m)
    <3>1. <<n + 1, k - m>> = <<n + 1, e - m>>
      BY <1>4, <1>9, <2>2
    <3>2. k - m = e - m
      BY <3>1
    <3> QED
      BY <1>1, <3>2
  <2>3. CASE k <= m /\ ~(e <= m)
    <3>1. at[k] = <<n + 1, e - m>> /\ k \in 1..m
      BY <1>4, <1>5, <1>9, <2>3
    <3> QED
      BY <1>7, <3>1
  <2>4. CASE ~(k <= m) /\ e <= m
    <3>1. at[e] = <<n + 1, k - m>> /\ e \in 1..m
      BY <1>4, <1>5, <1>9, <2>4
    <3> QED
      BY <1>7, <3>1
  <2> QED
    BY <2>1, <2>2, <2>3, <2>4
<1>10. ASSUME NEW i \in 1..(n + 1), NEW j \in 1..Len(seqs[i])
       PROVE  \E k \in 1..(m + l) : new[k] = <<i, j>>
  <2>1. CASE i # n + 1
    <3>1. i \in 1..n
      BY <2>1
    <3>2. PICK k \in 1..m : at[k] = <<i, j>>
      BY <1>3, <3>1
    <3>3. k \in 1..(m + l) /\ k <= m
      BY <1>1
    <3> QED
      BY <1>4, <3>2, <3>3
  <2>2. CASE i = n + 1
    <3>1. j \in 1..l
      BY <2>2 DEF l
    <3>2. m + j \in 1..(m + l) /\ ~(m + j <= m) /\ (m + j) - m = j
      BY <1>1, <3>1
    <3> QED
      BY <1>4, <2>2, <3>2
  <2> QED
    BY <2>1, <2>2
<1>11. PlacedBy(both, n + 1, seqs, new)
  <2>1. Len(both) = m + l
    BY <1>2
  <2>2. /\ \A k \in 1..(m + l) : /\ new[k] \in (1..(n + 1)) \X Nat
                                  /\ new[k][2] \in 1..Len(seqs[new[k][1]])
                                  /\ both[k] = seqs[new[k][1]][new[k][2]]
        /\ \A k, e \in 1..(m + l) : k # e => new[k] # new[e]
    BY <1>8, <1>9
  <2>3. \A i \in 1..(n + 1) : \A j \in 1..Len(seqs[i]) :
          \E k \in 1..(m + l) : new[k] = <<i, j>>
    BY <1>10
  <2>4. /\ \A k \in 1..Len(both) : /\ new[k] \in (1..(n + 1)) \X Nat
                                    /\ new[k][2] \in 1..Len(seqs[new[k][1]])
                                    /\ both[k] = seqs[new[k][1]][new[k][2]]
        /\ \A k, e \in 1..Len(both) : k # e => new[k] # new[e]
        /\ \A i \in 1..(n + 1) : \A j \in 1..Len(seqs[i]) :
              \E k \in 1..Len(both) : new[k] = <<i, j>>
    <3> HIDE DEF q
    <3> QED
      BY <2>1, <2>2, <2>3
  <2> QED
    BY ONLY <2>4, Zenon DEF PlacedBy
<1> QED
  BY <1>11 DEF both

\* So has the flattened sequence its places.
LEMMA FlattenPlaced ==
  ASSUME NEW S, NEW n \in Nat, NEW seqs \in [1..n -> Seq(S)]
  PROVE  \E at : PlacedBy(FlattenSeq(seqs), n, seqs, at)
<1>1. CASE n = 0
  <2>1. FlattenSeq(seqs) = seqs /\ Len(seqs) = 0
    <3>1. seqs \in [1..0 -> S] /\ 0 \in Nat
      BY <1>1
    <3>2. Len(seqs) = 0
      BY <3>1, SeqIntro
    <3> QED
      BY <3>2 DEF FlattenSeq
  <2>2. 1..0 = {}
    OBVIOUS
  <2> QED
    BY <1>1, <2>1, <2>2 DEF PlacedBy
<1>2. CASE n # 0
  <2>1. n \in Nat \ {0}
    BY <1>2
  <2>2. PICK flat : Flattens(flat, S, n, seqs) /\ FlattenSeq(seqs) = flat[n]
    BY <2>1, FlattenIs
  <2>3. /\ \A k \in 1..n : flat[k] \in Seq(S) /\ seqs[k] \in Seq(S)
        /\ flat[1] = seqs[1] /\ \A k \in 2..n : flat[k] = flat[k - 1] \o seqs[k]
    BY <2>2 DEF Flattens
  <2> DEFINE T == {d \in Nat : d + 1 <= n => \E at : PlacedBy(flat[d + 1], d + 1, seqs, at)}
  <2>4. 0 \in T
    <3>1. 0 + 1 = 1 /\ 1 \in 1..n /\ 1..1 = {1}
      BY <2>1
    <3> DEFINE q == seqs[1]
               at == [k \in 1..Len(q) |-> <<1, k>>]
    <3>2. Len(q) \in Nat
      BY <2>3, <3>1, LenProperties
    <3>3. \A k \in 1..Len(q) : at[k] = <<1, k>> /\ k \in Nat
      BY <3>2
    <3> HIDE DEF at
    <3>4. PlacedBy(flat[1], 1, seqs, at)
      <4>1. flat[1] = q /\ seqs[1] = q
        BY <2>3
      <4>2. \A k \in 1..Len(q) : /\ at[k] \in (1..1) \X Nat /\ at[k][1] = 1 /\ at[k][2] = k
        <5> TAKE k \in 1..Len(q)
        <5>1. at[k] = <<1, k>> /\ k \in Nat /\ 1 \in 1..1
          BY <3>1, <3>3
        <5> QED
          BY <5>1
      <4>3. \A i \in 1..1 : i = 1
        BY <3>1
      <4> HIDE DEF q
      <4>4. /\ \A k \in 1..Len(q) : /\ at[k] \in (1..1) \X Nat
                                     /\ at[k][2] \in 1..Len(seqs[at[k][1]])
                                     /\ q[k] = seqs[at[k][1]][at[k][2]]
            /\ \A k, l \in 1..Len(q) : k # l => at[k] # at[l]
        BY <4>1, <4>2
      <4>5. \A i \in 1..1 : \A j \in 1..Len(seqs[i]) : \E k \in 1..Len(q) : at[k] = <<i, j>>
        BY <3>3, <4>1, <4>3
      <4> QED
        BY <4>1, <4>4, <4>5 DEF PlacedBy
    <3> QED
      BY <3>1, <3>4
  <2>5. ASSUME NEW d \in Nat, d \in T PROVE d + 1 \in T
    <3> DEFINE e == d + 1
    <3> SUFFICES ASSUME e + 1 <= n PROVE \E at : PlacedBy(flat[e + 1], e + 1, seqs, at)
      OBVIOUS
    <3>1. e \in Nat /\ e \in 1..n /\ e + 1 \in 2..n /\ (e + 1) - 1 = e /\ e + 1 \in 1..n
      BY <2>1
    <3>2. PICK at : PlacedBy(flat[e], e, seqs, at)
      BY <2>5, <3>1
    <3> HIDE DEF e
    <3>3. flat[e + 1] = flat[e] \o seqs[e + 1] /\ flat[e] \in Seq(S) /\ seqs[e + 1] \in Seq(S)
      BY <2>3, <3>1
    <3>4. \E new : PlacedBy(flat[e] \o seqs[e + 1], e + 1, seqs, new)
      BY <3>1, <3>2, <3>3, OnePlaced
    <3> QED
      BY <3>3, <3>4
  <2>6. Nat \subseteq T
    <3> HIDE DEF T
    <3> QED
      BY <2>4, <2>5, SetInduction
  <2>7. n - 1 \in Nat /\ (n - 1) + 1 = n
    BY <2>1
  <2>8. \E at : PlacedBy(flat[(n - 1) + 1], (n - 1) + 1, seqs, at)
    <3>1. n - 1 \in T
      BY <2>6, <2>7
    <3> QED
      BY <2>7, <3>1
  <2> QED
    BY <2>2, <2>7, <2>8
<1> QED
  BY <1>1, <1>2

(***************************************************************************)
(* First fit, when no two steps of a round share a sender or a receiver:   *)
(* every round is one batch.                                               *)
(***************************************************************************)
\* Its elements at some of its places, in the order of the places.
PicksBy(S, seq, P, order) ==
  /\ Cardinality(P) \in Nat /\ order \in [1..Cardinality(P) -> P]
  /\ \A i, j \in 1..Cardinality(P) : i < j => order[i] < order[j]
  /\ \A x \in P : \E i \in 1..Cardinality(P) : order[i] = x
  /\ Picked(seq, P) \in Seq(S) /\ Len(Picked(seq, P)) = Cardinality(P)
  /\ \A i \in 1..Cardinality(P) : Picked(seq, P)[i] = seq[order[i]]

\* They are picked so.
LEMMA PickedIs ==
  ASSUME NEW S, NEW seq \in Seq(S), NEW P \in SUBSET (1..Len(seq))
  PROVE  \E order : PicksBy(S, seq, P, order)
<1> DEFINE order == Ordered(P, <)
           n == Cardinality(P)
<1>1. IsFiniteSet(P) /\ P \in SUBSET Int
  <2>1. Len(seq) \in Nat
    BY LenProperties
  <2> DEFINE A == 1..Len(seq)
  <2>2. IsFiniteSet(A)
    BY <2>1, FS_Interval
  <2>3. P \in SUBSET A /\ A \subseteq Int
    BY <2>1
  <2> HIDE DEF A
  <2> QED
    BY <2>2, <2>3, FS_Subset
<1>2. InOrder(P, LessIn(P), order)
  BY <1>1, NumbersOrdered
<1>3. Picked(seq, P) = [k \in DOMAIN order |-> seq[order[k]]]
  BY DEF Picked
<1> HIDE DEF order
<1>4. /\ n \in Nat /\ order \in [1..n -> P]
      /\ \A i, j \in 1..n : i < j => <<order[i], order[j]>> \in LessIn(P)
      /\ \A x \in P : \E i \in 1..n : order[i] = x
  BY <1>2 DEF InOrder
<1> HIDE DEF n
<1>5. \A i, j \in 1..n : i < j => order[i] < order[j]
  BY <1>4 DEF LessIn
<1>6. DOMAIN order = 1..n /\ \A k \in 1..n : seq[order[k]] \in S
  <2>1. \A k \in 1..n : order[k] \in 1..Len(seq)
    BY <1>4
  <2> QED
    BY <1>4, <2>1, ElementOfSeq
<1>7. Picked(seq, P) = [k \in 1..n |-> seq[order[k]]] /\ Picked(seq, P) \in [1..n -> S]
  BY <1>3, <1>6
<1>8. Picked(seq, P) \in Seq(S) /\ Len(Picked(seq, P)) = n
  BY <1>4, <1>7, SeqIntro
<1>9. \A i \in 1..n : Picked(seq, P)[i] = seq[order[i]]
  BY <1>7
<1> QED
  BY <1>4, <1>5, <1>8, <1>9 DEF n, PicksBy

\* One-element sequences put together are the sequence of the elements.
LEMMA FlattenSingles ==
  ASSUME NEW S, NEW n \in Nat, NEW seqs \in [1..n -> Seq(S)],
         \A i \in 1..n : Len(seqs[i]) = 1
  PROVE  FlattenSeq(seqs) = [i \in 1..n |-> seqs[i][1]]
<1>1. CASE n = 0
  <2>1. seqs \in [1..0 -> S] /\ 0 \in Nat /\ 1..0 = {}
    BY <1>1
  <2>2. Len(seqs) = 0
    BY <2>1, SeqIntro
  <2>3. FlattenSeq(seqs) = seqs
    BY <2>2 DEF FlattenSeq
  <2>4. seqs = [i \in 1..n |-> seqs[i][1]]
    BY <1>1, <2>1
  <2> QED
    BY <2>3, <2>4
<1>2. CASE n # 0
  <2>1. n \in Nat \ {0}
    BY <1>2
  <2>2. PICK flat : Flattens(flat, S, n, seqs) /\ FlattenSeq(seqs) = flat[n]
    BY <2>1, FlattenIs
  <2>3. /\ \A k \in 1..n : flat[k] \in Seq(S) /\ seqs[k] \in Seq(S)
        /\ flat[1] = seqs[1] /\ \A k \in 2..n : flat[k] = flat[k - 1] \o seqs[k]
    BY <2>2 DEF Flattens
  <2> DEFINE Upto(k) == [i \in 1..k |-> seqs[i][1]]
             T == {d \in Nat : d + 1 <= n => /\ Len(flat[d + 1]) = d + 1
                                             /\ \A i \in 1..(d + 1) : flat[d + 1][i] = seqs[i][1]}
  <2>4. 0 \in T
    <3>1. 0 + 1 = 1 /\ 1 \in 1..n /\ 1..1 = {1}
      BY <2>1
    <3> QED
      BY <2>3, <3>1
  <2>5. ASSUME NEW d \in Nat, d \in T PROVE d + 1 \in T
    <3> DEFINE e == d + 1
    <3> SUFFICES ASSUME e + 1 <= n
                 PROVE  /\ Len(flat[e + 1]) = e + 1
                        /\ \A i \in 1..(e + 1) : flat[e + 1][i] = seqs[i][1]
      OBVIOUS
    <3>1. e \in Nat /\ e \in 1..n /\ e + 1 \in 2..n /\ (e + 1) - 1 = e /\ e + 1 \in 1..n
      BY <2>1
    <3>2. Len(flat[e]) = e /\ \A i \in 1..e : flat[e][i] = seqs[i][1]
      BY <2>5, <3>1
    <3> HIDE DEF e
    <3>3. flat[e + 1] = flat[e] \o seqs[e + 1] /\ flat[e] \in Seq(S) /\ seqs[e + 1] \in Seq(S)
          /\ Len(seqs[e + 1]) = 1
      BY <2>3, <3>1
    <3>4. /\ Len(flat[e + 1]) = e + 1
          /\ \A i \in 1..(e + 1) :
               flat[e + 1][i] = IF i <= e THEN flat[e][i] ELSE seqs[e + 1][i - e]
      <4> DEFINE u == flat[e]
                 v == seqs[e + 1]
      <4>1. u \in Seq(S) /\ v \in Seq(S) /\ Len(u) = e /\ Len(v) = 1 /\ flat[e + 1] = u \o v
        BY <3>2, <3>3
      <4> HIDE DEF u, v
      <4>2. /\ Len(u \o v) = Len(u) + Len(v)
            /\ \A i \in 1..(Len(u) + Len(v)) :
                 (u \o v)[i] = IF i <= Len(u) THEN u[i] ELSE v[i - Len(u)]
        BY <4>1, ConcatProperties
      <4> QED
        BY <4>1, <4>2 DEF u, v
    <3>5. ASSUME NEW i \in 1..(e + 1) PROVE flat[e + 1][i] = seqs[i][1]
      <4>1. CASE i <= e
        <5>1. i \in 1..e
          BY <3>1, <4>1
        <5> QED
          BY <3>2, <3>4, <4>1, <5>1
      <4>2. CASE ~(i <= e)
        <5>1. i = e + 1 /\ i - e = 1
          BY <3>1, <4>2
        <5> QED
          BY <3>4, <4>2, <5>1
      <4> QED
        BY <4>1, <4>2
    <3> QED
      BY <3>4, <3>5
  <2>6. Nat \subseteq T
    <3> HIDE DEF T
    <3> QED
      BY <2>4, <2>5, SetInduction
  <2>7. n - 1 \in Nat /\ (n - 1) + 1 = n
    BY <2>1
  <2>8. Len(flat[n]) = n /\ \A i \in 1..n : flat[n][i] = seqs[i][1]
    <3>1. n - 1 \in T
      BY <2>6, <2>7
    <3> QED
      BY <2>7, <3>1
  <2>9. flat[n] = [i \in 1..n |-> flat[n][i]]
    <3>1. flat[n] \in Seq(S)
      BY <2>1, <2>3
    <3>2. flat[n] \in [1..Len(flat[n]) -> S]
      BY <3>1, LenProperties, ElementOfSeq
    <3> QED
      BY <2>8, <3>2
  <2> QED
    BY <2>2, <2>8, <2>9
<1> QED
  BY <1>1, <1>2

\* What first fit does, step by step.
FittingSteps(it, steps) ==
  /\ it[0] = <<>>
  /\ \A k \in 1..Len(steps) : it[k] = PlaceFirstFit(it[k - 1], steps[k])

\* What first fit makes of a list of steps of one kind, round by round of its making.
LEMMA FirstFitIs ==
  ASSUME NEW S, NEW kind, \A s \in S : s.kind = kind, NEW steps \in Seq(S)
  PROVE  \E it : FittingSteps(it, steps) /\ FirstFit(steps) = it[Len(steps)]
<1> DEFINE V == Seq(Fitted(S, kind))
           N == Len(steps)
           F == [x \in Nat \X V |-> IF x[1] \in 1..N THEN PlaceFirstFit(x[2], steps[x[1]])
                                    ELSE x[2]]
           Step1(w) == [n \in 0..N |-> IF n = 0 THEN <<>> ELSE PlaceFirstFit(w[n - 1], steps[n])]
           it == CHOOSE w : w = Step1(w)
<1>1. N \in Nat /\ \A k \in 1..N : steps[k] \in S
  BY LenProperties, ElementOfSeq
<1>2. FirstFit(steps) = it[N]
  BY DEF FirstFit
<1>3. \A k \in 1..N, v \in V : PlaceFirstFit(v, steps[k]) \in V
  BY <1>1, PlaceKeeps
<1>4. <<>> \in V
  BY EmptySeq
<1> HIDE DEF V, it, N
<1>5. F \in [Nat \X V -> V]
  <2>1. \A x \in Nat \X V : x[2] \in V
    OBVIOUS
  <2> QED
    BY <1>3, <2>1
<1>6. \A k \in 1..N, w \in V : F[<<k, w>>] = PlaceFirstFit(w, steps[k])
  <2> TAKE k \in 1..N, w \in V
  <2>1. <<k, w>> \in Nat \X V
    BY <1>1
  <2> QED
    BY <2>1
<1> HIDE DEF F
<1>7. Recursion(N, V, <<>>, F)
  BY <1>1, <1>4, <1>5 DEF Recursion
<1>8. PICK f \in [0..N -> V] : f = [k \in 0..N |-> IF k = 0 THEN <<>> ELSE F[<<k, f[k - 1]>>]]
  BY <1>7, RecursionExists
<1>9. f = Step1(f)
  <2>1. \A k \in 0..N : (IF k = 0 THEN <<>> ELSE F[<<k, f[k - 1]>>])
                        = (IF k = 0 THEN <<>> ELSE PlaceFirstFit(f[k - 1], steps[k]))
    <3> TAKE k \in 0..N
    <3>1. k # 0 => k \in 1..N /\ k - 1 \in 0..N
      BY <1>1
    <3>2. k # 0 => f[k - 1] \in V
      BY <1>8, <3>1
    <3> QED
      BY <1>6, <3>1, <3>2
  <2> QED
    BY <1>8, <2>1
<1>10. it = Step1(it)
  <2> HIDE DEF Step1
  <2> QED
    BY <1>9 DEF it
<1>11. it[0] = <<>> /\ \A k \in 1..N : it[k] = PlaceFirstFit(it[k - 1], steps[k])
  <2>1. \A k \in 0..N : it[k] = IF k = 0 THEN <<>> ELSE PlaceFirstFit(it[k - 1], steps[k])
    BY <1>10
  <2>2. 0 \in 0..N /\ \A k \in 1..N : k \in 0..N /\ k # 0
    BY <1>1
  <2> QED
    BY <2>1, <2>2
<1> QED
  BY <1>2, <1>11 DEF FittingSteps, N

\* No two steps of a list share a sender or a receiver.
Unshared(list) == \A k, l \in 1..Len(list) : k # l => ~Conflicts(list[k], list[l])

\* Then first fit puts them in one batch.
LEMMA FitsInOne ==
  ASSUME NEW S, NEW kind, \A s \in S : s.kind = kind, NEW steps \in Seq(S),
         Len(steps) # 0, Unshared(steps)
  PROVE  FirstFit(steps) = <<[kind |-> kind, steps |-> steps]>>
<1> DEFINE N == Len(steps)
           Upto(k) == [i \in 1..k |-> steps[i]]
<1>1. N \in Nat \ {0} /\ \A k \in 1..N : steps[k] \in S
  BY LenProperties, ElementOfSeq
<1>2. PICK it : FittingSteps(it, steps) /\ FirstFit(steps) = it[N]
  BY FirstFitIs
<1>3. it[0] = <<>> /\ \A k \in 1..N : it[k] = PlaceFirstFit(it[k - 1], steps[k])
  BY <1>2 DEF FittingSteps
<1>4. \A k, l \in 1..N : k # l => ~Conflicts(steps[k], steps[l])
  BY DEF Unshared
<1> HIDE DEF N
<1>5. \A k \in 1..N : Upto(k) \in Seq(S) /\ Len(Upto(k)) = k
  <2> TAKE k \in 1..N
  <2>1. k \in Nat /\ Upto(k) \in [1..k -> S]
    BY <1>1
  <2> HIDE DEF Upto
  <2> QED
    BY <2>1, SeqIntro
<1> DEFINE T == {d \in Nat : d + 1 <= N => it[d + 1] = <<[kind |-> kind, steps |-> Upto(d + 1)]>>}
<1>6. 0 \in T
  <2>1. 0 + 1 = 1 /\ 1 - 1 = 0 /\ 1 \in 1..N
    BY <1>1
  <2>2. it[1] = PlaceFirstFit(<<>>, steps[1])
    BY <1>3, <2>1
  <2>3. PlaceFirstFit(<<>>, steps[1])
          = Append(<<>>, [kind |-> steps[1].kind, steps |-> <<steps[1]>>])
    BY DEF PlaceFirstFit
  <2>4. steps[1].kind = kind
    BY <1>1, <2>1
  <2>5. Upto(1) = <<steps[1]>>
    OBVIOUS
  <2> QED
    BY <2>1, <2>2, <2>3, <2>4, <2>5
<1>7. ASSUME NEW d \in Nat, d \in T PROVE d + 1 \in T
  <2> DEFINE e == d + 1
             b == [kind |-> kind, steps |-> Upto(e)]
             s == steps[e + 1]
  <2> SUFFICES ASSUME e + 1 <= N
               PROVE  it[e + 1] = <<[kind |-> kind, steps |-> Upto(e + 1)]>>
    OBVIOUS
  <2>1. e \in Nat /\ e \in 1..N /\ e + 1 \in 1..N /\ (e + 1) - 1 = e
    BY <1>1
  <2>2. it[e] = <<b>>
    BY <1>7, <2>1
  <2>3. it[e + 1] = PlaceFirstFit(<<b>>, s)
    BY <1>3, <2>1, <2>2
  <2>4. b.kind = kind /\ b.steps = Upto(e) /\ DOMAIN b.steps = 1..e
        /\ \A j \in 1..e : b.steps[j] = steps[j]
    BY <2>1
  <2>5. Append(Upto(e), s) = Upto(e + 1)
    <3>1. Upto(e) \in Seq(S) /\ Len(Upto(e)) = e /\ \A j \in 1..e : Upto(e)[j] = steps[j]
      BY <1>5, <2>1
    <3>2. s \in S
      BY <1>1, <2>1
    <3>3. Append(Upto(e), s) \in Seq(S) /\ Len(Append(Upto(e), s)) = e + 1
          /\ \A j \in 1..(e + 1) : Append(Upto(e), s)[j] = IF j <= e THEN Upto(e)[j] ELSE s
      BY <3>1, <3>2, AppendProperties, ElementOfSeq
    <3> DEFINE app == Append(Upto(e), s)
    <3>4. app \in [1..(e + 1) -> S]
      BY <3>3, LenProperties, ElementOfSeq
    <3>5. \A j \in 1..(e + 1) : app[j] = steps[j]
      BY <2>1, <3>1, <3>3
    <3> HIDE DEF app, s, e
    <3>6. app = [j \in 1..(e + 1) |-> steps[j]]
      BY <3>4, <3>5
    <3> QED
      BY <3>6 DEF app
  <2>6. \A j \in 1..e : ~Conflicts(s, b.steps[j])
    <3> TAKE j \in 1..e
    <3>1. j \in 1..N /\ e + 1 # j
      <4>1. e \in Nat /\ e <= N /\ N \in Nat /\ j \in Nat /\ 1 <= j /\ j <= e
        BY <1>1, <2>1
      <4> QED
        BY <4>1
    <3>2. ~Conflicts(steps[e + 1], steps[j])
      BY <1>4, <2>1, <3>1
    <3> QED
      BY <2>4, <3>2
  <2> HIDE DEF b, s
  <2> DEFINE free == {i \in DOMAIN <<b>> : \A j \in DOMAIN <<b>>[i].steps :
                                             ~Conflicts(s, <<b>>[i].steps[j])}
             first == CHOOSE i \in free : \A k \in free : i <= k
  <2>7. DOMAIN <<b>> = {1} /\ <<b>>[1] = b
    OBVIOUS
  <2>8. free = {1}
    BY <2>4, <2>6, <2>7
  <2>9. first = 1
    <3> HIDE DEF free
    <3>1. first = CHOOSE i \in {1} : \A k \in {1} : i <= k
      BY <2>8
    <3> HIDE DEF first
    <3>2. \E i \in {1} : \A k \in {1} : i <= k
      OBVIOUS
    <3>3. (CHOOSE i \in {1} : \A k \in {1} : i <= k) \in {1}
      BY <3>2
    <3> QED
      BY <3>1, <3>3
  <2>10. PlaceFirstFit(<<b>>, s) = [<<b>> EXCEPT ![first].steps = Append(@, s)]
    <3>1. PlaceFirstFit(<<b>>, s)
            = IF free = {} THEN Append(<<b>>, [kind |-> s.kind, steps |-> <<s>>])
              ELSE [<<b>> EXCEPT ![first].steps = Append(@, s)]
      BY DEF PlaceFirstFit
    <3> HIDE DEF free, first
    <3> QED
      BY <2>8, <3>1
  <2>11. [<<b>> EXCEPT ![1].steps = Append(@, s)] = <<[b EXCEPT !.steps = Append(Upto(e), s)]>>
    <3> DEFINE c == [b EXCEPT !.steps = Append(@, s)]
    <3>1. [<<b>> EXCEPT ![1].steps = Append(@, s)] = [<<b>> EXCEPT ![1] = c]
      BY <2>7
    <3>2. [<<b>> EXCEPT ![1] = c] = <<c>>
      <4> HIDE DEF c
      <4>1. \A x, y : [<<x>> EXCEPT ![1] = y] = <<y>>
        OBVIOUS
      <4> QED
        BY <4>1
    <3>3. c = [b EXCEPT !.steps = Append(Upto(e), s)]
      BY <2>4
    <3> HIDE DEF c
    <3> QED
      BY <3>1, <3>2, <3>3
  <2>12. [b EXCEPT !.steps = Upto(e + 1)] = [kind |-> kind, steps |-> Upto(e + 1)]
    <3> DEFINE v == Upto(e + 1)
               u == Upto(e)
    <3>1. b = [kind |-> kind, steps |-> u]
      BY DEF b
    <3> HIDE DEF v, u
    <3>2. [b EXCEPT !.steps = v] = [kind |-> kind, steps |-> v]
      BY <3>1
    <3> QED
      BY <3>2 DEF v
  <2> HIDE DEF first, free
  <2> QED
    BY <2>3, <2>5, <2>9, <2>10, <2>11, <2>12
<1>8. Nat \subseteq T
  <2> HIDE DEF T
  <2> QED
    BY <1>6, <1>7, SetInduction
<1>9. it[N] = <<[kind |-> kind, steps |-> Upto(N)]>>
  <2>1. N - 1 \in Nat /\ (N - 1) + 1 = N
    BY <1>1
  <2>2. N - 1 \in T
    BY <1>8, <2>1
  <2> QED
    <3>1. (N - 1) + 1 <= N
      BY <1>1
    <3>2. it[(N - 1) + 1] = <<[kind |-> kind, steps |-> Upto((N - 1) + 1)]>>
      BY <2>2, <3>1
    <3> HIDE DEF Upto
    <3> QED
      BY <2>1, <3>2
<1>10. Upto(N) = steps
  <2>1. steps \in [1..N -> S]
    BY LenProperties, ElementOfSeq DEF N
  <2> QED
    BY <2>1
<1> QED
  BY <1>2, <1>9, <1>10

\* Steps with a place in the order of rounds.
Timed(S) == \A s \in S : s.phase \in Int /\ s.seq \in Int /\ s.kind \in {Move, Save, Restore}

\* Two steps of one round, in different places of a list, share no rank.
RoundsUnshared(list) ==
  \A k, l \in 1..Len(list) :
    k # l /\ RoundOf(list[k]) = RoundOf(list[l]) => ~Conflicts(list[k], list[l])

\* The steps of a list.
StepsIn(list) == {list[k] : k \in 1..Len(list)}

\* The places of the steps of round q, and those steps in order.
PlacesOf(steps, q)  == {i \in DOMAIN steps : RoundOf(steps[i]) = q}
MembersOf(steps, q) == Picked(steps, PlacesOf(steps, q))

\* They are one batch.
OneBatch(steps, q) ==
  /\ FirstFit(MembersOf(steps, q)) = <<[kind |-> q[3], steps |-> MembersOf(steps, q)]>>
  /\ DOMAIN MembersOf(steps, q) = 1..Len(MembersOf(steps, q))
  /\ \A j \in 1..Len(MembersOf(steps, q)) :
       \E k \in 1..Len(steps) : MembersOf(steps, q)[j] = steps[k] /\ RoundOf(steps[k]) = q
  /\ \A k \in 1..Len(steps) : RoundOf(steps[k]) = q
       => \E j \in 1..Len(MembersOf(steps, q)) : MembersOf(steps, q)[j] = steps[k]

\* The steps of one round, if they share no rank, make one batch.
LEMMA RoundIsBatch ==
  ASSUME NEW S, Timed(S), NEW steps \in Seq(S), RoundsUnshared(steps), NEW q,
         NEW e \in 1..Len(steps), q = RoundOf(steps[e])
  PROVE  OneBatch(steps, q)
<1> DEFINE n == Len(steps)
           P == PlacesOf(steps, q)
           T == {s \in S : RoundOf(s) = q}
           c == Cardinality(P)
           m == MembersOf(steps, q)
<1>1. n \in Nat /\ DOMAIN steps = 1..n /\ \A k \in 1..n : steps[k] \in S
  BY LenProperties, ElementOfSeq
<1>2. P \in SUBSET (1..Len(steps)) /\ \A k \in 1..n : k \in P <=> RoundOf(steps[k]) = q
  BY <1>1 DEF PlacesOf
<1> HIDE DEF P
<1>3. PICK order : /\ c \in Nat /\ order \in [1..c -> P]
                   /\ \A i, j \in 1..c : i < j => order[i] < order[j]
                   /\ \A x \in P : \E i \in 1..c : order[i] = x
                   /\ Picked(steps, P) \in Seq(S) /\ Len(Picked(steps, P)) = c
                   /\ \A i \in 1..c : Picked(steps, P)[i] = steps[order[i]]
  <2>1. P \in SUBSET (1..Len(steps))
    BY <1>2
  <2>2. PICK order : PicksBy(S, steps, P, order)
    <3> HIDE DEF n, T, c, m
    <3> QED
      BY <2>1, PickedIs
  <2> QED
    BY <2>2 DEF PicksBy
<1>4. m = Picked(steps, P)
  BY DEF MembersOf, P
<1> HIDE DEF m, c, n
<1>5. m \in Seq(S) /\ Len(m) = c /\ DOMAIN m = 1..c /\ m = [i \in 1..c |-> m[i]]
  <2>1. m \in Seq(S) /\ Len(m) = c
    BY <1>3, <1>4
  <2> QED
    BY <2>1, LenProperties, ElementOfSeq
<1>6. \A i \in 1..c : order[i] \in 1..n /\ RoundOf(steps[order[i]]) = q /\ m[i] = steps[order[i]]
  BY <1>2, <1>3, <1>4 DEF n
<1>7. \A i \in 1..c : m[i] \in T
  BY <1>1, <1>6
<1>8. m \in Seq(T)
  <2> HIDE DEF T
  <2>1. m \in [1..c -> T]
    BY <1>5, <1>7
  <2> QED
    BY <1>3, <2>1, SeqIntro
<1>9. \A s \in T : s.kind = q[3]
  BY DEF RoundOf
<1>10. e \in P
  BY <1>2 DEF n
<1>11. Len(m) # 0
  <2>1. PICK i \in 1..c : order[i] = e
    BY <1>3, <1>10
  <2> QED
    BY <1>3, <1>5, <2>1
<1>12. Unshared(m)
  <2>1. ASSUME NEW k \in 1..c, NEW l \in 1..c, k # l PROVE ~Conflicts(m[k], m[l])
    <3>1. order[k] # order[l]
      <4>1. k < l \/ l < k
        BY <1>3, <2>1
      <4>2. order[k] < order[l] \/ order[l] < order[k]
        BY <1>3, <4>1
      <4>3. order[k] \in Int /\ order[l] \in Int
        BY <1>1, <1>6
      <4> QED
        BY <4>2, <4>3
    <3> QED
      BY <1>6, <3>1 DEF RoundsUnshared, n
  <2> QED
    BY <1>5, <2>1 DEF Unshared
<1>13. FirstFit(m) = <<[kind |-> q[3], steps |-> m]>>
  <2> HIDE DEF T
  <2> QED
    BY <1>8, <1>9, <1>11, <1>12, FitsInOne
<1>14. \A k \in 1..n : RoundOf(steps[k]) = q => \E j \in 1..c : m[j] = steps[k]
  <2> TAKE k \in 1..n
  <2> HAVE RoundOf(steps[k]) = q
  <2>1. PICK j \in 1..c : order[j] = k
    BY <1>2, <1>3
  <2> QED
    BY <1>6, <2>1
<1>15. \A j \in 1..c : \E k \in 1..n : m[j] = steps[k] /\ RoundOf(steps[k]) = q
  BY <1>6
<1> QED
  BY <1>5, <1>13, <1>14, <1>15 DEF m, n, OneBatch

\* So every round of a list is a batch, and the batches are in the order of the
\* rounds.
LEMMA RoundsBatched ==
  ASSUME NEW exec, NEW S, Timed(S), NEW steps \in Seq(S), RoundsUnshared(steps), NEW p,
         p = Tagged(exec, BatchNative2DSteps(steps))
  PROVE  \E rd : InRounds(StepsIn(steps), p, Len(p), rd)
<1> DEFINE n == Len(steps)
           Q == {RoundOf(steps[i]) : i \in DOMAIN steps}
           rounds == Ordered(Q, RoundBefore)
           m == Cardinality(Q)
           fits == [i \in DOMAIN rounds |-> FirstFit(MembersOf(steps, rounds[i]))]
           b == [i \in 1..m |-> [kind |-> rounds[i][3], steps |-> MembersOf(steps, rounds[i])]]
           X == {b[i] : i \in 1..m}
<1>1. n \in Nat /\ DOMAIN steps = 1..n /\ \A i \in 1..n : steps[i] \in S
  BY LenProperties, ElementOfSeq
<1>2. Q \in SUBSET Rounds /\ IsFiniteSet(Q)
  <2>1. \A s \in S : s.phase \in Int /\ s.seq \in Int /\ s.kind \in Int
    BY DEF Timed, Move, Save, Restore
  <2> QED
    BY <2>1, RoundsFinite DEF Rounds
<1>3. InOrder(Q, BeforeIn(Q), rounds)
  <2> HIDE DEF Q
  <2> QED
    BY <1>2, RoundsInFullOrder
<1>4. BatchNative2DSteps(steps) = FlattenSeq(fits)
  BY DEF BatchNative2DSteps, MembersOf, PlacesOf
<1>5. \A q \in Q : \E e \in 1..n : q = RoundOf(steps[e])
  BY <1>1
<1>6. \A k \in 1..n : RoundOf(steps[k]) \in Q
  BY <1>1
<1> HIDE DEF Q, rounds
<1>7. /\ m \in Nat /\ rounds \in [1..m -> Q]
      /\ \A i, j \in 1..m : i < j => <<rounds[i], rounds[j]>> \in BeforeIn(Q)
      /\ \A x \in Q : \E i \in 1..m : rounds[i] = x
  BY <1>3 DEF InOrder
<1> HIDE DEF m
<1>8. \A i, j \in 1..m : i < j => RoundBefore(rounds[i], rounds[j])
  BY <1>7 DEF BeforeIn
<1>9. ASSUME NEW i \in 1..m
      PROVE  /\ FirstFit(MembersOf(steps, rounds[i])) = <<b[i]>>
             /\ DOMAIN MembersOf(steps, rounds[i]) = 1..Len(MembersOf(steps, rounds[i]))
             /\ \A j \in 1..Len(MembersOf(steps, rounds[i])) :
                  \E k \in 1..n : /\ MembersOf(steps, rounds[i])[j] = steps[k]
                                  /\ RoundOf(steps[k]) = rounds[i]
             /\ \A k \in 1..n : RoundOf(steps[k]) = rounds[i]
                  => \E j \in 1..Len(MembersOf(steps, rounds[i])) :
                       MembersOf(steps, rounds[i])[j] = steps[k]
  <2> DEFINE q == rounds[i]
  <2>1. q \in Q
    BY <1>7
  <2>2. PICK e \in 1..n : q = RoundOf(steps[e])
    BY <1>5, <2>1
  <2>3. b[i] = [kind |-> q[3], steps |-> MembersOf(steps, q)]
    OBVIOUS
  <2> HIDE DEF q, b
  <2>4. OneBatch(steps, q)
    BY <2>2, RoundIsBatch
  <2> QED
    BY <2>3, <2>4 DEF q, OneBatch
<1>10. \A i \in 1..m : b[i].kind = rounds[i][3] /\ b[i].steps = MembersOf(steps, rounds[i])
  OBVIOUS
<1>11. b = [i \in 1..m |-> b[i]] /\ \A i \in 1..m : b[i] \in X
  OBVIOUS
<1> HIDE DEF b, X
<1>12. /\ fits \in [1..m -> Seq(X)] /\ \A i \in 1..m : Len(fits[i]) = 1 /\ fits[i][1] = b[i]
  <2>1. DOMAIN rounds = 1..m
    BY <1>7
  <2>2. \A i \in 1..m : <<b[i]>> \in Seq(X) /\ Len(<<b[i]>>) = 1 /\ <<b[i]>>[1] = b[i]
    BY <1>11
  <2>3. \A i \in 1..m : fits[i] = <<b[i]>>
    BY <1>9, <2>1
  <2>4. fits = [i \in 1..m |-> fits[i]]
    BY <2>1
  <2> HIDE DEF fits
  <2> QED
    BY <2>2, <2>3, <2>4
<1> HIDE DEF fits
<1>13. FlattenSeq(fits) = [i \in 1..m |-> fits[i][1]]
  BY <1>7, <1>12, FlattenSingles
<1>14. BatchNative2DSteps(steps) = b
  BY <1>4, <1>11, <1>12, <1>13
<1>15. /\ Len(p) = m
       /\ \A i \in 1..m : /\ p[i].kind = rounds[i][3] /\ p[i].steps = MembersOf(steps, rounds[i])
  <2>1. p = [i \in 1..m |-> [exec |-> exec, kind |-> b[i].kind, steps |-> b[i].steps]]
    BY <1>11, <1>14 DEF Tagged
  <2>2. p \in Seq({p[i] : i \in 1..m}) /\ Len(p) = m
    <3> DEFINE Y == {p[i] : i \in 1..m}
    <3>1. p \in [1..m -> Y]
      BY <2>1
    <3> HIDE DEF Y
    <3> QED
      BY <1>7, <3>1, SeqIntro DEF Y
  <2>3. \A i \in 1..m : p[i].kind = b[i].kind /\ p[i].steps = b[i].steps
    BY <2>1
  <2> QED
    BY <1>10, <2>2, <2>3
<1>16. rounds \in [1..m -> Rounds]
  BY <1>2, <1>7
<1>17. ASSUME NEW k \in 1..m, NEW i \in DOMAIN p[k].steps
       PROVE  /\ p[k].steps[i] \in StepsIn(steps)
              /\ RoundOf(p[k].steps[i]) = rounds[k]
              /\ p[k].steps[i].kind = p[k].kind
  <2>0. p[k].steps = MembersOf(steps, rounds[k]) /\ i \in 1..Len(MembersOf(steps, rounds[k]))
    BY <1>9, <1>15
  <2>1. PICK j \in 1..n : p[k].steps[i] = steps[j] /\ RoundOf(steps[j]) = rounds[k]
    BY <1>9, <2>0
  <2>2. steps[j].kind = rounds[k][3]
    BY <2>1 DEF RoundOf
  <2> QED
    BY <1>15, <2>1, <2>2 DEF StepsIn
<1>18. ASSUME NEW s \in StepsIn(steps)
       PROVE  \E k \in 1..m : \E i \in DOMAIN p[k].steps : p[k].steps[i] = s
  <2>1. PICK j \in 1..n : s = steps[j]
    BY DEF StepsIn
  <2>2. PICK k \in 1..m : rounds[k] = RoundOf(steps[j])
    BY <1>6, <1>7
  <2>3. PICK i \in 1..Len(MembersOf(steps, rounds[k])) : MembersOf(steps, rounds[k])[i] = steps[j]
    BY <1>9, <2>2
  <2>4. i \in DOMAIN p[k].steps /\ p[k].steps[i] = s
    BY <1>9, <1>15, <2>1, <2>3
  <2> QED
    BY <2>4
<1>19. InRounds(StepsIn(steps), p, m, rounds)
  BY <1>7, <1>8, <1>16, <1>17, <1>18 DEF InRounds
<1> QED
  BY <1>15, <1>19

(***************************************************************************)
(* Steps along a line.                                                     *)
(***************************************************************************)
\* The cell y of place x of line q.
SpotOn(g, dir, q, x, y) ==
  IF dir = "cols" THEN InMatrix(RankOn(g, dir, q, x), y, x % g.cols)
  ELSE InMatrix(RankOn(g, dir, q, x), x % g.rows, y)

\* A move of n places from x to z, a save of n places from x on, and a restore of
\* those to z.
LineMove(g, dir, q, s, x, z, n) ==
  /\ s.kind = Move
  /\ s.from = RankOn(g, dir, q, x) /\ s.source = Band(g, dir, x, n)
  /\ s.to = RankOn(g, dir, q, z) /\ s.target = Band(g, dir, z, n)
LineSave(g, dir, q, s, x, n) ==
  /\ s.kind = Save
  /\ s.from = RankOn(g, dir, q, x) /\ s.source = Band(g, dir, x, n)
  /\ s.to = -1
LineRestore(g, dir, q, s, x, z, n) ==
  /\ s.kind = Restore
  /\ s.from = RankOn(g, dir, q, x)
  /\ s.to = RankOn(g, dir, q, z) /\ s.target = Band(g, dir, z, n)

\* A step of line q names no rank of another.
StaysOn(g, dir, q, s) ==
  /\ \E x \in Places(g, dir) : s.from = RankOn(g, dir, q, x)
  /\ s.to = -1 \/ \E x \in Places(g, dir) : s.to = RankOn(g, dir, q, x)

\* A location of a rank of line q.
OnLine(g, dir, q, loc) == \E x \in Places(g, dir) : loc[2] = RankOn(g, dir, q, x)

\* A place of a segment and the rectangle of the segment.
SpotFits(g, dir, q, x, n, d, y) ==
  /\ RankOn(g, dir, q, x + d) = RankOn(g, dir, q, x)
  /\ dir = "cols" => /\ Band(g, dir, x, n).height = g.rows /\ Band(g, dir, x, n).width = n
                     /\ Band(g, dir, x, n).row + y = y
                     /\ Band(g, dir, x, n).col + d = (x + d) % g.cols
                     /\ y \in 0..(g.rows - 1)
  /\ dir = "rows" => /\ Band(g, dir, x, n).height = n /\ Band(g, dir, x, n).width = g.cols
                     /\ Band(g, dir, x, n).row + d = (x + d) % g.rows
                     /\ Band(g, dir, x, n).col + y = y
                     /\ y \in 0..(g.cols - 1)

\* They fit.
LEMMA SpotIs ==
  ASSUME NEW g, NEW dir \in Directions, NEW q \in LinesOf(g, dir), NEW x, NEW n, NEW d, NEW y,
         GeometryOK(g), Segment(g, dir, x, n), d \in 0..(n - 1), y \in 0..(Cross(g, dir) - 1)
  PROVE  SpotFits(g, dir, q, x, n, d, y)
<1>1. /\ x + d \in Places(g, dir)
      /\ (x + d) \div Side(g, dir) = x \div Side(g, dir)
      /\ (x + d) % Side(g, dir) = (x % Side(g, dir)) + d
  BY SegmentIs
<1>2. RankOn(g, dir, q, x + d) = RankOn(g, dir, q, x)
  BY <1>1 DEF RankOn, Side, Directions
<1>3. y \in Int
  <2>1. Cross(g, dir) \in Nat \ {0}
    BY SizesOf
  <2> QED
    BY <2>1
<1>4. CASE dir = "cols"
  BY <1>1, <1>2, <1>3, <1>4 DEF SpotFits, Band, Rect, Side, Cross
<1>5. CASE dir = "rows"
  BY <1>1, <1>2, <1>3, <1>5 DEF SpotFits, Band, Rect, Side, Cross
<1> QED
  BY <1>4, <1>5 DEF Directions

\* A move takes along what is in its segment,
LEMMA MoveTakes ==
  ASSUME NEW g, NEW dir \in Directions, NEW q \in LinesOf(g, dir), NEW s, NEW x, NEW z, NEW n,
         NEW d, NEW y, GeometryOK(g), Segment(g, dir, x, n), Segment(g, dir, z, n),
         d \in 0..(n - 1), y \in 0..(Cross(g, dir) - 1), LineMove(g, dir, q, s, x, z, n)
  PROVE  Carried(s, SpotOn(g, dir, q, x + d, y), SpotOn(g, dir, q, z + d, y))
<1>0. SpotFits(g, dir, q, x, n, d, y) /\ SpotFits(g, dir, q, z, n, d, y)
  BY SpotIs
<1>1. /\ RankOn(g, dir, q, x + d) = RankOn(g, dir, q, x)
      /\ RankOn(g, dir, q, z + d) = RankOn(g, dir, q, z)
  BY <1>0 DEF SpotFits
<1>2. CASE dir = "cols"
  <2>1. /\ s.source.row + y = y /\ s.source.col + d = (x + d) % g.cols
        /\ s.target.row + y = y /\ s.target.col + d = (z + d) % g.cols
        /\ y \in 0..(s.target.height - 1) /\ d \in 0..(s.target.width - 1)
    BY <1>0, <1>2 DEF SpotFits, LineMove
  <2>2. /\ SpotOn(g, dir, q, x + d, y) = InMatrix(s.from, s.source.row + y, s.source.col + d)
        /\ SpotOn(g, dir, q, z + d, y) = InMatrix(s.to, s.target.row + y, s.target.col + d)
    BY <1>1, <1>2, <2>1 DEF SpotOn, LineMove
  <2> QED
    BY <2>1, <2>2 DEF Carried, MoveCarries, LineMove
<1>3. CASE dir = "rows"
  <2>1. /\ s.source.row + d = (x + d) % g.rows /\ s.source.col + y = y
        /\ s.target.row + d = (z + d) % g.rows /\ s.target.col + y = y
        /\ d \in 0..(s.target.height - 1) /\ y \in 0..(s.target.width - 1)
    BY <1>0, <1>3 DEF SpotFits, LineMove
  <2>2. /\ SpotOn(g, dir, q, x + d, y) = InMatrix(s.from, s.source.row + d, s.source.col + y)
        /\ SpotOn(g, dir, q, z + d, y) = InMatrix(s.to, s.target.row + d, s.target.col + y)
    BY <1>1, <1>3, <2>1 DEF SpotOn, LineMove
  <2> QED
    BY <2>1, <2>2 DEF Carried, MoveCarries, LineMove
<1> QED
  BY <1>2, <1>3 DEF Directions

\* so does a save,
LEMMA SaveTakes ==
  ASSUME NEW g, NEW dir \in Directions, NEW q \in LinesOf(g, dir), NEW s, NEW x, NEW n,
         NEW d, NEW y, GeometryOK(g), Segment(g, dir, x, n),
         d \in 0..(n - 1), y \in 0..(Cross(g, dir) - 1), LineSave(g, dir, q, s, x, n)
  PROVE  Carried(s, SpotOn(g, dir, q, x + d, y),
                 InSlot(RankOn(g, dir, q, x), PackedAt(g, dir, n, d, y)))
<1>0. SpotFits(g, dir, q, x, n, d, y)
  BY SpotIs
<1>1. RankOn(g, dir, q, x + d) = RankOn(g, dir, q, x)
  BY <1>0 DEF SpotFits
<1>2. CASE dir = "cols"
  <2>1. /\ s.source.row + y = y /\ s.source.col + d = (x + d) % g.cols
        /\ y \in 0..(s.source.height - 1) /\ d \in 0..(s.source.width - 1)
        /\ s.source.height = g.rows
    BY <1>0, <1>2 DEF SpotFits, LineSave
  <2>2. /\ SpotOn(g, dir, q, x + d, y) = InMatrix(s.from, s.source.row + y, s.source.col + d)
        /\ InSlot(RankOn(g, dir, q, x), PackedAt(g, dir, n, d, y))
             = InSlot(s.from, d * s.source.height + y)
    BY <1>1, <1>2, <2>1 DEF SpotOn, LineSave, PackedAt
  <2> QED
    BY <2>1, <2>2 DEF Carried, SaveCarries, LineSave
<1>3. CASE dir = "rows"
  <2>1. /\ s.source.row + d = (x + d) % g.rows /\ s.source.col + y = y
        /\ d \in 0..(s.source.height - 1) /\ y \in 0..(s.source.width - 1)
        /\ s.source.height = n
    BY <1>0, <1>3 DEF SpotFits, LineSave
  <2>2. /\ SpotOn(g, dir, q, x + d, y) = InMatrix(s.from, s.source.row + d, s.source.col + y)
        /\ InSlot(RankOn(g, dir, q, x), PackedAt(g, dir, n, d, y))
             = InSlot(s.from, y * s.source.height + d)
    BY <1>1, <1>3, <2>1 DEF SpotOn, LineSave, PackedAt
  <2> QED
    BY <2>1, <2>2 DEF Carried, SaveCarries, LineSave
<1> QED
  BY <1>2, <1>3 DEF Directions

\* and a restore what was saved.
LEMMA RestoreTakes ==
  ASSUME NEW g, NEW dir \in Directions, NEW q \in LinesOf(g, dir), NEW s, NEW x, NEW z, NEW n,
         NEW d, NEW y, GeometryOK(g), Segment(g, dir, z, n),
         d \in 0..(n - 1), y \in 0..(Cross(g, dir) - 1), LineRestore(g, dir, q, s, x, z, n)
  PROVE  Carried(s, InSlot(RankOn(g, dir, q, x), PackedAt(g, dir, n, d, y)),
                 SpotOn(g, dir, q, z + d, y))
<1>0. SpotFits(g, dir, q, z, n, d, y)
  BY SpotIs
<1>1. RankOn(g, dir, q, z + d) = RankOn(g, dir, q, z)
  BY <1>0 DEF SpotFits
<1>2. CASE dir = "cols"
  <2>1. /\ s.target.row + y = y /\ s.target.col + d = (z + d) % g.cols
        /\ y \in 0..(s.target.height - 1) /\ d \in 0..(s.target.width - 1)
        /\ s.target.height = g.rows
    BY <1>0, <1>2 DEF SpotFits, LineRestore
  <2>2. /\ SpotOn(g, dir, q, z + d, y) = InMatrix(s.to, s.target.row + y, s.target.col + d)
        /\ InSlot(RankOn(g, dir, q, x), PackedAt(g, dir, n, d, y))
             = InSlot(s.from, d * s.target.height + y)
    BY <1>1, <1>2, <2>1 DEF SpotOn, LineRestore, PackedAt
  <2> QED
    BY <2>1, <2>2 DEF Carried, RestoreCarries, LineRestore
<1>3. CASE dir = "rows"
  <2>1. /\ s.target.row + d = (z + d) % g.rows /\ s.target.col + y = y
        /\ d \in 0..(s.target.height - 1) /\ y \in 0..(s.target.width - 1)
        /\ s.target.height = n
    BY <1>0, <1>3 DEF SpotFits, LineRestore
  <2>2. /\ SpotOn(g, dir, q, z + d, y) = InMatrix(s.to, s.target.row + d, s.target.col + y)
        /\ InSlot(RankOn(g, dir, q, x), PackedAt(g, dir, n, d, y))
             = InSlot(s.from, y * s.target.height + d)
    BY <1>1, <1>3, <2>1 DEF SpotOn, LineRestore, PackedAt
  <2> QED
    BY <2>1, <2>2 DEF Carried, RestoreCarries, LineRestore
<1> QED
  BY <1>2, <1>3 DEF Directions

\* A step spares the places of its line outside its target.
LEMMA TargetSpares ==
  ASSUME NEW g, NEW dir \in Directions, NEW q \in LinesOf(g, dir), NEW s, NEW z, NEW n,
         NEW v, NEW y, GeometryOK(g), Segment(g, dir, z, n),
         s.to = RankOn(g, dir, q, z), s.target = Band(g, dir, z, n),
         v \in Places(g, dir), v \notin z..(z + n - 1)
  PROVE  Spared(s, SpotOn(g, dir, q, v, y))
<1> DEFINE loc == SpotOn(g, dir, q, v, y)
<1>1. loc[1] = "matrix" /\ loc[2] = RankOn(g, dir, q, v)
  BY DEF SpotOn, InMatrix
<1>2. SUFFICES ASSUME s.to = loc[2], Covers(s.target, loc[3], loc[4]) PROVE FALSE
  BY <1>1 DEF Spared
<1>3. z \in Places(g, dir)
  BY DEF Segment
<1>4. v \div Side(g, dir) = z \div Side(g, dir)
  <2>1. RankOn(g, dir, q, v) = RankOn(g, dir, q, z)
    BY <1>1, <1>2
  <2> QED
    BY <1>3, <2>1, RanksApart
<1>5. (v % Side(g, dir)) - (z % Side(g, dir)) \in 0..(n - 1)
  <2>1. CASE dir = "cols"
    BY <1>2, <2>1 DEF SpotOn, InMatrix, Covers, Band, Rect, Side
  <2>2. CASE dir = "rows"
    BY <1>2, <2>2 DEF SpotOn, InMatrix, Covers, Band, Rect, Side
  <2> QED
    BY <2>1, <2>2 DEF Directions
<1> QED
  BY <1>4, <1>5, SegmentHas

\* A save spares all local matrices, and what is not a save all saved slabs.
LEMMA SaveSpares ==
  ASSUME NEW g, NEW dir \in Directions, NEW q \in LinesOf(g, dir), NEW s, NEW v, NEW y,
         GeometryOK(g), s.to = -1, v \in Places(g, dir)
  PROVE  Spared(s, SpotOn(g, dir, q, v, y))
<1> DEFINE loc == SpotOn(g, dir, q, v, y)
<1>1. loc[1] = "matrix" /\ loc[2] = RankOn(g, dir, q, v)
  BY DEF SpotOn, InMatrix
<1>2. RankOn(g, dir, q, v) \in RanksOf(g)
  BY RankOnTyped
<1>3. RankOn(g, dir, q, v) # -1
  BY <1>2 DEF RanksOf
<1> QED
  BY <1>1, <1>3 DEF Spared

\* The saved slab of a rank is spared by all but its own saves.
LEMMA OthersSpare ==
  ASSUME NEW s, NEW r, NEW k, s.kind # Save \/ s.from # r
  PROVE  Spared(s, InSlot(r, k))
  BY DEF Spared, InSlot

\* The steps of other lines leave a line alone.
LEMMA OtherLineSpares ==
  ASSUME NEW g, NEW dir \in Directions, NEW q \in LinesOf(g, dir), NEW u \in LinesOf(g, dir),
         NEW s, NEW loc, GeometryOK(g), u # q, StaysOn(g, dir, u, s), OnLine(g, dir, q, loc)
  PROVE  Spared(s, loc)
<1>1. PICK x \in Places(g, dir) : loc[2] = RankOn(g, dir, q, x)
  BY DEF OnLine
<1>2. PICK z \in Places(g, dir) : s.from = RankOn(g, dir, u, z)
  BY DEF StaysOn
<1>3. s.from # loc[2]
  BY <1>1, <1>2, RanksApart
<1>4. s.to # loc[2]
  <2>1. CASE s.to = -1
    <3>1. loc[2] \in RanksOf(g)
      BY <1>1, RankOnTyped
    <3> QED
      BY <2>1, <3>1 DEF RanksOf
  <2>2. CASE s.to # -1
    <3>1. PICK v \in Places(g, dir) : s.to = RankOn(g, dir, u, v)
      BY <2>2 DEF StaysOn
    <3> QED
      BY <1>1, <3>1, RanksApart
  <2> QED
    BY <2>1, <2>2
<1> QED
  BY <1>3, <1>4 DEF Spared

(***************************************************************************)
(* What every run of the executor satisfies.                               *)
(***************************************************************************)
\* The planners never make a plan the executor is not made for.
LEMMA AllPlanned == Planned
<1>1. \A g \in Geometries : PlanOK(g, Plan(g))
  BY GeometryIsOK, PlanIsOK
<1> QED
  BY <1>1 DEF Planned

\* Whatever the order in which ranks and NCCL proceed, what a rank has in its
\* local matrix, in its scratch and in flight is what it would have if all
\* ranks ran every batch together (ExecutePadded2DNativePlanRaw).
THEOREM RunsAsInLockstep == Spec => []RunInv
  BY AllPlanned, Runs

\* Types of the executor's state: matrices and scratch keep their shape, payloads
\* fit the scratch, positions stay within the plan.
THEOREM TypeCorrect == Spec => []TypeOK
<1>1. RunInv => TypeOK
  BY AllPlanned, TypesFollow
<1> QED
  BY <1>1, RunsAsInLockstep, PTL

\* Every receive takes the payload of its own batch, of its own size.
THEOREM ExchangesMatch == Spec => []ExchangeMatched
<1>1. RunInv => ExchangeMatched
  BY AllPlanned, MatchFollows
<1> QED
  BY <1>1, RunsAsInLockstep, PTL

\* The executor's error returns are unreachable.
THEOREM NothingRefused == Spec => []ExecutorAccepts
<1>1. RunInv => ExecutorAccepts
  BY AllPlanned, AcceptsFollow
<1> QED
  BY <1>1, RunsAsInLockstep, PTL

==============================================================================
