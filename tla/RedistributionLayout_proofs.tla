--------------------- MODULE RedistributionLayout_proofs ---------------------
(***************************************************************************)
(* Where the redistribution puts the entries of the matrix, for every      *)
(* geometry of the process grid.                                           *)
(*                                                                         *)
(* A rank's memories are those of lockstep (RunInv), so it is enough to    *)
(* follow each entry through the plan in lockstep.  Both planners move     *)
(* data along lines, the columns of a process row or the rows of a process *)
(* column, and a plan has one phase for either direction.  A phase takes   *)
(* the data at a place of a line to another place of that line, the same   *)
(* for all cells across it: the edge phases to the place of the padded     *)
(* axis, the slab phases to the block-cyclic one, by turning every cycle   *)
(* of the slot map by one slot.  The two axes together put each entry at   *)
(* its block-cyclic home; the reversed plan takes it back.                 *)
(*                                                                         *)
(*   - courses of data, and how they are put together                      *)
(*   - the edge planner: axis moves, waves, phases, there and back         *)
(*   - the slab planner: the cycles of a slot map, their steps on a line,  *)
(*     the phase that turns them                                           *)
(*   - the homes of an entry; ForwardLayout and RoundTrip                  *)
(*   - one slab of a rank at a time is put aside: SavedSlabPreserved         *)
(*   - no entry is ever nowhere: EntryNeverLost                            *)
(*   - what each rank shows its caller: ImplementsShardExchange            *)
(*   - no rank waits for ever, and each step is progress                   *)
(***************************************************************************)
EXTENDS Redistribution_proofs

(***************************************************************************)
(* Courses put together.                                                   *)
(***************************************************************************)
\* Steps S take what is at loc to new.
Leads(g, exec, S, loc, new) ==
  \E M, P, trace : Course(g, exec, S, M, P, trace) /\ trace[0] = loc /\ trace[M] = new

\* Steps T come after S.
Follow(S, T) == \A s \in S, x \in T : RoundBefore(RoundOf(s), RoundOf(x))

\* One course after another is a course.
LEMMA LeadsOn ==
  ASSUME NEW g, NEW exec, NEW S, NEW T, NEW loc, NEW via, NEW new, Follow(S, T),
         Leads(g, exec, S, loc, via), Leads(g, exec, T, via, new)
  PROVE  Leads(g, exec, S \cup T, loc, new)
<1>1. PICK M, P, t : Course(g, exec, S, M, P, t) /\ t[0] = loc /\ t[M] = via
  BY DEF Leads
<1>2. PICK N, Q, u : Course(g, exec, T, N, Q, u) /\ u[0] = via /\ u[N] = new
  BY DEF Leads
<1>3. M \in Nat /\ N \in Nat /\ P \in [1..M -> S] /\ Q \in [1..N -> T]
  BY <1>1, <1>2 DEF Course
<1> DEFINE R == [c \in 1..(M + N) |-> IF c <= M THEN P[c] ELSE Q[c - M]]
           v == [c \in 0..(M + N) |-> IF c <= M THEN t[c] ELSE u[c - M]]
<1>4. \A c \in 1..M : c \in 1..(M + N) /\ c \in 0..(M + N) /\ R[c] = P[c] /\ v[c] = t[c]
                      /\ P[c] \in S /\ c - 1 \in 0..M
  BY <1>3, SMTT(60)
<1>5. \A c \in 1..N : /\ M + c \in 1..(M + N) /\ M + c \in 0..(M + N) /\ R[M + c] = Q[c]
                      /\ v[M + c] = u[c] /\ Q[c] \in T /\ c - 1 \in 0..N
                      /\ (M + c) - 1 = M + (c - 1)
  <2> TAKE c \in 1..N
  <2>1. M + c \in 1..(M + N) /\ M + c \in 0..(M + N) /\ ~(M + c <= M) /\ (M + c) - M = c
        /\ (M + c) - 1 = M + (c - 1) /\ c - 1 \in 0..N
    BY <1>3
  <2> QED
    BY <1>3, <2>1
<1>6. /\ \A c \in 0..M : c \in 0..(M + N) /\ v[c] = t[c]
      /\ \A c \in 0..N : M + c \in 0..(M + N) /\ v[M + c] = u[c]
  <2>1. \A c \in 0..M : c \in 0..(M + N) /\ c <= M
    BY <1>3
  <2>2. v[M + 0] = u[0]
    BY <1>1, <1>2, <1>3
  <2>3. \A c \in 0..N : c = 0 \/ c \in 1..N
    BY <1>3
  <2>4. \A c \in 0..N : M + c \in 0..(M + N)
    BY <1>3
  <2>5. \A c \in 0..N : v[M + c] = u[c]
    <3> TAKE c \in 0..N
    <3> HIDE DEF v
    <3> QED
      BY <1>5, <2>2, <2>3
  <2> QED
    BY <2>1, <2>4, <2>5
<1>7. \A c \in 1..(M + N) : c \in 1..M \/ \E d \in 1..N : c = M + d
  <2> TAKE c \in 1..(M + N)
  <2>1. CASE c <= M
    BY <1>3, <2>1
  <2>2. CASE ~(c <= M)
    <3>1. c - M \in 1..N /\ c = M + (c - M)
      BY <1>3, <2>2
    <3> QED
      BY <3>1
  <2> QED
    BY <2>1, <2>2
<1>8. R \in [1..(M + N) -> S \cup T]
  <2>1. \A c \in 1..(M + N) : R[c] \in S \cup T
    <3> TAKE c \in 1..(M + N)
    <3> HIDE DEF R
    <3> QED
      BY <1>4, <1>5, <1>7, ZenonT(60)
  <2>2. R = [c \in 1..(M + N) |-> R[c]]
    OBVIOUS
  <2> HIDE DEF R
  <2> QED
    BY <2>1, <2>2
<1> HIDE DEF R, v
<1>9. ASSUME NEW c \in 1..(M + N), NEW d \in 1..(M + N), c < d
      PROVE  RoundBefore(RoundOf(R[c]), RoundOf(R[d]))
  <2>1. CASE c \in 1..M /\ d \in 1..M
    BY <1>1, <1>4, <1>9, <2>1 DEF Course
  <2>2. CASE c \in 1..M /\ d \notin 1..M
    <3>1. PICK e \in 1..N : d = M + e
      BY <1>7, <2>2
    <3> QED
      BY <1>4, <1>5, <2>2, <3>1 DEF Follow
  <2>3. CASE c \notin 1..M
    <3>1. PICK e \in 1..N : c = M + e
      BY <1>7, <2>3
    <3>2. d \notin 1..M
      BY <1>3, <1>9, <3>1
    <3>3. PICK f \in 1..N : d = M + f
      BY <1>7, <3>2
    <3>4. e < f
      BY <1>3, <1>9, <3>1, <3>3
    <3>5. RoundBefore(RoundOf(Q[e]), RoundOf(Q[f]))
      BY <1>2, <3>4 DEF Course
    <3> QED
      BY <1>5, <3>1, <3>3, <3>5
  <2> QED
    BY <2>1, <2>2, <2>3
<1>10. ASSUME NEW c \in 0..(M + N) PROVE LocationOK(g, exec, v[c])
  <2>1. CASE c \in 0..M
    BY <1>1, <1>6, <2>1 DEF Course
  <2>2. CASE c \notin 0..M
    <3>1. c \in 1..(M + N)
      BY <1>3, <2>2
    <3>2. PICK e \in 1..N : c = M + e
      BY <1>3, <1>7, <2>2, <3>1
    <3>3. LocationOK(g, exec, u[e])
      BY <1>2, <3>2 DEF Course
    <3> QED
      BY <1>5, <3>2, <3>3
  <2> QED
    BY <2>1, <2>2
<1>11. ASSUME NEW c \in 1..(M + N)
       PROVE  \/ Carried(R[c], v[c - 1], v[c])
              \/ v[c] = v[c - 1] /\ Spared(R[c], v[c - 1])
  <2>1. CASE c \in 1..M
    <3>1. R[c] = P[c] /\ v[c] = t[c] /\ v[c - 1] = t[c - 1]
      BY <1>4, <1>6, <2>1
    <3>2. \/ Carried(P[c], t[c - 1], t[c])
          \/ t[c] = t[c - 1] /\ Spared(P[c], t[c - 1])
      BY <1>1, <2>1 DEF Course
    <3> QED
      BY <3>1, <3>2
  <2>2. CASE c \notin 1..M
    <3>1. PICK e \in 1..N : c = M + e
      BY <1>7, <2>2
    <3>2. R[c] = Q[e] /\ v[c] = u[e] /\ v[c - 1] = u[e - 1]
      BY <1>5, <1>6, <3>1
    <3>3. \/ Carried(Q[e], u[e - 1], u[e])
          \/ u[e] = u[e - 1] /\ Spared(Q[e], u[e - 1])
      BY <1>2 DEF Course
    <3> QED
      BY <3>2, <3>3
  <2> QED
    BY <2>1, <2>2
<1>12. ASSUME NEW s \in S \cup T, NEW c \in 0..(M + N),
              \A d \in 1..(M + N) : s # R[d],
              c > 0 => ~RoundBefore(RoundOf(s), RoundOf(R[c])),
              c < M + N => ~RoundBefore(RoundOf(R[c + 1]), RoundOf(s))
       PROVE  Spared(s, v[c])
  <2>1. (\A d \in 1..M : s # P[d]) /\ (\A d \in 1..N : s # Q[d])
    BY <1>4, <1>5, <1>12
  <2>2. CASE s \in S
    <3>1. c \in 0..M
      <4>1. SUFFICES ASSUME c \notin 0..M PROVE FALSE
        OBVIOUS
      <4>2. c \in 1..(M + N) /\ c \notin 1..M /\ c > 0
        BY <1>3, <4>1
      <4>3. PICK e \in 1..N : c = M + e
        BY <1>7, <4>2
      <4>4. RoundBefore(RoundOf(s), RoundOf(R[c]))
        BY <1>5, <2>2, <4>3 DEF Follow
      <4> QED
        BY <1>12, <4>2, <4>4
    <3>2. c > 0 => ~RoundBefore(RoundOf(s), RoundOf(P[c]))
      <4>1. c > 0 => c \in 1..M
        BY <1>3, <3>1
      <4> QED
        BY <1>4, <1>12, <4>1
    <3>3. c < M => ~RoundBefore(RoundOf(P[c + 1]), RoundOf(s))
      <4>1. c < M => c + 1 \in 1..M /\ c < M + N
        BY <1>3, <3>1
      <4> QED
        BY <1>4, <1>12, <4>1
    <3>4. Spared(s, t[c])
      BY <1>1, <2>1, <2>2, <3>1, <3>2, <3>3 DEF Course
    <3> QED
      BY <1>6, <3>1, <3>4
  <2>3. CASE s \in T
    <3>1. ~(c < M)
      <4>1. SUFFICES ASSUME c < M PROVE FALSE
        OBVIOUS
      <4>2. c + 1 \in 1..M /\ c < M + N
        BY <1>3, <4>1
      <4>3. RoundBefore(RoundOf(R[c + 1]), RoundOf(s))
        BY <1>4, <2>3, <4>2 DEF Follow
      <4> QED
        BY <1>12, <4>2, <4>3
    <3> DEFINE e == c - M
    <3>2. e \in 0..N /\ c = M + e
      BY <1>3, <3>1
    <3> HIDE DEF e
    <3>3. e > 0 => ~RoundBefore(RoundOf(s), RoundOf(Q[e]))
      <4>1. e > 0 => e \in 1..N /\ c > 0
        BY <1>3, <3>2
      <4> QED
        BY <1>5, <1>12, <3>2, <4>1
    <3>4. e < N => ~RoundBefore(RoundOf(Q[e + 1]), RoundOf(s))
      <4>1. e < N => e + 1 \in 1..N /\ c < M + N /\ c + 1 = M + (e + 1)
        BY <1>3, <3>2
      <4> QED
        BY <1>5, <1>12, <3>2, <4>1
    <3>5. Spared(s, u[e])
      BY <1>2, <2>1, <2>3, <3>2, <3>3, <3>4 DEF Course
    <3> QED
      BY <1>6, <3>2, <3>5
  <2> QED
    BY <2>2, <2>3
<1>13. Course(g, exec, S \cup T, M + N, R, v)
  <2>1. M + N \in Nat
    BY <1>3
  <2> QED
    BY <1>8, <1>9, <1>10, <1>11, <1>12, <2>1 DEF Course
<1>14. v[0] = loc /\ v[M + N] = new
  <2>1. 0 \in 0..M /\ N \in 0..N
    BY <1>3
  <2> QED
    BY <1>1, <1>2, <1>6, <2>1
<1> QED
  BY <1>13, <1>14 DEF Leads

\* Data no step touches stays.
LEMMA LeadsNowhere ==
  ASSUME NEW g, NEW exec, NEW S, NEW loc, LocationOK(g, exec, loc),
         \A s \in S : Spared(s, loc)
  PROVE  Leads(g, exec, S, loc, loc)
<1> DEFINE P == [c \in 1..0 |-> loc]
           t == [c \in 0..0 |-> loc]
<1>1. P \in [1..0 -> S] /\ 1..0 = {} /\ \A c \in 0..0 : t[c] = loc
  OBVIOUS
<1>2. t[0] = loc /\ 0 \in Nat
  OBVIOUS
<1> HIDE DEF P, t
<1>3. Course(g, exec, S, 0, P, t)
  BY <1>1, <1>2 DEF Course
<1> QED
  BY <1>2, <1>3 DEF Leads

\* Data one step takes along, which the steps before leave alone where it was and
\* those after where it is then.
LEMMA LeadsOnce ==
  ASSUME NEW g, NEW exec, NEW S, NEW loc, NEW new, NEW s \in S,
         LocationOK(g, exec, loc), LocationOK(g, exec, new), Carried(s, loc, new),
         \A x \in S : x # s /\ ~RoundBefore(RoundOf(s), RoundOf(x)) => Spared(x, loc),
         \A x \in S : x # s /\ ~RoundBefore(RoundOf(x), RoundOf(s)) => Spared(x, new)
  PROVE  Leads(g, exec, S, loc, new)
<1> DEFINE P == [c \in 1..1 |-> s]
           t == [c \in 0..1 |-> IF c = 0 THEN loc ELSE new]
<1>1. /\ P \in [1..1 -> S] /\ 1..1 = {1} /\ P[1] = s
      /\ 0..1 = {0, 1} /\ t[0] = loc /\ t[1] = new /\ 1 \in Nat
  OBVIOUS
<1> HIDE DEF P, t
<1>2. \A c, d \in 1..1 : ~(c < d)
  BY <1>1
<1>3. \A c \in 0..1 : LocationOK(g, exec, t[c])
  BY <1>1
<1>4. \A c \in 1..1 : Carried(P[c], t[c - 1], t[c])
  BY <1>1
<1>5. ASSUME NEW x \in S, NEW c \in 0..1, \A d \in 1..1 : x # P[d],
             c > 0 => ~RoundBefore(RoundOf(x), RoundOf(P[c])),
             c < 1 => ~RoundBefore(RoundOf(P[c + 1]), RoundOf(x))
      PROVE  Spared(x, t[c])
  <2>1. x # s
    BY <1>1, <1>5
  <2>2. CASE c = 0
    <3>1. c < 1 /\ c + 1 = 1
      BY <2>2
    <3> QED
      BY <1>1, <1>5, <2>1, <2>2, <3>1
  <2>3. CASE c = 1
    <3>1. c > 0
      BY <2>3
    <3> QED
      BY <1>1, <1>5, <2>1, <2>3, <3>1
  <2> QED
    BY <1>1, <2>2, <2>3
<1>6. Course(g, exec, S, 1, P, t)
  BY <1>1, <1>2, <1>3, <1>4, <1>5 DEF Course
<1> QED
  BY <1>1, <1>6 DEF Leads

(***************************************************************************)
(* The moves of one axis of the edge padding, exactly.                     *)
(***************************************************************************)
\* it[c] are the moves of block b from offset c on.
BlockWalk(it, blocks, b, logical, physical, maxExtent) ==
  /\ it[logical] = <<>>
  /\ \A c \in 0..logical : it[c] \in Seq(AxisMoves(blocks, physical, maxExtent))
  /\ \A c \in 0..(logical - 1) :
       it[c] = LET mv   == MoveAt(b, logical, physical, maxExtent, c)
                   rest == it[c + mv.extent]
               IN  IF mv.source = mv.target THEN rest ELSE <<mv>> \o rest

\* The moves of block b are such a walk's,
BlockWalked(blocks, b, logical, physical, maxExtent) ==
  \E it : /\ BlockWalk(it, blocks, b, logical, physical, maxExtent)
          /\ BlockMoves(b, logical, physical, maxExtent) = it[0]

\* for every block.
LEMMA BlockWalks ==
  ASSUME NEW blocks \in Nat \ {0}, NEW b \in 0..(blocks - 1),
         NEW physical \in Nat \ {0}, NEW logical \in Nat \ {0}, NEW maxExtent \in Nat \ {0},
         logical <= physical
  PROVE  BlockWalked(blocks, b, logical, physical, maxExtent)
<1> SUFFICES \E it : /\ BlockWalk(it, blocks, b, logical, physical, maxExtent)
                     /\ BlockMoves(b, logical, physical, maxExtent) = it[0]
  BY DEF BlockWalked
<1> DEFINE M == AxisMoves(blocks, physical, maxExtent)
           V == Seq(M)
           mv(c) == MoveAt(b, logical, physical, maxExtent, c)
           next == [c \in 0..logical |-> IF c = logical THEN logical ELSE c + mv(c).extent]
           Go(c, v) == IF mv(c).source = mv(c).target THEN v ELSE <<mv(c)>> \o v
           F == [x \in (0..logical) \X V |-> IF x[1] = logical THEN x[2] ELSE Go(x[1], x[2])]
           Step1(w) == [consumed \in 0..logical |->
                          IF consumed = logical THEN <<>>
                          ELSE LET source == b * physical + consumed
                                   target == b * logical + consumed
                                   extent == MoveExtent(logical - consumed, source, target,
                                                        physical, maxExtent)
                                   rest   == w[consumed + extent]
                               IN  IF source = target THEN rest
                                   ELSE <<[source |-> source, target |-> target,
                                           extent |-> extent]>> \o rest]
           it == CHOOSE w : w = Step1(w)
<1>1. \A c \in 0..(logical - 1) : mv(c) \in M /\ mv(c).extent \in 1..(logical - c)
  BY MoveAtTyped
<1>2. BlockMoves(b, logical, physical, maxExtent) = it[0]
  BY DEF BlockMoves
<1>3. \A w : Step1(w) = [c \in 0..logical |-> IF c = logical THEN <<>>
                                              ELSE Go(c, w[c + mv(c).extent])]
  BY DEF MoveAt
<1> HIDE DEF it, Step1, mv, M
<1>4. <<>> \in V /\ \A c \in 0..(logical - 1), v \in V : Go(c, v) \in V
  <2>1. <<>> \in V
    BY EmptySeq
  <2>2. \A m \in M, v \in V : <<m>> \o v \in V
    <3> TAKE m \in M, v \in V
    <3>1. <<m>> \in Seq(M)
      OBVIOUS
    <3> QED
      BY <3>1, ConcatProperties
  <2> QED
    BY <1>1, <2>1, <2>2
<1> HIDE DEF V, Go
<1>5. /\ next \in [0..logical -> 0..logical]
      /\ \A c \in 0..(logical - 1) : c < next[c] /\ next[c] = c + mv(c).extent
  <2>1. \A c \in 0..(logical - 1) : c + mv(c).extent \in 0..logical /\ c < c + mv(c).extent
    BY <1>1
  <2>2. \A c \in 0..logical : c # logical => c \in 0..(logical - 1)
    OBVIOUS
  <2>3. \A c \in 0..(logical - 1) : c \in 0..logical /\ c # logical
    OBVIOUS
  <2> QED
    BY <2>1, <2>2, <2>3
<1>6. F \in [(0..logical) \X V -> V]
  <2>1. \A x \in (0..logical) \X V : (IF x[1] = logical THEN x[2] ELSE Go(x[1], x[2])) \in V
    <3> TAKE x \in (0..logical) \X V
    <3>1. x[1] \in 0..logical /\ x[2] \in V
      OBVIOUS
    <3>2. x[1] # logical => x[1] \in 0..(logical - 1)
      BY <3>1
    <3> QED
      BY <1>4, <3>1, <3>2
  <2> QED
    BY <2>1
<1>7. \A c \in 0..(logical - 1), v \in V : F[<<c, v>>] = Go(c, v)
  <2> TAKE c \in 0..(logical - 1), v \in V
  <2>1. <<c, v>> \in (0..logical) \X V /\ c # logical
    OBVIOUS
  <2> QED
    BY <2>1
<1> HIDE DEF F, next
<1>8. Onward(logical, V, <<>>, next, F)
  BY <1>4, <1>5, <1>6 DEF Onward
<1>9. PICK f : IsOnward(f, logical, V, <<>>, next, F)
  BY <1>8, OnwardExists
<1>10. f = Step1(f)
  <2>1. f \in [0..logical -> V]
        /\ \A c \in 0..logical : f[c] = IF c = logical THEN <<>> ELSE F[<<c, f[next[c]]>>]
    BY <1>9 DEF IsOnward
  <2>2. \A c \in 0..logical : f[c] = IF c = logical THEN <<>> ELSE Go(c, f[c + mv(c).extent])
    <3> TAKE c \in 0..logical
    <3>1. CASE c = logical
      BY <2>1, <3>1
    <3>2. CASE c # logical
      <4>1. c \in 0..(logical - 1)
        BY <3>2
      <4>2. next[c] = c + mv(c).extent /\ next[c] \in 0..logical
        BY <1>5, <4>1
      <4>3. f[next[c]] \in V
        BY <2>1, <4>2
      <4> QED
        BY <1>7, <2>1, <3>2, <4>1, <4>2, <4>3
    <3> QED
      BY <3>1, <3>2
  <2>3. f = [c \in 0..logical |-> IF c = logical THEN <<>> ELSE Go(c, f[c + mv(c).extent])]
    BY <2>1, <2>2
  <2> QED
    BY <1>3, <2>3
<1>11. it = Step1(it)
  BY <1>10 DEF it
<1>12. \A c \in 0..logical : it[c] = IF c = logical THEN <<>> ELSE Go(c, it[c + mv(c).extent])
  <2>1. it = [c \in 0..logical |-> IF c = logical THEN <<>> ELSE Go(c, it[c + mv(c).extent])]
    BY <1>3, <1>11
  <2> QED
    BY <2>1
<1>13. /\ it[logical] = <<>>
       /\ \A c \in 0..(logical - 1) : it[next[c]] \in V => it[c] = F[<<c, it[next[c]]>>]
  <2>1. logical \in 0..logical /\ \A c \in 0..(logical - 1) : c \in 0..logical /\ c # logical
    OBVIOUS
  <2>2. \A c \in 0..(logical - 1) : it[c] = Go(c, it[next[c]])
    BY <1>5, <1>12, <2>1
  <2> QED
    BY <1>7, <1>12, <2>1, <2>2
<1>14. \A c \in 0..logical : it[c] \in V
  BY <1>8, <1>13, OnwardTyped
<1>15. \A c \in 0..(logical - 1) : it[c] = Go(c, it[c + mv(c).extent])
  <2>1. \A c \in 0..(logical - 1) : c \in 0..logical /\ c # logical
    OBVIOUS
  <2> QED
    BY <1>12, <2>1
<1> QED
  BY <1>2, <1>13, <1>14, <1>15 DEF V, M, mv, Go, BlockWalk

\* Where the place j of the contiguous matrix is when every block has its padding.
PaddedAt(logical, physical, j) == (j \div logical) * physical + (j % logical)

\* A move pulls the places from its target on to where they belong.
Pull(m, logical, physical) ==
  /\ m.target \in Nat /\ m.extent \in Nat \ {0}
  /\ (m.target % logical) + m.extent <= logical
  /\ m.source = PaddedAt(logical, physical, m.target) /\ m.source # m.target

\* The moves fill the places lo to hi - 1 in order, but for those filled already.
PullsOver(seq, lo, hi, logical, physical) ==
  /\ lo \in Nat /\ hi \in Nat
  /\ \A w \in 1..Len(seq) : /\ Pull(seq[w], logical, physical)
                            /\ lo <= seq[w].target /\ seq[w].target + seq[w].extent <= hi
  /\ \A w, v \in 1..Len(seq) : w < v => seq[w].target + seq[w].extent <= seq[v].target
  /\ \A j \in lo..(hi - 1) :
       \/ PaddedAt(logical, physical, j) = j
       \/ \E w \in 1..Len(seq) : j \in seq[w].target..(seq[w].target + seq[w].extent - 1)

\* Moves of adjacent ranges.
LEMMA PullsTogether ==
  ASSUME NEW S, NEW s \in Seq(S), NEW t \in Seq(S), NEW lo, NEW mid, NEW hi,
         NEW logical, NEW physical, lo <= mid, mid <= hi,
         PullsOver(s, lo, mid, logical, physical), PullsOver(t, mid, hi, logical, physical)
  PROVE  PullsOver(s \o t, lo, hi, logical, physical)
<1> DEFINE m == Len(s)
           n == Len(t)
           b == s \o t
<1>1. /\ m \in Nat /\ n \in Nat /\ Len(b) = m + n
      /\ \A k \in 1..(m + n) : b[k] = IF k <= m THEN s[k] ELSE t[k - m]
  BY LenProperties, ConcatProperties
<1>2. /\ lo \in Nat /\ mid \in Nat /\ hi \in Nat
      /\ \A w \in 1..m : /\ Pull(s[w], logical, physical)
                         /\ lo <= s[w].target /\ s[w].target + s[w].extent <= mid
      /\ \A w \in 1..n : /\ Pull(t[w], logical, physical)
                         /\ mid <= t[w].target /\ t[w].target + t[w].extent <= hi
      /\ \A w, v \in 1..m : w < v => s[w].target + s[w].extent <= s[v].target
      /\ \A w, v \in 1..n : w < v => t[w].target + t[w].extent <= t[v].target
      /\ \A j \in lo..(mid - 1) :
           \/ PaddedAt(logical, physical, j) = j
           \/ \E w \in 1..m : j \in s[w].target..(s[w].target + s[w].extent - 1)
      /\ \A j \in mid..(hi - 1) :
           \/ PaddedAt(logical, physical, j) = j
           \/ \E w \in 1..n : j \in t[w].target..(t[w].target + t[w].extent - 1)
  BY DEF PullsOver
<1> HIDE DEF m, n, b
<1>3. \A k \in 1..(m + n) : \/ k \in 1..m /\ b[k] = s[k]
                            \/ ~(k <= m) /\ k - m \in 1..n /\ b[k] = t[k - m]
  <2> TAKE k \in 1..(m + n)
  <2>1. k <= m => k \in 1..m
    BY <1>1
  <2>2. ~(k <= m) => k - m \in 1..n
    BY <1>1
  <2> QED
    BY <1>1, <2>1, <2>2
<1>4. \A w \in 1..m : s[w].target \in Nat /\ s[w].extent \in Nat
  BY <1>2 DEF Pull
<1>5. \A w \in 1..n : t[w].target \in Nat /\ t[w].extent \in Nat
  BY <1>2 DEF Pull
<1>6. ASSUME NEW k \in 1..(m + n)
      PROVE  /\ Pull(b[k], logical, physical)
             /\ lo <= b[k].target /\ b[k].target + b[k].extent <= hi
  <2>1. CASE k \in 1..m /\ b[k] = s[k]
    BY <1>2, <1>4, <2>1
  <2>2. CASE k - m \in 1..n /\ b[k] = t[k - m]
    BY <1>2, <1>5, <2>2
  <2> QED
    BY <1>3, <2>1, <2>2
<1>7. ASSUME NEW w \in 1..(m + n), NEW v \in 1..(m + n), w < v
      PROVE  b[w].target + b[w].extent <= b[v].target
  <2>1. CASE v \in 1..m
    <3>1. w \in 1..m
      BY <1>1, <1>7, <2>1
    <3>2. b[w] = s[w] /\ b[v] = s[v]
      BY <1>1, <2>1, <3>1
    <3> QED
      BY <1>2, <1>7, <2>1, <3>1, <3>2
  <2>2. CASE ~(w <= m)
    <3>1. ~(v <= m) /\ w - m < v - m
      BY <1>1, <1>7, <2>2
    <3>2. w - m \in 1..n /\ v - m \in 1..n
      BY <1>1, <2>2, <3>1
    <3>3. b[w] = t[w - m] /\ b[v] = t[v - m]
      BY <1>1, <2>2, <3>1
    <3>4. t[w - m].target + t[w - m].extent <= t[v - m].target
      BY <1>2, <3>1, <3>2
    <3> QED
      BY <3>3, <3>4
  <2>3. CASE w <= m /\ v \notin 1..m
    <3>1. w \in 1..m /\ ~(v <= m) /\ v - m \in 1..n
      BY <1>1, <2>3
    <3>2. b[w] = s[w] /\ b[v] = t[v - m]
      BY <1>1, <3>1
    <3>3. s[w].target + s[w].extent <= mid /\ mid <= t[v - m].target
          /\ s[w].target \in Nat /\ s[w].extent \in Nat /\ t[v - m].target \in Nat
      BY <1>2, <1>4, <1>5, <3>1
    <3>4. s[w].target + s[w].extent <= t[v - m].target
      <4> DEFINE x == s[w].target
                 y == s[w].extent
                 z == t[v - m].target
      <4>1. x \in Nat /\ y \in Nat /\ z \in Nat /\ x + y <= mid /\ mid <= z /\ mid \in Nat
        BY <1>2, <3>3
      <4> HIDE DEF x, y, z
      <4>2. x + y <= z
        BY <4>1
      <4> QED
        BY <4>2 DEF x, y, z
    <3> QED
      BY <3>2, <3>4
  <2> QED
    BY <2>1, <2>2, <2>3
<1>8. ASSUME NEW j \in lo..(hi - 1)
      PROVE  \/ PaddedAt(logical, physical, j) = j
             \/ \E w \in 1..(m + n) : j \in b[w].target..(b[w].target + b[w].extent - 1)
  <2>1. CASE j < mid
    <3>1. j \in lo..(mid - 1)
      BY <1>2, <2>1
    <3>2. CASE PaddedAt(logical, physical, j) = j
      BY <3>2
    <3>3. CASE \E w \in 1..m : j \in s[w].target..(s[w].target + s[w].extent - 1)
      <4>1. PICK w \in 1..m : j \in s[w].target..(s[w].target + s[w].extent - 1)
        BY <3>3
      <4>2. w \in 1..(m + n) /\ b[w] = s[w]
        BY <1>1
      <4> QED
        BY <4>1, <4>2
    <3> QED
      BY <1>2, <3>1, <3>2, <3>3
  <2>2. CASE ~(j < mid)
    <3>1. j \in mid..(hi - 1)
      BY <1>2, <2>2
    <3>2. CASE PaddedAt(logical, physical, j) = j
      BY <3>2
    <3>3. CASE \E w \in 1..n : j \in t[w].target..(t[w].target + t[w].extent - 1)
      <4>1. PICK w \in 1..n : j \in t[w].target..(t[w].target + t[w].extent - 1)
        BY <3>3
      <4>2. m + w \in 1..(m + n) /\ ~(m + w <= m) /\ (m + w) - m = w
        BY <1>1
      <4>3. b[m + w] = t[w]
        BY <1>1, <4>2
      <4> QED
        BY <4>1, <4>2, <4>3
    <3> QED
      BY <1>2, <3>1, <3>2, <3>3
  <2> QED
    BY <2>1, <2>2
<1> QED
  BY <1>1, <1>2, <1>6, <1>7, <1>8 DEF PullsOver, b

\* A place of block b.
LEMMA PaddedIs ==
  ASSUME NEW logical \in Nat \ {0}, NEW physical \in Nat \ {0},
         NEW b \in Nat, NEW c \in 0..(logical - 1)
  PROVE  /\ PaddedAt(logical, physical, b * logical + c) = b * physical + c
         /\ (b * logical + c) % logical = c
         /\ b * logical + c \in Nat
  BY Parts DEF PaddedAt

\* The places of block b.
LEMMA PaddedAll ==
  ASSUME NEW logical \in Nat \ {0}, NEW physical \in Nat \ {0}, NEW b \in Nat
  PROVE  \A c \in 0..(logical - 1) :
           PaddedAt(logical, physical, b * logical + c) = b * physical + c
           /\ (b * logical + c) % logical = c
  BY Parts DEF PaddedAt

\* Places a few further on in the same block.
LEMMA PaddedOn ==
  ASSUME NEW logical \in Nat \ {0}, NEW physical \in Nat \ {0}, NEW t \in Nat, NEW d \in Nat,
         (t % logical) + d < logical
  PROVE  PaddedAt(logical, physical, t + d) = PaddedAt(logical, physical, t) + d
<1> DEFINE b == t \div logical
           c == t % logical
           x == b * logical
           y == b * physical
<1>1. b \in Nat /\ c \in 0..(logical - 1) /\ t = x + c
  BY DivMod
<1>2. x \in Nat /\ y \in Nat
  BY <1>1
<1>3. c + d \in 0..(logical - 1)
  <2> HIDE DEF c
  <2> QED
    BY <1>1
<1>4. t + d = x + (c + d)
  <2> HIDE DEF x, c
  <2> QED
    BY <1>1, <1>2
<1>5. PaddedAt(logical, physical, b * logical + (c + d)) = b * physical + (c + d)
  <2> HIDE DEF b, c
  <2> QED
    BY <1>1, <1>3, PaddedIs, ZenonT(60)
<1>6. PaddedAt(logical, physical, t) = y + c
  BY DEF PaddedAt
<1> HIDE DEF x, y, c
<1>7. y + (c + d) = (y + c) + d
  BY <1>1, <1>2
<1> QED
  BY <1>4, <1>5, <1>6, <1>7 DEF x, y

\* Padding moves places up, keeps their order, and keeps block and place in it.
LEMMA PaddedPlaces ==
  ASSUME NEW logical \in Nat \ {0}, NEW physical \in Nat \ {0}, logical <= physical
  PROVE  /\ \A j \in Nat : /\ PaddedAt(logical, physical, j) \in Nat
                           /\ j <= PaddedAt(logical, physical, j)
                           /\ PaddedAt(logical, physical, j) \div physical = j \div logical
                           /\ PaddedAt(logical, physical, j) % physical = j % logical
         /\ \A i, j \in Nat : PaddedAt(logical, physical, i) = PaddedAt(logical, physical, j)
              => i = j
<1>1. ASSUME NEW j \in Nat
      PROVE  /\ PaddedAt(logical, physical, j) \in Nat
             /\ j <= PaddedAt(logical, physical, j)
             /\ PaddedAt(logical, physical, j) \div physical = j \div logical
             /\ PaddedAt(logical, physical, j) % physical = j % logical
  <2> DEFINE b == j \div logical
             c == j % logical
  <2>1. b \in Nat /\ c \in 0..(logical - 1) /\ j = b * logical + c
    BY DivMod
  <2>2. PaddedAt(logical, physical, j) = b * physical + c
    BY DEF PaddedAt
  <2> HIDE DEF b, c
  <2>3. c \in 0..(physical - 1)
    BY <2>1
  <2>4. /\ b * physical + c \in Nat
        /\ (b * physical + c) \div physical = b
        /\ (b * physical + c) % physical = c
    BY <2>1, <2>3, Parts
  <2>5. b * logical <= b * physical
    <3>1. PICK e \in Nat : physical = logical + e
      <4>1. physical - logical \in Nat /\ physical = logical + (physical - logical)
        OBVIOUS
      <4> QED
        BY <4>1
    <3>2. b * physical = b * logical + b * e /\ b * e \in Nat /\ b * logical \in Nat
      BY <2>1, <3>1
    <3> QED
      BY <3>2
  <2>6. j <= b * physical + c
    <3>1. b * logical \in Nat /\ b * physical \in Nat
      BY <2>1
    <3> DEFINE x == b * logical
               y == b * physical
    <3> HIDE DEF x, y
    <3>2. x + c <= y + c
      BY <2>1, <2>5, <3>1 DEF x, y
    <3> QED
      BY <2>1, <3>2 DEF x, y
  <2> QED
    BY <2>2, <2>4, <2>6 DEF b, c
<1>2. ASSUME NEW i \in Nat, NEW j \in Nat,
             PaddedAt(logical, physical, i) = PaddedAt(logical, physical, j)
      PROVE  i = j
  <2>1. i \div logical = j \div logical /\ i % logical = j % logical
    BY <1>1, <1>2
  <2>2. i = (i \div logical) * logical + (i % logical)
        /\ j = (j \div logical) * logical + (j % logical)
    BY DivMod
  <2> QED
    BY <2>1, <2>2
<1> QED
  BY <1>1, <1>2

\* No move at all fills what is in its place.
LEMMA PullsNothing ==
  ASSUME NEW logical, NEW physical, NEW lo \in Nat, NEW hi \in Nat,
         \A j \in lo..(hi - 1) : PaddedAt(logical, physical, j) = j
  PROVE  PullsOver(<<>>, lo, hi, logical, physical)
<1>1. Len(<<>>) = 0 /\ \A w \in 1..0 : FALSE
  OBVIOUS
<1>2. \A w, v \in 1..0 : FALSE
  OBVIOUS
<1> QED
  BY <1>1, <1>2 DEF PullsOver

\* One move fills the places it covers.
LEMMA PullsOnce ==
  ASSUME NEW logical, NEW physical, NEW lo \in Nat, NEW hi \in Nat, NEW m,
         Pull(m, logical, physical), lo <= m.target, m.target + m.extent <= hi,
         \A j \in lo..(hi - 1) : j \in m.target..(m.target + m.extent - 1)
  PROVE  PullsOver(<<m>>, lo, hi, logical, physical)
<1> DEFINE s == <<m>>
<1>1. Len(s) = 1 /\ s[1] = m
  OBVIOUS
<1>2. \A w \in 1..Len(s) : w = 1
  BY <1>1
<1>3. 1 \in 1..Len(s)
  BY <1>1
<1> HIDE DEF s
<1>4. \A w \in 1..Len(s) : /\ Pull(s[w], logical, physical)
                            /\ lo <= s[w].target /\ s[w].target + s[w].extent <= hi
  BY <1>1, <1>2
<1>5. \A w, v \in 1..Len(s) : ~(w < v)
  BY <1>2
<1>6. PullsOver(s, lo, hi, logical, physical)
  BY <1>1, <1>3, <1>4, <1>5 DEF PullsOver
<1> QED
  BY <1>6 DEF s

\* The moves of a block from an offset on fill the rest of it.
LEMMA BlockPulls ==
  ASSUME NEW blocks \in Nat \ {0}, NEW b \in 0..(blocks - 1),
         NEW physical \in Nat \ {0}, NEW logical \in Nat \ {0}, NEW maxExtent \in Nat \ {0},
         logical <= physical, NEW it, BlockWalk(it, blocks, b, logical, physical, maxExtent)
  PROVE  PullsOver(it[0], b * logical, b * logical + logical, logical, physical)
<1> DEFINE M == AxisMoves(blocks, physical, maxExtent)
           base == b * logical
           mv(c) == MoveAt(b, logical, physical, maxExtent, c)
           T == {k \in Nat : k <= logical =>
                   \A c \in 0..logical : logical - k <= c
                     => PullsOver(it[c], base + c, base + logical, logical, physical)}
<1>1. base \in Nat /\ b \in Nat
  BY SMT
<1>2. /\ it[logical] = <<>>
      /\ \A c \in 0..logical : it[c] \in Seq(M)
      /\ \A c \in 0..(logical - 1) :
           it[c] = IF mv(c).source = mv(c).target THEN it[c + mv(c).extent]
                   ELSE <<mv(c)>> \o it[c + mv(c).extent]
  BY DEF BlockWalk
<1>3. \A c \in 0..(logical - 1) : mv(c) \in M /\ mv(c).extent \in 1..(logical - c)
  BY MoveAtTyped
<1>4. \A c \in 0..(logical - 1) : mv(c).target = base + c /\ mv(c).source = b * physical + c
  BY DEF MoveAt
<1>5. \A c \in 0..(logical - 1) : PaddedAt(logical, physical, base + c) = b * physical + c
                                  /\ (base + c) % logical = c
  BY <1>1, PaddedAll
<1> HIDE DEF mv, M
<1>6. ASSUME NEW c \in 0..(logical - 1)
      PROVE  PullsOver(IF mv(c).source = mv(c).target THEN <<>> ELSE <<mv(c)>>,
                       base + c, base + (c + mv(c).extent), logical, physical)
  <2> DEFINE e == mv(c).extent
             lo == base + c
             hi == base + (c + e)
  <2>1. e \in Nat \ {0} /\ c + e <= logical /\ c \in Nat
    BY <1>3
  <2>2. \A j \in lo..(hi - 1) :
          \E k \in 0..(logical - 1) : j = base + k /\ c <= k /\ k < c + e
    <3> TAKE j \in lo..(hi - 1)
    <3> HIDE DEF e, base
    <3>1. j - base \in 0..(logical - 1) /\ j = base + (j - base) /\ c <= j - base
          /\ j - base < c + e
      BY <1>1, <2>1
    <3> QED
      BY <3>1
  <2>3. base + c \in Nat /\ base + (c + e) \in Nat
    BY <1>1, <2>1
  <2>4. CASE mv(c).source = mv(c).target
    <3>1. b * physical = base
      <4>1. b * physical + c = base + c
        BY <1>4, <2>4
      <4>2. b * physical \in Nat
        BY <1>1
      <4> DEFINE y == b * physical
      <4> HIDE DEF y, base
      <4>3. y = base
        BY <1>1, <2>1, <4>1, <4>2 DEF y
      <4> QED
        BY <4>3 DEF y
    <3>2. \A j \in lo..(hi - 1) : PaddedAt(logical, physical, j) = j
      <4> HIDE DEF lo, hi, base, e
      <4> QED
        BY <1>5, <2>2, <3>1
    <3> HIDE DEF e, base
    <3>4. PullsOver(<<>>, base + c, base + (c + e), logical, physical)
      <4>1. lo \in Nat /\ hi \in Nat
        BY <2>3
      <4> HIDE DEF lo, hi
      <4>2. PullsOver(<<>>, lo, hi, logical, physical)
        BY <3>2, <4>1, PullsNothing
      <4> QED
        BY <4>2 DEF lo, hi
    <3> QED
      BY <2>4, <3>4 DEF e
  <2>5. CASE mv(c).source # mv(c).target
    <3>2. mv(c).target = base + c /\ mv(c).extent = e
      BY <1>4
    <3>3. Pull(mv(c), logical, physical)
      <4>1. (mv(c).target % logical) + mv(c).extent <= logical
        BY <1>5, <2>1, <3>2
      <4>2. mv(c).source = PaddedAt(logical, physical, mv(c).target)
        BY <1>4, <1>5
      <4> HIDE DEF e, base
      <4> QED
        BY <2>1, <2>3, <2>5, <3>2, <4>1, <4>2 DEF Pull
    <3>4. base + (c + e) = (base + c) + e
      <4> HIDE DEF e, base
      <4> QED
        BY <1>1, <2>1
    <3> HIDE DEF e, base
    <3>5. PullsOver(<<mv(c)>>, base + c, base + (c + e), logical, physical)
      <4> DEFINE m == mv(c)
      <4>1. lo \in Nat /\ hi \in Nat /\ m.target = lo /\ m.extent = e /\ hi = lo + e
            /\ Pull(m, logical, physical)
        BY <2>3, <3>2, <3>3, <3>4
      <4> HIDE DEF lo, hi, m
      <4>2. /\ lo <= m.target /\ m.target + m.extent <= hi
            /\ \A j \in lo..(hi - 1) : j \in m.target..(m.target + m.extent - 1)
        BY <2>1, <4>1
      <4>3. PullsOver(<<m>>, lo, hi, logical, physical)
        BY <4>1, <4>2, PullsOnce
      <4> QED
        BY <4>3 DEF lo, hi, m
    <3> QED
      BY <2>5, <3>5 DEF e
  <2> QED
    BY <2>4, <2>5
<1>7. 0 \in T
  <2>1. \A c \in 0..logical : logical <= c => c = logical
    OBVIOUS
  <2>4. logical - 0 = logical
    OBVIOUS
  <2>2. base + logical \in Nat
    BY <1>1
  <2> HIDE DEF base
  <2>3. PullsOver(<<>>, base + logical, base + logical, logical, physical)
    <3> DEFINE x == base + logical
    <3>1. x \in Nat
      BY <2>2
    <3> HIDE DEF x
    <3>2. \A j \in x..(x - 1) : PaddedAt(logical, physical, j) = j
      BY <3>1
    <3>3. PullsOver(<<>>, x, x, logical, physical)
      BY <3>1, <3>2, PullsNothing
    <3> QED
      BY <3>3 DEF x
  <2> QED
    BY <1>2, <2>1, <2>3, <2>4
<1>8. ASSUME NEW k \in Nat, k \in T PROVE k + 1 \in T
  <2> SUFFICES ASSUME k + 1 <= logical, NEW c \in 0..logical, logical - (k + 1) <= c
               PROVE  PullsOver(it[c], base + c, base + logical, logical, physical)
    OBVIOUS
  <2>1. CASE logical - k <= c
    BY <1>8, <2>1
  <2>2. CASE ~(logical - k <= c)
    <3> DEFINE e == mv(c).extent
               s == IF mv(c).source = mv(c).target THEN <<>> ELSE <<mv(c)>>
    <3>1. c \in 0..(logical - 1) /\ k <= logical
      BY <2>2
    <3>2. e \in Nat \ {0} /\ c + e \in 0..logical /\ logical - k <= c + e
      <4>1. e \in 1..(logical - c)
        BY <1>3, <3>1
      <4> HIDE DEF e
      <4> QED
        BY <2>2, <3>1, <4>1
    <3> HIDE DEF base
    <3>3. PullsOver(it[c + e], base + (c + e), base + logical, logical, physical)
      BY <1>8, <3>1, <3>2
    <3>4. PullsOver(s, base + c, base + (c + e), logical, physical)
      BY <1>6, <3>1
    <3>5. it[c] = s \o it[c + e] /\ s \in Seq(M) /\ it[c + e] \in Seq(M)
      <4>1. it[c + e] \in Seq(M)
        BY <1>2, <3>2
      <4>2. \A q \in Seq(M) : <<>> \o q = q
        BY ConcatEmptySeq
      <4>3. CASE mv(c).source = mv(c).target
        <5>1. s = <<>> /\ it[c] = it[c + e] /\ <<>> \in Seq(M)
          BY <1>2, <3>1, <4>3, EmptySeq
        <5> QED
          BY <4>1, <4>2, <5>1
      <4>4. CASE mv(c).source # mv(c).target
        <5>1. s = <<mv(c)>> /\ it[c] = <<mv(c)>> \o it[c + e]
          BY <1>2, <3>1, <4>4
        <5>2. <<mv(c)>> \in Seq(M)
          BY <1>3, <3>1
        <5> QED
          BY <4>1, <5>1, <5>2
      <4> QED
        BY <4>3, <4>4
    <3>6. base + c <= base + (c + e) /\ base + (c + e) <= base + logical
      <4> HIDE DEF e
      <4> QED
        BY <1>1, <3>1, <3>2
    <3> HIDE DEF s, e
    <3> QED
      BY <3>3, <3>4, <3>5, <3>6, PullsTogether
  <2> QED
    BY <2>1, <2>2
<1>9. Nat \subseteq T
  <2> HIDE DEF T
  <2> QED
    BY <1>7, <1>8, SetInduction
<1>10. PullsOver(it[0], base + 0, base + logical, logical, physical)
  <2>1. logical \in T /\ logical <= logical /\ 0 \in 0..logical /\ logical - logical <= 0
    BY <1>9
  <2> QED
    BY <2>1
<1>11. base + 0 = base
  BY <1>1
<1> QED
  BY <1>10, <1>11

\* The moves of an axis fill all of it.
LEMMA AxisPulls ==
  ASSUME NEW blocks \in Nat \ {0}, NEW physical \in Nat \ {0}, NEW logical \in Nat \ {0},
         NEW maxExtent \in Nat \ {0}, logical <= physical
  PROVE  PullsOver(BuildAxisEdgePaddingMoves(blocks, logical, physical, maxExtent),
                   0, blocks * logical, logical, physical)
<1> DEFINE M == AxisMoves(blocks, physical, maxExtent)
           f == [b \in 1..blocks |-> BlockMoves(b - 1, logical, physical, maxExtent)]
<1>1. BuildAxisEdgePaddingMoves(blocks, logical, physical, maxExtent)
        = IF logical = physical THEN <<>> ELSE FlattenSeq(f)
  BY DEF BuildAxisEdgePaddingMoves, BlockMoves
<1>2. \A b \in 1..blocks :
        /\ BlockMoves(b - 1, logical, physical, maxExtent) \in Seq(M)
        /\ PullsOver(BlockMoves(b - 1, logical, physical, maxExtent),
                     (b - 1) * logical, (b - 1) * logical + logical, logical, physical)
  <2> TAKE b \in 1..blocks
  <2>1. b - 1 \in 0..(blocks - 1)
    OBVIOUS
  <2>2. PICK it : /\ BlockWalk(it, blocks, b - 1, logical, physical, maxExtent)
                  /\ BlockMoves(b - 1, logical, physical, maxExtent) = it[0]
    <3> DEFINE c == b - 1
    <3> HIDE DEF c
    <3>1. c \in 0..(blocks - 1)
      BY <2>1 DEF c
    <3>2. BlockWalked(blocks, c, logical, physical, maxExtent)
      BY <3>1, BlockWalks
    <3> QED
      BY <3>2 DEF c, BlockWalked
  <2>3. PullsOver(it[0], (b - 1) * logical, (b - 1) * logical + logical, logical, physical)
    BY <2>1, <2>2, BlockPulls
  <2> QED
    BY <2>1, <2>2, <2>3, BlockMovesTyped
<1> HIDE DEF M
<1>3. f \in [1..blocks -> Seq(M)]
      /\ \A b \in 1..blocks :
           PullsOver(f[b], (b - 1) * logical, (b - 1) * logical + logical, logical, physical)
  BY <1>2
<1> HIDE DEF f
<1>4. PullsOver(FlattenSeq(f), 0, blocks * logical, logical, physical)
  <2>1. PICK flat : Flattens(flat, M, blocks, f) /\ FlattenSeq(f) = flat[blocks]
    BY <1>3, FlattenIs
  <2>2. /\ \A k \in 1..blocks : flat[k] \in Seq(M) /\ f[k] \in Seq(M)
        /\ flat[1] = f[1] /\ \A k \in 2..blocks : flat[k] = flat[k - 1] \o f[k]
    BY <1>3, <2>1 DEF Flattens
  <2> DEFINE T == {d \in Nat : d + 1 <= blocks
                     => PullsOver(flat[d + 1], 0, (d + 1) * logical, logical, physical)}
  <2>3. 0 \in T
    <3>1. 0 + 1 = 1 /\ 1 \in 1..blocks /\ (1 - 1) * logical = 0
          /\ (1 - 1) * logical + logical = (0 + 1) * logical
      OBVIOUS
    <3>2. PullsOver(f[1], 0, (0 + 1) * logical, logical, physical)
      <4>1. PullsOver(f[1], (1 - 1) * logical, (1 - 1) * logical + logical, logical, physical)
        BY <1>3, <3>1
      <4> QED
        BY <3>1, <4>1
    <3> QED
      BY <2>2, <3>1, <3>2
  <2>4. ASSUME NEW d \in Nat, d \in T PROVE d + 1 \in T
    <3> DEFINE e == d + 1
    <3> SUFFICES ASSUME e + 1 <= blocks
                 PROVE  PullsOver(flat[e + 1], 0, (e + 1) * logical, logical, physical)
      OBVIOUS
    <3>1. e \in Nat /\ e \in 1..blocks /\ e + 1 \in 2..blocks /\ (e + 1) - 1 = e
          /\ e + 1 \in 1..blocks
      OBVIOUS
    <3>2. PullsOver(flat[e], 0, e * logical, logical, physical)
      BY <2>4, <3>1
    <3> HIDE DEF e
    <3>3. flat[e + 1] = flat[e] \o f[e + 1] /\ flat[e] \in Seq(M) /\ f[e + 1] \in Seq(M)
      BY <2>2, <3>1
    <3>4. PullsOver(f[e + 1], e * logical, e * logical + logical, logical, physical)
      BY <1>3, <3>1
    <3>5. e * logical + logical = (e + 1) * logical /\ e * logical \in Nat
          /\ 0 <= e * logical /\ e * logical <= e * logical + logical
      BY <3>1
    <3>6. PullsOver(flat[e] \o f[e + 1], 0, e * logical + logical, logical, physical)
      <4> DEFINE x == e * logical
                 y == x + logical
      <4>1. PullsOver(flat[e], 0, x, logical, physical) /\ PullsOver(f[e + 1], x, y, logical, physical)
            /\ 0 <= x /\ x <= y
        BY <3>2, <3>4, <3>5
      <4> HIDE DEF x, y
      <4>2. PullsOver(flat[e] \o f[e + 1], 0, y, logical, physical)
        BY <3>3, <4>1, PullsTogether
      <4> QED
        BY <4>2 DEF x, y
    <3> QED
      BY <3>3, <3>5, <3>6
  <2>5. Nat \subseteq T
    <3> HIDE DEF T
    <3> QED
      BY <2>3, <2>4, SetInduction
  <2>6. blocks - 1 \in T /\ (blocks - 1) + 1 = blocks /\ (blocks - 1) + 1 <= blocks
    BY <2>5
  <2>7. PullsOver(flat[(blocks - 1) + 1], 0, ((blocks - 1) + 1) * logical, logical, physical)
    BY <2>6
  <2> QED
    BY <2>1, <2>6, <2>7
<1>5. CASE logical = physical
  <2>1. \A j \in Nat : PaddedAt(logical, physical, j) = j
    BY <1>5, DivMod DEF PaddedAt
  <2>2. Len(<<>>) = 0 /\ 1..0 = {}
    OBVIOUS
  <2> DEFINE hi == blocks * logical
  <2>3. hi \in Nat
    OBVIOUS
  <2> HIDE DEF hi
  <2>4. \A j \in 0..(hi - 1) : j \in Nat
    BY <2>3
  <2>5. PullsOver(<<>>, 0, hi, logical, physical)
    BY <2>1, <2>2, <2>3, <2>4 DEF PullsOver
  <2> QED
    BY <1>1, <1>5, <2>5 DEF hi
<1> QED
  BY <1>1, <1>4, <1>5

(***************************************************************************)
(* Waves: what an edge phase does at one time on every line.               *)
(***************************************************************************)

\* A cell of a place of a line is a location of that line.
LEMMA SpotPlace ==
  ASSUME NEW g, NEW dir \in Directions, NEW q \in LinesOf(g, dir), NEW x, NEW y, NEW exec,
         GeometryOK(g), x \in Places(g, dir), y \in 0..(Cross(g, dir) - 1)
  PROVE  /\ LocationOK(g, exec, SpotOn(g, dir, q, x, y))
         /\ OnLine(g, dir, q, SpotOn(g, dir, q, x, y))
<1>1. x % Side(g, dir) \in 0..(Side(g, dir) - 1)
  BY PlaceIs
<1>2. RankOn(g, dir, q, x) \in RanksOf(g)
  BY RankOnTyped
<1>3. CASE dir = "cols"
  <2>1. SpotOn(g, dir, q, x, y) = InMatrix(RankOn(g, dir, q, x), y, x % g.cols)
        /\ y \in 0..(g.rows - 1) /\ x % g.cols \in 0..(g.cols - 1)
    BY <1>1, <1>3 DEF SpotOn, Side, Cross
  <2>2. MatrixPlace(g, SpotOn(g, dir, q, x, y))
    BY <1>2, <2>1 DEF MatrixPlace
  <2>3. SpotOn(g, dir, q, x, y)[2] = RankOn(g, dir, q, x)
    BY <2>1 DEF InMatrix
  <2> QED
    BY <2>2, <2>3 DEF LocationOK, OnLine
<1>4. CASE dir = "rows"
  <2>1. SpotOn(g, dir, q, x, y) = InMatrix(RankOn(g, dir, q, x), x % g.rows, y)
        /\ y \in 0..(g.cols - 1) /\ x % g.rows \in 0..(g.rows - 1)
    BY <1>1, <1>4 DEF SpotOn, Side, Cross
  <2>2. MatrixPlace(g, SpotOn(g, dir, q, x, y))
    BY <1>2, <2>1 DEF MatrixPlace
  <2>3. SpotOn(g, dir, q, x, y)[2] = RankOn(g, dir, q, x)
    BY <2>1 DEF InMatrix
  <2> QED
    BY <2>2, <2>3 DEF LocationOK, OnLine
<1> QED
  BY <1>3, <1>4 DEF Directions

\* A wave: `extent` places from one place of a line to another, at a time.
Wave(x, z, n, seq) == [from |-> x, to |-> z, extent |-> n, seq |-> seq]

\* Its step on line q, and the steps of n waves on all lines.
WaveStep(g, dir, ph, v, q) ==
  Step(ph, v.seq, Move, RankOn(g, dir, q, v.from), RankOn(g, dir, q, v.to),
       Band(g, dir, v.from, v.extent), Band(g, dir, v.to, v.extent))
WaveSteps(g, dir, ph, n, waves) ==
  {WaveStep(g, dir, ph, waves[w], q) : w \in 1..n, q \in LinesOf(g, dir)}

\* Waves within ranks, no two at one time.
WavesOK(g, dir, n, waves) ==
  /\ n \in Nat
  /\ \A w \in 1..n : /\ waves[w].seq \in Int
                     /\ Segment(g, dir, waves[w].from, waves[w].extent)
                     /\ Segment(g, dir, waves[w].to, waves[w].extent)
  /\ \A w, v \in 1..n : w # v => waves[w].seq # waves[v].seq

\* What a wave's step is.
LEMMA WaveStepIs ==
  ASSUME NEW g, NEW dir, NEW ph, NEW v, NEW q,
         Segment(g, dir, v.from, v.extent), Segment(g, dir, v.to, v.extent)
  PROVE  /\ RoundOf(WaveStep(g, dir, ph, v, q)) = <<ph, v.seq, Move>>
         /\ WaveStep(g, dir, ph, v, q).to = RankOn(g, dir, q, v.to)
         /\ WaveStep(g, dir, ph, v, q).target = Band(g, dir, v.to, v.extent)
         /\ LineMove(g, dir, q, WaveStep(g, dir, ph, v, q), v.from, v.to, v.extent)
         /\ StaysOn(g, dir, q, WaveStep(g, dir, ph, v, q))
<1> DEFINE s == WaveStep(g, dir, ph, v, q)
<1>1. /\ s.phase = ph /\ s.seq = v.seq /\ s.kind = Move
      /\ s.from = RankOn(g, dir, q, v.from) /\ s.to = RankOn(g, dir, q, v.to)
      /\ s.source = Band(g, dir, v.from, v.extent) /\ s.target = Band(g, dir, v.to, v.extent)
  BY DEF WaveStep, Step
<1>2. v.from \in Places(g, dir) /\ v.to \in Places(g, dir)
  BY DEF Segment
<1> HIDE DEF s
<1>3. RoundOf(s) = <<ph, v.seq, Move>> /\ LineMove(g, dir, q, s, v.from, v.to, v.extent)
  BY <1>1 DEF RoundOf, LineMove
<1>4. StaysOn(g, dir, q, s)
  BY <1>1, <1>2 DEF StaysOn
<1> QED
  BY <1>1, <1>3, <1>4 DEF s

\* The step of a wave spares the cells of other lines, and of its own line those
\* outside its target.
LEMMA WaveSpares ==
  ASSUME NEW g, NEW dir \in Directions, NEW q \in LinesOf(g, dir), NEW u \in LinesOf(g, dir),
         NEW ph, NEW v, NEW x, NEW y, GeometryOK(g),
         Segment(g, dir, v.from, v.extent), Segment(g, dir, v.to, v.extent),
         x \in Places(g, dir), y \in 0..(Cross(g, dir) - 1),
         u = q => x \notin (v.to)..(v.to + v.extent - 1)
  PROVE  Spared(WaveStep(g, dir, ph, v, u), SpotOn(g, dir, q, x, y))
<1> DEFINE s == WaveStep(g, dir, ph, v, u)
<1>1. /\ s.to = RankOn(g, dir, u, v.to) /\ s.target = Band(g, dir, v.to, v.extent)
      /\ StaysOn(g, dir, u, s)
  BY WaveStepIs
<1>2. OnLine(g, dir, q, SpotOn(g, dir, q, x, y))
  BY SpotPlace
<1> HIDE DEF s
<1>3. CASE u # q
  <2>1. Spared(s, SpotOn(g, dir, q, x, y))
    BY <1>1, <1>2, <1>3, OtherLineSpares
  <2> QED
    BY <2>1 DEF s
<1>4. CASE u = q
  <2> DEFINE z == v.to
             n == v.extent
  <2>1. /\ s.to = RankOn(g, dir, q, z) /\ s.target = Band(g, dir, z, n)
        /\ Segment(g, dir, z, n) /\ x \notin z..(z + n - 1)
    BY <1>1, <1>4
  <2> HIDE DEF z, n
  <2>2. Spared(s, SpotOn(g, dir, q, x, y))
    BY <2>1, TargetSpares
  <2> QED
    BY <2>2 DEF s
<1> QED
  BY <1>3, <1>4

\* Data of a place no wave has in its target stays there.
LEMMA WavesStay ==
  ASSUME NEW g, NEW dir \in Directions, NEW q \in LinesOf(g, dir), NEW ph, NEW n, NEW waves,
         NEW x, NEW y, GeometryOK(g), WavesOK(g, dir, n, waves),
         x \in Places(g, dir), y \in 0..(Cross(g, dir) - 1),
         \A w \in 1..n : x \notin (waves[w].to)..(waves[w].to + waves[w].extent - 1)
  PROVE  Leads(g, "edge", WaveSteps(g, dir, ph, n, waves),
               SpotOn(g, dir, q, x, y), SpotOn(g, dir, q, x, y))
<1> DEFINE S == WaveSteps(g, dir, ph, n, waves)
           loc == SpotOn(g, dir, q, x, y)
<1>1. LocationOK(g, "edge", loc)
  BY SpotPlace
<1>2. ASSUME NEW w \in 1..n, NEW u \in LinesOf(g, dir)
      PROVE  Spared(WaveStep(g, dir, ph, waves[w], u), loc)
  <2>1. /\ Segment(g, dir, waves[w].from, waves[w].extent)
        /\ Segment(g, dir, waves[w].to, waves[w].extent)
        /\ x \notin (waves[w].to)..(waves[w].to + waves[w].extent - 1)
    BY DEF WavesOK
  <2> DEFINE v == waves[w]
  <2> HIDE DEF v
  <2>2. Spared(WaveStep(g, dir, ph, v, u), SpotOn(g, dir, q, x, y))
    BY <2>1, WaveSpares DEF v
  <2> QED
    BY <2>2 DEF v
<1>3. \A s \in S : Spared(s, loc)
  BY <1>2 DEF WaveSteps
<1> HIDE DEF S, loc
<1>4. Leads(g, "edge", S, loc, loc)
  BY <1>1, <1>3, LeadsNowhere
<1> QED
  BY <1>4 DEF S, loc

\* Data of a place wave w takes is taken by it, if the earlier waves do not write
\* where it was nor the later ones where it is then.
LEMMA WavesLead ==
  ASSUME NEW g, NEW dir \in Directions, NEW q \in LinesOf(g, dir), NEW ph, NEW n, NEW waves,
         NEW w \in 1..n, NEW d, NEW x, NEW z, NEW y, GeometryOK(g), WavesOK(g, dir, n, waves),
         ph \in Int, d \in 0..(waves[w].extent - 1), y \in 0..(Cross(g, dir) - 1),
         x = waves[w].from + d, z = waves[w].to + d,
         \A v \in 1..n : waves[v].seq < waves[w].seq
           => x \notin (waves[v].to)..(waves[v].to + waves[v].extent - 1),
         \A v \in 1..n : waves[v].seq > waves[w].seq
           => z \notin (waves[v].to)..(waves[v].to + waves[v].extent - 1)
  PROVE  Leads(g, "edge", WaveSteps(g, dir, ph, n, waves),
               SpotOn(g, dir, q, x, y), SpotOn(g, dir, q, z, y))
<1> DEFINE S == WaveSteps(g, dir, ph, n, waves)
           loc == SpotOn(g, dir, q, x, y)
           new == SpotOn(g, dir, q, z, y)
           s == WaveStep(g, dir, ph, waves[w], q)
<1>1. \A v \in 1..n : /\ Segment(g, dir, waves[v].from, waves[v].extent)
                      /\ Segment(g, dir, waves[v].to, waves[v].extent)
                      /\ waves[v].seq \in Int
                      /\ v # w => waves[v].seq # waves[w].seq
  BY DEF WavesOK
<1>2. x \in Places(g, dir) /\ z \in Places(g, dir)
  <2> DEFINE a == waves[w].from
             b == waves[w].to
             m == waves[w].extent
  <2>1. Segment(g, dir, a, m) /\ Segment(g, dir, b, m) /\ x = a + d /\ z = b + d
        /\ d \in 0..(m - 1)
    BY <1>1
  <2> HIDE DEF a, b, m
  <2>2. a + d \in Places(g, dir) /\ b + d \in Places(g, dir)
    BY <2>1, SegmentIs
  <2> QED
    BY <2>1, <2>2
<1>3. LocationOK(g, "edge", loc) /\ LocationOK(g, "edge", new)
  BY <1>2, SpotPlace
<1>4. s \in S
  BY DEF WaveSteps
<1>5. Carried(s, loc, new)
  <2> DEFINE v == waves[w]
             a == v.from
             b == v.to
             m == v.extent
  <2>1. Segment(g, dir, a, m) /\ Segment(g, dir, b, m) /\ x = a + d /\ z = b + d
        /\ d \in 0..(m - 1)
    BY <1>1
  <2>2. LineMove(g, dir, q, s, a, b, m)
    <3>1. Segment(g, dir, v.from, v.extent) /\ Segment(g, dir, v.to, v.extent)
      BY <1>1
    <3> HIDE DEF v
    <3>2. LineMove(g, dir, q, WaveStep(g, dir, ph, v, q), v.from, v.to, v.extent)
      BY <3>1, WaveStepIs
    <3> QED
      BY <3>2 DEF v
  <2> HIDE DEF a, b, m, s, v
  <2>3. Carried(s, SpotOn(g, dir, q, a + d, y), SpotOn(g, dir, q, b + d, y))
    BY <2>1, <2>2, MoveTakes
  <2> QED
    BY <2>1, <2>3
<1>6. \A v \in 1..n, u \in LinesOf(g, dir) :
        RoundOf(WaveStep(g, dir, ph, waves[v], u)) = <<ph, waves[v].seq, Move>>
  <2> TAKE v \in 1..n, u \in LinesOf(g, dir)
  <2> DEFINE t == waves[v]
  <2>1. Segment(g, dir, t.from, t.extent) /\ Segment(g, dir, t.to, t.extent)
    BY <1>1
  <2> HIDE DEF t
  <2>2. RoundOf(WaveStep(g, dir, ph, t, u)) = <<ph, t.seq, Move>>
    BY <2>1, WaveStepIs
  <2> QED
    BY <2>2 DEF t
<1>7. \A a, b \in Int : RoundBefore(<<ph, a, Move>>, <<ph, b, Move>>) <=> a < b
  BY DEF RoundBefore, Move
<1>8. ASSUME NEW v \in 1..n, NEW u \in LinesOf(g, dir), NEW t,
             t = WaveStep(g, dir, ph, waves[v], u), t # s
      PROVE  /\ ~RoundBefore(RoundOf(s), RoundOf(t)) => Spared(t, loc)
             /\ ~RoundBefore(RoundOf(t), RoundOf(s)) => Spared(t, new)
  <2>1. u = q => v # w
    BY <1>8
  <2>2. /\ RoundOf(t) = <<ph, waves[v].seq, Move>> /\ RoundOf(s) = <<ph, waves[w].seq, Move>>
    BY <1>6, <1>8
  <2>3. /\ RoundBefore(RoundOf(s), RoundOf(t)) <=> waves[w].seq < waves[v].seq
        /\ RoundBefore(RoundOf(t), RoundOf(s)) <=> waves[v].seq < waves[w].seq
    BY <1>1, <1>7, <2>2
  <2> DEFINE o == waves[v]
  <2>4. /\ Segment(g, dir, o.from, o.extent) /\ Segment(g, dir, o.to, o.extent)
        /\ t = WaveStep(g, dir, ph, o, u)
        /\ o.seq < waves[w].seq => x \notin (o.to)..(o.to + o.extent - 1)
        /\ o.seq > waves[w].seq => z \notin (o.to)..(o.to + o.extent - 1)
        /\ u = q => o.seq # waves[w].seq
        /\ o.seq \in Int /\ waves[w].seq \in Int
        /\ RoundBefore(RoundOf(s), RoundOf(t)) <=> waves[w].seq < o.seq
        /\ RoundBefore(RoundOf(t), RoundOf(s)) <=> o.seq < waves[w].seq
    BY <1>1, <1>8, <2>1, <2>3
  <2> DEFINE k == waves[w].seq
  <2> HIDE DEF o, s, k
  <2>5. ASSUME ~RoundBefore(RoundOf(s), RoundOf(t)) PROVE Spared(t, loc)
    <3>1. u = q => x \notin (o.to)..(o.to + o.extent - 1)
      <4>1. u = q => o.seq < k
        BY <2>4, <2>5 DEF k
      <4> QED
        BY <2>4, <4>1 DEF k
    <3>2. Spared(WaveStep(g, dir, ph, o, u), SpotOn(g, dir, q, x, y))
      BY <1>2, <2>4, <3>1, WaveSpares
    <3> QED
      BY <2>4, <3>2
  <2>6. ASSUME ~RoundBefore(RoundOf(t), RoundOf(s)) PROVE Spared(t, new)
    <3>1. u = q => z \notin (o.to)..(o.to + o.extent - 1)
      <4>1. u = q => o.seq > k
        BY <2>4, <2>6 DEF k
      <4> QED
        BY <2>4, <4>1 DEF k
    <3>2. Spared(WaveStep(g, dir, ph, o, u), SpotOn(g, dir, q, z, y))
      BY <1>2, <2>4, <3>1, WaveSpares
    <3> QED
      BY <2>4, <3>2
  <2> QED
    BY <2>5, <2>6
<1>9. \A t \in S : t # s => /\ ~RoundBefore(RoundOf(s), RoundOf(t)) => Spared(t, loc)
                            /\ ~RoundBefore(RoundOf(t), RoundOf(s)) => Spared(t, new)
  <2> TAKE t \in S
  <2>1. PICK v \in 1..n, u \in LinesOf(g, dir) : t = WaveStep(g, dir, ph, waves[v], u)
    BY DEF WaveSteps
  <2> HIDE DEF S, loc, new, s
  <2> QED
    BY <1>8, <2>1
<1> HIDE DEF S, loc, new, s
<1>10. Leads(g, "edge", S, loc, new)
  BY <1>3, <1>4, <1>5, <1>9, LeadsOnce
<1> QED
  BY <1>10 DEF S, loc, new

(***************************************************************************)
(* The courses of data through one phase of the edge padding.              *)
(***************************************************************************)

\* The moves of an axis as waves, and as those of the way back.
TowardsEdge(moves) ==
  [w \in 1..Len(moves) |-> Wave(moves[w].source, moves[w].target, moves[w].extent, w - 1)]
FromEdge(moves, last) ==
  [w \in 1..Len(moves) |->
     Wave(moves[w].target, moves[w].source, moves[w].extent, last - (w - 1))]

\* Moves that fill an axis, within ranks.
AxisOK(g, dir, logical, moves) ==
  /\ logical \in Nat \ {0} /\ logical <= Side(g, dir) /\ Len(moves) \in Nat
  /\ PullsOver(moves, 0, Procs(g, dir) * logical, logical, Side(g, dir))
  /\ \A w \in 1..Len(moves) : /\ Segment(g, dir, moves[w].source, moves[w].extent)
                              /\ Segment(g, dir, moves[w].target, moves[w].extent)

\* The waves of such moves are in order, both ways.
LEMMA AxisWaves ==
  ASSUME NEW g, NEW dir, NEW logical, NEW moves, NEW last \in Int, AxisOK(g, dir, logical, moves)
  PROVE  /\ WavesOK(g, dir, Len(moves), TowardsEdge(moves))
         /\ WavesOK(g, dir, Len(moves), FromEdge(moves, last))
<1> DEFINE n == Len(moves)
           W == TowardsEdge(moves)
           V == FromEdge(moves, last)
<1>1. n \in Nat
  BY DEF AxisOK
<1>2. \A w \in 1..n : /\ W[w].from = moves[w].source /\ W[w].to = moves[w].target
                      /\ W[w].extent = moves[w].extent /\ W[w].seq = w - 1
                      /\ V[w].from = moves[w].target /\ V[w].to = moves[w].source
                      /\ V[w].extent = moves[w].extent /\ V[w].seq = last - (w - 1)
  BY DEF TowardsEdge, FromEdge, Wave
<1>3. \A w \in 1..n : /\ Segment(g, dir, moves[w].source, moves[w].extent)
                      /\ Segment(g, dir, moves[w].target, moves[w].extent)
  BY DEF AxisOK
<1> HIDE DEF W, V, n
<1>4. \A w \in 1..n : w - 1 \in Int /\ last - (w - 1) \in Int
  BY <1>1
<1>5. \A w, v \in 1..n : w # v => w - 1 # v - 1 /\ last - (w - 1) # last - (v - 1)
  BY <1>1
<1>6. WavesOK(g, dir, n, W)
  BY <1>1, <1>2, <1>3, <1>4, <1>5 DEF WavesOK
<1>7. WavesOK(g, dir, n, V)
  BY <1>1, <1>2, <1>3, <1>4, <1>5 DEF WavesOK
<1> QED
  BY <1>6, <1>7 DEF n, W, V

\* A move covers the places of its target, which come from those of its source.
PullIs(m, logical, physical) ==
  /\ m.target \in Nat /\ m.source \in Nat /\ m.extent \in Nat \ {0}
  /\ m.target <= m.source /\ m.source # m.target
  /\ \A d \in 0..(m.extent - 1) : PaddedAt(logical, physical, m.target + d) = m.source + d

\* The moves that pull an axis together cover the places before the gap they leave.
LEMMA PullCovers ==
  ASSUME NEW logical \in Nat \ {0}, NEW physical \in Nat \ {0}, NEW m,
         logical <= physical, Pull(m, logical, physical)
  PROVE  PullIs(m, logical, physical)
<1> DEFINE t == m.target
           e == m.extent
<1>1. t \in Nat /\ e \in Nat \ {0} /\ (t % logical) + e <= logical
      /\ m.source = PaddedAt(logical, physical, t) /\ m.source # t
  BY DEF Pull
<1> HIDE DEF t, e
<1>2. PaddedAt(logical, physical, t) \in Nat /\ t <= PaddedAt(logical, physical, t)
  BY <1>1, PaddedPlaces
<1>3. ASSUME NEW d \in 0..(e - 1)
      PROVE  PaddedAt(logical, physical, t + d) = PaddedAt(logical, physical, t) + d
  <2>1. t % logical \in Nat
    BY <1>1
  <2> DEFINE r == t % logical
  <2> HIDE DEF r
  <2>2. r + d < logical
    BY <1>1, <2>1 DEF r
  <2> QED
    BY <1>1, <2>2, PaddedOn DEF r
<1> QED
  BY <1>1, <1>2, <1>3 DEF t, e, PullIs

\* A place of the contiguous axis, and where it is in the padded one.
AxisPlace(g, dir, logical, moves, j, x) ==
  /\ j \in Places(g, dir) /\ x \in Places(g, dir)
  /\ j \in 0..(Procs(g, dir) * logical - 1)
  /\ x = PaddedAt(logical, Side(g, dir), j)

\* What the moves of an axis bring to a place, and from where: the padded place of it.
LEMMA AxisPlaceIs ==
  ASSUME NEW g, NEW dir \in Directions, NEW logical, NEW moves, NEW j,
         GeometryOK(g), AxisOK(g, dir, logical, moves),
         j \in 0..(Procs(g, dir) * logical - 1)
  PROVE  AxisPlace(g, dir, logical, moves, j, PaddedAt(logical, Side(g, dir), j))
<1> DEFINE n == Procs(g, dir)
           p == Side(g, dir)
<1>1. n \in Nat \ {0} /\ p \in Nat \ {0}
  BY SizesOf
<1>2. logical \in Nat \ {0} /\ logical <= p
  BY DEF AxisOK
<1>3. Places(g, dir) = 0..(n * p - 1)
  BY DEF Places
<1> HIDE DEF n, p
<1> DEFINE b == j \div logical
           c == j % logical
<1>4. b \in 0..(n - 1) /\ c \in 0..(logical - 1) /\ j = b * logical + c /\ j \in Nat
  BY <1>1, <1>2, RowAndPlace DEF n
<1>5. PaddedAt(logical, p, j) = b * p + c
  BY DEF PaddedAt
<1> HIDE DEF b, c
<1>6. c \in 0..(p - 1)
  BY <1>1, <1>2, <1>4
<1>7. b * p + c \in 0..(n * p - 1)
  BY <1>1, <1>4, <1>6, PlaceInRow
<1>8. j <= PaddedAt(logical, p, j)
  BY <1>1, <1>2, <1>4, PaddedPlaces
<1>9. n * p \in Nat
  BY <1>1
<1>10. j \in 0..(n * p - 1)
  <2> DEFINE x == PaddedAt(logical, p, j)
             N == n * p
  <2>1. x \in 0..(N - 1)
    BY <1>5, <1>7
  <2>2. j <= x /\ N \in Nat
    BY <1>8, <1>9
  <2> HIDE DEF x, N
  <2>3. j \in 0..(N - 1)
    BY <1>4, <2>1, <2>2
  <2> QED
    BY <2>3 DEF N
<1>11. PaddedAt(logical, p, j) \in 0..(n * p - 1)
  BY <1>5, <1>7
<1> QED
  BY <1>3, <1>10, <1>11 DEF AxisPlace, n, p

\* What the moves of an axis do to place j, and to x where it comes from: w covers
\* j, or none does and x is j.
MoveFacts(m, j, x) ==
  /\ m.target \in Nat /\ m.source \in Nat /\ m.extent \in Nat \ {0}
  /\ m.target <= m.source /\ m.source # m.target
  /\ \A d \in 0..(m.extent - 1) : /\ x = m.source + d => j = m.target + d
                                  /\ j = m.target + d => x = m.source + d
AxisFacts(g, dir, logical, moves, j, x) ==
  /\ j \in Places(g, dir) /\ x \in Places(g, dir) /\ j \in Nat /\ x \in Nat /\ j <= x
  /\ \A w \in 1..Len(moves) : MoveFacts(moves[w], j, x)
  /\ \A w, v \in 1..Len(moves) : w < v => moves[w].target + moves[w].extent <= moves[v].target
  /\ \/ x = j
     \/ \E w \in 1..Len(moves) : \E d \in 0..(moves[w].extent - 1) : j = moves[w].target + d

\* The facts about an axis that the courses of its data need.
LEMMA AxisFactsHold ==
  ASSUME NEW g, NEW dir \in Directions, NEW logical, NEW moves, NEW j,
         GeometryOK(g), AxisOK(g, dir, logical, moves),
         j \in 0..(Procs(g, dir) * logical - 1)
  PROVE  AxisFacts(g, dir, logical, moves, j, PaddedAt(logical, Side(g, dir), j))
<1> DEFINE x == PaddedAt(logical, Side(g, dir), j)
           p == Side(g, dir)
           n == Procs(g, dir)
<1>1. /\ n \in Nat \ {0} /\ p \in Nat \ {0} /\ logical \in Nat \ {0} /\ logical <= p
      /\ PullsOver(moves, 0, n * logical, logical, p)
  BY SizesOf DEF AxisOK
<1>2. j \in Places(g, dir) /\ x \in Places(g, dir) /\ j \in Nat
  BY AxisPlaceIs DEF AxisPlace
<1>3. x \in Nat /\ j <= x
  BY <1>1, <1>2, PaddedPlaces
<1>4. /\ \A w \in 1..Len(moves) : Pull(moves[w], logical, p)
      /\ \A w, v \in 1..Len(moves) : w < v => moves[w].target + moves[w].extent <= moves[v].target
      /\ \/ PaddedAt(logical, p, j) = j
         \/ \E w \in 1..Len(moves) :
              j \in moves[w].target..(moves[w].target + moves[w].extent - 1)
  <2> DEFINE N == n * logical
  <2>1. N \in Nat /\ j \in 0..(N - 1)
    BY <1>1
  <2> HIDE DEF N, n, p, x
  <2> QED
    BY <1>1, <2>1 DEF PullsOver, N
<1>5. ASSUME NEW w \in 1..Len(moves)
      PROVE  MoveFacts(moves[w], j, x)
  <2> DEFINE m == moves[w]
             t == m.target
             e == m.extent
             s == m.source
  <2>1. Pull(m, logical, p)
    BY <1>4
  <2> HIDE DEF m, p
  <2>2. /\ t \in Nat /\ s \in Nat /\ e \in Nat \ {0} /\ t <= s /\ s # t
        /\ \A d \in 0..(e - 1) : PaddedAt(logical, p, t + d) = s + d
    <3>1. PullIs(m, logical, p)
      BY <1>1, <2>1, PullCovers
    <3> QED
      BY <3>1 DEF PullIs
  <2>3. x = PaddedAt(logical, p, j)
    BY DEF p
  <2> HIDE DEF t, e, s, x
  <2>4. ASSUME NEW d \in 0..(e - 1), x = s + d PROVE j = t + d
    <3>1. PaddedAt(logical, p, t + d) = PaddedAt(logical, p, j)
      BY <2>2, <2>3, <2>4
    <3>2. t + d \in Nat
      BY <2>2
    <3> QED
      BY <1>1, <1>2, <3>1, <3>2, PaddedPlaces
  <2>5. ASSUME NEW d \in 0..(e - 1), j = t + d PROVE x = s + d
    BY <2>2, <2>3, <2>5
  <2>6. /\ t \in Nat /\ s \in Nat /\ e \in Nat \ {0} /\ t <= s /\ s # t
        /\ \A d \in 0..(e - 1) : /\ x = s + d => j = t + d
                                 /\ j = t + d => x = s + d
    BY <2>2, <2>4, <2>5
  <2> QED
    BY <2>6 DEF t, e, s, m, MoveFacts
<1>6. \/ x = j
      \/ \E w \in 1..Len(moves) : \E d \in 0..(moves[w].extent - 1) : j = moves[w].target + d
  <2>1. CASE PaddedAt(logical, p, j) = j
    BY <2>1
  <2>2. ASSUME NEW w \in 1..Len(moves),
               j \in moves[w].target..(moves[w].target + moves[w].extent - 1)
        PROVE  \E d \in 0..(moves[w].extent - 1) : j = moves[w].target + d
    <3> DEFINE t == moves[w].target
               e == moves[w].extent
    <3>1. t \in Nat /\ e \in Nat /\ j \in t..(t + e - 1)
      BY <1>5, <2>2 DEF MoveFacts
    <3> HIDE DEF t, e
    <3>2. j - t \in 0..(e - 1) /\ j = t + (j - t)
      BY <3>1
    <3> QED
      BY <3>2 DEF t, e
  <2> QED
    BY <1>4, <2>1, <2>2
<1> HIDE DEF x
<1>7. AxisFacts(g, dir, logical, moves, j, x)
  <2>1. \A w, v \in 1..Len(moves) : w < v => moves[w].target + moves[w].extent <= moves[v].target
    BY <1>4
  <2> HIDE DEF n, p
  <2> QED
    BY <1>2, <1>3, <1>5, <1>6, <2>1 DEF AxisFacts
<1> QED
  BY <1>7 DEF x

\* A phase takes what is at the padded place of j to j,
LEMMA TowardsLeads ==
  ASSUME NEW g, NEW dir \in Directions, NEW q \in LinesOf(g, dir), NEW ph \in Int,
         NEW logical, NEW moves, NEW j, NEW y, GeometryOK(g), AxisOK(g, dir, logical, moves),
         j \in 0..(Procs(g, dir) * logical - 1), y \in 0..(Cross(g, dir) - 1)
  PROVE  Leads(g, "edge", WaveSteps(g, dir, ph, Len(moves), TowardsEdge(moves)),
               SpotOn(g, dir, q, PaddedAt(logical, Side(g, dir), j), y),
               SpotOn(g, dir, q, j, y))
<1> DEFINE x == PaddedAt(logical, Side(g, dir), j)
           n == Len(moves)
           W == TowardsEdge(moves)
<1>1. AxisFacts(g, dir, logical, moves, j, x)
  BY AxisFactsHold
<1>2. WavesOK(g, dir, n, W)
  <2>1. 0 \in Int
    OBVIOUS
  <2> QED
    BY <2>1, AxisWaves
<1>3. \A w \in 1..n : /\ W[w].from = moves[w].source /\ W[w].to = moves[w].target
                      /\ W[w].extent = moves[w].extent /\ W[w].seq = w - 1
  BY DEF TowardsEdge, Wave
<1>4. n \in Nat
  BY DEF AxisOK
<1> HIDE DEF W, n, x
<1>5. CASE x = j
  <2>1. ASSUME NEW w \in 1..n PROVE j \notin (W[w].to)..(W[w].to + W[w].extent - 1)
    <3> DEFINE t == moves[w].target
               e == moves[w].extent
               s == moves[w].source
    <3>1. /\ t \in Nat /\ s \in Nat /\ e \in Nat \ {0} /\ s # t
          /\ \A d \in 0..(e - 1) : j = t + d => x = s + d
      BY <1>1 DEF AxisFacts, MoveFacts, n
    <3>2. W[w].to = t /\ W[w].extent = e
      BY <1>3
    <3> HIDE DEF t, e, s
    <3>3. j \notin t..(t + e - 1)
      <4> SUFFICES ASSUME j \in t..(t + e - 1) PROVE FALSE
        OBVIOUS
      <4>1. j - t \in 0..(e - 1) /\ j = t + (j - t)
        BY <3>1
      <4>2. x = s + (j - t)
        BY <3>1, <4>1
      <4> QED
        BY <1>5, <3>1, <4>1, <4>2
    <3> QED
      BY <3>2, <3>3
  <2>2. j \in Places(g, dir)
    BY <1>1 DEF AxisFacts
  <2>3. Leads(g, "edge", WaveSteps(g, dir, ph, n, W), SpotOn(g, dir, q, j, y), SpotOn(g, dir, q, j, y))
    BY <1>2, <2>1, <2>2, WavesStay
  <2> QED
    BY <1>5, <2>3 DEF n, W, x
<1>6. ASSUME NEW w \in 1..n, NEW d \in 0..(moves[w].extent - 1), j = moves[w].target + d
      PROVE  Leads(g, "edge", WaveSteps(g, dir, ph, n, W),
                   SpotOn(g, dir, q, x, y), SpotOn(g, dir, q, j, y))
  <2> DEFINE t(v) == moves[v].target
             e(v) == moves[v].extent
  <2>1. /\ j \in Nat /\ x \in Nat /\ j <= x /\ x = moves[w].source + d
        /\ \A v \in 1..n : t(v) \in Nat /\ e(v) \in Nat \ {0}
        /\ \A v, u \in 1..n : v < u => t(v) + e(v) <= t(u)
    BY <1>1, <1>6 DEF AxisFacts, MoveFacts, n
  <2>2. \A v \in 1..n : W[v].to = t(v) /\ W[v].extent = e(v) /\ W[v].seq = v - 1
    BY <1>3
  <2>3. d \in 0..(e(w) - 1) /\ j = t(w) + d
    BY <1>6
  <2> HIDE DEF t, e
  <2>4. \A v \in 1..n : W[v].seq < W[w].seq => x \notin (W[v].to)..(W[v].to + W[v].extent - 1)
    <3> SUFFICES ASSUME NEW v \in 1..n, W[v].seq < W[w].seq
                 PROVE  x \notin (W[v].to)..(W[v].to + W[v].extent - 1)
      OBVIOUS
    <3>1. v < w
      BY <1>4, <2>2
    <3>2. t(v) + e(v) <= t(w) /\ t(v) \in Nat /\ e(v) \in Nat /\ t(w) \in Nat
      BY <2>1, <3>1
    <3>3. x \notin t(v)..(t(v) + e(v) - 1)
      BY <2>1, <2>3, <3>2
    <3> QED
      BY <2>2, <3>3
  <2>5. \A v \in 1..n : W[v].seq > W[w].seq => j \notin (W[v].to)..(W[v].to + W[v].extent - 1)
    <3> SUFFICES ASSUME NEW v \in 1..n, W[v].seq > W[w].seq
                 PROVE  j \notin (W[v].to)..(W[v].to + W[v].extent - 1)
      OBVIOUS
    <3>1. w < v
      BY <1>4, <2>2
    <3>2. t(w) + e(w) <= t(v) /\ t(v) \in Nat /\ e(v) \in Nat /\ t(w) \in Nat /\ e(w) \in Nat
      BY <2>1, <3>1
    <3>3. j \notin t(v)..(t(v) + e(v) - 1)
      BY <2>3, <3>2
    <3> QED
      BY <2>2, <3>3
  <2>6. d \in 0..(W[w].extent - 1) /\ x = W[w].from + d /\ j = W[w].to + d
    BY <1>3, <2>1, <2>2, <2>3
  <2> QED
    BY <1>2, <2>4, <2>5, <2>6, WavesLead
<1> QED
  BY <1>1, <1>5, <1>6 DEF AxisFacts, n, W, x

\* and the way back takes what is at j to its padded place.
LEMMA BackLeads ==
  ASSUME NEW g, NEW dir \in Directions, NEW q \in LinesOf(g, dir), NEW ph \in Int,
         NEW last \in Int,
         NEW logical, NEW moves, NEW j, NEW y, GeometryOK(g), AxisOK(g, dir, logical, moves),
         j \in 0..(Procs(g, dir) * logical - 1), y \in 0..(Cross(g, dir) - 1)
  PROVE  Leads(g, "edge", WaveSteps(g, dir, ph, Len(moves), FromEdge(moves, last)),
               SpotOn(g, dir, q, j, y),
               SpotOn(g, dir, q, PaddedAt(logical, Side(g, dir), j), y))
<1> DEFINE x == PaddedAt(logical, Side(g, dir), j)
           n == Len(moves)
           W == FromEdge(moves, last)
<1>1. AxisFacts(g, dir, logical, moves, j, x)
  BY AxisFactsHold
<1>2. WavesOK(g, dir, n, W)
  BY AxisWaves
<1>3. \A w \in 1..n : /\ W[w].from = moves[w].target /\ W[w].to = moves[w].source
                      /\ W[w].extent = moves[w].extent /\ W[w].seq = last - (w - 1)
  BY DEF FromEdge, Wave
<1>4. n \in Nat
  BY DEF AxisOK
<1> HIDE DEF W, n, x
<1>5. CASE x = j
  <2>1. ASSUME NEW w \in 1..n PROVE j \notin (W[w].to)..(W[w].to + W[w].extent - 1)
    <3> DEFINE t == moves[w].target
               e == moves[w].extent
               s == moves[w].source
    <3>1. /\ j \in Nat /\ t \in Nat /\ s \in Nat /\ e \in Nat \ {0} /\ s # t
          /\ \A d \in 0..(e - 1) : x = s + d => j = t + d
      BY <1>1 DEF AxisFacts, MoveFacts, n
    <3>2. W[w].to = s /\ W[w].extent = e
      BY <1>3
    <3> HIDE DEF t, e, s
    <3>3. j \notin s..(s + e - 1)
      <4> SUFFICES ASSUME j \in s..(s + e - 1) PROVE FALSE
        OBVIOUS
      <4>1. j - s \in 0..(e - 1) /\ j = s + (j - s)
        BY <3>1
      <4>2. j = t + (j - s)
        BY <1>5, <3>1, <4>1
      <4> QED
        BY <3>1, <4>1, <4>2
    <3> QED
      BY <3>2, <3>3
  <2>2. j \in Places(g, dir)
    BY <1>1 DEF AxisFacts
  <2>3. Leads(g, "edge", WaveSteps(g, dir, ph, n, W), SpotOn(g, dir, q, j, y), SpotOn(g, dir, q, j, y))
    BY <1>2, <2>1, <2>2, WavesStay
  <2> QED
    BY <1>5, <2>3 DEF n, W, x
<1>6. ASSUME NEW w \in 1..n, NEW d \in 0..(moves[w].extent - 1), j = moves[w].target + d
      PROVE  Leads(g, "edge", WaveSteps(g, dir, ph, n, W),
                   SpotOn(g, dir, q, j, y), SpotOn(g, dir, q, x, y))
  <2> DEFINE t(v) == moves[v].target
             e(v) == moves[v].extent
             s(v) == moves[v].source
  <2>1. /\ j \in Nat /\ x \in Nat /\ j <= x /\ x = s(w) + d
        /\ \A v \in 1..n : /\ t(v) \in Nat /\ e(v) \in Nat \ {0} /\ s(v) \in Nat /\ t(v) <= s(v)
                           /\ \A c \in 0..(e(v) - 1) : x = s(v) + c => j = t(v) + c
        /\ \A v, u \in 1..n : v < u => t(v) + e(v) <= t(u)
    BY <1>1, <1>6 DEF AxisFacts, MoveFacts, n
  <2>2. \A v \in 1..n : W[v].to = s(v) /\ W[v].extent = e(v) /\ W[v].seq = last - (v - 1)
    BY <1>3
  <2>3. d \in 0..(e(w) - 1) /\ j = t(w) + d
    BY <1>6
  <2> HIDE DEF t, e, s
  <2>4. \A v \in 1..n : W[v].seq < W[w].seq => j \notin (W[v].to)..(W[v].to + W[v].extent - 1)
    <3> SUFFICES ASSUME NEW v \in 1..n, W[v].seq < W[w].seq
                 PROVE  j \notin (W[v].to)..(W[v].to + W[v].extent - 1)
      OBVIOUS
    <3>1. w < v
      BY <1>4, <2>2
    <3>2. t(w) + e(w) <= t(v) /\ t(v) \in Nat /\ e(v) \in Nat /\ t(w) \in Nat /\ e(w) \in Nat
          /\ s(v) \in Nat /\ t(v) <= s(v)
      BY <2>1, <3>1
    <3>3. j \notin s(v)..(s(v) + e(v) - 1)
      BY <2>3, <3>2
    <3> QED
      BY <2>2, <3>3
  <2>5. \A v \in 1..n : W[v].seq > W[w].seq => x \notin (W[v].to)..(W[v].to + W[v].extent - 1)
    <3> SUFFICES ASSUME NEW v \in 1..n, W[v].seq > W[w].seq,
                        x \in (W[v].to)..(W[v].to + W[v].extent - 1)
                 PROVE  FALSE
      OBVIOUS
    <3>1. v < w
      BY <1>4, <2>2
    <3>2. /\ t(v) + e(v) <= t(w) /\ t(v) \in Nat /\ e(v) \in Nat /\ t(w) \in Nat /\ s(v) \in Nat
          /\ \A c \in 0..(e(v) - 1) : x = s(v) + c => j = t(v) + c
      BY <2>1, <3>1
    <3>3. x \in s(v)..(s(v) + e(v) - 1)
      BY <2>2
    <3>4. x - s(v) \in 0..(e(v) - 1) /\ x = s(v) + (x - s(v))
      BY <3>2, <3>3
    <3>5. j = t(v) + (x - s(v))
      BY <3>2, <3>4
    <3> QED
      BY <2>3, <3>2, <3>4, <3>5
  <2>6. d \in 0..(W[w].extent - 1) /\ j = W[w].from + d /\ x = W[w].to + d
    <3>1. W[w].from = t(w)
      BY <1>3 DEF t
    <3> QED
      BY <2>1, <2>2, <2>3, <3>1
  <2> QED
    BY <1>2, <2>4, <2>5, <2>6, WavesLead
<1> QED
  BY <1>1, <1>5, <1>6 DEF AxisFacts, n, W, x

(***************************************************************************)
(* The edge planner's lists of steps, wave by wave and line by line.       *)
(***************************************************************************)

\* A list has the steps of the waves, each once: at says which.
Listed(g, dir, ph, n, waves, list, at) ==
  /\ list \in Seq(WaveSteps(g, dir, ph, n, waves))
  /\ \A k \in 1..Len(list) :
       /\ at[k][1] \in 1..n /\ at[k][2] \in 1..Lines(g, dir)
       /\ list[k] = WaveStep(g, dir, ph, waves[at[k][1]], at[k][2] - 1)
  /\ \A k, l \in 1..Len(list) : at[k][1] = at[l][1] /\ at[k][2] = at[l][2] => k = l
  /\ \A w \in 1..n, p \in 1..Lines(g, dir) :
       \E k \in 1..Len(list) : at[k][1] = w /\ at[k][2] = p

\* The planner lists the waves one by one, for each of them the lines.
WaveList(g, dir, ph, v) == [p \in 1..Lines(g, dir) |-> WaveStep(g, dir, ph, v, p - 1)]
WaveLists(g, dir, ph, n, waves) == [w \in 1..n |-> WaveList(g, dir, ph, waves[w])]

\* Lists of the waves, one after the other, have every step once.
LEMMA WavesListed ==
  ASSUME NEW g, NEW dir \in Directions, NEW ph, NEW n \in Nat, NEW waves, GeometryOK(g)
  PROVE  \E at : Listed(g, dir, ph, n, waves, FlattenSeq(WaveLists(g, dir, ph, n, waves)), at)
<1> DEFINE S == WaveSteps(g, dir, ph, n, waves)
           f == WaveLists(g, dir, ph, n, waves)
           m == Lines(g, dir)
           st(w, p) == WaveStep(g, dir, ph, waves[w], p - 1)
           list == FlattenSeq(f)
<1>1. m \in Nat \ {0}
  BY SizesOf
<1>2. \A w \in 1..n, p \in 1..m : st(w, p) \in S
  <2> TAKE w \in 1..n, p \in 1..m
  <2>1. p - 1 \in LinesOf(g, dir)
    BY <1>1 DEF LinesOf
  <2> QED
    BY <2>1 DEF WaveSteps
<1>3. \A w \in 1..n : f[w] = [p \in 1..m |-> st(w, p)]
  BY DEF WaveLists, WaveList
<1>4. f = [w \in 1..n |-> f[w]]
  BY DEF WaveLists
<1> HIDE DEF S, f, m, st
<1>5. \A w \in 1..n : /\ f[w] \in Seq(S) /\ Len(f[w]) = m
                      /\ \A p \in 1..m : f[w][p] = st(w, p)
  <2> TAKE w \in 1..n
  <2> DEFINE h == [p \in 1..m |-> st(w, p)]
  <2>1. h \in [1..m -> S] /\ \A p \in 1..m : h[p] = st(w, p)
    BY <1>2
  <2>2. f[w] = h
    BY <1>3
  <2> HIDE DEF h
  <2>3. h \in Seq(S) /\ Len(h) = m
    BY <1>1, <2>1, SeqIntro, LenProperties
  <2> QED
    BY <2>1, <2>2, <2>3
<1>6. f \in [1..n -> Seq(S)]
  BY <1>4, <1>5
<1>7. list \in Seq(S)
  BY <1>6, FlattenTyped
<1>8. PICK at : PlacedBy(list, n, f, at)
  BY <1>6, FlattenPlaced
<1> HIDE DEF list
<1>9. \A k \in 1..Len(list) : /\ at[k] \in (1..n) \X Nat /\ at[k][1] \in 1..n
                              /\ at[k][2] \in 1..m /\ list[k] = st(at[k][1], at[k][2])
  <2> TAKE k \in 1..Len(list)
  <2>1. /\ at[k] \in (1..n) \X Nat /\ at[k][2] \in 1..Len(f[at[k][1]])
        /\ list[k] = f[at[k][1]][at[k][2]]
    BY <1>8 DEF PlacedBy
  <2>2. at[k][1] \in 1..n
    BY <2>1
  <2> QED
    BY <1>5, <2>1, <2>2
<1>10. \A k, l \in 1..Len(list) : at[k][1] = at[l][1] /\ at[k][2] = at[l][2] => k = l
  <2>1. \A a, b \in (1..n) \X Nat : a[1] = b[1] /\ a[2] = b[2] => a = b
    OBVIOUS
  <2>2. \A k, l \in 1..Len(list) : k # l => at[k] # at[l]
    BY <1>8 DEF PlacedBy
  <2> QED
    BY <1>9, <2>1, <2>2
<1>11. \A w \in 1..n, p \in 1..m : \E k \in 1..Len(list) : at[k][1] = w /\ at[k][2] = p
  <2> TAKE w \in 1..n, p \in 1..m
  <2>1. \E k \in 1..Len(list) : at[k] = <<w, p>>
    BY <1>5, <1>8 DEF PlacedBy
  <2> QED
    BY <2>1
<1>12. Listed(g, dir, ph, n, waves, list, at)
  BY <1>7, <1>9, <1>10, <1>11 DEF Listed, S, m, st
<1> QED
  BY <1>12 DEF list, f

\* The steps along the rows of the grid, and along its columns, are such lists.
LEMMA HorizontalListed ==
  ASSUME NEW g, GeometryOK(g), NEW M, NEW moves \in Seq(M)
  PROVE  \E at : Listed(g, "cols", 0, Len(moves), TowardsEdge(moves),
                        HorizontalSteps(g, moves), at)
<1> DEFINE n == Len(moves)
           W == TowardsEdge(moves)
           f == WaveLists(g, "cols", 0, n, W)
           h == [w \in DOMAIN moves |-> [p \in 1..g.prows |-> HorizontalStep(g, moves[w], w, p)]]
<1>1. n \in Nat /\ DOMAIN moves = 1..n
  BY LenProperties
<1>2. HorizontalSteps(g, moves) = FlattenSeq(h)
  BY DEF HorizontalSteps, HorizontalStep
<1>3. Lines(g, "cols") = g.prows /\ "cols" \in Directions
  BY DEF Lines, Directions
<1>4. ASSUME NEW w \in 1..n, NEW p
      PROVE  HorizontalStep(g, moves[w], w, p) = WaveStep(g, "cols", 0, W[w], p - 1)
  <2>1. W[w] = Wave(moves[w].source, moves[w].target, moves[w].extent, w - 1)
    BY DEF TowardsEdge
  <2> DEFINE m == moves[w]
             v == W[w]
  <2>2. v.from = m.source /\ v.to = m.target /\ v.extent = m.extent /\ v.seq = w - 1
    BY <2>1 DEF Wave
  <2> HIDE DEF m, v
  <2>3. HorizontalStep(g, m, w, p) = WaveStep(g, "cols", 0, v, p - 1)
    BY <2>2 DEF HorizontalStep, WaveStep, RankOn, Band
  <2> QED
    BY <2>3 DEF m, v
<1>5. h = f
  <2>1. \A w \in 1..n : [p \in 1..g.prows |-> HorizontalStep(g, moves[w], w, p)]
                         = WaveList(g, "cols", 0, W[w])
    BY <1>3, <1>4 DEF WaveList
  <2> HIDE DEF n, W
  <2> QED
    BY <1>1, <2>1 DEF WaveLists
<1>6. \E at : Listed(g, "cols", 0, n, W, FlattenSeq(f), at)
  <2> HIDE DEF n, W
  <2> QED
    BY <1>1, <1>3, WavesListed
<1> QED
  BY <1>2, <1>5, <1>6

\* So does what the planner lists for the row moves.
LEMMA VerticalListed ==
  ASSUME NEW g, GeometryOK(g), NEW M, NEW moves \in Seq(M)
  PROVE  \E at : Listed(g, "rows", 1, Len(moves), TowardsEdge(moves),
                        VerticalSteps(g, moves), at)
<1> DEFINE n == Len(moves)
           W == TowardsEdge(moves)
           f == WaveLists(g, "rows", 1, n, W)
           h == [w \in DOMAIN moves |-> [p \in 1..g.pcols |-> VerticalStep(g, moves[w], w, p)]]
<1>1. n \in Nat /\ DOMAIN moves = 1..n
  BY LenProperties
<1>2. VerticalSteps(g, moves) = FlattenSeq(h)
  BY DEF VerticalSteps, VerticalStep
<1>3. Lines(g, "rows") = g.pcols /\ "rows" \in Directions
  BY DEF Lines, Directions
<1>4. ASSUME NEW w \in 1..n, NEW p
      PROVE  VerticalStep(g, moves[w], w, p) = WaveStep(g, "rows", 1, W[w], p - 1)
  <2>1. W[w] = Wave(moves[w].source, moves[w].target, moves[w].extent, w - 1)
    BY DEF TowardsEdge
  <2> DEFINE m == moves[w]
             v == W[w]
  <2>2. v.from = m.source /\ v.to = m.target /\ v.extent = m.extent /\ v.seq = w - 1
    BY <2>1 DEF Wave
  <2> HIDE DEF m, v
  <2>3. VerticalStep(g, m, w, p) = WaveStep(g, "rows", 1, v, p - 1)
    BY <2>2 DEF VerticalStep, WaveStep, RankOn, Band
  <2> QED
    BY <2>3 DEF m, v
<1>5. h = f
  <2>1. \A w \in 1..n : [p \in 1..g.pcols |-> VerticalStep(g, moves[w], w, p)]
                         = WaveList(g, "rows", 1, W[w])
    BY <1>3, <1>4 DEF WaveList
  <2> HIDE DEF n, W
  <2> QED
    BY <1>1, <2>1 DEF WaveLists
<1>6. \E at : Listed(g, "rows", 1, n, W, FlattenSeq(f), at)
  <2> HIDE DEF n, W
  <2> QED
    BY <1>1, <1>3, WavesListed
<1> QED
  BY <1>2, <1>5, <1>6

\* A list turned around step by step is that of the way back.
TurnedList(list, last) == [k \in 1..Len(list) |-> Turned(list[k], last)]

\* The list turned round has the steps of the waves of the way back, each once.
LEMMA TurnedListed ==
  ASSUME NEW g, NEW dir \in Directions, NEW ph, NEW moves, NEW list, NEW at, NEW last,
         Listed(g, dir, ph, Len(moves), TowardsEdge(moves), list, at), GeometryOK(g)
  PROVE  Listed(g, dir, 1 - ph, Len(moves), FromEdge(moves, last[ph]),
                TurnedList(list, last), at)
<1> DEFINE n == Len(moves)
           W == TowardsEdge(moves)
           V == FromEdge(moves, last[ph])
           N == Len(list)
           S == WaveSteps(g, dir, ph, n, W)
           T == WaveSteps(g, dir, 1 - ph, n, V)
           back == TurnedList(list, last)
<1>1. /\ list \in Seq(S)
      /\ \A k \in 1..N : /\ at[k][1] \in 1..n /\ at[k][2] \in 1..Lines(g, dir)
                         /\ list[k] = WaveStep(g, dir, ph, W[at[k][1]], at[k][2] - 1)
      /\ \A k, l \in 1..N : at[k][1] = at[l][1] /\ at[k][2] = at[l][2] => k = l
      /\ \A w \in 1..n, p \in 1..Lines(g, dir) :
           \E k \in 1..N : at[k][1] = w /\ at[k][2] = p
  BY DEF Listed
<1>2. N \in Nat
  BY <1>1, LenProperties
<1>3. ASSUME NEW w \in 1..n, NEW q
      PROVE  Turned(WaveStep(g, dir, ph, W[w], q), last) = WaveStep(g, dir, 1 - ph, V[w], q)
  <2>1. /\ W[w] = Wave(moves[w].source, moves[w].target, moves[w].extent, w - 1)
        /\ V[w] = Wave(moves[w].target, moves[w].source, moves[w].extent, last[ph] - (w - 1))
    BY DEF TowardsEdge, FromEdge
  <2> DEFINE a == W[w]
             b == V[w]
  <2>2. /\ a.from = b.to /\ a.to = b.from /\ a.extent = b.extent /\ b.seq = last[ph] - a.seq
    BY <2>1 DEF Wave
  <2> HIDE DEF a, b
  <2>3. Turned(WaveStep(g, dir, ph, a, q), last) = WaveStep(g, dir, 1 - ph, b, q)
    BY <2>2 DEF Turned, WaveStep, Step
  <2> QED
    BY <2>3 DEF a, b
<1>4. \A k \in 1..N : back[k] = Turned(list[k], last)
  BY DEF TurnedList
<1>5. back = [k \in 1..N |-> back[k]]
  BY DEF TurnedList
<1> HIDE DEF W, V, n, N, back
<1>6. \A k \in 1..N : back[k] = WaveStep(g, dir, 1 - ph, V[at[k][1]], at[k][2] - 1)
  <2> TAKE k \in 1..N
  <2> DEFINE w == at[k][1]
             q == at[k][2] - 1
  <2>1. w \in 1..n /\ list[k] = WaveStep(g, dir, ph, W[w], q)
    BY <1>1
  <2> HIDE DEF w, q
  <2>2. Turned(WaveStep(g, dir, ph, W[w], q), last) = WaveStep(g, dir, 1 - ph, V[w], q)
    BY <1>3, <2>1
  <2>3. back[k] = WaveStep(g, dir, 1 - ph, V[w], q)
    BY <1>4, <2>1, <2>2
  <2> QED
    BY <2>3 DEF w, q
<1>7. \A k \in 1..N : back[k] \in T
  <2> TAKE k \in 1..N
  <2>1. at[k][2] - 1 \in LinesOf(g, dir)
    <3>1. Lines(g, dir) \in Nat /\ at[k][2] \in 1..Lines(g, dir)
      BY <1>1, SizesOf
    <3> QED
      BY <3>1 DEF LinesOf
  <2> DEFINE w == at[k][1]
             q == at[k][2] - 1
  <2>2. w \in 1..n /\ q \in LinesOf(g, dir) /\ back[k] = WaveStep(g, dir, 1 - ph, V[w], q)
    BY <1>1, <1>6, <2>1
  <2> HIDE DEF w, q
  <2> QED
    BY <2>2 DEF WaveSteps
<1> HIDE DEF T
<1>8. back \in Seq(T) /\ Len(back) = N
  <2>1. back \in [1..N -> T]
    BY <1>5, <1>7
  <2> QED
    BY <1>2, <2>1, SeqIntro, LenProperties
<1>9. Listed(g, dir, 1 - ph, n, V, back, at)
  BY <1>1, <1>6, <1>8 DEF Listed, T
<1> QED
  BY <1>9 DEF n, V, back

(***************************************************************************)
(* A plan of two phases.                                                   *)
(***************************************************************************)

\* A list has the steps S, all of one phase; those of a round share no rank.
PhaseList(S, ph, list) ==
  /\ ph \in Int /\ list \in Seq(S) /\ StepsIn(list) = S
  /\ Timed(S) /\ \A s \in S : s.phase = ph
  /\ RoundsUnshared(list)

\* Two such lists, one after the other, are batched by rounds.
LEMMA PhasesBatched ==
  ASSUME NEW exec, NEW S, NEW T, NEW a, NEW b, NEW l, NEW m, NEW p,
         PhaseList(S, a, l), PhaseList(T, b, m), a # b,
         p = Tagged(exec, BatchNative2DSteps(l \o m))
  PROVE  \E rd : InRounds(S \cup T, p, Len(p), rd)
<1> DEFINE U == S \cup T
           list == l \o m
           c == Len(l)
           d == Len(m)
<1>1. /\ l \in Seq(S) /\ m \in Seq(T) /\ StepsIn(l) = S /\ StepsIn(m) = T
      /\ Timed(S) /\ Timed(T) /\ RoundsUnshared(l) /\ RoundsUnshared(m)
      /\ \A s \in S : s.phase = a
      /\ \A s \in T : s.phase = b
  BY DEF PhaseList
<1>2. c \in Nat /\ d \in Nat /\ (\A k \in 1..c : l[k] \in S) /\ (\A k \in 1..d : m[k] \in T)
  BY <1>1, LenProperties, ElementOfSeq
<1>3. Timed(U)
  BY <1>1 DEF Timed
<1>4. l \in Seq(U) /\ m \in Seq(U)
  BY <1>1, SeqMonotonic
<1>5. /\ list \in Seq(U) /\ Len(list) = c + d
      /\ \A k \in 1..(c + d) : list[k] = IF k <= c THEN l[k] ELSE m[k - c]
  <2> HIDE DEF U
  <2> QED
    BY <1>4, ConcatProperties
<1> HIDE DEF U, list, c, d
<1>6. \A k \in 1..c : list[k] = l[k] /\ k \in 1..(c + d)
  BY <1>2, <1>5
<1>7. \A k \in 1..d : list[c + k] = m[k] /\ c + k \in 1..(c + d)
  <2> TAKE k \in 1..d
  <2>1. c + k \in 1..(c + d) /\ ~(c + k <= c) /\ (c + k) - c = k
    BY <1>2
  <2> QED
    BY <1>5, <2>1
<1>8. \A k \in 1..(c + d) : \/ k \in 1..c /\ list[k] = l[k]
                            \/ k - c \in 1..d /\ list[k] = m[k - c]
  <2> TAKE k \in 1..(c + d)
  <2>1. CASE k <= c
    BY <1>2, <1>5, <2>1
  <2>2. CASE ~(k <= c)
    <3>1. k - c \in 1..d
      BY <1>2, <2>2
    <3> QED
      BY <1>5, <2>2, <3>1
  <2> QED
    BY <2>1, <2>2
<1>9. StepsIn(list) = U
  <2>1. ASSUME NEW s \in StepsIn(list) PROVE s \in U
    <3>1. PICK k \in 1..(c + d) : s = list[k]
      BY <1>5, <2>1 DEF StepsIn
    <3> QED
      BY <1>2, <1>8, <3>1 DEF U
  <2>2. ASSUME NEW s \in U PROVE s \in StepsIn(list)
    <3>1. CASE s \in S
      <4>1. PICK k \in 1..c : s = l[k]
        BY <1>1, <3>1 DEF StepsIn, c
      <4> QED
        BY <1>5, <1>6, <4>1 DEF StepsIn
    <3>2. CASE s \in T
      <4>1. PICK k \in 1..d : s = m[k]
        BY <1>1, <3>2 DEF StepsIn, d
      <4>2. list[c + k] = m[k] /\ c + k \in 1..(c + d)
        BY <1>7
      <4> QED
        BY <1>5, <4>1, <4>2 DEF StepsIn
    <3> QED
      BY <2>2, <3>1, <3>2 DEF U
  <2> QED
    BY <2>1, <2>2
<1>10. RoundsUnshared(list)
  <2> SUFFICES ASSUME NEW i \in 1..(c + d), NEW j \in 1..(c + d), i # j,
                      RoundOf(list[i]) = RoundOf(list[j])
               PROVE  ~Conflicts(list[i], list[j])
    BY <1>5 DEF RoundsUnshared
  <2>1. list[i].phase = list[j].phase
    BY DEF RoundOf
  <2>2. CASE i \in 1..c /\ list[i] = l[i] /\ j \in 1..c /\ list[j] = l[j]
    BY <1>1, <2>2 DEF RoundsUnshared, c
  <2>3. CASE i - c \in 1..d /\ list[i] = m[i - c] /\ j - c \in 1..d /\ list[j] = m[j - c]
    <3> DEFINE u == i - c
               v == j - c
    <3>1. u # v /\ u \in 1..d /\ v \in 1..d
          /\ RoundOf(m[u]) = RoundOf(m[v]) /\ list[i] = m[u] /\ list[j] = m[v]
      BY <1>2, <2>3
    <3> HIDE DEF u, v
    <3> QED
      BY <1>1, <3>1 DEF RoundsUnshared, d
  <2>4. CASE i \in 1..c /\ list[i] = l[i] /\ j - c \in 1..d /\ list[j] = m[j - c]
    BY <1>1, <1>2, <2>1, <2>4
  <2>5. CASE i - c \in 1..d /\ list[i] = m[i - c] /\ j \in 1..c /\ list[j] = l[j]
    BY <1>1, <1>2, <2>1, <2>5
  <2>6. \/ i \in 1..c /\ list[i] = l[i]
        \/ i - c \in 1..d /\ list[i] = m[i - c]
    BY <1>8
  <2>7. \/ j \in 1..c /\ list[j] = l[j]
        \/ j - c \in 1..d /\ list[j] = m[j - c]
    BY <1>8
  <2> QED
    BY <2>2, <2>3, <2>4, <2>5, <2>6, <2>7
<1>11. \E rd : InRounds(StepsIn(list), p, Len(p), rd)
  <2>1. p = Tagged(exec, BatchNative2DSteps(list))
    BY DEF list
  <2> QED
    BY <1>3, <1>5, <1>10, <2>1, RoundsBatched
<1> QED
  BY <1>9, <1>11 DEF U

\* Steps of a later phase follow.
LEMMA PhasesFollow ==
  ASSUME NEW S, NEW T, NEW a \in Int, NEW b \in Int, a < b,
         \A s \in S : s.phase = a, \A s \in T : s.phase = b
  PROVE  Follow(S, T)
  BY DEF Follow, RoundBefore, RoundOf

(***************************************************************************)
(* The ranks data is on.                                                   *)
(***************************************************************************)
\* Entry b of a plan leaves data on its rank, or one of its steps takes it from
\* the one to the other.
Passes(b, from, to) ==
  \/ from = to
  \/ b.kind # Save /\ \E i \in DOMAIN b.steps : b.steps[i].from = from /\ b.steps[i].to = to

\* The data is on rank route[k] after entry k of plan p, for k from a to b.
Route(p, a, b, route) == \A k \in (a + 1)..b : Passes(p[k], route[k - 1], route[k])

\* Only one number of steps of a course is done after k batches.
LEMMA InStepOne ==
  ASSUME NEW g, NEW exec, NEW S, NEW B, NEW n, NEW rd, NEW M, NEW P, NEW trace,
         InRounds(S, B, n, rd), Course(g, exec, S, M, P, trace), NEW k,
         NEW c \in 0..M, NEW d \in 0..M, InStep(M, P, n, rd, k, c), InStep(M, P, n, rd, k, d)
  PROVE  ~(c < d)
<1> SUFFICES ASSUME c < d PROVE FALSE
  OBVIOUS
<1>1. M \in Nat /\ d \in 1..M /\ ~(d <= c) /\ d <= d
  BY DEF Course
<1>2. PICK l \in 1..n : rd[l] = RoundOf(P[d])
  <2>1. P[d] \in S
    BY <1>1 DEF Course
  <2> QED
    BY <2>1, RoundPlaces
<1> QED
  BY <1>1, <1>2 DEF InStep

\* From one batch to the next it stays or is one more, that of a step of the batch.
LEMMA InStepNext ==
  ASSUME NEW g, NEW exec, NEW S, NEW B, NEW n, NEW rd, NEW M, NEW P, NEW trace,
         InRounds(S, B, n, rd), Course(g, exec, S, M, P, trace),
         NEW k \in 1..n, BatchOK(g, B[k]), NEW c \in 0..M, InStep(M, P, n, rd, k - 1, c)
  PROVE  \/ InStep(M, P, n, rd, k, c)
         \/ /\ c + 1 \in 1..M /\ InStep(M, P, n, rd, k, c + 1)
            /\ \E i \in DOMAIN B[k].steps : B[k].steps[i] = P[c + 1]
<1>1. CASE \A i \in DOMAIN B[k].steps, d \in 1..M : B[k].steps[i] # P[d]
  <2>1. InStep(M, P, n, rd, k, c)
    BY <1>1, PassedBy
  <2> QED
    BY <2>1
<1>2. CASE \E i \in DOMAIN B[k].steps, d \in 1..M : B[k].steps[i] = P[d]
  <2>1. PICK i \in DOMAIN B[k].steps, d \in 1..M : B[k].steps[i] = P[d]
    BY <1>2
  <2>2. \A j, l \in DOMAIN B[k].steps : j # l => B[k].steps[j] # B[k].steps[l]
    BY DEF BatchOK, NoneShared
  <2>3. d = c + 1 /\ InStep(M, P, n, rd, k, c + 1)
    BY <2>1, <2>2, TakenAlong
  <2> QED
    BY <2>1, <2>3
<1> QED
  BY <1>1, <1>2

\* A step that carries data carries it from its sender to its receiver.
LEMMA CarriedBetween ==
  ASSUME NEW s, NEW loc, NEW new, Carried(s, loc, new)
  PROVE  loc[2] = new[2] \/ (s.kind # Save /\ s.from = loc[2] /\ s.to = new[2])
<1>1. CASE MoveCarries(s, loc, new)
  BY <1>1 DEF MoveCarries, InMatrix, Move, Save
<1>2. CASE SaveCarries(s, loc, new)
  BY <1>2 DEF SaveCarries, InMatrix, InSlot
<1>3. CASE RestoreCarries(s, loc, new)
  BY <1>3 DEF RestoreCarries, InMatrix, InSlot, Restore, Save
<1> QED
  BY <1>1, <1>2, <1>3 DEF Carried

\* So a course goes from rank to rank.
LEMMA CourseRoute ==
  ASSUME NEW g, NEW exec, NEW S, NEW B, NEW n, NEW rd, NEW M, NEW P, NEW trace, NEW w,
         InRounds(S, B, n, rd), Course(g, exec, S, M, P, trace), Batched(g, exec, B, n, w)
  PROVE  \E route : /\ Route(B, 0, n, route)
                    /\ route[0] = trace[0][2] /\ route[n] = trace[M][2]
<1> DEFINE T == {k \in Nat : k <= n => \E c \in 0..M : InStep(M, P, n, rd, k, c)}
           at(k) == CHOOSE c \in 0..M : InStep(M, P, n, rd, k, c)
           route == [k \in 0..n |-> trace[at(k)][2]]
<1>1. n \in Nat /\ M \in Nat /\ \A k \in 1..n : BatchOK(g, B[k])
  BY DEF Batched, Course
<1>2. InStep(M, P, n, rd, 0, 0) /\ 0 \in 0..M
  BY <1>1 DEF InStep
<1>3. ASSUME NEW k \in Nat, k \in T PROVE k + 1 \in T
  <2> SUFFICES ASSUME k + 1 <= n PROVE \E c \in 0..M : InStep(M, P, n, rd, k + 1, c)
    OBVIOUS
  <2> DEFINE l == k + 1
  <2>1. l \in 1..n /\ l - 1 = k /\ k <= n
    BY <1>1
  <2>2. PICK c \in 0..M : InStep(M, P, n, rd, l - 1, c)
    BY <1>3, <2>1
  <2> HIDE DEF l
  <2>3. \/ InStep(M, P, n, rd, l, c)
        \/ /\ c + 1 \in 1..M /\ InStep(M, P, n, rd, l, c + 1)
           /\ \E i \in DOMAIN B[l].steps : B[l].steps[i] = P[c + 1]
    BY <1>1, <2>1, <2>2, InStepNext
  <2>4. \E d \in 0..M : InStep(M, P, n, rd, l, d)
    BY <1>1, <2>3
  <2> QED
    BY <2>4 DEF l
<1>4. 0 \in T
  BY <1>2
<1>5. Nat \subseteq T
  <2> HIDE DEF T
  <2> QED
    BY <1>3, <1>4, SetInduction
<1>6. \A k \in 0..n : at(k) \in 0..M /\ InStep(M, P, n, rd, k, at(k))
  <2> SUFFICES ASSUME NEW k \in 0..n PROVE at(k) \in 0..M /\ InStep(M, P, n, rd, k, at(k))
    OBVIOUS
  <2>1. \E c \in 0..M : InStep(M, P, n, rd, k, c)
    BY <1>1, <1>5
  <2> QED
    BY <2>1
<1>7. \A k \in 0..n, c \in 0..M : InStep(M, P, n, rd, k, c) => at(k) = c
  <2> SUFFICES ASSUME NEW k \in 0..n, NEW c \in 0..M, InStep(M, P, n, rd, k, c)
               PROVE  at(k) = c
    OBVIOUS
  <2> DEFINE d == at(k)
  <2>1. d \in 0..M /\ InStep(M, P, n, rd, k, d)
    BY <1>6
  <2> HIDE DEF d
  <2>2. ~(c < d) /\ ~(d < c)
    BY <2>1, InStepOne
  <2>3. d = c
    BY <1>1, <2>1, <2>2
  <2> QED
    BY <2>3 DEF d
<1> HIDE DEF T, at
<1>8. ASSUME NEW k \in 1..n PROVE Passes(B[k], route[k - 1], route[k])
  <2> DEFINE c == at(k - 1)
             l == k - 1
  <2>1. l \in 0..n /\ k \in 0..n
    BY <1>1
  <2>2. c \in 0..M /\ InStep(M, P, n, rd, k - 1, c)
    BY <1>6, <2>1
  <2>3. route[l] = trace[c][2]
    BY <2>1
  <2> HIDE DEF c
  <2>4. CASE InStep(M, P, n, rd, k, c)
    <3>1. at(k) = c
      BY <1>7, <2>1, <2>2, <2>4
    <3>2. route[k] = route[l]
      BY <2>1, <2>3, <3>1
    <3> QED
      BY <3>2 DEF Passes
  <2>5. CASE /\ c + 1 \in 1..M /\ InStep(M, P, n, rd, k, c + 1)
             /\ \E i \in DOMAIN B[k].steps : B[k].steps[i] = P[c + 1]
    <3> DEFINE d == c + 1
    <3>1. d \in 1..M /\ d \in 0..M /\ d - 1 = c /\ InStep(M, P, n, rd, k, d)
      BY <1>1, <2>2, <2>5
    <3>2. PICK i \in DOMAIN B[k].steps : B[k].steps[i] = P[d]
      BY <2>5
    <3> HIDE DEF d
    <3>3. at(k) = d
      BY <1>7, <2>1, <3>1
    <3>4. route[k] = trace[d][2]
      BY <2>1, <3>3
    <3>5. B[k].steps[i].kind = B[k].kind
      BY DEF InRounds
    <3>6. \/ Carried(P[d], trace[d - 1], trace[d])
          \/ trace[d] = trace[d - 1]
      BY <3>1 DEF Course
    <3>7. \/ trace[c][2] = trace[d][2]
          \/ P[d].kind # Save /\ P[d].from = trace[c][2] /\ P[d].to = trace[d][2]
      BY <3>1, <3>6, CarriedBetween
    <3> QED
      BY <2>3, <3>2, <3>4, <3>5, <3>7 DEF Passes
  <2> QED
    BY <1>1, <2>2, <2>4, <2>5, InStepNext
<1>9. at(0) = 0
  BY <1>1, <1>2, <1>7
<1>10. at(n) = M
  <2> DEFINE c == at(n)
  <2>1. c \in 0..M /\ InStep(M, P, n, rd, n, c)
    BY <1>1, <1>6
  <2> HIDE DEF c
  <2>2. ~(c < M)
    <3> SUFFICES ASSUME c < M PROVE FALSE
      OBVIOUS
    <3> DEFINE d == c + 1
    <3>1. d \in 1..M /\ ~(d <= c)
      BY <1>1, <2>1
    <3> HIDE DEF d
    <3>2. P[d] \in S
      BY <3>1 DEF Course
    <3>3. PICK l \in 1..n : rd[l] = RoundOf(P[d])
      BY <3>2, RoundPlaces
    <3> QED
      BY <1>1, <2>1, <3>1, <3>3 DEF InStep
  <2>3. c = M
    BY <1>1, <2>1, <2>2
  <2> QED
    BY <2>3 DEF c
<1>11. route[0] = trace[0][2] /\ route[n] = trace[M][2]
  BY <1>1, <1>9, <1>10
<1> HIDE DEF route
<1>12. Route(B, 0, n, route)
  <2>1. (0 + 1)..n = 1..n
    BY <1>1
  <2> QED
    BY <1>8, <2>1 DEF Route
<1> QED
  BY <1>11, <1>12

\* Batches p, whatever the memories are, bring what is at loc to new, never lose it
\* on the way, and take it from rank to rank.
Delivers(g, exec, p, loc, new) ==
  \A w : Batched(g, exec, p, Len(p), w) =>
    /\ Read(g, w[Len(p)], new) = Read(g, w[0], loc)
    /\ \A k \in 0..Len(p) : \E place : /\ LocationOK(g, exec, place)
                                       /\ Read(g, w[k], place) = Read(g, w[0], loc)
    /\ \E route : /\ Route(p, 0, Len(p), route)
                  /\ route[0] = loc[2] /\ route[Len(p)] = new[2]

\* They do, along a course.
LEMMA CourseDelivers ==
  ASSUME NEW g, NEW exec, NEW S, NEW p, NEW rd, NEW loc, NEW new,
         InRounds(S, p, Len(p), rd), Leads(g, exec, S, loc, new)
  PROVE  Delivers(g, exec, p, loc, new)
<1>1. PICK M, P, trace : /\ Course(g, exec, S, M, P, trace)
                         /\ trace[0] = loc /\ trace[M] = new
  BY DEF Leads
<1>2. \A c \in 0..M : LocationOK(g, exec, trace[c])
  BY <1>1 DEF Course
<1> DEFINE n == Len(p)
<1> SUFFICES ASSUME NEW w, Batched(g, exec, p, n, w)
             PROVE  /\ Read(g, w[n], new) = Read(g, w[0], loc)
                    /\ \A k \in 0..n : \E place : /\ LocationOK(g, exec, place)
                                                  /\ Read(g, w[k], place) = Read(g, w[0], loc)
                    /\ \E route : /\ Route(p, 0, n, route)
                                  /\ route[0] = loc[2] /\ route[n] = new[2]
  BY DEF Delivers
<1> HIDE DEF n
<1>3. InRounds(S, p, n, rd)
  BY DEF n
<1>4. /\ \A k \in 0..n : \E c \in 0..M : Read(g, w[k], trace[c]) = Read(g, w[0], trace[0])
      /\ Read(g, w[n], trace[M]) = Read(g, w[0], trace[0])
  BY <1>1, <1>3, CourseRuns
<1>5. \E route : /\ Route(p, 0, n, route)
                 /\ route[0] = trace[0][2] /\ route[n] = trace[M][2]
  BY <1>1, <1>3, CourseRoute
<1> QED
  BY <1>1, <1>2, <1>4, <1>5

\* So a plan of two phases brings data where the one and then the other lead it,
\* in whichever order they are listed.
LEMMA PhasesDeliver ==
  ASSUME NEW g, NEW exec, NEW S, NEW T, NEW a, NEW b, NEW l, NEW m, NEW p,
         NEW loc, NEW via, NEW new,
         PhaseList(S, a, l), PhaseList(T, b, m), a < b,
         \/ p = Tagged(exec, BatchNative2DSteps(l \o m))
         \/ p = Tagged(exec, BatchNative2DSteps(m \o l)),
         Leads(g, exec, S, loc, via), Leads(g, exec, T, via, new)
  PROVE  Delivers(g, exec, p, loc, new)
<1>1. /\ a \in Int /\ b \in Int
      /\ \A s \in S : s.phase = a
      /\ \A s \in T : s.phase = b
  BY DEF PhaseList
<1>2. a # b
  BY <1>1
<1>3. Leads(g, exec, S \cup T, loc, new)
  BY <1>1, LeadsOn, PhasesFollow
<1>4. \E rd : InRounds(S \cup T, p, Len(p), rd)
  <2>1. CASE p = Tagged(exec, BatchNative2DSteps(l \o m))
    BY <1>2, <2>1, PhasesBatched
  <2>2. CASE p = Tagged(exec, BatchNative2DSteps(m \o l))
    <3>1. \E rd : InRounds(T \cup S, p, Len(p), rd)
      BY <1>2, <2>2, PhasesBatched
    <3>2. T \cup S = S \cup T
      OBVIOUS
    <3> QED
      BY <3>1, <3>2
  <2> QED
    BY <2>1, <2>2
<1> QED
  BY <1>3, <1>4, CourseDelivers

(***************************************************************************)
(* The edge plan, there and back.                                          *)
(***************************************************************************)

\* Two steps of a wave, on different lines, share no rank.
LEMMA WaveUnshared ==
  ASSUME NEW g, NEW dir \in Directions, NEW ph, NEW v, NEW q \in LinesOf(g, dir),
         NEW u \in LinesOf(g, dir), q # u, GeometryOK(g),
         Segment(g, dir, v.from, v.extent), Segment(g, dir, v.to, v.extent)
  PROVE  ~Conflicts(WaveStep(g, dir, ph, v, q), WaveStep(g, dir, ph, v, u))
<1>1. v.from \in Places(g, dir) /\ v.to \in Places(g, dir)
  BY DEF Segment
<1>2. RankOn(g, dir, q, v.from) # RankOn(g, dir, u, v.from)
  BY <1>1, RanksApart
<1>3. RankOn(g, dir, q, v.to) # RankOn(g, dir, u, v.to)
  BY <1>1, RanksApart
<1> QED
  BY <1>2, <1>3 DEF Conflicts, WaveStep, Step

\* Listed waves are a phase.
LEMMA ListedPhase ==
  ASSUME NEW g, NEW dir \in Directions, NEW ph \in Int, NEW n, NEW waves, NEW list, NEW at,
         GeometryOK(g), WavesOK(g, dir, n, waves), Listed(g, dir, ph, n, waves, list, at)
  PROVE  PhaseList(WaveSteps(g, dir, ph, n, waves), ph, list)
<1> DEFINE S == WaveSteps(g, dir, ph, n, waves)
<1>1. /\ list \in Seq(S)
      /\ \A k \in 1..Len(list) :
           /\ at[k][1] \in 1..n /\ at[k][2] \in 1..Lines(g, dir)
           /\ list[k] = WaveStep(g, dir, ph, waves[at[k][1]], at[k][2] - 1)
      /\ \A k, l \in 1..Len(list) : at[k][1] = at[l][1] /\ at[k][2] = at[l][2] => k = l
      /\ \A w \in 1..n, p \in 1..Lines(g, dir) :
           \E k \in 1..Len(list) : at[k][1] = w /\ at[k][2] = p
  BY DEF Listed
<1>2. /\ \A w \in 1..n : /\ waves[w].seq \in Int
                         /\ Segment(g, dir, waves[w].from, waves[w].extent)
                         /\ Segment(g, dir, waves[w].to, waves[w].extent)
      /\ \A w, v \in 1..n : w # v => waves[w].seq # waves[v].seq
  BY DEF WavesOK
<1>3. \A w \in 1..n, q \in LinesOf(g, dir) :
        RoundOf(WaveStep(g, dir, ph, waves[w], q)) = <<ph, waves[w].seq, Move>>
  <2> TAKE w \in 1..n, q \in LinesOf(g, dir)
  <2> DEFINE v == waves[w]
  <2>1. Segment(g, dir, v.from, v.extent) /\ Segment(g, dir, v.to, v.extent)
    BY <1>2
  <2> HIDE DEF v
  <2>2. RoundOf(WaveStep(g, dir, ph, v, q)) = <<ph, v.seq, Move>>
    BY <2>1, WaveStepIs
  <2> QED
    BY <2>2 DEF v
<1>4. \A w \in 1..n, q \in LinesOf(g, dir) :
        LET s == WaveStep(g, dir, ph, waves[w], q)
        IN  s.phase = ph /\ s.seq = waves[w].seq /\ s.kind = Move
  BY DEF WaveStep, Step
<1>5. Lines(g, dir) \in Nat /\ LinesOf(g, dir) = 0..(Lines(g, dir) - 1)
  BY SizesOf DEF LinesOf
<1>6. \A k \in 1..Len(list) : at[k][2] - 1 \in LinesOf(g, dir)
  <2> TAKE k \in 1..Len(list)
  <2>1. at[k][2] \in 1..Lines(g, dir)
    BY <1>1
  <2> QED
    BY <1>5, <2>1
<1>7. Timed(S) /\ \A s \in S : s.phase = ph
  BY <1>2, <1>4 DEF Timed, WaveSteps, Move
<1>8. StepsIn(list) = S
  <2>1. \A k \in 1..Len(list) : list[k] \in S
    BY <1>1, ElementOfSeq
  <2>2. ASSUME NEW w \in 1..n, NEW q \in LinesOf(g, dir)
        PROVE  \E k \in 1..Len(list) : list[k] = WaveStep(g, dir, ph, waves[w], q)
    <3> DEFINE p == q + 1
    <3>1. p \in 1..Lines(g, dir) /\ p - 1 = q
      BY <1>5
    <3> HIDE DEF p
    <3>2. PICK k \in 1..Len(list) : at[k][1] = w /\ at[k][2] = p
      BY <1>1, <3>1
    <3>3. list[k] = WaveStep(g, dir, ph, waves[at[k][1]], at[k][2] - 1) /\ at[k][2] - 1 = q
      BY <1>1, <3>1, <3>2
    <3> QED
      BY <3>2, <3>3
  <2>3. StepsIn(list) \subseteq S
    BY <2>1 DEF StepsIn
  <2>4. \A w \in 1..n, q \in LinesOf(g, dir) :
          WaveStep(g, dir, ph, waves[w], q) \in StepsIn(list)
    <3> TAKE w \in 1..n, q \in LinesOf(g, dir)
    <3>1. PICK k \in 1..Len(list) : list[k] = WaveStep(g, dir, ph, waves[w], q)
      BY <2>2
    <3> QED
      BY <3>1 DEF StepsIn
  <2>5. S \subseteq StepsIn(list)
    BY <2>4 DEF WaveSteps
  <2> QED
    BY <2>3, <2>5
<1>9. RoundsUnshared(list)
  <2> SUFFICES ASSUME NEW k \in 1..Len(list), NEW l \in 1..Len(list), k # l,
                      RoundOf(list[k]) = RoundOf(list[l])
               PROVE  ~Conflicts(list[k], list[l])
    BY DEF RoundsUnshared
  <2> DEFINE w == at[k][1]
             q == at[k][2] - 1
             o == at[l][1]
             u == at[l][2] - 1
  <2>1. /\ w \in 1..n /\ o \in 1..n /\ q \in LinesOf(g, dir) /\ u \in LinesOf(g, dir)
        /\ list[k] = WaveStep(g, dir, ph, waves[w], q)
        /\ list[l] = WaveStep(g, dir, ph, waves[o], u)
    BY <1>1, <1>6
  <2>2. w = o => q # u
    <3>1. at[k][2] \in Int /\ at[l][2] \in Int
      BY <1>1
    <3>2. ~(at[k][1] = at[l][1] /\ at[k][2] = at[l][2])
      BY <1>1
    <3> QED
      BY <3>1, <3>2, SMTT(60)
  <2> HIDE DEF w, q, o, u
  <2>3. w = o
    <3>1. <<ph, waves[w].seq, Move>> = <<ph, waves[o].seq, Move>>
      BY <1>3, <2>1
    <3>2. waves[w].seq = waves[o].seq
      BY <3>1
    <3> QED
      BY <1>2, <2>1, <3>2
  <2> DEFINE v == waves[w]
  <2>4. /\ list[k] = WaveStep(g, dir, ph, v, q) /\ list[l] = WaveStep(g, dir, ph, v, u)
        /\ Segment(g, dir, v.from, v.extent) /\ Segment(g, dir, v.to, v.extent)
    BY <1>2, <2>1, <2>3
  <2> HIDE DEF v
  <2>5. ~Conflicts(WaveStep(g, dir, ph, v, q), WaveStep(g, dir, ph, v, u))
    BY <2>1, <2>2, <2>3, <2>4, WaveUnshared
  <2> QED
    BY <2>4, <2>5
<1> HIDE DEF S
<1>10. PhaseList(S, ph, list)
  BY <1>1, <1>7, <1>8, <1>9 DEF PhaseList
<1> QED
  BY <1>10 DEF S

\* The cell of the global padded matrix in row X and column Y.
GlobalAt(g, X, Y) == InMatrix(RankAt(g, X \div g.rows, Y \div g.cols), X % g.rows, Y % g.cols)

\* It is a cell of a place of a line, in both directions.
LEMMA GlobalSpot ==
  ASSUME NEW g, GeometryOK(g), NEW X \in Places(g, "rows"), NEW Y \in Places(g, "cols")
  PROVE  /\ GlobalAt(g, X, Y) = SpotOn(g, "cols", X \div g.rows, Y, X % g.rows)
         /\ GlobalAt(g, X, Y) = SpotOn(g, "rows", Y \div g.cols, X, Y % g.cols)
         /\ X \div g.rows \in LinesOf(g, "cols") /\ Y \div g.cols \in LinesOf(g, "rows")
         /\ X % g.rows \in 0..(Cross(g, "cols") - 1)
         /\ Y % g.cols \in 0..(Cross(g, "rows") - 1)
<1>1. "cols" \in Directions /\ "rows" \in Directions
  BY DEF Directions
<1>2. /\ X \div Side(g, "rows") \in 0..(Procs(g, "rows") - 1)
      /\ X % Side(g, "rows") \in 0..(Side(g, "rows") - 1)
      /\ Y \div Side(g, "cols") \in 0..(Procs(g, "cols") - 1)
      /\ Y % Side(g, "cols") \in 0..(Side(g, "cols") - 1)
  BY <1>1, PlaceIs
<1>3. /\ Side(g, "rows") = g.rows /\ Side(g, "cols") = g.cols
      /\ Procs(g, "rows") = g.prows /\ Procs(g, "cols") = g.pcols
      /\ Lines(g, "cols") = g.prows /\ Lines(g, "rows") = g.pcols
      /\ Cross(g, "cols") = g.rows /\ Cross(g, "rows") = g.cols
  BY DEF Side, Procs, Lines, Cross
<1>4. GlobalAt(g, X, Y) = SpotOn(g, "cols", X \div g.rows, Y, X % g.rows)
  BY DEF GlobalAt, SpotOn, RankOn
<1>5. GlobalAt(g, X, Y) = SpotOn(g, "rows", Y \div g.cols, X, Y % g.cols)
  BY DEF GlobalAt, SpotOn, RankOn
<1> QED
  BY <1>2, <1>3, <1>4, <1>5 DEF LinesOf

\* The moves of both axes.
ColumnMoves(g) ==
  BuildAxisEdgePaddingMoves(g.pcols, LocalLogicalCols(g), g.cols, Larger(1, g.scratch \div g.rows))
RowMoves(g) ==
  BuildAxisEdgePaddingMoves(g.prows, LocalLogicalRows(g), g.rows, Larger(1, g.scratch \div g.cols))

\* Moves of an axis stay within ranks.
LEMMA MovesFit ==
  ASSUME NEW g, NEW dir \in Directions, NEW maxExtent, GeometryOK(g),
         NEW m \in AxisMoves(Procs(g, dir), Side(g, dir), maxExtent)
  PROVE  Segment(g, dir, m.source, m.extent) /\ Segment(g, dir, m.target, m.extent)
<1> DEFINE n == Procs(g, dir)
           p == Side(g, dir)
<1>1. n \in Nat \ {0} /\ p \in Nat \ {0}
  BY SizesOf
<1>2. /\ m.source \in Nat /\ m.target \in Nat /\ m.extent \in Nat \ {0}
      /\ (m.source % p) + m.extent <= p /\ (m.target % p) + m.extent <= p
      /\ m.source \div p < n /\ m.target \div p < n
  BY DEF AxisMoves
<1>3. Places(g, dir) = 0..(n * p - 1)
  BY DEF Places
<1> HIDE DEF n, p
<1>4. \A x \in Nat : x \div p < n => x \in 0..(n * p - 1)
  <2> SUFFICES ASSUME NEW x \in Nat, x \div p < n PROVE x \in 0..(n * p - 1)
    OBVIOUS
  <2> DEFINE b == x \div p
             c == x % p
  <2>1. b \in Nat /\ c \in 0..(p - 1) /\ x = b * p + c
    BY <1>1, DivMod
  <2>2. b \in 0..(n - 1)
    <3>1. b < n
      OBVIOUS
    <3> HIDE DEF b
    <3> QED
      BY <1>1, <2>1, <3>1
  <2> HIDE DEF b, c
  <2>3. b * p + c \in 0..(n * p - 1)
    BY <1>1, <2>1, <2>2, PlaceInRow
  <2> QED
    BY <2>1, <2>3
<1> QED
  BY <1>2, <1>3, <1>4 DEF Segment, p

\* They fill it.
LEMMA AxisFilled ==
  ASSUME NEW g, NEW dir \in Directions, GeometryOK(g), NEW logical \in Nat \ {0},
         NEW maxExtent \in Nat \ {0}, logical <= Side(g, dir), NEW moves,
         moves = BuildAxisEdgePaddingMoves(Procs(g, dir), logical, Side(g, dir), maxExtent)
  PROVE  /\ AxisOK(g, dir, logical, moves)
         /\ moves \in Seq(AxisMoves(Procs(g, dir), Side(g, dir), maxExtent))
<1> DEFINE n == Procs(g, dir)
           p == Side(g, dir)
           M == AxisMoves(n, p, maxExtent)
<1>1. n \in Nat \ {0} /\ p \in Nat \ {0} /\ logical <= p
  BY SizesOf
<1>2. moves = BuildAxisEdgePaddingMoves(n, logical, p, maxExtent)
  OBVIOUS
<1>3. \A m \in M : Segment(g, dir, m.source, m.extent) /\ Segment(g, dir, m.target, m.extent)
  BY MovesFit
<1> HIDE DEF n, p
<1>4. moves \in Seq(M)
  BY <1>1, <1>2, AxisMovesTyped
<1>5. PullsOver(moves, 0, n * logical, logical, p)
  BY <1>1, <1>2, AxisPulls
<1> HIDE DEF M
<1>6. Len(moves) \in Nat /\ \A w \in 1..Len(moves) : moves[w] \in M
  BY <1>4, LenProperties, ElementOfSeq
<1>7. AxisOK(g, dir, logical, moves)
  BY <1>1, <1>3, <1>5, <1>6 DEF AxisOK, n, p
<1> QED
  BY <1>4, <1>7 DEF M, n, p

\* The planner's moves of both axes fill them.
LEMMA AxesOK ==
  ASSUME NEW g, GeometryOK(g)
  PROVE  /\ AxisOK(g, "cols", LocalLogicalCols(g), ColumnMoves(g))
         /\ AxisOK(g, "rows", LocalLogicalRows(g), RowMoves(g))
         /\ \E M : ColumnMoves(g) \in Seq(M)
         /\ \E M : RowMoves(g) \in Seq(M)
<1> DEFINE mh == Larger(1, g.scratch \div g.rows)
           mv == Larger(1, g.scratch \div g.cols)
<1>1. /\ g.prows \in Nat \ {0} /\ g.pcols \in Nat \ {0}
      /\ g.rows \in Nat \ {0} /\ g.cols \in Nat \ {0}
      /\ g.scratch \in Nat /\ g.scratch >= g.rows /\ g.scratch >= g.cols
  BY DEF GeometryOK, EdgeArgumentsOK
<1>2. mh \in Nat \ {0} /\ mv \in Nat \ {0}
  BY <1>1, BudgetIs
<1>3. /\ LocalLogicalRows(g) \in Nat \ {0} /\ LocalLogicalRows(g) <= g.rows
      /\ LocalLogicalCols(g) \in Nat \ {0} /\ LocalLogicalCols(g) <= g.cols
  BY SharesFit
<1>4. /\ "cols" \in Directions /\ "rows" \in Directions
      /\ Side(g, "cols") = g.cols /\ Procs(g, "cols") = g.pcols
      /\ Side(g, "rows") = g.rows /\ Procs(g, "rows") = g.prows
  BY DEF Directions, Side, Procs
<1> DEFINE hm == ColumnMoves(g)
           vm == RowMoves(g)
           lh == LocalLogicalCols(g)
           lv == LocalLogicalRows(g)
<1>5. /\ hm = BuildAxisEdgePaddingMoves(Procs(g, "cols"), lh, Side(g, "cols"), mh)
      /\ vm = BuildAxisEdgePaddingMoves(Procs(g, "rows"), lv, Side(g, "rows"), mv)
  BY <1>4 DEF ColumnMoves, RowMoves
<1>6. lh \in Nat \ {0} /\ lh <= Side(g, "cols") /\ lv \in Nat \ {0} /\ lv <= Side(g, "rows")
  BY <1>3, <1>4
<1> HIDE DEF mh, mv, hm, vm, lh, lv
<1>7. /\ AxisOK(g, "cols", lh, hm)
      /\ hm \in Seq(AxisMoves(Procs(g, "cols"), Side(g, "cols"), mh))
  BY <1>2, <1>4, <1>5, <1>6, AxisFilled
<1>8. /\ AxisOK(g, "rows", lv, vm)
      /\ vm \in Seq(AxisMoves(Procs(g, "rows"), Side(g, "rows"), mv))
  BY <1>2, <1>4, <1>5, <1>6, AxisFilled
<1>9. \E M : hm \in Seq(M)
  BY <1>7
<1>10. \E M : vm \in Seq(M)
  BY <1>8
<1> QED
  BY <1>7, <1>8, <1>9, <1>10 DEF hm, vm, lh, lv

\* Turning a list around is turning its parts around.
LEMMA TurnedTogether ==
  ASSUME NEW S, NEW l \in Seq(S), NEW m \in Seq(S), NEW last
  PROVE  TurnedList(l \o m, last) = TurnedList(l, last) \o TurnedList(m, last)
<1> DEFINE T == {Turned(s, last) : s \in S}
           c == Len(l)
           d == Len(m)
           list == l \o m
           tl == TurnedList(l, last)
           tm == TurnedList(m, last)
           t == TurnedList(list, last)
           z == tl \o tm
<1>1. /\ c \in Nat /\ d \in Nat
      /\ \A k \in 1..c : l[k] \in S
      /\ \A k \in 1..d : m[k] \in S
  BY LenProperties, ElementOfSeq
<1>2. /\ list \in Seq(S) /\ Len(list) = c + d
      /\ \A k \in 1..(c + d) : list[k] = IF k <= c THEN l[k] ELSE m[k - c]
  BY ConcatProperties
<1>3. \A k \in 1..Len(list) : list[k] \in S
  BY <1>2, ElementOfSeq
<1>4. /\ tl = [k \in 1..c |-> Turned(l[k], last)]
      /\ tm = [k \in 1..d |-> Turned(m[k], last)]
      /\ t = [k \in 1..Len(list) |-> Turned(list[k], last)]
  BY DEF TurnedList
<1>20. \A s \in S : Turned(s, last) \in T
  OBVIOUS
<1> HIDE DEF T, c, d, list, tl, tm, t
<1>5. tl \in Seq(T) /\ Len(tl) = c /\ tm \in Seq(T) /\ Len(tm) = d
  <2>1. tl \in [1..c -> T] /\ tm \in [1..d -> T]
    BY <1>1, <1>4, <1>20
  <2> QED
    BY <1>1, <2>1, SeqIntro, LenProperties
<1>6. t \in Seq(T) /\ Len(t) = c + d
  <2>1. t \in [1..(c + d) -> T] /\ c + d \in Nat
    BY <1>1, <1>2, <1>3, <1>4, <1>20
  <2> DEFINE n == c + d
  <2> HIDE DEF n
  <2>2. t \in Seq(T) /\ Len(t) = n
    BY <2>1, SeqIntro, LenProperties DEF n
  <2> QED
    BY <2>2 DEF n
<1>7. /\ z \in Seq(T) /\ Len(z) = c + d
      /\ \A k \in 1..(c + d) : z[k] = IF k <= c THEN tl[k] ELSE tm[k - c]
  BY <1>5, ConcatProperties
<1> HIDE DEF z
<1>8. \A k \in 1..(c + d) : z[k] = t[k]
  <2> TAKE k \in 1..(c + d)
  <2>1. t[k] = Turned(list[k], last)
    BY <1>2, <1>4
  <2>2. CASE k <= c
    <3>1. k \in 1..c
      BY <1>1, <2>2
    <3> QED
      BY <1>2, <1>4, <1>7, <2>1, <2>2, <3>1
  <2>3. CASE ~(k <= c)
    <3> DEFINE i == k - c
    <3>1. i \in 1..d /\ list[k] = m[i] /\ z[k] = tm[i]
      BY <1>1, <1>2, <1>7, <2>3
    <3> HIDE DEF i
    <3> QED
      BY <1>4, <2>1, <3>1
  <2> QED
    BY <2>2, <2>3
<1>9. z = t
  <2> DEFINE n == c + d
  <2>1. /\ Len(z) = n /\ Len(t) = n /\ \A k \in 1..n : z[k] = t[k]
    BY <1>6, <1>7, <1>8
  <2> HIDE DEF n
  <2>2. Len(z) = Len(t) /\ \A k \in 1..Len(z) : z[k] = t[k]
    BY <2>1
  <2> QED
    BY <1>6, <1>7, <2>2, SeqEqual
<1> QED
  BY <1>9 DEF z, t, list, tl, tm

\* The way back is the steps turned around, the last wave of each phase first.
LEMMA ReverseIsTurned ==
  ASSUME NEW g, GeometryOK(g)
  PROVE  \E last : /\ last[0] \in Int /\ last[1] \in Int
                   /\ ReverseEdgePaddingSteps(EdgeSteps(g)) = TurnedList(EdgeSteps(g), last)
<1> DEFINE steps == EdgeSteps(g)
           last == [p \in {0, 1} |-> LastWave(steps, p)]
           rev == ReverseEdgePaddingSteps(steps)
<1>1. PICK S : \E N \in Nat : steps \in Seq(S) /\ Chained(g, S) /\ \A s \in S : s.seq \in 0..N
  BY EdgeStepsChained
<1>2. PICK N \in Nat : steps \in Seq(S) /\ Chained(g, S) /\ \A s \in S : s.seq \in 0..N
  BY <1>1
<1> HIDE DEF steps
<1>3. DOMAIN steps = 1..Len(steps) /\ \A i \in 1..Len(steps) : steps[i] \in S
  BY <1>2, LenProperties, ElementOfSeq
<1>4. last[0] \in Int /\ last[1] \in Int
  <2>1. LastWave(steps, 0) \in Int /\ LastWave(steps, 1) \in Int
    BY <1>2, LastWaveIs
  <2> QED
    BY <2>1
<1>5. \A p \in {0, 1} : last[p] = LastWave(steps, p)
  OBVIOUS
<1>6. \A s \in S : s.phase \in {0, 1}
  BY <1>2 DEF Chained
<1>7. rev = [i \in DOMAIN steps |->
               Step(1 - steps[i].phase, LastWave(steps, steps[i].phase) - steps[i].seq, Move,
                    steps[i].to, steps[i].from, steps[i].target, steps[i].source)]
  BY DEF ReverseEdgePaddingSteps, LastWave
<1> HIDE DEF last, rev
<1>8. rev = TurnedList(steps, last)
  <2>1. \A i \in DOMAIN steps :
          Turned(steps[i], last)
            = Step(1 - steps[i].phase, LastWave(steps, steps[i].phase) - steps[i].seq, Move,
                   steps[i].to, steps[i].from, steps[i].target, steps[i].source)
    BY <1>3, <1>5, <1>6 DEF Turned
  <2>2. TurnedList(steps, last) = [i \in DOMAIN steps |-> Turned(steps[i], last)]
    BY <1>3 DEF TurnedList
  <2> QED
    BY <1>7, <2>1, <2>2
<1> QED
  BY <1>4, <1>8 DEF rev, steps

\* Where an entry is in the padded axes.
PaddedRow(g, i) == PaddedAt(LocalLogicalRows(g), g.rows, i)
PaddedCol(g, j) == PaddedAt(LocalLogicalCols(g), g.cols, j)
LogicalRows(g)  == 0..(g.prows * LocalLogicalRows(g) - 1)
LogicalCols(g)  == 0..(g.pcols * LocalLogicalCols(g) - 1)

\* Its places are places of the padded axes.
LEMMA LogicalPlaces ==
  ASSUME NEW g, GeometryOK(g), NEW i \in LogicalRows(g), NEW j \in LogicalCols(g)
  PROVE  /\ i \in Places(g, "rows") /\ PaddedRow(g, i) \in Places(g, "rows")
         /\ j \in Places(g, "cols") /\ PaddedCol(g, j) \in Places(g, "cols")
<1>1. /\ "cols" \in Directions /\ "rows" \in Directions
      /\ Side(g, "cols") = g.cols /\ Procs(g, "cols") = g.pcols
      /\ Side(g, "rows") = g.rows /\ Procs(g, "rows") = g.prows
  BY DEF Directions, Side, Procs
<1>2. /\ AxisOK(g, "cols", LocalLogicalCols(g), ColumnMoves(g))
      /\ AxisOK(g, "rows", LocalLogicalRows(g), RowMoves(g))
  BY AxesOK
<1> DEFINE lh == LocalLogicalCols(g)
           lv == LocalLogicalRows(g)
           hm == ColumnMoves(g)
           vm == RowMoves(g)
<1>3. i \in 0..(Procs(g, "rows") * lv - 1) /\ j \in 0..(Procs(g, "cols") * lh - 1)
  BY <1>1 DEF LogicalRows, LogicalCols
<1>4. PaddedRow(g, i) = PaddedAt(lv, Side(g, "rows"), i)
      /\ PaddedCol(g, j) = PaddedAt(lh, Side(g, "cols"), j)
  BY <1>1 DEF PaddedRow, PaddedCol
<1> HIDE DEF lh, lv, hm, vm
<1>5. AxisPlace(g, "rows", lv, vm, i, PaddedAt(lv, Side(g, "rows"), i))
  BY <1>1, <1>2, <1>3, AxisPlaceIs DEF lv, vm
<1>6. AxisPlace(g, "cols", lh, hm, j, PaddedAt(lh, Side(g, "cols"), j))
  BY <1>1, <1>2, <1>3, AxisPlaceIs DEF lh, hm
<1> QED
  BY <1>4, <1>5, <1>6 DEF AxisPlace

\* The two phases of the edge plan, and of its way back.
LEMMA EdgePhases ==
  ASSUME NEW g, GeometryOK(g)
  PROVE  /\ PhaseList(WaveSteps(g, "cols", 0, Len(ColumnMoves(g)), TowardsEdge(ColumnMoves(g))),
                      0, HorizontalSteps(g, ColumnMoves(g)))
         /\ PhaseList(WaveSteps(g, "rows", 1, Len(RowMoves(g)), TowardsEdge(RowMoves(g))),
                      1, VerticalSteps(g, RowMoves(g)))
         /\ \A last : last[0] \in Int /\ last[1] \in Int =>
              /\ PhaseList(WaveSteps(g, "cols", 1, Len(ColumnMoves(g)),
                                     FromEdge(ColumnMoves(g), last[0])),
                           1, TurnedList(HorizontalSteps(g, ColumnMoves(g)), last))
              /\ PhaseList(WaveSteps(g, "rows", 0, Len(RowMoves(g)),
                                     FromEdge(RowMoves(g), last[1])),
                           0, TurnedList(VerticalSteps(g, RowMoves(g)), last))
<1> DEFINE hm == ColumnMoves(g)
           vm == RowMoves(g)
           hs == HorizontalSteps(g, hm)
           vs == VerticalSteps(g, vm)
           lh == LocalLogicalCols(g)
           lv == LocalLogicalRows(g)
<1>1. /\ AxisOK(g, "cols", lh, hm) /\ AxisOK(g, "rows", lv, vm)
      /\ \E M : hm \in Seq(M)
      /\ \E M : vm \in Seq(M)
  BY AxesOK
<1>2. "cols" \in Directions /\ "rows" \in Directions
  BY DEF Directions
<1> HIDE DEF hm, vm, lh, lv
<1>3. PICK ah : Listed(g, "cols", 0, Len(hm), TowardsEdge(hm), hs, ah)
  BY <1>1, HorizontalListed
<1>4. PICK av : Listed(g, "rows", 1, Len(vm), TowardsEdge(vm), vs, av)
  BY <1>1, VerticalListed
<1> HIDE DEF hs, vs
<1>5. \A z \in Int : /\ WavesOK(g, "cols", Len(hm), TowardsEdge(hm))
                     /\ WavesOK(g, "cols", Len(hm), FromEdge(hm, z))
                     /\ WavesOK(g, "rows", Len(vm), TowardsEdge(vm))
                     /\ WavesOK(g, "rows", Len(vm), FromEdge(vm, z))
  BY <1>1, AxisWaves
<1>6. 0 \in Int /\ 1 \in Int
  OBVIOUS
<1>7. WavesOK(g, "cols", Len(hm), TowardsEdge(hm)) /\ WavesOK(g, "rows", Len(vm), TowardsEdge(vm))
  BY <1>5, <1>6
<1>8. PhaseList(WaveSteps(g, "cols", 0, Len(hm), TowardsEdge(hm)), 0, hs)
  BY <1>2, <1>3, <1>6, <1>7, ListedPhase
<1>9. PhaseList(WaveSteps(g, "rows", 1, Len(vm), TowardsEdge(vm)), 1, vs)
  BY <1>2, <1>4, <1>6, <1>7, ListedPhase
<1>10. ASSUME NEW last, last[0] \in Int, last[1] \in Int
       PROVE  /\ PhaseList(WaveSteps(g, "cols", 1, Len(hm), FromEdge(hm, last[0])),
                           1, TurnedList(hs, last))
              /\ PhaseList(WaveSteps(g, "rows", 0, Len(vm), FromEdge(vm, last[1])),
                           0, TurnedList(vs, last))
  <2> DEFINE one == 1 - 0
             nil == 1 - 1
  <2>1. Listed(g, "cols", one, Len(hm), FromEdge(hm, last[0]), TurnedList(hs, last), ah)
    BY <1>2, <1>3, TurnedListed
  <2>2. Listed(g, "rows", nil, Len(vm), FromEdge(vm, last[1]), TurnedList(vs, last), av)
    BY <1>2, <1>4, TurnedListed
  <2>3. one = 1 /\ nil = 0
    OBVIOUS
  <2> HIDE DEF one, nil
  <2>4. Listed(g, "cols", 1, Len(hm), FromEdge(hm, last[0]), TurnedList(hs, last), ah)
    BY <2>1, <2>3
  <2>5. Listed(g, "rows", 0, Len(vm), FromEdge(vm, last[1]), TurnedList(vs, last), av)
    BY <2>2, <2>3
  <2>6. PhaseList(WaveSteps(g, "cols", 1, Len(hm), FromEdge(hm, last[0])), 1, TurnedList(hs, last))
    BY <1>2, <1>5, <1>6, <1>10, <2>4, ListedPhase
  <2>7. PhaseList(WaveSteps(g, "rows", 0, Len(vm), FromEdge(vm, last[1])), 0, TurnedList(vs, last))
    BY <1>2, <1>5, <1>6, <1>10, <2>5, ListedPhase
  <2> QED
    BY <2>6, <2>7
<1> QED
  BY <1>8, <1>9, <1>10 DEF hm, vm, hs, vs

\* The edge plan brings the entries to the corner of the padded matrix.
LEMMA EdgeDelivers ==
  ASSUME NEW g, GeometryOK(g), NEW i \in LogicalRows(g), NEW j \in LogicalCols(g), NEW p,
         p = Tagged("edge", BatchNative2DSteps(EdgeSteps(g)))
  PROVE  Delivers(g, "edge", p, GlobalAt(g, PaddedRow(g, i), PaddedCol(g, j)), GlobalAt(g, i, j))
<1> DEFINE hm == ColumnMoves(g)
           vm == RowMoves(g)
           hs == HorizontalSteps(g, hm)
           vs == VerticalSteps(g, vm)
           S == WaveSteps(g, "cols", 0, Len(hm), TowardsEdge(hm))
           T == WaveSteps(g, "rows", 1, Len(vm), TowardsEdge(vm))
           X == PaddedRow(g, i)
           Y == PaddedCol(g, j)
<1>1. EdgeSteps(g) = hs \o vs
  BY DEF EdgeSteps, BuildEdgePaddingNative2DSteps, ColumnMoves, RowMoves
<1>2. PhaseList(S, 0, hs) /\ PhaseList(T, 1, vs)
  BY EdgePhases
<1>3. /\ i \in Places(g, "rows") /\ X \in Places(g, "rows")
      /\ j \in Places(g, "cols") /\ Y \in Places(g, "cols")
  BY LogicalPlaces
<1>4. AxisOK(g, "cols", LocalLogicalCols(g), hm) /\ AxisOK(g, "rows", LocalLogicalRows(g), vm)
  BY AxesOK
<1>5. /\ "cols" \in Directions /\ "rows" \in Directions /\ 0 \in Int /\ 1 \in Int
      /\ X = PaddedAt(LocalLogicalRows(g), Side(g, "rows"), i)
      /\ Y = PaddedAt(LocalLogicalCols(g), Side(g, "cols"), j)
      /\ i \in 0..(Procs(g, "rows") * LocalLogicalRows(g) - 1)
      /\ j \in 0..(Procs(g, "cols") * LocalLogicalCols(g) - 1)
  BY DEF Directions, PaddedRow, PaddedCol, Side, Procs, LogicalRows, LogicalCols
<1> HIDE DEF hm, vm, hs, vs, X, Y
<1>6. Leads(g, "edge", S, GlobalAt(g, X, Y), GlobalAt(g, X, j))
  <2> DEFINE q == X \div g.rows
             y == X % g.rows
  <2>1. /\ GlobalAt(g, X, Y) = SpotOn(g, "cols", q, Y, y)
        /\ q \in LinesOf(g, "cols") /\ y \in 0..(Cross(g, "cols") - 1)
    BY <1>3, GlobalSpot
  <2>2. GlobalAt(g, X, j) = SpotOn(g, "cols", q, j, y)
    BY <1>3, GlobalSpot
  <2> HIDE DEF q, y
  <2>3. Leads(g, "edge", S, SpotOn(g, "cols", q, Y, y), SpotOn(g, "cols", q, j, y))
    BY <1>4, <1>5, <2>1, TowardsLeads
  <2> QED
    BY <2>1, <2>2, <2>3
<1>7. Leads(g, "edge", T, GlobalAt(g, X, j), GlobalAt(g, i, j))
  <2> DEFINE q == j \div g.cols
             y == j % g.cols
  <2>1. /\ GlobalAt(g, X, j) = SpotOn(g, "rows", q, X, y)
        /\ q \in LinesOf(g, "rows") /\ y \in 0..(Cross(g, "rows") - 1)
    BY <1>3, GlobalSpot
  <2>2. GlobalAt(g, i, j) = SpotOn(g, "rows", q, i, y)
    BY <1>3, GlobalSpot
  <2> HIDE DEF q, y
  <2>3. Leads(g, "edge", T, SpotOn(g, "rows", q, X, y), SpotOn(g, "rows", q, i, y))
    BY <1>4, <1>5, <2>1, TowardsLeads
  <2> QED
    BY <2>1, <2>2, <2>3
<1> HIDE DEF S, T
<1>8. 0 < 1 /\ p = Tagged("edge", BatchNative2DSteps(hs \o vs))
  BY <1>1
<1>9. Delivers(g, "edge", p, GlobalAt(g, X, Y), GlobalAt(g, i, j))
  BY <1>2, <1>6, <1>7, <1>8, PhasesDeliver
<1> QED
  BY <1>9 DEF X, Y

\* Its way back brings them back.
LEMMA EdgeBackDelivers ==
  ASSUME NEW g, GeometryOK(g), NEW i \in LogicalRows(g), NEW j \in LogicalCols(g), NEW p,
         p = Tagged("edge", BatchNative2DSteps(ReverseEdgePaddingSteps(EdgeSteps(g))))
  PROVE  Delivers(g, "edge", p, GlobalAt(g, i, j), GlobalAt(g, PaddedRow(g, i), PaddedCol(g, j)))
<1>1. PICK last : /\ last[0] \in Int /\ last[1] \in Int
                  /\ ReverseEdgePaddingSteps(EdgeSteps(g)) = TurnedList(EdgeSteps(g), last)
  BY ReverseIsTurned
<1> DEFINE hm == ColumnMoves(g)
           vm == RowMoves(g)
           hs == HorizontalSteps(g, hm)
           vs == VerticalSteps(g, vm)
           S == WaveSteps(g, "cols", 1, Len(hm), FromEdge(hm, last[0]))
           T == WaveSteps(g, "rows", 0, Len(vm), FromEdge(vm, last[1]))
           X == PaddedRow(g, i)
           Y == PaddedCol(g, j)
           th == TurnedList(hs, last)
           tv == TurnedList(vs, last)
<1>2. EdgeSteps(g) = hs \o vs
  BY DEF EdgeSteps, BuildEdgePaddingNative2DSteps, ColumnMoves, RowMoves
<1>3. PhaseList(S, 1, th) /\ PhaseList(T, 0, tv)
  <2>1. \A z : z[0] \in Int /\ z[1] \in Int =>
              /\ PhaseList(WaveSteps(g, "cols", 1, Len(hm), FromEdge(hm, z[0])),
                           1, TurnedList(hs, z))
              /\ PhaseList(WaveSteps(g, "rows", 0, Len(vm), FromEdge(vm, z[1])),
                           0, TurnedList(vs, z))
    BY EdgePhases
  <2> HIDE DEF hm, vm, hs, vs
  <2> QED
    BY <1>1, <2>1
<1>4. \E U : hs \in Seq(U) /\ vs \in Seq(U)
  <2> DEFINE A == WaveSteps(g, "cols", 0, Len(hm), TowardsEdge(hm))
             B == WaveSteps(g, "rows", 1, Len(vm), TowardsEdge(vm))
  <2>1. PhaseList(A, 0, hs) /\ PhaseList(B, 1, vs)
    BY EdgePhases
  <2> HIDE DEF A, B, hs, vs
  <2>2. hs \in Seq(A) /\ vs \in Seq(B)
    BY <2>1 DEF PhaseList
  <2>3. A \subseteq A \cup B /\ B \subseteq A \cup B
    OBVIOUS
  <2> DEFINE U == A \cup B
  <2> HIDE DEF U
  <2>4. hs \in Seq(U) /\ vs \in Seq(U)
    <3>1. A \subseteq U /\ B \subseteq U
      BY <2>3 DEF U
    <3> QED
      BY <2>2, <3>1, SeqMonotonic
  <2> QED
    BY <2>4
<1>5. /\ i \in Places(g, "rows") /\ X \in Places(g, "rows")
      /\ j \in Places(g, "cols") /\ Y \in Places(g, "cols")
  BY LogicalPlaces
<1>6. AxisOK(g, "cols", LocalLogicalCols(g), hm) /\ AxisOK(g, "rows", LocalLogicalRows(g), vm)
  BY AxesOK
<1>7. /\ "cols" \in Directions /\ "rows" \in Directions /\ 0 \in Int /\ 1 \in Int
      /\ X = PaddedAt(LocalLogicalRows(g), Side(g, "rows"), i)
      /\ Y = PaddedAt(LocalLogicalCols(g), Side(g, "cols"), j)
      /\ i \in 0..(Procs(g, "rows") * LocalLogicalRows(g) - 1)
      /\ j \in 0..(Procs(g, "cols") * LocalLogicalCols(g) - 1)
  BY DEF Directions, PaddedRow, PaddedCol, Side, Procs, LogicalRows, LogicalCols
<1> HIDE DEF hm, vm, hs, vs, X, Y
<1>8. Leads(g, "edge", T, GlobalAt(g, i, j), GlobalAt(g, X, j))
  <2> DEFINE q == j \div g.cols
             y == j % g.cols
  <2>1. /\ GlobalAt(g, i, j) = SpotOn(g, "rows", q, i, y)
        /\ q \in LinesOf(g, "rows") /\ y \in 0..(Cross(g, "rows") - 1)
    BY <1>5, GlobalSpot
  <2>2. GlobalAt(g, X, j) = SpotOn(g, "rows", q, X, y)
    BY <1>5, GlobalSpot
  <2> HIDE DEF q, y
  <2>3. Leads(g, "edge", T, SpotOn(g, "rows", q, i, y), SpotOn(g, "rows", q, X, y))
    BY <1>1, <1>6, <1>7, <2>1, BackLeads
  <2> QED
    BY <2>1, <2>2, <2>3
<1>9. Leads(g, "edge", S, GlobalAt(g, X, j), GlobalAt(g, X, Y))
  <2> DEFINE q == X \div g.rows
             y == X % g.rows
  <2>1. /\ GlobalAt(g, X, j) = SpotOn(g, "cols", q, j, y)
        /\ q \in LinesOf(g, "cols") /\ y \in 0..(Cross(g, "cols") - 1)
    BY <1>5, GlobalSpot
  <2>2. GlobalAt(g, X, Y) = SpotOn(g, "cols", q, Y, y)
    BY <1>5, GlobalSpot
  <2> HIDE DEF q, y
  <2>3. Leads(g, "edge", S, SpotOn(g, "cols", q, j, y), SpotOn(g, "cols", q, Y, y))
    BY <1>1, <1>6, <1>7, <2>1, BackLeads
  <2> QED
    BY <2>1, <2>2, <2>3
<1> HIDE DEF S, T
<1>10. p = Tagged("edge", BatchNative2DSteps(th \o tv))
  <2>1. PICK U : hs \in Seq(U) /\ vs \in Seq(U)
    BY <1>4
  <2>3. TurnedList(hs \o vs, last) = TurnedList(hs, last) \o TurnedList(vs, last)
    BY <2>1, TurnedTogether
  <2> QED
    BY <1>1, <1>2, <2>3
<1> HIDE DEF th, tv
<1>11. 0 < 1
  OBVIOUS
<1>12. Delivers(g, "edge", p, GlobalAt(g, i, j), GlobalAt(g, X, Y))
  BY <1>3, <1>8, <1>9, <1>10, <1>11, PhasesDeliver
<1> QED
  BY <1>12 DEF X, Y

(***************************************************************************)
(* The slab planner's lists of steps, cycle by cycle.                      *)
(***************************************************************************)
\* Step k of the program of a cycle.
CycleStep(phase, decode, slots, offset, k) ==
  LET n     == Len(slots)
      saved == decode[slots[n - 1]]
      first == decode[slots[1]]
      from  == decode[slots[n - 1 - k]]
      to    == decode[slots[n - k]]
  IN  IF k = 0 THEN Step(phase, offset, Save, saved.rank, -1, saved.rect, NoRect)
      ELSE IF k = n - 1
      THEN Step(phase, offset + n - 1, Restore, saved.rank, first.rank, NoRect, first.rect)
      ELSE Step(phase, offset + k, Move, from.rank, to.rank, from.rect, to.rect)

\* The program is the steps of a cycle, as many as its closed walk has slots.
CycleProgram(list, phase, decode, slots, offset) ==
  /\ Len(list) = Len(slots)
  /\ \A k \in 1..Len(slots) : list[k] = CycleStep(phase, decode, slots, offset, k - 1)

\* What AppendCycleSteps appends for a cycle: a save, the moves, a restore.
LEMMA CycleProgramIs ==
  ASSUME NEW phase, NEW n, NEW decode, NEW slots, NEW offset,
         slots \in Cycles(n), offset \in Nat
  PROVE  CycleProgram(AppendCycleSteps(phase, decode, slots, offset),
                      phase, decode, slots, offset)
<1> DEFINE L == Len(slots)
           st(k) == CycleStep(phase, decode, slots, offset, k)
           S == {st(k) : k \in 0..(L - 1)}
           saved == decode[slots[L - 1]]
           first == decode[slots[1]]
           save == Step(phase, offset, Save, saved.rank, -1, saved.rect, NoRect)
           Mv(k) == LET source == decode[slots[RotationSource(L, k)]]
                        target == decode[slots[RotationSource(L, k) + 1]]
                    IN  Step(phase, offset + k, Move,
                             source.rank, target.rank, source.rect, target.rect)
           moves == [k \in 1..(L - 2) |-> Mv(k)]
           restore == Step(phase, offset + L - 1, Restore,
                           saved.rank, first.rank, NoRect, first.rect)
           b == <<save>>
           bm == b \o moves
           all == bm \o <<restore>>
<1>1. L \in Nat /\ L >= 2
  <2> DEFINE V == 0..(n - 1)
  <2>1. slots \in Seq(V) /\ Len(slots) >= 2
    BY DEF Cycles
  <2> HIDE DEF V
  <2> QED
    BY <2>1, LenProperties
<1>2. AppendCycleSteps(phase, decode, slots, offset) = all
  BY DEF AppendCycleSteps
<1>3. save = st(0)
  BY DEF CycleStep
<1>4. restore = st(L - 1)
  <2>1. L - 1 # 0
    BY <1>1, SMTT(60)
  <2> QED
    BY <2>1 DEF CycleStep
<1>5. \A k \in 1..(L - 2) : Mv(k) = st(k)
  <2> TAKE k \in 1..(L - 2)
  <2>1. k # 0 /\ k # L - 1 /\ RotationSource(L, k) = L - 1 - k /\ RotationSource(L, k) + 1 = L - k
    BY <1>1 DEF RotationSource
  <2> QED
    BY <2>1 DEF CycleStep
<1>6. \A k \in 0..(L - 1) : st(k) \in S
  OBVIOUS
<1> HIDE DEF L, S, st, save, Mv, restore
<1>7. save \in S /\ restore \in S /\ \A k \in 1..(L - 2) : Mv(k) \in S
  BY <1>1, <1>3, <1>4, <1>5, <1>6
<1>8. /\ moves \in Seq(S) /\ Len(moves) = L - 2
      /\ \A k \in 1..(L - 2) : moves[k] = st(k)
  <2> DEFINE m == L - 2
  <2>1. m \in Nat /\ moves \in [1..m -> S]
    BY <1>1, <1>7
  <2>2. \A k \in 1..m : moves[k] = st(k)
    BY <1>5
  <2> HIDE DEF moves, m
  <2>3. moves \in Seq(S) /\ Len(moves) = m
    BY <2>1, SeqIntro, LenProperties
  <2> QED
    BY <2>2, <2>3 DEF m
<1>9. b \in Seq(S) /\ Len(b) = 1 /\ b[1] = save
  BY <1>7
<1>10. <<restore>> \in Seq(S) /\ Len(<<restore>>) = 1 /\ <<restore>>[1] = restore
  BY <1>7
<1> HIDE DEF b, moves
<1>11. /\ bm \in Seq(S) /\ Len(bm) = L - 1
       /\ \A k \in 1..(L - 1) : bm[k] = st(k - 1)
  <2>1. /\ bm \in Seq(S) /\ Len(bm) = Len(b) + Len(moves)
        /\ \A k \in 1..(Len(b) + Len(moves)) :
             bm[k] = IF k <= Len(b) THEN b[k] ELSE moves[k - Len(b)]
    BY <1>8, <1>9, ConcatProperties
  <2>2. Len(b) + Len(moves) = L - 1
    BY <1>1, <1>8, <1>9
  <2>3. ASSUME NEW k \in 1..(L - 1) PROVE bm[k] = st(k - 1)
    <3>1. CASE k = 1
      <4>1. bm[1] = save /\ 1 - 1 = 0
        BY <1>1, <1>9, <2>1, <2>2, <3>1
      <4> QED
        BY <1>3, <3>1, <4>1
    <3>2. CASE k # 1
      <4> DEFINE z == k - 1
      <4>1. z \in 1..(L - 2) /\ bm[k] = moves[z]
        BY <1>1, <1>9, <2>1, <2>2, <3>2
      <4> HIDE DEF z
      <4>2. bm[k] = st(z)
        BY <1>8, <4>1
      <4> QED
        BY <4>2 DEF z
    <3> QED
      BY <3>1, <3>2
  <2> QED
    BY <2>1, <2>2, <2>3
<1> HIDE DEF bm
<1>12. Len(all) = L /\ \A k \in 1..L : all[k] = st(k - 1)
  <2> DEFINE r == <<restore>>
  <2>0. r \in Seq(S) /\ Len(r) = 1 /\ r[1] = restore
    BY <1>10
  <2> HIDE DEF r
  <2>1. /\ Len(bm \o r) = Len(bm) + Len(r)
        /\ \A k \in 1..(Len(bm) + Len(r)) :
             (bm \o r)[k] = IF k <= Len(bm) THEN bm[k] ELSE r[k - Len(bm)]
    BY <1>11, <2>0, ConcatProperties
  <2>2. Len(bm) + Len(r) = L
    BY <1>1, <1>11, <2>0
  <2>3. ASSUME NEW k \in 1..L PROVE (bm \o r)[k] = st(k - 1)
    <3>1. CASE k = L
      <4>1. (bm \o r)[k] = restore
        <5>1. ~(k <= Len(bm)) /\ k - Len(bm) = 1
          BY <1>1, <1>11, <3>1
        <5> QED
          BY <2>0, <2>1, <2>2, <5>1
      <4> QED
        BY <1>4, <3>1, <4>1
    <3>2. CASE k # L
      <4>1. k \in 1..(L - 1)
        BY <1>1, <3>2
      <4>2. (bm \o r)[k] = bm[k]
        BY <1>1, <1>11, <2>1, <2>2, <4>1
      <4> QED
        BY <1>11, <4>1, <4>2
    <3> QED
      BY <3>1, <3>2
  <2> QED
    BY <2>1, <2>2, <2>3 DEF r
<1> HIDE DEF all
<1> QED
  BY <1>2, <1>12 DEF CycleProgram, L, st

\* The cycles of a group come one after the other.
LEMMA OffsetsApart ==
  ASSUME NEW n, NEW cs, cs \in Seq(Cycles(n))
  PROVE  \A i, j \in 1..Len(cs) : i < j => Offsets(cs)[i] + Len(cs[i]) <= Offsets(cs)[j]
<1> DEFINE N == Len(cs)
           o == Offsets(cs)
           c == [i \in 1..N |-> Len(cs[i])]
<1>1. N \in Nat /\ \A i \in 1..N : c[i] \in Nat
  <2> DEFINE C == Cycles(n)
  <2>1. \A x \in C : Len(x) \in Nat
    BY LenProperties DEF Cycles
  <2> HIDE DEF C
  <2>2. cs \in Seq(C)
    BY DEF C
  <2>3. Len(cs) \in Nat /\ \A i \in 1..Len(cs) : cs[i] \in C
    BY <2>2, LenProperties, ElementOfSeq
  <2> QED
    BY <2>1, <2>3
<1>2. \A i \in 1..N : o[i] \in Nat /\ (i # 1 => o[i] = o[i - 1] + c[i - 1])
  <2>1. \A i \in 1..N : /\ o[i] \in Nat
                        /\ o[i] = IF i = 1 THEN 0 ELSE o[i - 1] + Len(cs[i - 1])
    BY OffsetsTyped
  <2>2. \A i \in 1..N : i # 1 => i - 1 \in 1..N
    BY <1>1
  <2> HIDE DEF o, N
  <2> QED
    BY <2>1, <2>2
<1>3. \A i \in 1..N : c[i] = Len(cs[i])
  OBVIOUS
<1> HIDE DEF o, c, N
<1> DEFINE T == {j \in Nat : j \in 1..N => \A i \in 1..N : i < j => o[i] + c[i] <= o[j]}
<1>4. 0 \in T
  OBVIOUS
<1>5. ASSUME NEW j \in Nat, j \in T PROVE j + 1 \in T
  <2> DEFINE k == j + 1
  <2>1. k \in Nat /\ k - 1 = j
    OBVIOUS
  <2> HIDE DEF k
  <2>2. ASSUME k \in 1..N, NEW i \in 1..N, i < k PROVE o[i] + c[i] <= o[k]
    <3>1. k # 1 /\ j \in 1..N /\ (i = j \/ i < j)
      BY <1>1, <2>1, <2>2
    <3>2. o[k] = o[j] + c[j] /\ o[j] \in Nat /\ c[j] \in Nat /\ o[i] \in Nat /\ c[i] \in Nat
      BY <1>1, <1>2, <2>1, <2>2, <3>1
    <3>3. i < j => o[i] + c[i] <= o[j]
      BY <1>5, <3>1
    <3> QED
      BY <3>1, <3>2, <3>3
  <2>3. k \in T
    BY <2>1, <2>2
  <2> QED
    BY <2>3 DEF k
<1>6. Nat \subseteq T
  <2> HIDE DEF T
  <2> QED
    BY <1>4, <1>5, SetInduction
<1>7. ASSUME NEW i \in 1..N, NEW j \in 1..N, i < j PROVE o[i] + c[i] <= o[j]
  <2>1. j \in T
    BY <1>1, <1>6
  <2> QED
    BY <1>7, <2>1
<1> QED
  BY <1>3, <1>7 DEF o, N

\* A list has the steps of cycles' programs, each once: cycle e starts at start[e],
\* and at says which step of which cycle is where.
Programmed(list, phase, decode, cycles, start, at) ==
  /\ \A p \in 1..Len(list) :
       /\ at[p][1] \in 1..Len(cycles) /\ at[p][2] \in 0..(Len(cycles[at[p][1]]) - 1)
       /\ list[p] = CycleStep(phase, decode, cycles[at[p][1]], start[at[p][1]], at[p][2])
  /\ \A p, q \in 1..Len(list) : at[p][1] = at[q][1] /\ at[p][2] = at[q][2] => p = q
  /\ \A e \in 1..Len(cycles) : \A k \in 0..(Len(cycles[e]) - 1) :
       \E p \in 1..Len(list) : at[p][1] = e /\ at[p][2] = k

\* The cycles of a group are such a list,
LEMMA GroupProgrammed ==
  ASSUME NEW g, NEW phase, NEW n, NEW h, NEW w, NEW decode, Decodes(decode, g, n, h, w),
         NEW cs, cs \in Seq(Cycles(n))
  PROVE  \E at : Programmed(Serially(phase, decode, cs), phase, decode, cs, Offsets(cs), at)
<1> DEFINE S == SlabSteps(g, phase, h, w)
           C == Cycles(n)
           o == Offsets(cs)
           N == Len(cs)
           f == [i \in DOMAIN cs |-> AppendCycleSteps(phase, decode, cs[i], o[i])]
           list == Serially(phase, decode, cs)
           c == [i \in 1..N |-> Len(cs[i])]
           st(i, k) == CycleStep(phase, decode, cs[i], o[i], k)
<1>1. N \in Nat /\ DOMAIN cs = 1..N /\ \A i \in 1..N : cs[i] \in C
  <2> HIDE DEF C
  <2>1. cs \in Seq(C)
    BY DEF C
  <2> QED
    BY <2>1, LenProperties, ElementOfSeq
<1>2. \A i \in 1..N : o[i] \in Nat
  BY OffsetsTyped
<1>3. list = FlattenSeq(f)
  BY DEF Serially, Offsets
<1> HIDE DEF o
<1>4. \A i \in 1..N : AppendCycleSteps(phase, decode, cs[i], o[i]) \in Seq(S)
  BY <1>1, <1>2, CycleStepsTyped
<1>5. \A i \in 1..N : CycleProgram(AppendCycleSteps(phase, decode, cs[i], o[i]),
                                   phase, decode, cs[i], o[i])
  BY <1>1, <1>2, CycleProgramIs
<1>6. \A i \in 1..N : c[i] = Len(cs[i]) /\ c[i] \in Nat
  <2>1. \A x \in C : Len(x) \in Nat
    BY LenProperties DEF Cycles
  <2> HIDE DEF C
  <2> QED
    BY <1>1, <2>1
<1> HIDE DEF S, c
<1>7. f \in [1..N -> Seq(S)]
  BY <1>1, <1>4
<1>8. \A i \in 1..N : /\ Len(f[i]) = c[i]
                      /\ \A k \in 1..c[i] : f[i][k] = st(i, k - 1)
  <2> TAKE i \in 1..N
  <2>1. f[i] = AppendCycleSteps(phase, decode, cs[i], o[i])
    BY <1>1
  <2>2. CycleProgram(f[i], phase, decode, cs[i], o[i])
    BY <1>5, <2>1
  <2> HIDE DEF f
  <2> QED
    BY <1>6, <2>2 DEF CycleProgram
<1> HIDE DEF f, N, st, C
<1>9. PICK z : PlacedBy(FlattenSeq(f), N, f, z)
  BY <1>1, <1>7, FlattenPlaced
<1>10. PlacedBy(list, N, f, z)
  BY <1>3, <1>9
<1> HIDE DEF list
<1> DEFINE at == [p \in 1..Len(list) |-> <<z[p][1], z[p][2] - 1>>]
<1>11. \A p \in 1..Len(list) : at[p][1] = z[p][1] /\ at[p][2] = z[p][2] - 1
  OBVIOUS
<1> HIDE DEF at
<1>12. ASSUME NEW p \in 1..Len(list)
       PROVE  /\ z[p][1] \in 1..N /\ z[p][2] \in 1..c[z[p][1]] /\ z[p] \in (1..N) \X Nat
              /\ at[p][2] \in 0..(c[at[p][1]] - 1)
              /\ list[p] = st(at[p][1], at[p][2])
  <2>1. /\ z[p] \in (1..N) \X Nat /\ z[p][2] \in 1..Len(f[z[p][1]])
        /\ list[p] = f[z[p][1]][z[p][2]]
    BY <1>10 DEF PlacedBy
  <2> DEFINE i == z[p][1]
             k == z[p][2]
             d == k - 1
  <2>2. i \in 1..N /\ k \in Nat /\ k \in 1..Len(f[i]) /\ list[p] = f[i][k]
    BY <2>1
  <2>3. at[p][1] = i /\ at[p][2] = d
    BY <1>11
  <2>4. d = k - 1
    OBVIOUS
  <2> HIDE DEF i, k, d
  <2>5. c[i] \in Nat /\ k \in 1..c[i] /\ list[p] = st(i, d)
    BY <1>6, <1>8, <2>2, <2>4
  <2>6. d \in 0..(c[i] - 1)
    BY <2>4, <2>5
  <2> QED
    BY <2>1, <2>2, <2>3, <2>5, <2>6 DEF i, k
<1>13. ASSUME NEW p \in 1..Len(list), NEW q \in 1..Len(list),
              at[p][1] = at[q][1], at[p][2] = at[q][2]
       PROVE  p = q
  <2>1. \A a, b \in (1..N) \X Nat : a[1] = b[1] /\ a[2] = b[2] => a = b
    OBVIOUS
  <2>2. z[p] \in (1..N) \X Nat /\ z[q] \in (1..N) \X Nat
    BY <1>12
  <2>3. z[p][2] \in Nat /\ z[q][2] \in Nat
    BY <2>2
  <2>4. z[p][1] = z[q][1] /\ z[p][2] = z[q][2]
    <3> DEFINE a == z[p][2]
               b == z[q][2]
    <3>1. a \in Nat /\ b \in Nat /\ at[p][2] = a - 1 /\ at[q][2] = b - 1
      BY <1>11, <2>3
    <3>2. z[p][1] = z[q][1]
      BY <1>11, <1>13
    <3> HIDE DEF a, b
    <3>3. a - 1 = b - 1
      BY <1>13, <3>1
    <3>4. a = b
      BY <3>1, <3>3
    <3> QED
      BY <3>2, <3>4 DEF a, b
  <2>5. z[p] = z[q]
    BY <2>1, <2>2, <2>4
  <2> QED
    BY <1>10, <2>5 DEF PlacedBy
<1>14. ASSUME NEW e \in 1..N, NEW k \in 0..(c[e] - 1)
       PROVE  \E p \in 1..Len(list) : at[p][1] = e /\ at[p][2] = k
  <2> DEFINE j == k + 1
  <2>1. j \in 1..Len(f[e]) /\ j - 1 = k
    BY <1>6, <1>8
  <2> HIDE DEF j
  <2>2. PICK p \in 1..Len(list) : z[p] = <<e, j>>
    BY <1>10, <2>1 DEF PlacedBy
  <2>3. z[p][1] = e /\ z[p][2] = j
    BY <2>2
  <2> QED
    BY <1>11, <2>1, <2>3
<1>15. \A p \in 1..Len(list) : at[p][1] \in 1..N
  BY <1>11, <1>12
<1>16. \A p \in 1..Len(list) : /\ at[p][1] \in 1..N /\ at[p][2] \in 0..(Len(cs[at[p][1]]) - 1)
                               /\ list[p] = st(at[p][1], at[p][2])
  BY <1>6, <1>12, <1>15
<1>17. \A e \in 1..N : \A k \in 0..(Len(cs[e]) - 1) :
         \E p \in 1..Len(list) : at[p][1] = e /\ at[p][2] = k
  BY <1>6, <1>14, ZenonT(60)
<1>18. \A p, q \in 1..Len(list) : at[p][1] = at[q][1] /\ at[p][2] = at[q][2] => p = q
  BY <1>13
<1>19. Programmed(list, phase, decode, cs, o, at)
  BY <1>16, <1>17, <1>18 DEF Programmed, N, st
<1> QED
  BY <1>19 DEF o, list

\* Cycles of one group are not run at the same time.
Scheduled(cycles, size, start) ==
  /\ \A e \in 1..Len(cycles) : start[e] \in Nat
  /\ \A e, f \in 1..Len(cycles) :
       e # f /\ cycles[e][1] \div size = cycles[f][1] \div size
         => \/ start[e] + Len(cycles[e]) <= start[f]
            \/ start[f] + Len(cycles[f]) <= start[e]

\* The cycles of m groups: group z has len[z] of them, which ord[z] says.
Grouped(N, group, m, groups, len, ord) ==
  /\ m \in Nat /\ \A y, z \in 1..m : groups[y] = groups[z] => y = z
  /\ \A z \in 1..m : /\ len[z] \in Nat
                     /\ \A i \in 1..len[z] : ord[z][i] \in 1..N /\ group[ord[z][i]] = groups[z]
                     /\ \A i, j \in 1..len[z] : ord[z][i] = ord[z][j] => i = j
  /\ \A e \in 1..N : \E z \in 1..m : groups[z] = group[e] /\ \E i \in 1..len[z] : ord[z][i] = e

\* Every cycle has its group zof[e] and its place iof[e] there.
InGroup(N, group, m, groups, len, ord, zof, iof) ==
  /\ \A y, z \in 1..m : groups[y] = groups[z] => y = z
  /\ \A e \in 1..N : /\ zof[e] \in 1..m /\ iof[e] \in 1..len[zof[e]]
                     /\ ord[zof[e]][iof[e]] = e /\ groups[zof[e]] = group[e]
  /\ \A z \in 1..m : \A i \in 1..len[z] :
       zof[ord[z][i]] = z /\ iof[ord[z][i]] = i

\* Every member of a grouped list is in one place of one group.
LEMMA GroupedOnce ==
  ASSUME NEW N, NEW group, NEW m, NEW groups, NEW len, NEW ord,
         Grouped(N, group, m, groups, len, ord)
  PROVE  \E zof, iof : InGroup(N, group, m, groups, len, ord, zof, iof)
<1> DEFINE zof == [e \in 1..N |-> CHOOSE z \in 1..m : groups[z] = group[e]]
           iof == [e \in 1..N |-> CHOOSE i \in 1..len[zof[e]] : ord[zof[e]][i] = e]
<1>1. \A e \in 1..N : zof[e] \in 1..m /\ groups[zof[e]] = group[e]
  BY DEF Grouped
<1>2. \A e \in 1..N : \E i \in 1..len[zof[e]] : ord[zof[e]][i] = e
  <2> TAKE e \in 1..N
  <2>1. PICK z \in 1..m : groups[z] = group[e] /\ \E i \in 1..len[z] : ord[z][i] = e
    BY DEF Grouped
  <2> HIDE DEF zof
  <2>2. zof[e] = z
    BY <1>1, <2>1 DEF Grouped
  <2> QED
    BY <2>1, <2>2
<1> HIDE DEF zof
<1>3. \A e \in 1..N : iof[e] \in 1..len[zof[e]] /\ ord[zof[e]][iof[e]] = e
  BY <1>2
<1> HIDE DEF iof
<1>4. ASSUME NEW z \in 1..m, NEW i \in 1..len[z]
      PROVE  zof[ord[z][i]] = z /\ iof[ord[z][i]] = i
  <2> DEFINE e == ord[z][i]
  <2>1. e \in 1..N /\ group[e] = groups[z]
    BY DEF Grouped
  <2>2. e = ord[z][i]
    OBVIOUS
  <2> HIDE DEF e
  <2>3. zof[e] = z
    BY <1>1, <2>1, SMTT(60) DEF Grouped
  <2>4. iof[e] \in 1..len[z] /\ ord[z][iof[e]] = ord[z][i]
    BY <1>3, <2>1, <2>2, <2>3
  <2>5. iof[e] = i
    BY <2>4 DEF Grouped
  <2> QED
    BY <2>2, <2>3, <2>5
<1>5. \A y, z \in 1..m : groups[y] = groups[z] => y = z
  BY DEF Grouped
<1>6. InGroup(N, group, m, groups, len, ord, zof, iof)
  BY <1>1, <1>3, <1>4, <1>5 DEF InGroup
<1> QED
  BY <1>6

\* So are those of an axis in groups.
AxisGrouped(cycles, size, m, groups, cs, ord) ==
  /\ Grouped(Len(cycles), [i \in 1..Len(cycles) |-> cycles[i][1] \div size],
             m, groups, [z \in 1..m |-> Len(cs[z])], ord)
  /\ \A z \in 1..m : \A i \in 1..Len(cs[z]) : cs[z][i] = cycles[ord[z][i]]

\* How AppendAxisGroupSerialCycles groups the cycles of an axis.
LEMMA AxisIsGrouped ==
  ASSUME NEW phase, NEW n, NEW decode,
         NEW size \in Nat \ {0}, NEW cycles, cycles \in Seq(Cycles(n))
  PROVE  \E m, groups, cs, ord :
           /\ AxisGrouped(cycles, size, m, groups, cs, ord)
           /\ m \in Nat /\ \A z \in 1..m : cs[z] \in Seq(Cycles(n))
           /\ AppendAxisGroupSerialCycles(phase, decode, size, cycles)
                = FlattenSeq([z \in 1..m |-> Serially(phase, decode, cs[z])])
<1> DEFINE C == Cycles(n)
           N == Len(cycles)
           group == [i \in 1..N |-> cycles[i][1] \div size]
           G == {group[i] : i \in 1..N}
           groups == Ordered(G, <)
           m == Cardinality(G)
           P(x) == {k \in 1..N : group[k] = x}
           Q == [z \in 1..m |-> P(groups[z])]
           cs == [z \in 1..m |-> Picked(cycles, Q[z])]
           ord == [z \in 1..m |-> CHOOSE order : PicksBy(C, cycles, Q[z], order)]
           len == [z \in 1..m |-> Len(cs[z])]
           f == [z \in 1..m |-> Serially(phase, decode, cs[z])]
<1>1. N \in Nat /\ DOMAIN cycles = 1..N /\ \A i \in 1..N : cycles[i] \in C
  <2> HIDE DEF C
  <2>1. cycles \in Seq(C)
    BY DEF C
  <2> QED
    BY <2>1, LenProperties, ElementOfSeq
<1>2. \A i \in 1..N : group[i] \in Int
  <2> TAKE i \in 1..N
  <2>1. cycles[i][1] \in Int
    <3> DEFINE V == 0..(n - 1)
               c == cycles[i]
    <3>1. c \in Seq(V) /\ Len(c) >= 2
      BY <1>1 DEF Cycles
    <3> HIDE DEF V, c
    <3>2. Len(c) \in Nat /\ \A k \in 1..Len(c) : c[k] \in V
      BY <3>1, LenProperties, ElementOfSeq
    <3>3. c[1] \in V
      BY <3>1, <3>2
    <3> QED
      BY <3>3 DEF V, c
  <2>2. \A z \in Int : z \div size \in Int
    BY SMT
  <2> QED
    BY <1>1, <2>1, <2>2
<1>3. G \in SUBSET Int /\ IsFiniteSet(G)
  <2> DEFINE A == 1..N
             h1 == [i \in A |-> group[i]]
  <2>1. IsFiniteSet(A)
    <3> HIDE DEF N
    <3> QED
      BY <1>1, FS_Interval
  <2>2. h1 \in [A -> G] /\ \A x \in G : \E i \in A : h1[i] = x
    <3> HIDE DEF group, N
    <3> QED
      BY <1>1
  <2>3. h1 \in Surjection(A, G)
    <3> HIDE DEF h1, A, G
    <3> QED
      BY <2>2 DEF Surjection
  <2>4. IsFiniteSet(G)
    <3> HIDE DEF h1, A, G
    <3> QED
      BY <2>1, <2>3, FS_Surjection
  <2>5. G \in SUBSET Int
    <3> HIDE DEF group, N
    <3> QED
      BY <1>1, <1>2
  <2> QED
    BY <2>4, <2>5
<1>4. AppendAxisGroupSerialCycles(phase, decode, size, cycles)
        = FlattenSeq([i \in DOMAIN groups |->
                        Serially(phase, decode, Picked(cycles, P(groups[i])))])
  BY <1>1 DEF AppendAxisGroupSerialCycles, Serially, SequenceCount
<1> HIDE DEF N, C
<1>5. /\ groups \in [1..m -> G] /\ m \in Nat
      /\ \A y, z \in 1..m : y < z => groups[y] < groups[z]
      /\ \A x \in G : \E z \in 1..m : groups[z] = x
  <2> HIDE DEF G
  <2>1. InOrder(G, LessIn(G), groups)
    BY <1>3, NumbersOrdered
  <2> QED
    BY <2>1 DEF InOrder, LessIn
<1>6. f = [i \in DOMAIN groups |-> Serially(phase, decode, Picked(cycles, P(groups[i])))]
  <2> HIDE DEF groups, P, m
  <2> QED
    BY <1>5
<1>7. \A i \in 1..N : group[i] \in G
  OBVIOUS
<1> HIDE DEF G, groups, m
<1>8. \A z \in 1..m : Q[z] \in SUBSET (1..Len(cycles))
  BY DEF N
<1>9. \A z \in 1..m : \A k \in 1..N : k \in Q[z] <=> group[k] = groups[z]
  OBVIOUS
<1> HIDE DEF Q, group
<1>10. \A z \in 1..m : PicksBy(C, cycles, Q[z], ord[z])
  <2> TAKE z \in 1..m
  <2>1. \E order : PicksBy(C, cycles, Q[z], order)
    BY <1>8, PickedIs DEF C
  <2>2. ord[z] = CHOOSE order : PicksBy(C, cycles, Q[z], order)
    OBVIOUS
  <2> HIDE DEF ord
  <2> QED
    BY <2>1, <2>2
<1>11. \A z \in 1..m : cs[z] = Picked(cycles, Q[z]) /\ len[z] = Len(cs[z])
  OBVIOUS
<1> HIDE DEF ord, cs, len, f
<1>12. ASSUME NEW z \in 1..m
       PROVE  /\ cs[z] \in Seq(C) /\ len[z] \in Nat
              /\ \A i \in 1..len[z] : ord[z][i] \in Q[z] /\ cs[z][i] = cycles[ord[z][i]]
              /\ \A i, j \in 1..len[z] : i < j => ord[z][i] < ord[z][j]
              /\ \A x \in Q[z] : \E i \in 1..len[z] : ord[z][i] = x
  <2> DEFINE p == Picked(cycles, Q[z])
             c == Cardinality(Q[z])
             o == ord[z]
  <2>1. /\ c \in Nat /\ o \in [1..c -> Q[z]]
        /\ \A i, j \in 1..c : i < j => o[i] < o[j]
        /\ \A x \in Q[z] : \E i \in 1..c : o[i] = x
        /\ p \in Seq(C) /\ Len(p) = c
        /\ \A i \in 1..c : p[i] = cycles[o[i]]
    BY <1>10 DEF PicksBy
  <2>2. cs[z] = p /\ len[z] = c
    BY <1>11, <2>1
  <2> HIDE DEF p, c
  <2> QED
    BY <2>1, <2>2
<1>13. Grouped(N, group, m, groups, len, ord)
  <2>1. \A y, z \in 1..m : groups[y] = groups[z] => y = z
    <3> TAKE y, z \in 1..m
    <3>1. groups[y] \in Int /\ groups[z] \in Int
      BY <1>3, <1>5
    <3>2. y = z \/ y < z \/ z < y
      OBVIOUS
    <3> QED
      BY <1>5, <3>1, <3>2
  <2>2. ASSUME NEW z \in 1..m
        PROVE  /\ len[z] \in Nat
               /\ \A i \in 1..len[z] : ord[z][i] \in 1..N /\ group[ord[z][i]] = groups[z]
               /\ \A i, j \in 1..len[z] : ord[z][i] = ord[z][j] => i = j
    <3>1. ASSUME NEW i \in 1..len[z]
          PROVE  ord[z][i] \in 1..N /\ group[ord[z][i]] = groups[z]
      <4>1. ord[z][i] \in Q[z]
        BY <1>12
      <4>2. ord[z][i] \in 1..N
        BY <1>8, <4>1 DEF N
      <4> QED
        BY <1>9, <4>1, <4>2
    <3>2. ASSUME NEW i \in 1..len[z], NEW j \in 1..len[z], ord[z][i] = ord[z][j]
          PROVE  i = j
      <4>1. ord[z][i] \in Int /\ ord[z][j] \in Int
        BY <3>1
      <4>2. i = j \/ i < j \/ j < i
        OBVIOUS
      <4> QED
        BY <1>12, <3>2, <4>1, <4>2
    <3> QED
      BY <1>12, <3>1, <3>2
  <2>3. ASSUME NEW e \in 1..N
        PROVE  \E z \in 1..m : groups[z] = group[e] /\ \E i \in 1..len[z] : ord[z][i] = e
    <3>1. PICK z \in 1..m : groups[z] = group[e]
      BY <1>5, <1>7
    <3>2. e \in Q[z]
      BY <1>9, <3>1
    <3> QED
      BY <1>12, <3>1, <3>2
  <2> QED
    BY <1>5, <2>1, <2>2, <2>3 DEF Grouped
<1>14. len = [z \in 1..m |-> Len(cs[z])]
  BY DEF len
<1>15. f = [z \in 1..m |-> Serially(phase, decode, cs[z])]
  BY DEF f
<1>16. AxisGrouped(cycles, size, m, groups, cs, ord)
  <2>1. \A z \in 1..m : \A i \in 1..Len(cs[z]) : cs[z][i] = cycles[ord[z][i]]
    BY <1>11, <1>12
  <2>2. Grouped(Len(cycles), [i \in 1..Len(cycles) |-> cycles[i][1] \div size],
                m, groups, [z \in 1..m |-> Len(cs[z])], ord)
    BY <1>13, <1>14 DEF group, N
  <2> QED
    BY <2>1, <2>2 DEF AxisGrouped
<1>17. AppendAxisGroupSerialCycles(phase, decode, size, cycles)
         = FlattenSeq([z \in 1..m |-> Serially(phase, decode, cs[z])])
  BY <1>4, <1>6, <1>15
<1>18. \A z \in 1..m : cs[z] \in Seq(Cycles(n))
  BY <1>12 DEF C
<1> QED
  BY <1>5, <1>16, <1>17, <1>18, SMTT(60)

\* The list of an axis has the programs of all cycles, those of a group one after
\* the other.
LEMMA AxisProgrammed ==
  ASSUME NEW g, NEW phase, NEW n, NEW h, NEW w, NEW decode, Decodes(decode, g, n, h, w),
         NEW size \in Nat \ {0}, NEW cycles, cycles \in Seq(Cycles(n))
  PROVE  \E start, at :
           /\ Scheduled(cycles, size, start)
           /\ Programmed(AppendAxisGroupSerialCycles(phase, decode, size, cycles),
                         phase, decode, cycles, start, at)
<1> DEFINE S == SlabSteps(g, phase, h, w)
           N == Len(cycles)
           group == [i \in 1..N |-> cycles[i][1] \div size]
           list == AppendAxisGroupSerialCycles(phase, decode, size, cycles)
<1>1. PICK m, groups, cs, ord :
           /\ AxisGrouped(cycles, size, m, groups, cs, ord)
           /\ m \in Nat /\ \A z \in 1..m : cs[z] \in Seq(Cycles(n))
           /\ list = FlattenSeq([z \in 1..m |-> Serially(phase, decode, cs[z])])
  BY AxisIsGrouped
<1> DEFINE len == [z \in 1..m |-> Len(cs[z])]
           f == [z \in 1..m |-> Serially(phase, decode, cs[z])]
           off == [z \in 1..m |-> Offsets(cs[z])]
           Inner(z, a) == Programmed(f[z], phase, decode, cs[z], off[z], a)
           inner == [z \in 1..m |-> CHOOSE a : Inner(z, a)]
<1>2. /\ Grouped(N, group, m, groups, len, ord)
      /\ \A z \in 1..m : \A i \in 1..Len(cs[z]) : cs[z][i] = cycles[ord[z][i]]
  BY <1>1 DEF AxisGrouped
<1>3. \A z \in 1..m : len[z] = Len(cs[z]) /\ f[z] = Serially(phase, decode, cs[z])
                      /\ off[z] = Offsets(cs[z])
  OBVIOUS
<1>4. list = FlattenSeq(f)
  BY <1>1
<1>5. f \in [1..m -> Seq(S)]
  <2>1. \A z \in 1..m : Serially(phase, decode, cs[z]) \in Seq(S)
    BY <1>1, SeriallyTyped
  <2> QED
    BY <2>1
<1> HIDE DEF list, len, f, off, N, group, S
<1>6. \A z \in 1..m : Inner(z, inner[z])
  <2> TAKE z \in 1..m
  <2>1. \E a : Programmed(Serially(phase, decode, cs[z]), phase, decode, cs[z],
                          Offsets(cs[z]), a)
    BY <1>1, GroupProgrammed
  <2>2. \E a : Inner(z, a)
    BY <1>3, <2>1
  <2> HIDE DEF Inner
  <2> QED
    BY <2>2
<1> HIDE DEF inner
<1>7. PICK zz : PlacedBy(list, m, f, zz)
  BY <1>1, <1>4, <1>5, FlattenPlaced
<1>18. PICK zof, iof : InGroup(N, group, m, groups, len, ord, zof, iof)
  BY <1>2, GroupedOnce
<1>8. /\ \A y, z \in 1..m : groups[y] = groups[z] => y = z
      /\ \A e \in 1..N : /\ zof[e] \in 1..m /\ iof[e] \in 1..len[zof[e]]
                         /\ ord[zof[e]][iof[e]] = e /\ groups[zof[e]] = group[e]
      /\ \A z \in 1..m : \A i \in 1..len[z] :
           zof[ord[z][i]] = z /\ iof[ord[z][i]] = i
  BY <1>18 DEF InGroup
<1>9. \A z \in 1..m : \A i \in 1..len[z] : /\ ord[z][i] \in 1..N
                                           /\ cs[z][i] = cycles[ord[z][i]]
  BY <1>2, <1>3 DEF Grouped
<1> DEFINE start == [e \in 1..N |-> off[zof[e]][iof[e]]]
           at == [p \in 1..Len(list) |->
                    <<ord[zz[p][1]][inner[zz[p][1]][zz[p][2]][1]],
                      inner[zz[p][1]][zz[p][2]][2]>>]
<1>10. \A z \in 1..m : \A i \in 1..len[z] : start[ord[z][i]] = off[z][i]
  BY <1>8, <1>9
<1>11. \A e \in 1..N : start[e] = off[zof[e]][iof[e]]
  OBVIOUS
<1>12. \A p \in 1..Len(list) :
         /\ at[p][1] = ord[zz[p][1]][inner[zz[p][1]][zz[p][2]][1]]
         /\ at[p][2] = inner[zz[p][1]][zz[p][2]][2]
  OBVIOUS
<1> HIDE DEF start, at
\* One place of the list.
<1>13. ASSUME NEW p \in 1..Len(list), NEW z, NEW j, z = zz[p][1], j = zz[p][2]
       PROVE  /\ z \in 1..m /\ j \in 1..Len(f[z]) /\ zz[p] = <<z, j>>
              /\ inner[z][j][1] \in 1..len[z]
              /\ at[p][1] = ord[z][inner[z][j][1]] /\ at[p][2] = inner[z][j][2]
              /\ at[p][1] \in 1..N /\ at[p][2] \in 0..(Len(cycles[at[p][1]]) - 1)
              /\ list[p] = CycleStep(phase, decode, cycles[at[p][1]], start[at[p][1]], at[p][2])
  <2>1. /\ zz[p] \in (1..m) \X Nat /\ zz[p][2] \in 1..Len(f[zz[p][1]])
        /\ list[p] = f[zz[p][1]][zz[p][2]]
    BY <1>7 DEF PlacedBy
  <2>2. z \in 1..m /\ j \in 1..Len(f[z]) /\ list[p] = f[z][j] /\ zz[p] = <<z, j>>
    BY <1>13, <2>1
  <2> DEFINE i == inner[z][j][1]
             k == inner[z][j][2]
             e == ord[z][i]
  <2>3. /\ i \in 1..Len(cs[z]) /\ k \in 0..(Len(cs[z][i]) - 1)
        /\ f[z][j] = CycleStep(phase, decode, cs[z][i], off[z][i], k)
    BY <1>6, <2>2 DEF Programmed
  <2>4. at[p][1] = e /\ at[p][2] = k
    BY <1>12, <1>13
  <2>5. e = ord[z][i]
    OBVIOUS
  <2> HIDE DEF i, k, e
  <2>6. i \in 1..len[z] /\ cs[z][i] = cycles[e] /\ off[z][i] = start[e] /\ e \in 1..N
    BY <1>3, <1>9, <1>10, <2>2, <2>3, <2>5
  <2> QED
    BY <2>2, <2>3, <2>4, <2>5, <2>6 DEF i, k
<1>14. ASSUME NEW p \in 1..Len(list), NEW q \in 1..Len(list),
              at[p][1] = at[q][1], at[p][2] = at[q][2]
       PROVE  p = q
  <2> DEFINE y == zz[p][1]
             z == zz[q][1]
             j == zz[p][2]
             k == zz[q][2]
  <2>0. y = zz[p][1] /\ z = zz[q][1] /\ j = zz[p][2] /\ k = zz[q][2]
    OBVIOUS
  <2> HIDE DEF y, z, j, k
  <2>1. /\ y \in 1..m /\ j \in 1..Len(f[y]) /\ zz[p] = <<y, j>> /\ inner[y][j][1] \in 1..len[y]
        /\ at[p][1] = ord[y][inner[y][j][1]] /\ at[p][2] = inner[y][j][2]
    BY <1>13, <2>0, SMTT(60)
  <2>2. /\ z \in 1..m /\ k \in 1..Len(f[z]) /\ zz[q] = <<z, k>> /\ inner[z][k][1] \in 1..len[z]
        /\ at[q][1] = ord[z][inner[z][k][1]] /\ at[q][2] = inner[z][k][2]
    BY <1>13, <2>0, SMTT(60)
  <2> DEFINE a == inner[y][j][1]
             b == inner[z][k][1]
  <2>7. a \in 1..len[y] /\ b \in 1..len[z] /\ ord[y][a] = ord[z][b]
    BY <1>14, <2>1, <2>2
  <2>8. a = inner[y][j][1] /\ b = inner[z][k][1]
    OBVIOUS
  <2> HIDE DEF a, b
  <2>3. y = z /\ a = b
    BY <1>8, <2>1, <2>2, <2>7, SMTT(60)
  <2>4. inner[z][j][1] = inner[z][k][1] /\ inner[z][j][2] = inner[z][k][2]
    BY <1>14, <2>1, <2>2, <2>3, <2>8
  <2>5. j = k
    BY <1>6, <2>1, <2>2, <2>3, <2>4 DEF Programmed
  <2>6. zz[p] = zz[q]
    BY <2>1, <2>2, <2>3, <2>5
  <2> QED
    BY <1>7, <2>6 DEF PlacedBy
<1>15. ASSUME NEW e \in 1..N, NEW k \in 0..(Len(cycles[e]) - 1)
       PROVE  \E p \in 1..Len(list) : at[p][1] = e /\ at[p][2] = k
  <2> DEFINE z == zof[e]
             i == iof[e]
  <2>1. z \in 1..m /\ i \in 1..len[z] /\ ord[z][i] = e
    BY <1>8
  <2> HIDE DEF z, i
  <2>2. i \in 1..Len(cs[z]) /\ cs[z][i] = cycles[e]
    BY <1>3, <1>9, <2>1
  <2>7. Programmed(f[z], phase, decode, cs[z], off[z], inner[z])
    BY <1>6, <2>1
  <2>8. \A x \in 1..Len(cs[z]) : \A y \in 0..(Len(cs[z][x]) - 1) :
          \E j \in 1..Len(f[z]) : inner[z][j][1] = x /\ inner[z][j][2] = y
    BY <2>7 DEF Programmed
  <2>9. k \in 0..(Len(cs[z][i]) - 1)
    BY <2>2
  <2>3. PICK j \in 1..Len(f[z]) : inner[z][j][1] = i /\ inner[z][j][2] = k
    BY <2>2, <2>8, <2>9
  <2>4. PICK p \in 1..Len(list) : zz[p] = <<z, j>>
    BY <1>7, <2>1, <2>3 DEF PlacedBy
  <2>5. zz[p][1] = z /\ zz[p][2] = j
    BY <2>4
  <2>6. at[p][1] = e /\ at[p][2] = k
    BY <1>12, <2>1, <2>3, <2>5
  <2> QED
    BY <2>6
<1>16. Programmed(list, phase, decode, cycles, start, at)
  <2>1. \A p \in 1..Len(list) :
          /\ at[p][1] \in 1..N /\ at[p][2] \in 0..(Len(cycles[at[p][1]]) - 1)
          /\ list[p] = CycleStep(phase, decode, cycles[at[p][1]], start[at[p][1]], at[p][2])
    BY <1>13
  <2>2. \A p, q \in 1..Len(list) : at[p][1] = at[q][1] /\ at[p][2] = at[q][2] => p = q
    BY <1>14
  <2>3. \A e \in 1..N : \A k \in 0..(Len(cycles[e]) - 1) :
          \E p \in 1..Len(list) : at[p][1] = e /\ at[p][2] = k
    BY <1>15
  <2> QED
    BY <2>1, <2>2, <2>3 DEF Programmed, N
<1>17. Scheduled(cycles, size, start)
  <2>1. \A e \in 1..N : start[e] \in Nat
    <3> TAKE e \in 1..N
    <3> DEFINE z == zof[e]
               i == iof[e]
    <3>1. z \in 1..m /\ i \in 1..len[z] /\ start[e] = off[z][i]
      BY <1>8, <1>11
    <3> HIDE DEF z, i
    <3>2. cs[z] \in Seq(Cycles(n)) /\ i \in 1..Len(cs[z]) /\ off[z] = Offsets(cs[z])
      BY <1>1, <1>3, <3>1
    <3>3. \A x \in 1..Len(cs[z]) : Offsets(cs[z])[x] \in Nat
      BY <3>2, OffsetsTyped
    <3> QED
      BY <3>1, <3>2, <3>3
  <2>2. ASSUME NEW e \in 1..N, NEW x \in 1..N, e # x, group[e] = group[x]
        PROVE  \/ start[e] + Len(cycles[e]) <= start[x]
               \/ start[x] + Len(cycles[x]) <= start[e]
    <3> DEFINE z == zof[e]
               i == iof[e]
               j == iof[x]
    <3>1. zof[x] = z
      BY <1>8, <2>2
    <3>2. /\ z \in 1..m /\ i \in 1..len[z] /\ j \in 1..len[z]
          /\ ord[z][i] = e /\ ord[z][j] = x
          /\ start[e] = off[z][i] /\ start[x] = off[z][j]
      BY <1>8, <1>11, <3>1
    <3> HIDE DEF z, i, j
    <3>3. /\ cs[z] \in Seq(Cycles(n)) /\ i \in 1..Len(cs[z]) /\ j \in 1..Len(cs[z])
          /\ off[z] = Offsets(cs[z]) /\ cs[z][i] = cycles[e] /\ cs[z][j] = cycles[x]
      BY <1>1, <1>3, <1>9, <3>2
    <3>4. \A a, b \in 1..Len(cs[z]) :
            a < b => Offsets(cs[z])[a] + Len(cs[z][a]) <= Offsets(cs[z])[b]
      BY <3>3, OffsetsApart
    <3>5. i # j
      BY <2>2, <3>2
    <3>6. i < j \/ j < i
      BY <3>3, <3>5
    <3> QED
      BY <3>2, <3>3, <3>4, <3>6
  <2>3. \A e \in 1..N : group[e] = cycles[e][1] \div size
    BY DEF group
  <2> QED
    BY <2>1, <2>2, <2>3 DEF Scheduled, N
<1> QED
  BY <1>16, <1>17 DEF list

(***************************************************************************)
(* The cycles of a slot map: its orbits, each once.                        *)
(***************************************************************************)
\* c is a closed walk along the map, from slot to slot until it is back.
Rotates(map, n, c) ==
  /\ Len(c) \in Nat /\ Len(c) >= 2
  /\ \A i \in 1..Len(c) : c[i] \in 0..(n - 1)
  /\ \A i \in 1..(Len(c) - 1) : c[i + 1] = map[c[i]]
  /\ c[Len(c)] = c[1]
  /\ \A i, j \in 1..(Len(c) - 1) : c[i] = c[j] => i = j

\* A cycle is the slots visited until the first comes again.
CycleIs(map, n, key, c) ==
  /\ Rotates(map, n, c) /\ c[1] = key /\ Len(c) - 1 \in 1..n
  /\ \A i \in 1..Len(c) : c[i] = Iterate(map, key)[i - 1]

\* A slot's orbit comes back to it: the recursion of the planner is a cycle of the map.
LEMMA CycleRotates ==
  ASSUME NEW map, NEW n, Shuffles(map, n), NEW key \in 0..(n - 1)
  PROVE  CycleIs(map, n, key, CycleFrom(map, key))
<1> DEFINE V == 0..(n - 1)
           it == Iterate(map, key)
           len == CHOOSE m \in 1..Cardinality(DOMAIN map) :
                    it[m] = key /\ \A k \in 1..(m - 1) : it[k] # key
           c == CycleFrom(map, key)
<1>1. /\ n \in Nat \ {0} /\ DOMAIN map = 0..(n - 1) /\ map \in [V -> V]
      /\ \A s, t \in V : map[s] = map[t] => s = t
  BY DEF Shuffles
<1>2. Cardinality(DOMAIN map) = n
  <2>1. n - 1 \in Int /\ 0 \in Int
    BY <1>1
  <2>2. \A m \in Int : Cardinality(0..m) = IF 0 > m THEN 0 ELSE m - 0 + 1
    BY FS_Interval
  <2>3. Cardinality(0..(n - 1)) = IF 0 > n - 1 THEN 0 ELSE (n - 1) - 0 + 1
    BY <2>1, <2>2
  <2> QED
    BY <1>1, <2>3
<1>3. /\ it \in [0..n -> V] /\ it[0] = key
      /\ \A k \in 1..n : it[k] = map[it[k - 1]]
  BY IterateIs
<1>4. \E m \in 1..n : it[m] = key /\ \A k \in 1..(m - 1) : it[k] # key
  BY Returns
<1>5. c = [i \in 1..(len + 1) |-> it[i - 1]]
  BY DEF CycleFrom
<1> HIDE DEF it, c
<1>6. len \in 1..n /\ it[len] = key /\ \A k \in 1..(len - 1) : it[k] # key
  BY <1>2, <1>4
<1> HIDE DEF len
<1>7. len + 1 \in Nat /\ len + 1 >= 2 /\ \A i \in 1..(len + 1) : i - 1 \in 0..n
  BY <1>1, <1>6
<1>8. c \in [1..(len + 1) -> V]
  BY <1>3, <1>5, <1>7
<1> HIDE DEF V
<1>9. Len(c) = len + 1
  <2> DEFINE m == len + 1
  <2>1. m \in Nat /\ c \in [1..m -> V]
    BY <1>7, <1>8
  <2> HIDE DEF m
  <2>2. Len(c) = m
    BY <2>1, SeqIntro
  <2> QED
    BY <2>2 DEF m
<1>10. \A i \in 1..(len + 1) : c[i] = it[i - 1] /\ c[i] \in V
  BY <1>5, <1>8
\* No slot comes twice before the first does.
<1>11. ASSUME NEW i \in 0..(len - 1), NEW j \in 0..(len - 1), i < j, it[i] = it[j]
       PROVE  FALSE
  <2> DEFINE Back(d) == i - d \in Nat => it[i - d] = it[j - d]
             T == {d \in Nat : Back(d)}
  <2>1. Nat \subseteq T
    <3>1. 0 \in T
      <4>1. i - 0 = i /\ j - 0 = j
        BY <1>6
      <4> QED
        BY <1>11, <4>1
    <3>2. ASSUME NEW d \in Nat, d \in T PROVE d + 1 \in T
      <4> SUFFICES ASSUME i - (d + 1) \in Nat PROVE it[i - (d + 1)] = it[j - (d + 1)]
        OBVIOUS
      <4>1. /\ i - d \in 1..n /\ j - d \in 1..n
            /\ (i - d) - 1 = i - (d + 1) /\ (j - d) - 1 = j - (d + 1)
            /\ i - (d + 1) \in 0..n /\ j - (d + 1) \in 0..n /\ i - d \in Nat
        BY <1>1, <1>6, <1>11
      <4>2. it[i - d] = it[j - d]
        BY <3>2, <4>1
      <4>3. it[i - d] = map[it[i - (d + 1)]] /\ it[j - d] = map[it[j - (d + 1)]]
        BY <1>3, <4>1
      <4>4. it[i - (d + 1)] \in V /\ it[j - (d + 1)] \in V
        BY <1>3, <4>1
      <4> QED
        BY <1>1, <4>2, <4>3, <4>4 DEF V
    <3> HIDE DEF T
    <3> QED
      BY <3>1, <3>2, SetInduction
  <2>2. i \in Nat /\ i - i = 0 /\ j - i \in 1..(len - 1)
    BY <1>6, <1>11
  <2>3. it[0] = it[j - i]
    <3>1. i \in T
      BY <2>1, <2>2
    <3> QED
      BY <2>2, <3>1
  <2> QED
    BY <1>3, <1>6, <2>2, <2>3
<1>12. ASSUME NEW i \in 1..(Len(c) - 1), NEW j \in 1..(Len(c) - 1), c[i] = c[j]
       PROVE  i = j
  <2> DEFINE x == i - 1
             y == j - 1
  <2>1. /\ x \in 0..(len - 1) /\ y \in 0..(len - 1)
        /\ i \in 1..(len + 1) /\ j \in 1..(len + 1)
    BY <1>6, <1>9
  <2>2. it[x] = it[y]
    BY <1>10, <1>12, <2>1
  <2>3. x = y \/ x < y \/ y < x
    BY <2>1
  <2>4. ~(x < y) /\ ~(y < x)
    <3> HIDE DEF x, y
    <3> QED
      BY <1>11, <2>1, <2>2
  <2> QED
    BY <2>1, <2>3, <2>4
<1>13. \A i \in 1..(Len(c) - 1) : c[i + 1] = map[c[i]]
  <2> TAKE i \in 1..(Len(c) - 1)
  <2>1. i \in 1..(len + 1) /\ i + 1 \in 1..(len + 1) /\ i \in 1..n /\ (i + 1) - 1 = i
    BY <1>1, <1>6, <1>9
  <2>2. c[i] = it[i - 1] /\ c[i + 1] = it[i]
    BY <1>10, <2>1
  <2> QED
    BY <1>3, <2>1, <2>2
<1>14. c[Len(c)] = key /\ c[1] = key
  <2>1. len + 1 \in 1..(len + 1) /\ 1 \in 1..(len + 1) /\ (len + 1) - 1 = len /\ 1 - 1 = 0
    BY <1>6
  <2>2. c[len + 1] = it[len] /\ c[1] = it[0]
    BY <1>10, <2>1
  <2> QED
    BY <1>3, <1>6, <1>9, <2>2
<1>15. Rotates(map, n, c)
  BY <1>7, <1>9, <1>10, <1>12, <1>13, <1>14 DEF Rotates, V
<1>16. Len(c) - 1 \in 1..n /\ \A i \in 1..Len(c) : c[i] = it[i - 1]
  BY <1>6, <1>9, <1>10
<1> QED
  BY <1>14, <1>15, <1>16 DEF CycleIs, c, it

\* Slots the map takes into the set only from inside it.
Closed(map, n, W) == \A s \in 0..(n - 1) : s \in W <=> map[s] \in W

\* A walk is in such a set if it starts there.
LEMMA StaysInside ==
  ASSUME NEW map, NEW n, Shuffles(map, n), NEW key \in 0..(n - 1), NEW W, Closed(map, n, W),
         NEW k \in 0..n
  PROVE  key \in W <=> Iterate(map, key)[k] \in W
<1> DEFINE it == Iterate(map, key)
           T == {d \in Nat : d <= n => (key \in W <=> it[d] \in W)}
<1>1. /\ it \in [0..n -> 0..(n - 1)] /\ it[0] = key
      /\ \A d \in 1..n : it[d] = map[it[d - 1]]
  BY IterateIs
<1>2. n \in Nat
  BY DEF Shuffles
<1> HIDE DEF it
<1>3. 0 \in T
  BY <1>1
<1>4. ASSUME NEW d \in Nat, d \in T PROVE d + 1 \in T
  <2> SUFFICES ASSUME d + 1 <= n PROVE key \in W <=> it[d + 1] \in W
    OBVIOUS
  <2>1. d <= n /\ d + 1 \in 1..n /\ (d + 1) - 1 = d /\ d \in 0..n
    BY <1>2
  <2>2. it[d + 1] = map[it[d]] /\ it[d] \in 0..(n - 1)
    BY <1>1, <2>1
  <2> QED
    BY <1>4, <2>1, <2>2 DEF Closed
<1>5. Nat \subseteq T
  <2> HIDE DEF T
  <2> QED
    BY <1>3, <1>4, SetInduction
<1>6. k \in T /\ k <= n
  BY <1>2, <1>5
<1> QED
  BY <1>6 DEF it

\* The slots of a cycle are such a set.
SlotsOf(c) == {c[i] : i \in 1..(Len(c) - 1)}

\* The map leads from a cycle's slots to its slots only.
LEMMA SlotsClosed ==
  ASSUME NEW map, NEW n, Shuffles(map, n), NEW c, Rotates(map, n, c)
  PROVE  Closed(map, n, SlotsOf(c))
<1> DEFINE L == Len(c) - 1
<1>1. /\ L \in Nat \ {0} /\ L + 1 = Len(c)
      /\ \A i \in 1..(L + 1) : c[i] \in 0..(n - 1)
      /\ \A i \in 1..L : c[i + 1] = map[c[i]]
      /\ c[L + 1] = c[1]
  BY DEF Rotates
<1>2. \A s, t \in 0..(n - 1) : map[s] = map[t] => s = t
  BY DEF Shuffles
<1>3. SlotsOf(c) = {c[i] : i \in 1..L}
  BY DEF SlotsOf
<1> HIDE DEF L
<1>4. ASSUME NEW i \in 1..L PROVE map[c[i]] \in SlotsOf(c)
  <2>1. map[c[i]] = c[i + 1]
    BY <1>1
  <2>2. CASE i = L
    <3>1. 1 \in 1..L
      BY <1>1
    <3> QED
      BY <1>1, <1>3, <2>1, <2>2, <3>1
  <2>3. CASE i # L
    <3>1. i + 1 \in 1..L
      BY <1>1, <2>3
    <3> QED
      BY <1>3, <2>1, <3>1
  <2> QED
    BY <2>2, <2>3
<1>5. ASSUME NEW s \in 0..(n - 1), NEW j \in 1..L, map[s] = c[j] PROVE s \in SlotsOf(c)
  <2>1. \E i \in 1..L : c[j] = map[c[i]]
    <3>1. CASE j = 1
      <4>1. L \in 1..L
        BY <1>1
      <4> QED
        BY <1>1, <3>1, <4>1
    <3>2. CASE j # 1
      <4> DEFINE i == j - 1
      <4>1. i \in 1..L /\ i + 1 = j
        BY <1>1, <3>2
      <4> HIDE DEF i
      <4>2. c[i + 1] = map[c[i]]
        BY <1>1, <4>1
      <4> QED
        BY <4>1, <4>2
    <3> QED
      BY <3>1, <3>2
  <2>2. PICK i \in 1..L : c[j] = map[c[i]]
    BY <2>1
  <2>3. c[i] \in 0..(n - 1)
    BY <1>1
  <2>4. s = c[i]
    BY <1>2, <1>5, <2>2, <2>3
  <2> QED
    BY <1>3, <2>4
<1>6. ASSUME NEW s \in 0..(n - 1) PROVE s \in SlotsOf(c) <=> map[s] \in SlotsOf(c)
  <2>1. ASSUME s \in SlotsOf(c) PROVE map[s] \in SlotsOf(c)
    BY <1>3, <1>4, <2>1
  <2>2. ASSUME map[s] \in SlotsOf(c) PROVE s \in SlotsOf(c)
    BY <1>3, <1>5, <2>2
  <2> QED
    BY <2>1, <2>2
<1> QED
  BY <1>6 DEF Closed

\* The cycles of a map: they share no slot and leave out the fixed ones only.
Orbits(map, n, cycles) ==
  /\ cycles \in Seq(Cycles(n))
  /\ \A e \in 1..Len(cycles) : Rotates(map, n, cycles[e])
  /\ \A e, f \in 1..Len(cycles) : \A s \in 0..(n - 1) :
       s \in SlotsOf(cycles[e]) /\ s \in SlotsOf(cycles[f]) => e = f
  /\ \A s \in 0..(n - 1) :
       map[s] # s <=> \E e \in 1..Len(cycles) : s \in SlotsOf(cycles[e])

\* The slots visited from s, all of them in its cycle.
LEMMA WalkIs ==
  ASSUME NEW map, NEW n, Shuffles(map, n), NEW s \in 0..(n - 1)
  PROVE  /\ \A x \in SlotsOf(CycleFrom(map, s)) :
              x \in 0..(n - 1) /\ \E k \in 0..n : x = Iterate(map, s)[k]
         /\ s \in SlotsOf(CycleFrom(map, s))
         /\ Closed(map, n, SlotsOf(CycleFrom(map, s)))
<1> DEFINE c == CycleFrom(map, s)
<1>1. CycleIs(map, n, s, c)
  BY CycleRotates
<1>2. Rotates(map, n, c)
  BY <1>1 DEF CycleIs
<1>3. Closed(map, n, SlotsOf(c))
  BY <1>2, SlotsClosed
<1> HIDE DEF c
<1>4. 1 \in 1..(Len(c) - 1) /\ c[1] = s
  BY <1>1, <1>2 DEF CycleIs, Rotates
<1>5. ASSUME NEW i \in 1..(Len(c) - 1)
      PROVE  c[i] \in 0..(n - 1) /\ \E k \in 0..n : c[i] = Iterate(map, s)[k]
  <2>0. n \in Nat
    BY DEF Shuffles
  <2>1. i \in 1..Len(c) /\ i - 1 \in 0..n
    BY <1>1, <1>2, <2>0 DEF CycleIs, Rotates
  <2>2. c[i] = Iterate(map, s)[i - 1] /\ c[i] \in 0..(n - 1)
    BY <1>1, <1>2, <2>1 DEF CycleIs, Rotates
  <2> QED
    BY <2>1, <2>2
<1>6. SlotsOf(c) = {c[i] : i \in 1..(Len(c) - 1)}
  BY DEF SlotsOf
<1>7. s \in SlotsOf(c)
  BY <1>4, <1>6
<1>8. \A x \in SlotsOf(c) : x \in 0..(n - 1) /\ \E k \in 0..n : x = Iterate(map, s)[k]
  BY <1>5, <1>6
<1> QED
  BY <1>3, <1>7, <1>8 DEF c

\* A slot that is not fixed is visited from the least slot of its cycle, which is
\* not fixed either and the least of all visited from it.
Leader(map, n, m) ==
  /\ m \in 0..(n - 1) /\ map[m] # m
  /\ \A k \in 0..n : m <= Iterate(map, m)[k]

\* Every slot the map moves is on the cycle of its least slot.
LEMMA HasLeader ==
  ASSUME NEW map, NEW n, Shuffles(map, n), NEW s \in 0..(n - 1), map[s] # s
  PROVE  \E m : Leader(map, n, m) /\ s \in SlotsOf(CycleFrom(map, m))
<1> DEFINE it == Iterate(map, s)
           R == {it[k] : k \in 0..n}
           W == SlotsOf(CycleFrom(map, s))
           m == Least(R)
<1>1. n \in Nat \ {0} /\ \A x, y \in 0..(n - 1) : map[x] = map[y] => x = y
  BY DEF Shuffles
<1>2. it \in [0..n -> 0..(n - 1)]
  BY IterateIs
<1>3. /\ \A x \in W : x \in 0..(n - 1) /\ \E k \in 0..n : x = it[k]
      /\ s \in W /\ Closed(map, n, W)
  BY WalkIs
<1>4. m \in R /\ \A x \in R : m <= x
  <2>1. R \in SUBSET Nat /\ R # {}
    <3>1. 0 \in 0..n /\ 0..(n - 1) \subseteq Nat
      BY <1>1
    <3> HIDE DEF it
    <3> QED
      BY <1>2, <3>1
  <2> HIDE DEF R
  <2> QED
    BY <2>1, LeastIs
<1> HIDE DEF m, W
<1>5. PICK k \in 0..n : m = it[k]
  BY <1>4
<1>6. m \in 0..(n - 1)
  BY <1>2, <1>5
<1>7. m \in W
  BY <1>3, <1>5, StaysInside
<1>8. \A j \in 0..n : Iterate(map, m)[j] \in W
  BY <1>3, <1>6, <1>7, StaysInside
<1>9. \A j \in 0..n : m <= Iterate(map, m)[j]
  <2> TAKE j \in 0..n
  <2>1. Iterate(map, m)[j] \in R
    BY <1>3, <1>8
  <2> QED
    BY <1>4, <2>1
<1>10. map[m] # m
  <2> SUFFICES ASSUME map[m] = m PROVE FALSE
    OBVIOUS
  <2>1. Closed(map, n, {m})
    BY <1>1, <1>6 DEF Closed
  <2>2. s \in {m}
    <3>1. it[k] \in {m}
      BY <1>5
    <3> QED
      BY <2>1, <3>1, StaysInside
  <2> QED
    BY <2>2
<1>11. s \in SlotsOf(CycleFrom(map, m))
  <2> DEFINE U == SlotsOf(CycleFrom(map, m))
  <2>1. m \in U /\ Closed(map, n, U)
    BY <1>6, WalkIs
  <2> HIDE DEF U
  <2>2. it[k] \in U
    BY <1>5, <2>1
  <2>3. s \in U
    BY <2>1, <2>2, StaysInside
  <2> QED
    BY <2>3 DEF U
<1> QED
  BY <1>6, <1>9, <1>10, <1>11 DEF Leader

\* Two of them with a slot in common are the same.
LEMMA LeadersApart ==
  ASSUME NEW map, NEW n, Shuffles(map, n), NEW a, NEW b, NEW s,
         Leader(map, n, a), Leader(map, n, b),
         s \in SlotsOf(CycleFrom(map, a)), s \in SlotsOf(CycleFrom(map, b))
  PROVE  a = b
<1>1. ASSUME NEW x, NEW y, Leader(map, n, x), Leader(map, n, y),
             s \in SlotsOf(CycleFrom(map, x)), s \in SlotsOf(CycleFrom(map, y))
      PROVE  x <= y
  <2> DEFINE U == SlotsOf(CycleFrom(map, x))
  <2>1. x \in 0..(n - 1) /\ y \in 0..(n - 1) /\ \A k \in 0..n : x <= Iterate(map, x)[k]
    BY <1>1 DEF Leader
  <2>2. /\ \A z \in U : \E k \in 0..n : z = Iterate(map, x)[k]
        /\ Closed(map, n, U)
    BY <2>1, WalkIs
  <2>3. PICK k \in 0..n : s = Iterate(map, y)[k]
    BY <1>1, <2>1, WalkIs
  <2>4. s \in U
    BY <1>1
  <2> HIDE DEF U
  <2>5. y \in U
    <3>1. Iterate(map, y)[k] \in U
      BY <2>3, <2>4
    <3> QED
      BY <2>1, <2>2, <3>1, StaysInside
  <2> QED
    BY <2>1, <2>2, <2>5
<1>2. a <= b /\ b <= a
  BY <1>1
<1>3. a \in Int /\ b \in Int
  <2>1. n \in Nat /\ a \in 0..(n - 1) /\ b \in 0..(n - 1)
    BY DEF Leader, Shuffles
  <2> QED
    BY <2>1
<1> QED
  BY <1>2, <1>3

\* A fixed slot is in no cycle of a leader.
LEMMA FixedApart ==
  ASSUME NEW map, NEW n, Shuffles(map, n), NEW m, NEW s \in 0..(n - 1),
         Leader(map, n, m), s \in SlotsOf(CycleFrom(map, m))
  PROVE  map[s] # s
<1> SUFFICES ASSUME map[s] = s PROVE FALSE
  OBVIOUS
<1>1. m \in 0..(n - 1) /\ map[m] # m
  BY DEF Leader
<1>2. \A x, y \in 0..(n - 1) : map[x] = map[y] => x = y
  BY DEF Shuffles
<1>3. Closed(map, n, {s})
  BY <1>2 DEF Closed
<1>4. PICK k \in 0..n : s = Iterate(map, m)[k]
  BY <1>1, WalkIs
<1>5. m \in {s}
  <2>1. Iterate(map, m)[k] \in {s}
    BY <1>4
  <2> QED
    BY <1>1, <1>3, <2>1, StaysInside
<1> QED
  BY <1>1, <1>5

\* The planner finds the cycles of a map.
LEMMA OrbitsFound ==
  ASSUME NEW map, NEW n, Shuffles(map, n)
  PROVE  Orbits(map, n, BuildNative2DCycles(map))
<1> DEFINE V == 0..(n - 1)
           starts == {k \in DOMAIN map :
                        /\ map[k] # k
                        /\ \A i \in DOMAIN Iterate(map, k) : k <= Iterate(map, k)[i]}
           order == Ordered(starts, <)
           m == Cardinality(starts)
           bs == BuildNative2DCycles(map)
<1>1. n \in Nat \ {0} /\ DOMAIN map = V
  BY DEF Shuffles
<1>2. bs \in Seq(Cycles(n))
  BY CyclesTyped
<1>3. starts \in SUBSET V
  BY <1>1
<1>4. \A k : k \in starts <=> Leader(map, n, k)
  <2>1. \A k \in V : DOMAIN Iterate(map, k) = 0..n
    BY IterateIs
  <2> HIDE DEF V
  <2>2. \A k \in V : k \in starts <=> map[k] # k /\ \A i \in 0..n : k <= Iterate(map, k)[i]
    BY <1>1, <2>1
  <2>3. \A k : Leader(map, n, k) => k \in V
    BY DEF Leader, V
  <2> HIDE DEF starts
  <2>4. \A k \in V : k \in starts <=> Leader(map, n, k)
    BY <2>2 DEF Leader, V
  <2> QED
    BY <1>3, <2>3, <2>4
<1>5. IsFiniteSet(V) /\ V \subseteq Int
  <2>1. n - 1 \in Int /\ 0 \in Int
    BY <1>1
  <2>2. \A k \in Int : IsFiniteSet(0..k)
    BY FS_Interval
  <2> QED
    BY <1>1, <2>1, <2>2
<1>6. bs = [i \in DOMAIN order |-> CycleFrom(map, order[i])]
  BY DEF BuildNative2DCycles
<1>7. \A key \in V : CycleIs(map, n, key, CycleFrom(map, key))
  BY CycleRotates
<1> HIDE DEF V, starts, bs
<1>8. IsFiniteSet(starts) /\ starts \in SUBSET Int
  BY <1>3, <1>5, FS_Subset
<1>9. /\ order \in [1..m -> starts] /\ m \in Nat
      /\ \A i, j \in 1..m : i < j => order[i] < order[j]
      /\ \A x \in starts : \E i \in 1..m : order[i] = x
  <2>1. InOrder(starts, LessIn(starts), order)
    BY <1>8, NumbersOrdered
  <2> HIDE DEF order, m
  <2>2. \A i, j \in starts : <<i, j>> \in LessIn(starts) => i < j
    BY DEF LessIn
  <2>3. \A i, j \in 1..m : i < j => <<order[i], order[j]>> \in LessIn(starts)
    BY <2>1 DEF InOrder, m
  <2>4. order \in [1..m -> starts] /\ m \in Nat /\ \A x \in starts : \E i \in 1..m : order[i] = x
    BY <2>1 DEF InOrder, m
  <2> QED
    BY <2>2, <2>3, <2>4
<1> HIDE DEF order, m
<1>10. /\ Len(bs) = m /\ \A i \in 1..m : bs[i] = CycleFrom(map, order[i])
  <2>1. DOMAIN bs = 1..m /\ \A i \in 1..m : bs[i] = CycleFrom(map, order[i])
    BY <1>6, <1>9
  <2> DEFINE C == Cycles(n)
  <2>2. bs \in Seq(C)
    BY <1>2
  <2> HIDE DEF C
  <2>3. Len(bs) \in Nat /\ DOMAIN bs = 1..Len(bs)
    BY <2>2, LenProperties
  <2>4. Len(bs) = m
    BY <1>9, <2>1, <2>3
  <2> QED
    BY <2>1, <2>4
<1>11. \A e \in 1..m : Leader(map, n, order[e]) /\ order[e] \in V /\ order[e] \in Int
  BY <1>3, <1>4, <1>8, <1>9
<1>12. \A e \in 1..m : Rotates(map, n, bs[e])
  <2> TAKE e \in 1..m
  <2>1. CycleIs(map, n, order[e], bs[e])
    BY <1>7, <1>10, <1>11
  <2> QED
    BY <2>1 DEF CycleIs
<1>13. ASSUME NEW e \in 1..m, NEW f \in 1..m, NEW s, s \in SlotsOf(bs[e]), s \in SlotsOf(bs[f])
       PROVE  e = f
  <2>1. /\ s \in SlotsOf(CycleFrom(map, order[e])) /\ s \in SlotsOf(CycleFrom(map, order[f]))
        /\ Leader(map, n, order[e]) /\ Leader(map, n, order[f])
    BY <1>10, <1>11, <1>13
  <2>2. order[e] = order[f]
    BY <2>1, LeadersApart
  <2>3. order[e] \in Int /\ order[f] \in Int /\ (e = f \/ e < f \/ f < e)
    BY <1>9, <1>11
  <2> QED
    BY <1>9, <2>2, <2>3
<1>14. ASSUME NEW s \in V PROVE map[s] # s <=> \E e \in 1..m : s \in SlotsOf(bs[e])
  <2>0. s \in 0..(n - 1)
    BY DEF V
  <2>1. ASSUME map[s] # s PROVE \E e \in 1..m : s \in SlotsOf(bs[e])
    <3>1. PICK k : Leader(map, n, k) /\ s \in SlotsOf(CycleFrom(map, k))
      BY <2>0, <2>1, HasLeader
    <3>2. PICK e \in 1..m : order[e] = k
      BY <1>4, <1>9, <3>1
    <3> QED
      BY <1>10, <3>1, <3>2
  <2>2. ASSUME NEW e \in 1..m, s \in SlotsOf(bs[e]) PROVE map[s] # s
    <3>1. Leader(map, n, order[e]) /\ s \in SlotsOf(CycleFrom(map, order[e]))
      BY <1>10, <1>11, <2>2
    <3> QED
      BY <2>0, <3>1, FixedApart
  <2> QED
    BY <2>1, <2>2
<1>15. Orbits(map, n, bs)
  BY <1>2, <1>10, <1>12, <1>13, <1>14 DEF Orbits, V
<1> QED
  BY <1>15 DEF bs

(***************************************************************************)
(* Slots on lines.  A line has the slots of one process row or column one  *)
(* after the other; a slot is a tile's breadth of places.                  *)
(***************************************************************************)
Blocks(g, dir) == IF dir = "cols" THEN ColBlocks(g) ELSE RowBlocks(g)
Reach(g, dir)  == Procs(g, dir) * Blocks(g, dir)
LineSlots(g, dir)  == 0..(Lines(g, dir) * Reach(g, dir) - 1)
LineOf(g, dir, u)   == u \div Reach(g, dir)
FirstOf(g, dir, u)  == (u % Reach(g, dir)) * Tile(g, dir)

\* Where slots are.
Decoded(g, dir, decode) ==
  \A u \in LineSlots(g, dir) :
    /\ decode[u].rank = RankOn(g, dir, LineOf(g, dir, u), FirstOf(g, dir, u))
    /\ decode[u].rect = Band(g, dir, FirstOf(g, dir, u), Tile(g, dir))

\* The sizes in slots.
LEMMA ReachIs ==
  ASSUME NEW g, NEW dir \in Directions, GeometryOK(g)
  PROVE  /\ Blocks(g, dir) \in Nat \ {0} /\ Reach(g, dir) \in Nat \ {0}
         /\ Side(g, dir) = Blocks(g, dir) * Tile(g, dir)
         /\ Lines(g, dir) * Reach(g, dir) \in Nat \ {0}
<1>1. /\ Blocks(g, dir) \in Nat \ {0} /\ Side(g, dir) = Blocks(g, dir) * Tile(g, dir)
  BY BlocksFit DEF Blocks, Side, Tile, Directions
<1>2. Procs(g, dir) \in Nat \ {0} /\ Lines(g, dir) \in Nat \ {0}
  BY SizesOf
<1>3. \A a, b \in Nat \ {0} : a * b \in Nat \ {0}
  BY SMT
<1>4. Reach(g, dir) \in Nat \ {0}
  BY <1>1, <1>2, <1>3 DEF Reach
<1> QED
  BY <1>1, <1>2, <1>3, <1>4

\* A slot is a segment of its line.
SlotSegment(g, dir, u) ==
  /\ LineOf(g, dir, u) \in LinesOf(g, dir)
  /\ FirstOf(g, dir, u) \in Nat
  /\ Segment(g, dir, FirstOf(g, dir, u), Tile(g, dir))

\* What the number of a slot says about its line and its place on it.
LEMMA SlotIs ==
  ASSUME NEW g, NEW dir \in Directions, NEW u \in LineSlots(g, dir), GeometryOK(g)
  PROVE  /\ SlotSegment(g, dir, u)
         /\ u = LineOf(g, dir, u) * Reach(g, dir) + (u % Reach(g, dir))
         /\ u % Reach(g, dir) \in 0..(Reach(g, dir) - 1)
         /\ FirstOf(g, dir, u) \div Side(g, dir) = (u % Reach(g, dir)) \div Blocks(g, dir)
         /\ FirstOf(g, dir, u) % Side(g, dir)
              = ((u % Reach(g, dir)) % Blocks(g, dir)) * Tile(g, dir)
<1> DEFINE a == Lines(g, dir)
           b == Reach(g, dir)
           p == Procs(g, dir)
           k == Blocks(g, dir)
           t == Tile(g, dir)
           e == Side(g, dir)
           v == u % b
           x == v * t
           c == v \div k
           d == v % k
<1>1. /\ a \in Nat \ {0} /\ b \in Nat \ {0} /\ p \in Nat \ {0} /\ k \in Nat \ {0}
      /\ t \in Nat \ {0} /\ e = k * t /\ b = p * k /\ e \in Nat \ {0}
  BY SizesOf, ReachIs DEF Reach
<1>2. u \in 0..(a * b - 1)
  BY DEF LineSlots
<1> HIDE DEF a, b, p, k, t, e
<1>3. /\ u \div b \in 0..(a - 1) /\ v \in 0..(b - 1) /\ u = (u \div b) * b + v
  BY <1>1, <1>2, RowAndPlace
<1> HIDE DEF v
<1>4. /\ c \in 0..(p - 1) /\ d \in 0..(k - 1) /\ v = c * k + d
  <2>1. v \in 0..(p * k - 1)
    BY <1>1, <1>3
  <2> QED
    BY <1>1, <2>1, RowAndPlace
<1> HIDE DEF c, d
<1> DEFINE z == d * t
<1>5. z \in Nat /\ z + t <= e
  BY <1>1, <1>4, BlockInside
<1>6. x = c * e + z
  <2>1. \A i, j, m, n \in Nat : (i * j + m) * n = i * (j * n) + m * n
    BY SMT
  <2> QED
    BY <1>1, <1>4, <2>1
<1> HIDE DEF z, x
<1>7. z \in 0..(e - 1)
  BY <1>1, <1>5
<1>8. x \in 0..(p * e - 1)
  BY <1>1, <1>4, <1>6, <1>7, PlaceInRow
<1>9. x \div e = c /\ x % e = z
  <2>1. c \in Nat
    BY <1>1, <1>4
  <2> QED
    BY <1>1, <1>6, <1>7, <2>1, DivMod, SMTT(60)
<1>10. LineOf(g, dir, u) = u \div b /\ FirstOf(g, dir, u) = x
  BY DEF LineOf, FirstOf, x, v, b, t
<1>11. x \in Nat
  <2>1. c * e \in Nat
    BY <1>1, <1>4
  <2> QED
    BY <1>5, <1>6, <2>1
<1>12. Segment(g, dir, x, t)
  <2>1. x \in Places(g, dir)
    BY <1>8 DEF Places, p, e
  <2>2. (x % Side(g, dir)) + t <= Side(g, dir)
    BY <1>5, <1>9 DEF e
  <2> QED
    BY <1>1, <2>1, <2>2 DEF Segment
<1>13. SlotSegment(g, dir, u)
  <2>1. u \div b \in LinesOf(g, dir)
    BY <1>3 DEF LinesOf, a
  <2> QED
    BY <1>10, <1>11, <1>12, <2>1 DEF SlotSegment, t
<1>14. x \div e = v \div k /\ x % e = (v % k) * t
  BY <1>9 DEF c, d, z
<1> QED
  BY <1>3, <1>10, <1>13, <1>14 DEF v, b, k, t, e

\* The planner decodes the slots of both directions so.
LEMMA ColumnsDecoded ==
  ASSUME NEW g, GeometryOK(g), NEW decode,
         \A u \in LineSlots(g, "cols") : decode[u] = ColumnPhaseSlotToRankLocal(g, u)
  PROVE  Decoded(g, "cols", decode)
<1>1. ASSUME NEW u \in LineSlots(g, "cols")
      PROVE  /\ decode[u].rank = RankOn(g, "cols", LineOf(g, "cols", u), FirstOf(g, "cols", u))
             /\ decode[u].rect = Band(g, "cols", FirstOf(g, "cols", u), Tile(g, "cols"))
  <2> DEFINE x == FirstOf(g, "cols", u)
             v == u % Reach(g, "cols")
  <2>0. "cols" \in Directions
    BY DEF Directions
  <2>1. /\ x \div Side(g, "cols") = v \div Blocks(g, "cols")
        /\ x % Side(g, "cols") = (v % Blocks(g, "cols")) * Tile(g, "cols")
    BY <2>0, SlotIs
  <2>2. /\ Side(g, "cols") = g.cols /\ Blocks(g, "cols") = ColBlocks(g)
        /\ Tile(g, "cols") = g.tcols /\ Reach(g, "cols") = g.pcols * ColBlocks(g)
    BY DEF Side, Blocks, Tile, Reach, Procs
  <2> HIDE DEF x
  <2>3. /\ x \div g.cols = v \div ColBlocks(g) /\ x % g.cols = (v % ColBlocks(g)) * g.tcols
        /\ v = u % (g.pcols * ColBlocks(g))
        /\ LineOf(g, "cols", u) = u \div (g.pcols * ColBlocks(g))
    BY <2>1, <2>2 DEF LineOf
  <2> HIDE DEF v
  <2>4. /\ decode[u].rank = RankAt(g, u \div (g.pcols * ColBlocks(g)), v \div ColBlocks(g))
        /\ decode[u].rect = ColumnSlabRect(g, v % ColBlocks(g))
    <3>1. decode[u] = ColumnPhaseSlotToRankLocal(g, u)
      OBVIOUS
    <3>2. decode[u] = [rank |-> RankAt(g, u \div (g.pcols * ColBlocks(g)), v \div ColBlocks(g)),
                       rect |-> ColumnSlabRect(g, v % ColBlocks(g))]
      BY <2>3, <3>1 DEF ColumnPhaseSlotToRankLocal
    <3> QED
      BY <3>2
  <2>5. decode[u].rank = RankOn(g, "cols", LineOf(g, "cols", u), x)
    BY <2>3, <2>4 DEF RankOn
  <2>6. decode[u].rect = Band(g, "cols", x, Tile(g, "cols"))
    BY <2>2, <2>3, <2>4 DEF Band, ColumnSlabRect
  <2> QED
    BY <2>5, <2>6 DEF x
<1> QED
  BY <1>1 DEF Decoded

\* The planner decodes the slots of the row phase as the model of lines does.
LEMMA RowsDecoded ==
  ASSUME NEW g, GeometryOK(g), NEW decode,
         \A u \in LineSlots(g, "rows") : decode[u] = RowPhaseSlotToRankLocal(g, u)
  PROVE  Decoded(g, "rows", decode)
<1>1. ASSUME NEW u \in LineSlots(g, "rows")
      PROVE  /\ decode[u].rank = RankOn(g, "rows", LineOf(g, "rows", u), FirstOf(g, "rows", u))
             /\ decode[u].rect = Band(g, "rows", FirstOf(g, "rows", u), Tile(g, "rows"))
  <2> DEFINE x == FirstOf(g, "rows", u)
             v == u % Reach(g, "rows")
  <2>0. "rows" \in Directions /\ "rows" # "cols"
    BY DEF Directions
  <2>1. /\ x \div Side(g, "rows") = v \div Blocks(g, "rows")
        /\ x % Side(g, "rows") = (v % Blocks(g, "rows")) * Tile(g, "rows")
    BY <2>0, SlotIs
  <2>2. /\ Side(g, "rows") = g.rows /\ Blocks(g, "rows") = RowBlocks(g)
        /\ Tile(g, "rows") = g.trows /\ Reach(g, "rows") = g.prows * RowBlocks(g)
    BY <2>0 DEF Side, Blocks, Tile, Reach, Procs
  <2> HIDE DEF x
  <2>3. /\ x \div g.rows = v \div RowBlocks(g) /\ x % g.rows = (v % RowBlocks(g)) * g.trows
        /\ v = u % (g.prows * RowBlocks(g))
        /\ LineOf(g, "rows", u) = u \div (g.prows * RowBlocks(g))
    BY <2>1, <2>2 DEF LineOf
  <2> HIDE DEF v
  <2>4. /\ decode[u].rank = RankAt(g, v \div RowBlocks(g), u \div (g.prows * RowBlocks(g)))
        /\ decode[u].rect = RowSlabRect(g, v % RowBlocks(g))
    <3>1. decode[u] = RowPhaseSlotToRankLocal(g, u)
      OBVIOUS
    <3>2. decode[u] = [rank |-> RankAt(g, v \div RowBlocks(g), u \div (g.prows * RowBlocks(g))),
                       rect |-> RowSlabRect(g, v % RowBlocks(g))]
      BY <2>3, <3>1 DEF RowPhaseSlotToRankLocal
    <3> QED
      BY <3>2
  <2>5. decode[u].rank = RankOn(g, "rows", LineOf(g, "rows", u), x)
    BY <2>0, <2>3, <2>4 DEF RankOn
  <2>6. decode[u].rect = Band(g, "rows", x, Tile(g, "rows"))
    BY <2>0, <2>2, <2>3, <2>4 DEF Band, RowSlabRect
  <2> QED
    BY <2>5, <2>6 DEF x
<1> QED
  BY <1>1 DEF Decoded

\* LineSlots of one line have no place in common.
LEMMA SlotsApart ==
  ASSUME NEW g, NEW dir \in Directions, NEW u \in LineSlots(g, dir), NEW v \in LineSlots(g, dir),
         GeometryOK(g), LineOf(g, dir, u) = LineOf(g, dir, v), u # v,
         NEW d \in 0..(Tile(g, dir) - 1)
  PROVE  /\ FirstOf(g, dir, u) + d \in Places(g, dir)
         /\ FirstOf(g, dir, u) + d
              \notin FirstOf(g, dir, v)..(FirstOf(g, dir, v) + Tile(g, dir) - 1)
<1> DEFINE b == Reach(g, dir)
           t == Tile(g, dir)
           i == u % b
           j == v % b
           x == FirstOf(g, dir, u)
           z == FirstOf(g, dir, v)
<1>1. b \in Nat \ {0} /\ t \in Nat \ {0}
  BY ReachIs, SizesOf
<1>2. /\ SlotSegment(g, dir, u) /\ u = LineOf(g, dir, u) * b + i /\ i \in 0..(b - 1)
      /\ v = LineOf(g, dir, v) * b + j /\ j \in 0..(b - 1)
  BY SlotIs
<1>3. i # j
  BY <1>2
<1>4. x = i * t /\ z = j * t
  BY DEF FirstOf
<1>5. x + d \in Places(g, dir)
  BY <1>2, SegmentIs DEF SlotSegment
<1> HIDE DEF b, t, i, j, x, z
<1>6. i \in Nat /\ j \in Nat
  BY <1>1, <1>2
<1>7. x \in Nat /\ z \in Nat /\ (x + t <= z \/ z + t <= x)
  <2>1. \A k, l, n \in Nat : k < l => k * n + n <= l * n
    <3> TAKE k, l, n \in Nat
    <3>1. ASSUME k < l PROVE k * n + n <= l * n
      <4> DEFINE m == l - k - 1
      <4>1. m \in Nat /\ l = k + 1 + m
        BY <3>1
      <4>2. \A o, p, q \in Nat : (o + 1 + p) * q = o * q + q + p * q /\ p * q \in Nat /\ o * q \in Nat
        BY SMT
      <4> HIDE DEF m
      <4> QED
        BY <4>1, <4>2
    <3> QED
      BY <3>1
  <2>2. i * t \in Nat /\ j * t \in Nat
    BY <1>1, <1>6
  <2>3. i < j \/ j < i
    BY <1>3, <1>6
  <2> QED
    BY <1>1, <1>4, <1>6, <2>1, <2>2, <2>3
<1>8. x + d \notin z..(z + t - 1)
  <2>1. d \in Nat /\ d < t
    BY <1>1 DEF t
  <2> QED
    BY <1>1, <1>7, <2>1
<1> QED
  BY <1>5, <1>8 DEF x, z, t

(***************************************************************************)
(* The steps of a cycle, on its line.                                      *)
(***************************************************************************)
\* A cell of the place d of slot u.
SlotSpot(g, dir, u, d, y) == SpotOn(g, dir, LineOf(g, dir, u), FirstOf(g, dir, u) + d, y)

\* A closed walk of slots of line q.
LineCycle(g, dir, q, c) ==
  /\ q \in LinesOf(g, dir) /\ Len(c) \in Nat /\ Len(c) >= 2
  /\ \A i \in 1..Len(c) : c[i] \in LineSlots(g, dir) /\ LineOf(g, dir, c[i]) = q

\* Step k of its program is a save of its last slot but one, the move from a slot to
\* the next, or the restore to its first.
StepFacts(g, dir, ph, q, c, o, k, s) ==
  /\ s.phase = ph /\ s.seq = o + k /\ s.kind \in {Move, Save, Restore}
  /\ StaysOn(g, dir, q, s)
  /\ k = 0 => LineSave(g, dir, q, s, FirstOf(g, dir, c[Len(c) - 1]), Tile(g, dir))
  /\ k # 0 => /\ s.kind # Save
              /\ s.to = RankOn(g, dir, q, FirstOf(g, dir, c[Len(c) - k]))
              /\ s.target = Band(g, dir, FirstOf(g, dir, c[Len(c) - k]), Tile(g, dir))
  /\ \A i \in 1..(Len(c) - 2) : k = Len(c) - 1 - i =>
       LineMove(g, dir, q, s, FirstOf(g, dir, c[i]), FirstOf(g, dir, c[i + 1]), Tile(g, dir))
  /\ k = Len(c) - 1 =>
       LineRestore(g, dir, q, s, FirstOf(g, dir, c[Len(c) - 1]), FirstOf(g, dir, c[1]),
                   Tile(g, dir))

\* The rectangles of a cycle's step are the slots it leads from and to.
LEMMA CycleStepIs ==
  ASSUME NEW g, NEW dir \in Directions, NEW ph, NEW q, NEW c, NEW decode, NEW o \in Nat, NEW k,
         GeometryOK(g), Decoded(g, dir, decode), LineCycle(g, dir, q, c),
         k \in 0..(Len(c) - 1)
  PROVE  StepFacts(g, dir, ph, q, c, o, k, CycleStep(ph, decode, c, o, k))
<1> DEFINE n == Len(c)
           s == CycleStep(ph, decode, c, o, k)
           f(i) == FirstOf(g, dir, c[i])
           t == Tile(g, dir)
<1>1. n \in Nat /\ n >= 2 /\ q \in LinesOf(g, dir)
  BY DEF LineCycle
<1>2. \A i \in 1..n : /\ decode[c[i]].rank = RankOn(g, dir, q, f(i))
                      /\ decode[c[i]].rect = Band(g, dir, f(i), t)
                      /\ f(i) \in Places(g, dir)
  <2> TAKE i \in 1..n
  <2>1. c[i] \in LineSlots(g, dir) /\ LineOf(g, dir, c[i]) = q
    BY DEF LineCycle
  <2>2. f(i) \in Places(g, dir)
    BY <2>1, SlotIs DEF SlotSegment, Segment
  <2> QED
    BY <2>1, <2>2 DEF Decoded
<1> HIDE DEF f, t
<1>3. /\ n - 1 \in 1..n /\ 1 \in 1..n
      /\ k # n - 1 => n - 1 - k \in 1..n
      /\ k # 0 => n - k \in 1..n
      /\ k = n - 1 => n - k = 1 /\ k # 0
      /\ o + n - 1 = o + (n - 1) /\ o + 0 = o
  BY <1>1
<1>4. CASE k = 0
  <2>1. s = Step(ph, o, Save, decode[c[n - 1]].rank, -1, decode[c[n - 1]].rect, NoRect)
    BY <1>4 DEF CycleStep
  <2> HIDE DEF s
  <2>2. /\ s.phase = ph /\ s.seq = o /\ s.kind = Save /\ s.from = RankOn(g, dir, q, f(n - 1))
        /\ s.to = -1 /\ s.source = Band(g, dir, f(n - 1), t)
    BY <1>2, <1>3, <2>1 DEF Step
  <2>3. LineSave(g, dir, q, s, f(n - 1), t)
    BY <2>2 DEF LineSave
  <2>4. StaysOn(g, dir, q, s)
    BY <1>2, <1>3, <2>2 DEF StaysOn
  <2>5. \A i \in 1..(n - 2) : k # n - 1 - i
    BY <1>1, <1>4
  <2>6. k # n - 1 /\ s.seq = o + k
    BY <1>3, <1>4, <2>2
  <2>7. StepFacts(g, dir, ph, q, c, o, k, s)
    BY <1>4, <2>2, <2>3, <2>4, <2>5, <2>6 DEF StepFacts, f, t
  <2> QED
    BY <2>7 DEF s
<1>5. CASE k # 0 /\ k = n - 1
  <2>1. s = Step(ph, o + n - 1, Restore, decode[c[n - 1]].rank, decode[c[1]].rank, NoRect,
                 decode[c[1]].rect)
    BY <1>5 DEF CycleStep
  <2> HIDE DEF s
  <2>2. /\ s.phase = ph /\ s.seq = o + n - 1 /\ s.kind = Restore
        /\ s.from = RankOn(g, dir, q, f(n - 1)) /\ s.to = RankOn(g, dir, q, f(1))
        /\ s.target = Band(g, dir, f(1), t)
    BY <1>2, <1>3, <2>1 DEF Step
  <2>3. LineRestore(g, dir, q, s, f(n - 1), f(1), t)
    BY <2>2 DEF LineRestore
  <2>4. StaysOn(g, dir, q, s)
    BY <1>2, <1>3, <2>2 DEF StaysOn
  <2>5. \A i \in 1..(n - 2) : k # n - 1 - i
    BY <1>1, <1>5
  <2>6. n - k = 1 /\ s.seq = o + k /\ s.kind # Save
    BY <1>3, <1>5, <2>2 DEF Restore, Save
  <2>7. StepFacts(g, dir, ph, q, c, o, k, s)
    <3>1. /\ s.to = RankOn(g, dir, q, FirstOf(g, dir, c[n - k]))
          /\ s.target = Band(g, dir, FirstOf(g, dir, c[n - k]), t)
      BY <2>2, <2>6 DEF f
    <3> QED
      BY <1>5, <2>2, <2>3, <2>4, <2>5, <2>6, <3>1 DEF StepFacts, f, t
  <2> QED
    BY <2>7 DEF s
<1>6. CASE k # 0 /\ k # n - 1
  <2>1. s = Step(ph, o + k, Move, decode[c[n - 1 - k]].rank, decode[c[n - k]].rank,
                 decode[c[n - 1 - k]].rect, decode[c[n - k]].rect)
    BY <1>6 DEF CycleStep
  <2> HIDE DEF s
  <2>2. /\ s.phase = ph /\ s.seq = o + k /\ s.kind = Move
        /\ s.from = RankOn(g, dir, q, f(n - 1 - k)) /\ s.to = RankOn(g, dir, q, f(n - k))
        /\ s.source = Band(g, dir, f(n - 1 - k), t) /\ s.target = Band(g, dir, f(n - k), t)
    BY <1>2, <1>3, <1>6, <2>1 DEF Step
  <2>3. ASSUME NEW i \in 1..(n - 2), k = n - 1 - i
        PROVE  LineMove(g, dir, q, s, f(i), f(i + 1), t)
    <3>1. n - 1 - k = i /\ n - k = i + 1
      BY <1>1, <2>3
    <3> QED
      BY <2>2, <3>1 DEF LineMove
  <2>4. StaysOn(g, dir, q, s)
    BY <1>2, <1>3, <1>6, <2>2 DEF StaysOn
  <2>6. s.kind # Save
    BY <2>2 DEF Move, Save
  <2>7. StepFacts(g, dir, ph, q, c, o, k, s)
    BY <1>6, <2>2, <2>3, <2>4, <2>6 DEF StepFacts, f, t
  <2> QED
    BY <2>7 DEF s
<1> QED
  BY <1>4, <1>5, <1>6

\* The cells of a slot are locations of its line, and so is its saved slab.
LEMMA SlotSpotIs ==
  ASSUME NEW g, NEW dir \in Directions, NEW u \in LineSlots(g, dir), NEW d, NEW y, GeometryOK(g),
         d \in 0..(Tile(g, dir) - 1), y \in 0..(Cross(g, dir) - 1)
  PROVE  /\ LocationOK(g, "slab", SlotSpot(g, dir, u, d, y))
         /\ OnLine(g, dir, LineOf(g, dir, u), SlotSpot(g, dir, u, d, y))
<1>1. SlotSegment(g, dir, u)
  BY SlotIs
<1> DEFINE x == FirstOf(g, dir, u) + d
           q == LineOf(g, dir, u)
<1>2. x \in Places(g, dir) /\ q \in LinesOf(g, dir)
  BY <1>1, SegmentIs DEF SlotSegment
<1> HIDE DEF x, q
<1>3. /\ LocationOK(g, "slab", SpotOn(g, dir, q, x, y))
      /\ OnLine(g, dir, q, SpotOn(g, dir, q, x, y))
  BY <1>2, SpotPlace
<1> QED
  BY <1>3 DEF x, q, SlotSpot

\* A place of a saved slab is a location of its line.
LEMMA SavedIs ==
  ASSUME NEW g, NEW dir \in Directions, NEW u \in LineSlots(g, dir), NEW d, NEW y, NEW loc,
         GeometryOK(g), d \in 0..(Tile(g, dir) - 1), y \in 0..(Cross(g, dir) - 1),
         loc = InSlot(RankOn(g, dir, LineOf(g, dir, u), FirstOf(g, dir, u)),
                      PackedAt(g, dir, Tile(g, dir), d, y))
  PROVE  /\ LocationOK(g, "slab", loc)
         /\ OnLine(g, dir, LineOf(g, dir, u), loc)
<1> DEFINE x == FirstOf(g, dir, u)
           q == LineOf(g, dir, u)
           r == RankOn(g, dir, q, x)
           t == Tile(g, dir)
           k == PackedAt(g, dir, t, d, y)
           m == RequiredCyclicSlotElements(g)
<1>1. q \in LinesOf(g, dir) /\ x \in Places(g, dir)
  BY SlotIs DEF SlotSegment, Segment
<1>2. r \in RanksOf(g)
  BY <1>1, RankOnTyped
<1>3. k \in 0..(m - 1)
  <2>1. /\ g.rows * g.tcols <= m /\ g.trows * g.cols <= m /\ m \in Nat
        /\ g.rows * g.tcols \in Nat /\ g.trows * g.cols \in Nat
    <3>1. /\ g.rows \in Nat /\ g.tcols \in Nat /\ g.trows \in Nat /\ g.cols \in Nat
      BY DEF GeometryOK
    <3>2. \A i, j \in Nat : i * j \in Nat
      BY SMT
    <3>3. g.rows * g.tcols \in Nat /\ g.trows * g.cols \in Nat /\ g.tcols * g.rows \in Nat
      BY <3>1, <3>2
    <3>4. \A i, j \in Nat : Larger(i, j) \in Nat
      BY DEF Larger
    <3>5. m \in Nat
      BY <3>3, <3>4 DEF RequiredCyclicSlotElements
    <3>6. g.rows * g.tcols \in 1..m /\ g.trows * g.cols \in 1..m
      BY SlabsFit
    <3> QED
      BY <3>3, <3>5, <3>6
  <2>2. CASE dir = "cols"
    <3>1. t = g.tcols /\ y \in 0..(g.rows - 1) /\ k = d * g.rows + y
      BY <2>2 DEF Tile, Cross, PackedAt
    <3>2. g.tcols \in Nat \ {0} /\ g.rows \in Nat \ {0}
      BY DEF GeometryOK
    <3>3. k \in 0..(g.tcols * g.rows - 1)
      BY <3>1, <3>2, PlaceInRow
    <3>4. g.tcols * g.rows = g.rows * g.tcols
      BY <3>2
    <3> HIDE DEF k, m
    <3> QED
      BY <2>1, <3>3, <3>4
  <2>3. CASE dir = "rows"
    <3>1. t = g.trows /\ y \in 0..(g.cols - 1) /\ k = y * g.trows + d
      BY <2>3 DEF Tile, Cross, PackedAt
    <3>2. g.trows \in Nat \ {0} /\ g.cols \in Nat \ {0}
      BY DEF GeometryOK
    <3>3. k \in 0..(g.cols * g.trows - 1)
      BY <3>1, <3>2, PlaceInRow
    <3>4. g.cols * g.trows = g.trows * g.cols
      BY <3>2
    <3> HIDE DEF k, m
    <3> QED
      BY <2>1, <3>3, <3>4
  <2> QED
    BY <2>2, <2>3 DEF Directions
<1> HIDE DEF r, k
<1>4. loc = InSlot(r, k)
  BY DEF r, k
<1>5. LocationOK(g, "slab", loc)
  BY <1>2, <1>3, <1>4 DEF LocationOK, SavedPlace
<1>6. loc[2] = r
  BY <1>4 DEF InSlot
<1> QED
  BY <1>1, <1>5, <1>6 DEF OnLine, r

(***************************************************************************)
(* A phase of the slab plan turns every cycle of its map by one slot.      *)
(***************************************************************************)
\* S are the steps of the cycles of a map that keeps lines.
Turning(g, dir, ph, map, cycles, start, decode, S) ==
  /\ dir \in Directions /\ GeometryOK(g) /\ ph \in Int
  /\ Decoded(g, dir, decode)
  /\ Orbits(map, Lines(g, dir) * Reach(g, dir), cycles)
  /\ Scheduled(cycles, Reach(g, dir), start)
  /\ map \in [LineSlots(g, dir) -> LineSlots(g, dir)]
  /\ \A u \in LineSlots(g, dir) : LineOf(g, dir, map[u]) = LineOf(g, dir, u)
  /\ \A s \in S : \E e \in 1..Len(cycles) : \E k \in 0..(Len(cycles[e]) - 1) :
       s = CycleStep(ph, decode, cycles[e], start[e], k)
  /\ \A e \in 1..Len(cycles) : \A k \in 0..(Len(cycles[e]) - 1) :
       CycleStep(ph, decode, cycles[e], start[e], k) \in S

\* A cycle stays on its line.
LEMMA CycleLine ==
  ASSUME NEW g, NEW dir \in Directions, NEW map, NEW c, GeometryOK(g),
         Rotates(map, Lines(g, dir) * Reach(g, dir), c),
         \A u \in LineSlots(g, dir) : LineOf(g, dir, map[u]) = LineOf(g, dir, u)
  PROVE  LineCycle(g, dir, LineOf(g, dir, c[1]), c)
<1> DEFINE q == LineOf(g, dir, c[1])
           L == Len(c)
           T == {i \in Nat : i + 1 <= L => LineOf(g, dir, c[i + 1]) = q}
<1>1. /\ L \in Nat /\ L >= 2 /\ \A i \in 1..L : c[i] \in LineSlots(g, dir)
      /\ \A i \in 1..(L - 1) : c[i + 1] = map[c[i]]
  BY DEF Rotates, LineSlots
<1>2. q \in LinesOf(g, dir)
  <2>1. c[1] \in LineSlots(g, dir)
    BY <1>1
  <2> QED
    BY <2>1, SlotIs DEF SlotSegment
<1> HIDE DEF L
<1>3. 0 \in T
  OBVIOUS
<1>4. ASSUME NEW i \in Nat, i \in T PROVE i + 1 \in T
  <2> DEFINE j == i + 1
  <2> SUFFICES ASSUME j + 1 <= L PROVE LineOf(g, dir, c[j + 1]) = q
    OBVIOUS
  <2>1. j \in 1..(L - 1) /\ j \in 1..L /\ i + 1 <= L
    BY <1>1
  <2>2. LineOf(g, dir, c[j]) = q
    BY <1>4, <2>1
  <2> HIDE DEF j, q
  <2>3. c[j + 1] = map[c[j]] /\ c[j] \in LineSlots(g, dir)
    BY <1>1, <2>1
  <2> QED
    BY <2>2, <2>3
<1>5. Nat \subseteq T
  <2> HIDE DEF T
  <2> QED
    BY <1>3, <1>4, SetInduction
<1>6. ASSUME NEW i \in 1..L PROVE LineOf(g, dir, c[i]) = q
  <2> DEFINE j == i - 1
  <2>1. j \in Nat /\ j + 1 = i /\ j + 1 <= L
    BY <1>1
  <2> HIDE DEF j
  <2>2. j \in T
    BY <1>5, <2>1
  <2>3. LineOf(g, dir, c[j + 1]) = q
    BY <2>1, <2>2
  <2> QED
    BY <2>1, <2>3
<1> QED
  BY <1>1, <1>2, <1>6 DEF LineCycle, L

\* What cycle e and its steps are.
CycleFacts(g, dir, ph, map, cycles, start, decode, e) ==
  /\ LineCycle(g, dir, LineOf(g, dir, cycles[e][1]), cycles[e])
  /\ Rotates(map, Lines(g, dir) * Reach(g, dir), cycles[e])
  /\ start[e] \in Nat
  /\ \A k \in 0..(Len(cycles[e]) - 1) :
       StepFacts(g, dir, ph, LineOf(g, dir, cycles[e][1]), cycles[e], start[e], k,
                 CycleStep(ph, decode, cycles[e], start[e], k))

\* What a turning phase says of one of its cycles.
LEMMA TurningCycle ==
  ASSUME NEW g, NEW dir, NEW ph, NEW map, NEW cycles, NEW start, NEW decode, NEW S,
         Turning(g, dir, ph, map, cycles, start, decode, S), NEW e \in 1..Len(cycles)
  PROVE  CycleFacts(g, dir, ph, map, cycles, start, decode, e)
<1> DEFINE c == cycles[e]
           n == Lines(g, dir) * Reach(g, dir)
           q == LineOf(g, dir, c[1])
<1>1. /\ dir \in Directions /\ GeometryOK(g) /\ Decoded(g, dir, decode)
      /\ \A u \in LineSlots(g, dir) : LineOf(g, dir, map[u]) = LineOf(g, dir, u)
  BY DEF Turning
<1>2. Rotates(map, n, c)
  BY DEF Turning, Orbits
<1>3. start[e] \in Nat
  BY DEF Turning, Scheduled
<1>4. LineCycle(g, dir, q, c)
  BY <1>1, <1>2, CycleLine
<1> HIDE DEF c, q, n
<1>5. \A k \in 0..(Len(c) - 1) :
        StepFacts(g, dir, ph, q, c, start[e], k, CycleStep(ph, decode, c, start[e], k))
  BY <1>1, <1>3, <1>4, CycleStepIs
<1> QED
  BY <1>2, <1>3, <1>4, <1>5 DEF CycleFacts, c, q, n

\* A step spares all slots but its target.
LEMMA StepSpares ==
  ASSUME NEW g, NEW dir, NEW ph, NEW map, NEW cycles, NEW start, NEW decode, NEW S,
         Turning(g, dir, ph, map, cycles, start, decode, S),
         NEW e \in 1..Len(cycles), NEW k \in 0..(Len(cycles[e]) - 1), NEW s,
         s = CycleStep(ph, decode, cycles[e], start[e], k),
         NEW u \in LineSlots(g, dir), NEW d \in 0..(Tile(g, dir) - 1), NEW y,
         y \in 0..(Cross(g, dir) - 1),
         k # 0 => u # cycles[e][Len(cycles[e]) - k]
  PROVE  Spared(s, SlotSpot(g, dir, u, d, y))
<1> DEFINE c == cycles[e]
           q == LineOf(g, dir, c[1])
           p == LineOf(g, dir, u)
           t == Tile(g, dir)
           x == FirstOf(g, dir, u) + d
           loc == SlotSpot(g, dir, u, d, y)
<1>1. dir \in Directions /\ GeometryOK(g)
  BY DEF Turning
<1>2. /\ LineCycle(g, dir, q, c)
      /\ StepFacts(g, dir, ph, q, c, start[e], k, s)
  BY TurningCycle DEF CycleFacts
<1>3. /\ q \in LinesOf(g, dir) /\ Len(c) \in Nat
      /\ \A i \in 1..Len(c) : c[i] \in LineSlots(g, dir) /\ LineOf(g, dir, c[i]) = q
  BY <1>2 DEF LineCycle
<1>4. SlotSegment(g, dir, u)
  BY <1>1, SlotIs
<1>5. p \in LinesOf(g, dir) /\ x \in Places(g, dir)
  BY <1>1, <1>4, SegmentIs DEF SlotSegment
<1>6. OnLine(g, dir, p, loc)
  BY <1>1, SlotSpotIs
<1>7. k \in 0..(Len(c) - 1)
  OBVIOUS
<1>8. loc = SpotOn(g, dir, p, x, y)
  BY DEF SlotSpot
<1>9. k # 0 => u # c[Len(c) - k]
  OBVIOUS
<1> HIDE DEF c, q, p, x, loc
<1>10. CASE p # q
  <2>1. StaysOn(g, dir, q, s)
    BY <1>2 DEF StepFacts
  <2> QED
    BY <1>1, <1>3, <1>5, <1>6, <1>10, <2>1, OtherLineSpares DEF loc
<1>11. CASE p = q /\ k = 0
  <2>1. s.to = -1
    BY <1>2, <1>11 DEF StepFacts, LineSave
  <2>2. Spared(s, SpotOn(g, dir, p, x, y))
    BY <1>1, <1>5, <2>1, SaveSpares
  <2> QED
    BY <1>8, <2>2 DEF loc
<1>12. CASE p = q /\ k # 0
  <2> DEFINE v == c[Len(c) - k]
             z == FirstOf(g, dir, v)
  <2>1. s.to = RankOn(g, dir, q, z) /\ s.target = Band(g, dir, z, t)
    BY <1>2, <1>12 DEF StepFacts
  <2>2. v \in LineSlots(g, dir) /\ LineOf(g, dir, v) = q /\ u # v
    <3>1. Len(c) - k \in 1..Len(c)
      BY <1>3, <1>7, <1>12
    <3> QED
      BY <1>3, <1>9, <1>12, <3>1
  <2> HIDE DEF v
  <2>3. LineOf(g, dir, u) = LineOf(g, dir, v)
    BY <1>12, <2>2 DEF p
  <2>4. /\ FirstOf(g, dir, u) + d \in Places(g, dir)
        /\ FirstOf(g, dir, u) + d
              \notin FirstOf(g, dir, v)..(FirstOf(g, dir, v) + Tile(g, dir) - 1)
    BY <1>1, <2>2, <2>3, SlotsApart
  <2>5. x \notin z..(z + t - 1)
    BY <2>4 DEF x
  <2>6. Segment(g, dir, z, t)
    BY <1>1, <2>2, SlotIs DEF SlotSegment
  <2> HIDE DEF z, t
  <2>7. Spared(s, SpotOn(g, dir, q, x, y))
    BY <1>1, <1>3, <1>5, <2>1, <2>5, <2>6, TargetSpares
  <2> QED
    BY <1>8, <1>12, <2>7 DEF loc
<1> QED
  BY <1>10, <1>11, <1>12

\* s is step k of cycle e, and fills slot i of it.
StepOf(ph, decode, cycles, start, e, k, s) ==
  /\ e \in 1..Len(cycles) /\ k \in 0..(Len(cycles[e]) - 1)
  /\ s = CycleStep(ph, decode, cycles[e], start[e], k)
Fills(cycles, e, k, u) ==
  /\ e \in 1..Len(cycles) /\ k \in 1..(Len(cycles[e]) - 1)
  /\ u = cycles[e][Len(cycles[e]) - k]

\* Every step is one of these, and spares the slots it does not fill.
LEMMA StepsAre ==
  ASSUME NEW g, NEW dir, NEW ph, NEW map, NEW cycles, NEW start, NEW decode, NEW S,
         Turning(g, dir, ph, map, cycles, start, decode, S), NEW x \in S
  PROVE  \E f, l : StepOf(ph, decode, cycles, start, f, l, x)
<1>1. PICK f \in 1..Len(cycles) : \E l \in 0..(Len(cycles[f]) - 1) :
        x = CycleStep(ph, decode, cycles[f], start[f], l)
  BY DEF Turning
<1>2. PICK l \in 0..(Len(cycles[f]) - 1) : x = CycleStep(ph, decode, cycles[f], start[f], l)
  BY <1>1
<1> QED
  BY <1>2 DEF StepOf

\* A step spares the slots it does not fill.
LEMMA NotFilled ==
  ASSUME NEW g, NEW dir, NEW ph, NEW map, NEW cycles, NEW start, NEW decode, NEW S,
         Turning(g, dir, ph, map, cycles, start, decode, S), NEW e, NEW k, NEW s,
         StepOf(ph, decode, cycles, start, e, k, s),
         NEW u \in LineSlots(g, dir), NEW d \in 0..(Tile(g, dir) - 1), NEW y,
         y \in 0..(Cross(g, dir) - 1), ~Fills(cycles, e, k, u)
  PROVE  Spared(s, SlotSpot(g, dir, u, d, y))
<1>1. e \in 1..Len(cycles) /\ k \in 0..(Len(cycles[e]) - 1)
  BY DEF StepOf
<1>2. s = CycleStep(ph, decode, cycles[e], start[e], k)
  BY DEF StepOf
<1>3. k # 0 => u # cycles[e][Len(cycles[e]) - k]
  <2>1. ASSUME k # 0 PROVE k \in 1..(Len(cycles[e]) - 1)
    <3>1. CycleFacts(g, dir, ph, map, cycles, start, decode, e)
      BY <1>1, TurningCycle
    <3>2. Len(cycles[e]) \in Nat
      BY <3>1 DEF CycleFacts, Rotates
    <3> QED
      BY <1>1, <2>1, <3>2
  <2> QED
    BY <1>1, <2>1 DEF Fills
<1> QED
  BY <1>1, <1>2, <1>3, StepSpares

\* A slot of cycle e is filled by one step only.
LEMMA LandsOnce ==
  ASSUME NEW g, NEW dir, NEW ph, NEW map, NEW cycles, NEW start, NEW decode, NEW S,
         Turning(g, dir, ph, map, cycles, start, decode, S),
         NEW e \in 1..Len(cycles), NEW i, NEW u, NEW f, NEW l,
         i \in 1..(Len(cycles[e]) - 1), u = cycles[e][i], Fills(cycles, f, l, u)
  PROVE  f = e /\ l = Len(cycles[e]) - i
<1> DEFINE n == Len(cycles[e])
           m == Len(cycles[f])
           j == m - l
           N == Lines(g, dir) * Reach(g, dir)
<1>0. f \in 1..Len(cycles) /\ l \in 1..(m - 1) /\ u = cycles[f][j]
  BY DEF Fills
<1>1. /\ Orbits(map, N, cycles)
      /\ Rotates(map, N, cycles[e]) /\ Rotates(map, N, cycles[f])
  BY <1>0 DEF Turning, Orbits
<1>2. /\ n \in Nat /\ m \in Nat /\ n >= 2 /\ m >= 2
      /\ \A x, y \in 1..(n - 1) : cycles[e][x] = cycles[e][y] => x = y
      /\ cycles[e][i] \in 0..(N - 1)
  <2>1. n \in Nat /\ m \in Nat /\ n >= 2 /\ m >= 2
    BY <1>1 DEF Rotates
  <2>2. i \in 1..n
    BY <2>1
  <2> QED
    BY <1>1, <2>1, <2>2 DEF Rotates
<1>3. j \in 1..(m - 1)
  BY <1>0, <1>2
<1>4. u \in SlotsOf(cycles[e]) /\ u \in SlotsOf(cycles[f])
  <2> HIDE DEF j
  <2> QED
    BY <1>0, <1>3 DEF SlotsOf
<1>5. f = e
  BY <1>0, <1>1, <1>2, <1>4 DEF Orbits
<1>6. j = i
  BY <1>0, <1>2, <1>3, <1>5
<1> QED
  BY <1>0, <1>2, <1>5, <1>6

\* Steps of different cycles, one of them while the other cycle turns, are of
\* different lines.
LEMMA LinesApart ==
  ASSUME NEW g, NEW dir, NEW ph, NEW map, NEW cycles, NEW start, NEW decode, NEW S,
         Turning(g, dir, ph, map, cycles, start, decode, S),
         NEW e \in 1..Len(cycles), NEW f \in 1..Len(cycles), NEW l, e # f,
         l \in 0..(Len(cycles[f]) - 1),
         start[e] <= start[f] + l, start[f] + l <= start[e] + Len(cycles[e]) - 1
  PROVE  LineOf(g, dir, cycles[f][1]) # LineOf(g, dir, cycles[e][1])
<1>1. Scheduled(cycles, Reach(g, dir), start)
  BY DEF Turning
<1>2. /\ start[e] \in Nat /\ start[f] \in Nat
      /\ Len(cycles[e]) \in Nat /\ Len(cycles[f]) \in Nat
  BY TurningCycle DEF CycleFacts, Rotates
<1>3. SUFFICES ASSUME LineOf(g, dir, cycles[f][1]) = LineOf(g, dir, cycles[e][1]) PROVE FALSE
  OBVIOUS
<1>4. cycles[e][1] \div Reach(g, dir) = cycles[f][1] \div Reach(g, dir)
  BY <1>3 DEF LineOf
<1>5. start[e] + Len(cycles[e]) <= start[f] \/ start[f] + Len(cycles[f]) <= start[e]
  BY <1>1, <1>4 DEF Scheduled
<1> DEFINE a == start[e]
           b == start[f]
           n == Len(cycles[e])
           m == Len(cycles[f])
<1>6. /\ a \in Nat /\ b \in Nat /\ n \in Nat /\ m \in Nat /\ l \in 0..(m - 1)
      /\ a <= b + l /\ b + l <= a + n - 1 /\ (a + n <= b \/ b + m <= a)
  BY <1>2, <1>5
<1> HIDE DEF a, b, n, m
<1> QED
  BY <1>6

\* The time of a step, and which steps come not before and not after it.
LEMMA StepTime ==
  ASSUME NEW g, NEW dir, NEW ph, NEW map, NEW cycles, NEW start, NEW decode, NEW S,
         Turning(g, dir, ph, map, cycles, start, decode, S),
         NEW e, NEW f, NEW k, NEW l, NEW s, NEW x,
         StepOf(ph, decode, cycles, start, e, k, s),
         StepOf(ph, decode, cycles, start, f, l, x)
  PROVE  /\ s.seq = start[e] + k /\ x.seq = start[f] + l
         /\ s.phase = ph /\ x.phase = ph /\ ph \in Int
         /\ start[e] + k < start[f] + l => RoundBefore(RoundOf(s), RoundOf(x))
         /\ start[f] + l < start[e] + k => RoundBefore(RoundOf(x), RoundOf(s))
<1>0. /\ e \in 1..Len(cycles) /\ k \in 0..(Len(cycles[e]) - 1)
      /\ f \in 1..Len(cycles) /\ l \in 0..(Len(cycles[f]) - 1)
      /\ s = CycleStep(ph, decode, cycles[e], start[e], k)
      /\ x = CycleStep(ph, decode, cycles[f], start[f], l)
  BY DEF StepOf
<1>1. /\ s.seq = start[e] + k /\ s.phase = ph
      /\ x.seq = start[f] + l /\ x.phase = ph
  <2>1. CycleFacts(g, dir, ph, map, cycles, start, decode, e)
    BY <1>0, TurningCycle
  <2>2. CycleFacts(g, dir, ph, map, cycles, start, decode, f)
    BY <1>0, TurningCycle
  <2>3. StepFacts(g, dir, ph, LineOf(g, dir, cycles[e][1]), cycles[e], start[e], k, s)
    BY <1>0, <2>1 DEF CycleFacts
  <2>4. StepFacts(g, dir, ph, LineOf(g, dir, cycles[f][1]), cycles[f], start[f], l, x)
    BY <1>0, <2>2 DEF CycleFacts
  <2> QED
    BY <2>3, <2>4 DEF StepFacts
<1>2. /\ RoundOf(s)[1] = ph /\ RoundOf(s)[2] = start[e] + k
      /\ RoundOf(x)[1] = ph /\ RoundOf(x)[2] = start[f] + l
  BY <1>1 DEF RoundOf
<1> QED
  BY <1>1, <1>2 DEF RoundBefore, Turning

\* A slot that is not the last but one of its cycle moves to the next.
LEMMA MovedSlot ==
  ASSUME NEW g, NEW dir, NEW ph, NEW map, NEW cycles, NEW start, NEW decode, NEW S,
         Turning(g, dir, ph, map, cycles, start, decode, S),
         NEW e \in 1..Len(cycles), NEW i, NEW d, NEW y,
         i \in 1..(Len(cycles[e]) - 2),
         d \in 0..(Tile(g, dir) - 1), y \in 0..(Cross(g, dir) - 1)
  PROVE  Leads(g, "slab", S, SlotSpot(g, dir, cycles[e][i], d, y),
               SlotSpot(g, dir, cycles[e][i + 1], d, y))
<1> DEFINE c == cycles[e]
           n == Len(c)
           k == n - 1 - i
           q == LineOf(g, dir, c[1])
           s == CycleStep(ph, decode, c, start[e], k)
           u == c[i]
           v == c[i + 1]
           loc == SlotSpot(g, dir, u, d, y)
           new == SlotSpot(g, dir, v, d, y)
<1>1. dir \in Directions /\ GeometryOK(g)
  BY DEF Turning
<1>2. CycleFacts(g, dir, ph, map, cycles, start, decode, e)
  BY TurningCycle
<1>3. /\ n \in Nat /\ n >= 2 /\ q \in LinesOf(g, dir)
      /\ \A a \in 1..n : c[a] \in LineSlots(g, dir) /\ LineOf(g, dir, c[a]) = q
  BY <1>2 DEF CycleFacts, LineCycle
<1>4. /\ i \in 1..n /\ i + 1 \in 1..n /\ k \in 1..(n - 2) /\ k \in 0..(n - 1)
      /\ i \in 1..(n - 1) /\ i + 1 \in 1..(n - 1)
      /\ n - i = k + 1 /\ n - (i + 1) = k
  <2>1. i \in 1..(n - 2) /\ n \in Nat /\ k = n - 1 - i
    BY <1>3
  <2> HIDE DEF n, k
  <2> QED
    BY <2>1
<1>5. /\ u \in LineSlots(g, dir) /\ LineOf(g, dir, u) = q
      /\ v \in LineSlots(g, dir) /\ LineOf(g, dir, v) = q
  BY <1>3, <1>4
<1>6. s \in S
  BY <1>4 DEF Turning
<1>7. LineMove(g, dir, q, s, FirstOf(g, dir, u), FirstOf(g, dir, v), Tile(g, dir))
  <2>1. StepFacts(g, dir, ph, q, c, start[e], k, s)
    BY <1>2, <1>4 DEF CycleFacts
  <2> QED
    BY <2>1 DEF StepFacts
<1>8. s = CycleStep(ph, decode, cycles[e], start[e], k) /\ u = cycles[e][i]
      /\ v = cycles[e][i + 1] /\ n = Len(cycles[e])
  OBVIOUS
<1> HIDE DEF c, n, k, q, s, u, v
<1>9. LocationOK(g, "slab", loc) /\ LocationOK(g, "slab", new)
  BY <1>1, <1>5, SlotSpotIs
<1>10. Carried(s, loc, new)
  <2> DEFINE a == FirstOf(g, dir, u)
             b == FirstOf(g, dir, v)
             t == Tile(g, dir)
  <2>1. Segment(g, dir, a, t) /\ Segment(g, dir, b, t)
    BY <1>1, <1>5, SlotIs DEF SlotSegment
  <2>2. LineMove(g, dir, q, s, a, b, t)
    BY <1>7
  <2>3. loc = SpotOn(g, dir, q, a + d, y) /\ new = SpotOn(g, dir, q, b + d, y)
    BY <1>5 DEF SlotSpot
  <2>4. d \in 0..(t - 1)
    OBVIOUS
  <2> HIDE DEF a, b, t, loc, new
  <2>5. Carried(s, SpotOn(g, dir, q, a + d, y), SpotOn(g, dir, q, b + d, y))
    BY <1>1, <1>3, <2>1, <2>2, <2>4, MoveTakes
  <2> QED
    BY <2>3, <2>5
<1>11. StepOf(ph, decode, cycles, start, e, k, s)
  BY <1>4, <1>8 DEF StepOf
<1>12. ASSUME NEW x \in S, x # s, ~RoundBefore(RoundOf(s), RoundOf(x))
       PROVE  Spared(x, loc)
  <2>1. PICK f, l : StepOf(ph, decode, cycles, start, f, l, x)
    BY StepsAre
  <2>2. ASSUME Fills(cycles, f, l, u) PROVE FALSE
    <3>1. i \in 1..(Len(cycles[e]) - 1) /\ u = cycles[e][i]
      BY <1>4, <1>8
    <3>2. f = e /\ l = Len(cycles[e]) - i
      BY <2>2, <3>1, LandsOnce
    <3>3. start[e] \in Nat /\ start[e] + k < start[f] + l
      <4>1. start[e] \in Nat
        BY <1>2 DEF CycleFacts
      <4>2. l = k + 1 /\ k \in Int
        BY <1>4, <1>8, <3>2
      <4> QED
        BY <3>2, <4>1, <4>2
    <3> QED
      BY <1>11, <1>12, <2>1, <3>3, StepTime
  <2> QED
    BY <1>5, <2>1, <2>2, NotFilled
<1>14. ASSUME NEW x \in S, x # s, ~RoundBefore(RoundOf(x), RoundOf(s))
       PROVE  Spared(x, new)
  <2>1. PICK f, l : StepOf(ph, decode, cycles, start, f, l, x)
    BY StepsAre
  <2>2. ASSUME Fills(cycles, f, l, v) PROVE FALSE
    <3> DEFINE j == i + 1
    <3>1. j \in 1..(Len(cycles[e]) - 1) /\ v = cycles[e][j] /\ n - j = k
      BY <1>4, <1>8
    <3> HIDE DEF j
    <3>2. f = e /\ l = Len(cycles[e]) - j
      BY <2>2, <3>1, LandsOnce
    <3>3. f = e /\ l = k
      BY <1>8, <3>1, <3>2
    <3> QED
      BY <1>11, <1>14, <2>1, <3>3 DEF StepOf
  <2> QED
    BY <1>5, <2>1, <2>2, NotFilled
<1> HIDE DEF loc, new
<1>13. Leads(g, "slab", S, loc, new)
  BY <1>6, <1>9, <1>10, <1>12, <1>14, LeadsOnce
<1> QED
  BY <1>8, <1>13 DEF loc, new

\* The steps of a set up to the time o, and those after it.
UpTo(S, o)  == {s \in S : s.seq <= o}
Later(S, o) == {s \in S : ~(s.seq <= o)}

\* What cycle e has in the last slot but one is saved as the cycle starts,
LEMMA SlotSaved ==
  ASSUME NEW g, NEW dir, NEW ph, NEW map, NEW cycles, NEW start, NEW decode, NEW S,
         Turning(g, dir, ph, map, cycles, start, decode, S),
         NEW e \in 1..Len(cycles), NEW d, NEW y, NEW u,
         d \in 0..(Tile(g, dir) - 1), y \in 0..(Cross(g, dir) - 1),
         u = cycles[e][Len(cycles[e]) - 1]
  PROVE  Leads(g, "slab", UpTo(S, start[e]), SlotSpot(g, dir, u, d, y),
               InSlot(RankOn(g, dir, LineOf(g, dir, u), FirstOf(g, dir, u)),
                      PackedAt(g, dir, Tile(g, dir), d, y)))
<1> DEFINE c == cycles[e]
           n == Len(c)
           o == start[e]
           q == LineOf(g, dir, c[1])
           s == CycleStep(ph, decode, c, o, 0)
           loc == SlotSpot(g, dir, u, d, y)
           a == FirstOf(g, dir, u)
           t == Tile(g, dir)
           new == InSlot(RankOn(g, dir, q, a), PackedAt(g, dir, t, d, y))
<1>1. dir \in Directions /\ GeometryOK(g)
  BY DEF Turning
<1>2. CycleFacts(g, dir, ph, map, cycles, start, decode, e)
  BY TurningCycle
<1>3. /\ n \in Nat /\ n >= 2 /\ q \in LinesOf(g, dir)
      /\ \A b \in 1..n : c[b] \in LineSlots(g, dir) /\ LineOf(g, dir, c[b]) = q
  BY <1>2 DEF CycleFacts, LineCycle
<1>4. n - 1 \in 1..(n - 1) /\ n - 1 \in 1..n /\ 0 \in 0..(n - 1) /\ n - (n - 1) = 1
  <2> HIDE DEF n
  <2> QED
    BY <1>3
<1>5. u \in LineSlots(g, dir) /\ LineOf(g, dir, u) = q /\ o \in Nat
  BY <1>2, <1>3, <1>4 DEF CycleFacts
<1>6. s \in S
  BY <1>4 DEF Turning
<1>7. StepFacts(g, dir, ph, q, c, o, 0, s)
  BY <1>2, <1>4 DEF CycleFacts
<1>8. LineSave(g, dir, q, s, a, t) /\ s.seq = o
  BY <1>5, <1>7 DEF StepFacts
<1>9. StepOf(ph, decode, cycles, start, e, 0, s)
  BY <1>4 DEF StepOf
<1>10. u = cycles[e][n - 1] /\ n = Len(cycles[e])
  OBVIOUS
<1>11. q = LineOf(g, dir, cycles[e][1]) /\ o = start[e]
  OBVIOUS
<1> HIDE DEF c, n, q, s, o
<1>12. s \in UpTo(S, o)
  BY <1>5, <1>6, <1>8 DEF UpTo
<1>13. LocationOK(g, "slab", loc)
  BY <1>1, <1>5, SlotSpotIs
<1>14. LocationOK(g, "slab", new) /\ OnLine(g, dir, q, new)
  <2>1. new = InSlot(RankOn(g, dir, LineOf(g, dir, u), FirstOf(g, dir, u)),
                     PackedAt(g, dir, Tile(g, dir), d, y))
    BY <1>5
  <2> HIDE DEF new
  <2>2. LocationOK(g, "slab", new) /\ OnLine(g, dir, LineOf(g, dir, u), new)
    BY <1>1, <1>5, <2>1, SavedIs
  <2> QED
    BY <1>5, <2>2
<1>15. Carried(s, loc, new)
  <2>1. Segment(g, dir, a, t)
    BY <1>1, <1>5, SlotIs DEF SlotSegment
  <2>2. loc = SpotOn(g, dir, q, a + d, y) /\ d \in 0..(t - 1)
    BY <1>5 DEF SlotSpot
  <2> HIDE DEF a, t, loc
  <2>3. Carried(s, SpotOn(g, dir, q, a + d, y),
                InSlot(RankOn(g, dir, q, a), PackedAt(g, dir, t, d, y)))
    BY <1>1, <1>3, <1>8, <2>1, <2>2, SaveTakes
  <2> QED
    BY <2>2, <2>3
<1>16. ASSUME NEW x \in UpTo(S, o), x # s PROVE Spared(x, loc)
  <2>1. x \in S /\ x.seq <= o
    BY <1>16 DEF UpTo
  <2>2. PICK f, l : StepOf(ph, decode, cycles, start, f, l, x)
    BY <2>1, StepsAre
  <2>3. ASSUME Fills(cycles, f, l, u) PROVE FALSE
    <3> DEFINE j == n - 1
    <3>1. j \in 1..(Len(cycles[e]) - 1) /\ u = cycles[e][j] /\ Len(cycles[e]) - j = 1
      BY <1>4, <1>10
    <3> HIDE DEF j
    <3>2. f = e /\ l = 1
      BY <2>3, <3>1, LandsOnce
    <3>3. x.seq = o + 1
      BY <1>9, <1>11, <2>2, <3>2, StepTime
    <3> QED
      BY <1>5, <2>1, <3>3
  <2> QED
    BY <1>5, <2>2, <2>3, NotFilled
<1>17. ASSUME NEW x \in UpTo(S, o), x # s, ~RoundBefore(RoundOf(x), RoundOf(s))
       PROVE  Spared(x, new)
  <2>1. x \in S /\ x.seq <= o
    BY <1>17 DEF UpTo
  <2>2. PICK f, l : StepOf(ph, decode, cycles, start, f, l, x)
    BY <2>1, StepsAre
  <2>3. /\ x.seq = start[f] + l /\ start[e] + 0 = o
        /\ ~(start[f] + l < start[e] + 0)
    BY <1>5, <1>9, <1>11, <1>17, <2>2, StepTime
  <2>4. f \in 1..Len(cycles) /\ l \in 0..(Len(cycles[f]) - 1)
    BY <2>2 DEF StepOf
  <2>5. CycleFacts(g, dir, ph, map, cycles, start, decode, f)
    BY <2>4, TurningCycle
  <2>6. start[f] \in Nat /\ Len(cycles[f]) \in Nat
    BY <2>5 DEF CycleFacts, Rotates
  <2>7. start[f] + l = o /\ l \in Nat
    <3>1. l \in Nat
      BY <2>4, <2>6
    <3> QED
      BY <1>5, <2>1, <2>3, <2>6, <3>1, SMTT(60)
  <2>8. f # e
    <3> SUFFICES ASSUME f = e PROVE FALSE
      OBVIOUS
    <3>1. l = 0
      BY <1>5, <1>11, <2>7
    <3> QED
      BY <1>9, <1>17, <2>2, <3>1 DEF StepOf
  <2>9. LineOf(g, dir, cycles[f][1]) # q
    <3>1. start[e] <= start[f] + l /\ start[f] + l <= start[e] + Len(cycles[e]) - 1
      BY <1>3, <1>5, <1>10, <1>11, <2>7
    <3> QED
      BY <1>11, <2>4, <2>8, <3>1, LinesApart
  <2> DEFINE p == LineOf(g, dir, cycles[f][1])
  <2>10. p \in LinesOf(g, dir) /\ StaysOn(g, dir, p, x)
    <3>1. StepFacts(g, dir, ph, p, cycles[f], start[f], l, x)
      BY <2>2, <2>4, <2>5 DEF CycleFacts, StepOf
    <3>2. LineCycle(g, dir, p, cycles[f])
      BY <2>5 DEF CycleFacts
    <3> QED
      BY <3>1, <3>2 DEF StepFacts, LineCycle
  <2> HIDE DEF p, new
  <2>11. p # q
    BY <2>9 DEF p
  <2> QED
    BY <1>1, <1>3, <1>14, <2>10, <2>11, OtherLineSpares
<1>18. new = InSlot(RankOn(g, dir, LineOf(g, dir, u), FirstOf(g, dir, u)),
                    PackedAt(g, dir, Tile(g, dir), d, y))
  BY <1>5
<1> HIDE DEF loc, new
<1>19. Leads(g, "slab", UpTo(S, o), loc, new)
  BY <1>12, <1>13, <1>14, <1>15, <1>16, <1>17, LeadsOnce
<1> QED
  BY <1>11, <1>18, <1>19 DEF loc

\* and restored to its first as it ends.
LEMMA SlotRestored ==
  ASSUME NEW g, NEW dir, NEW ph, NEW map, NEW cycles, NEW start, NEW decode, NEW S,
         Turning(g, dir, ph, map, cycles, start, decode, S),
         NEW e \in 1..Len(cycles), NEW d, NEW y, NEW u, NEW v,
         d \in 0..(Tile(g, dir) - 1), y \in 0..(Cross(g, dir) - 1),
         u = cycles[e][Len(cycles[e]) - 1], v = cycles[e][1]
  PROVE  Leads(g, "slab", Later(S, start[e]),
               InSlot(RankOn(g, dir, LineOf(g, dir, u), FirstOf(g, dir, u)),
                      PackedAt(g, dir, Tile(g, dir), d, y)),
               SlotSpot(g, dir, v, d, y))
<1> DEFINE c == cycles[e]
           n == Len(c)
           k == n - 1
           o == start[e]
           q == LineOf(g, dir, c[1])
           s == CycleStep(ph, decode, c, o, k)
           new == SlotSpot(g, dir, v, d, y)
           a == FirstOf(g, dir, u)
           b == FirstOf(g, dir, v)
           t == Tile(g, dir)
           loc == InSlot(RankOn(g, dir, q, a), PackedAt(g, dir, t, d, y))
<1>1. dir \in Directions /\ GeometryOK(g)
  BY DEF Turning
<1>2. CycleFacts(g, dir, ph, map, cycles, start, decode, e)
  BY TurningCycle
<1>3. /\ n \in Nat /\ n >= 2 /\ q \in LinesOf(g, dir)
      /\ \A i \in 1..n : c[i] \in LineSlots(g, dir) /\ LineOf(g, dir, c[i]) = q
  BY <1>2 DEF CycleFacts, LineCycle
<1>4. /\ k \in 1..(n - 1) /\ k \in 1..n /\ k \in 0..(n - 1) /\ n - 1 = k
      /\ 1 \in 1..(n - 1) /\ 1 \in 1..n
  <2> HIDE DEF n
  <2> QED
    BY <1>3
<1>5. /\ u \in LineSlots(g, dir) /\ LineOf(g, dir, u) = q /\ o \in Nat
      /\ v \in LineSlots(g, dir) /\ LineOf(g, dir, v) = q
  <2>1. o \in Nat
    BY <1>2 DEF CycleFacts
  <2>2. u = c[k] /\ v = c[1]
    OBVIOUS
  <2> HIDE DEF n, k, c
  <2> QED
    BY <1>3, <1>4, <2>1, <2>2
<1>6. s \in S
  BY <1>4 DEF Turning
<1>7. StepFacts(g, dir, ph, q, c, o, k, s)
  BY <1>2, <1>4 DEF CycleFacts
<1>8. LineRestore(g, dir, q, s, a, b, t) /\ s.seq = o + k
  BY <1>5, <1>7 DEF StepFacts
<1>9. StepOf(ph, decode, cycles, start, e, k, s)
  BY <1>4 DEF StepOf
<1>10. u = cycles[e][n - 1] /\ n = Len(cycles[e]) /\ v = cycles[e][1]
  OBVIOUS
<1>11. q = LineOf(g, dir, cycles[e][1]) /\ o = start[e]
  OBVIOUS
<1> HIDE DEF c, n, q, s, o, k
<1>12. s \in Later(S, o)
  BY <1>4, <1>5, <1>6, <1>8 DEF Later
<1>13. LocationOK(g, "slab", new)
  BY <1>1, <1>5, SlotSpotIs
<1>14. LocationOK(g, "slab", loc) /\ OnLine(g, dir, q, loc)
  <2>1. loc = InSlot(RankOn(g, dir, LineOf(g, dir, u), FirstOf(g, dir, u)),
                     PackedAt(g, dir, Tile(g, dir), d, y))
    BY <1>5
  <2> HIDE DEF loc
  <2>2. LocationOK(g, "slab", loc) /\ OnLine(g, dir, LineOf(g, dir, u), loc)
    BY <1>1, <1>5, <2>1, SavedIs
  <2> QED
    BY <1>5, <2>2
<1>15. Carried(s, loc, new)
  <2>1. Segment(g, dir, b, t)
    BY <1>1, <1>5, SlotIs DEF SlotSegment
  <2>2. new = SpotOn(g, dir, q, b + d, y) /\ d \in 0..(t - 1)
    BY <1>5 DEF SlotSpot
  <2> HIDE DEF a, b, t, new
  <2>3. Carried(s, InSlot(RankOn(g, dir, q, a), PackedAt(g, dir, t, d, y)),
                SpotOn(g, dir, q, b + d, y))
    BY <1>1, <1>3, <1>8, <2>1, <2>2, RestoreTakes
  <2> QED
    BY <2>2, <2>3
<1>16. ASSUME NEW x \in Later(S, o), x # s, ~RoundBefore(RoundOf(s), RoundOf(x))
       PROVE  Spared(x, loc)
  <2>1. x \in S /\ ~(x.seq <= o)
    BY <1>16 DEF Later
  <2>2. PICK f, l : StepOf(ph, decode, cycles, start, f, l, x)
    BY <2>1, StepsAre
  <2>3. /\ x.seq = start[f] + l
        /\ ~(start[e] + k < start[f] + l)
    BY <1>9, <1>16, <2>2, StepTime
  <2>4. f \in 1..Len(cycles) /\ l \in 0..(Len(cycles[f]) - 1)
    BY <2>2 DEF StepOf
  <2>5. CycleFacts(g, dir, ph, map, cycles, start, decode, f)
    BY <2>4, TurningCycle
  <2>6. start[f] \in Nat /\ Len(cycles[f]) \in Nat
    BY <2>5 DEF CycleFacts, Rotates
  <2> DEFINE p == LineOf(g, dir, cycles[f][1])
  <2>7. StepFacts(g, dir, ph, p, cycles[f], start[f], l, x)
    BY <2>2, <2>4, <2>5 DEF CycleFacts, StepOf
  <2>8. start[e] <= start[f] + l /\ start[f] + l <= start[e] + Len(cycles[e]) - 1
    <3> DEFINE z == start[f] + l
    <3>1. z \in Int /\ ~(z <= o) /\ ~(o + k < z)
      <4>1. l \in Int
        BY <2>4
      <4> QED
        BY <1>11, <2>1, <2>3, <2>6, <4>1
    <3> HIDE DEF z
    <3>2. o <= z /\ z <= o + n - 1
      BY <1>3, <1>4, <1>5, <3>1
    <3> QED
      BY <1>10, <1>11, <3>2 DEF z
  <2>9. CASE f = e
    <3>1. l # 0
      BY <1>5, <1>11, <2>1, <2>3, <2>9
    <3>2. x.kind # Save
      BY <2>7, <3>1 DEF StepFacts
    <3> QED
      BY <3>2, OthersSpare
  <2>10. CASE f # e
    <3>1. p # q
      BY <1>11, <2>4, <2>8, <2>10, LinesApart
    <3>2. p \in LinesOf(g, dir)
      BY <2>5 DEF CycleFacts, LineCycle
    <3>3. StaysOn(g, dir, p, x)
      BY <2>7 DEF StepFacts
    <3> HIDE DEF p, loc
    <3> QED
      BY <1>1, <1>3, <1>14, <3>1, <3>2, <3>3, OtherLineSpares
  <2> QED
    BY <2>9, <2>10
<1>17. ASSUME NEW x \in Later(S, o), x # s PROVE Spared(x, new)
  <2>1. x \in S
    BY <1>17 DEF Later
  <2>2. PICK f, l : StepOf(ph, decode, cycles, start, f, l, x)
    BY <2>1, StepsAre
  <2>3. ASSUME Fills(cycles, f, l, v) PROVE FALSE
    <3>1. 1 \in 1..(Len(cycles[e]) - 1) /\ Len(cycles[e]) - 1 = k
      BY <1>4, <1>10
    <3>2. f = e /\ l = k
      BY <1>10, <2>3, <3>1, LandsOnce
    <3> QED
      BY <1>9, <1>17, <2>2, <3>2 DEF StepOf
  <2> QED
    BY <1>5, <2>2, <2>3, NotFilled
<1> HIDE DEF loc, new
<1>18. Leads(g, "slab", Later(S, o), loc, new)
  BY <1>12, <1>13, <1>14, <1>15, <1>16, <1>17, LeadsOnce
<1> QED
  BY <1>5, <1>18 DEF loc, new, o

\* A phase takes what is in a slot to the slot of the map.
LEMMA SlotLeads ==
  ASSUME NEW g, NEW dir, NEW ph, NEW map, NEW cycles, NEW start, NEW decode, NEW S,
         Turning(g, dir, ph, map, cycles, start, decode, S),
         NEW u \in LineSlots(g, dir), NEW d, NEW y,
         d \in 0..(Tile(g, dir) - 1), y \in 0..(Cross(g, dir) - 1)
  PROVE  Leads(g, "slab", S, SlotSpot(g, dir, u, d, y), SlotSpot(g, dir, map[u], d, y))
<1> DEFINE N == Lines(g, dir) * Reach(g, dir)
<1>1. dir \in Directions /\ GeometryOK(g) /\ Orbits(map, N, cycles)
  BY DEF Turning
<1>2. u \in 0..(N - 1)
  BY DEF LineSlots
<1>3. map[u] # u <=> \E e \in 1..Len(cycles) : u \in SlotsOf(cycles[e])
  BY <1>1, <1>2 DEF Orbits
<1>4. ASSUME map[u] = u
      PROVE  Leads(g, "slab", S, SlotSpot(g, dir, u, d, y), SlotSpot(g, dir, u, d, y))
  <2>1. LocationOK(g, "slab", SlotSpot(g, dir, u, d, y))
    BY <1>1, SlotSpotIs
  <2>2. ASSUME NEW x \in S PROVE Spared(x, SlotSpot(g, dir, u, d, y))
    <3>1. PICK f, l : StepOf(ph, decode, cycles, start, f, l, x)
      BY StepsAre
    <3>2. ASSUME Fills(cycles, f, l, u) PROVE FALSE
      <4> DEFINE m == Len(cycles[f])
                 j == m - l
      <4>1. f \in 1..Len(cycles) /\ l \in 1..(m - 1) /\ u = cycles[f][j]
        BY <3>2 DEF Fills
      <4>2. Rotates(map, N, cycles[f])
        BY <1>1, <4>1 DEF Orbits
      <4>3. m \in Nat
        BY <4>2 DEF Rotates
      <4>4. j \in 1..(m - 1)
        BY <4>1, <4>3
      <4> HIDE DEF j
      <4>5. u \in SlotsOf(cycles[f])
        BY <4>1, <4>4 DEF SlotsOf
      <4> QED
        BY <1>3, <1>4, <4>1, <4>5
    <3> QED
      BY <3>1, <3>2, NotFilled
  <2> QED
    BY <2>1, <2>2, LeadsNowhere
<1>5. ASSUME NEW e \in 1..Len(cycles), u \in SlotsOf(cycles[e])
      PROVE  Leads(g, "slab", S, SlotSpot(g, dir, u, d, y), SlotSpot(g, dir, map[u], d, y))
  <2> DEFINE c == cycles[e]
             n == Len(c)
             o == start[e]
  <2>1. PICK i \in 1..(n - 1) : u = c[i]
    BY <1>5 DEF SlotsOf
  <2>2. Rotates(map, N, c)
    BY <1>1 DEF Orbits
  <2>3. n \in Nat /\ n >= 2 /\ map[u] = c[i + 1] /\ c[n] = c[1]
    BY <2>1, <2>2 DEF Rotates
  <2>4. CASE i # n - 1
    <3>1. i \in 1..(Len(cycles[e]) - 2)
      BY <2>1, <2>3, <2>4, SMTT(60)
    <3>2. Leads(g, "slab", S, SlotSpot(g, dir, cycles[e][i], d, y),
                SlotSpot(g, dir, cycles[e][i + 1], d, y))
      BY <3>1, MovedSlot
    <3> QED
      BY <2>1, <2>3, <3>2
  <2>5. CASE i = n - 1
    <3> DEFINE v == c[1]
               loc == SlotSpot(g, dir, u, d, y)
               via == InSlot(RankOn(g, dir, LineOf(g, dir, u), FirstOf(g, dir, u)),
                             PackedAt(g, dir, Tile(g, dir), d, y))
               new == SlotSpot(g, dir, v, d, y)
    <3>1. map[u] = v /\ u = cycles[e][Len(cycles[e]) - 1] /\ v = cycles[e][1]
      <4>1. i + 1 = n
        BY <2>3, <2>5
      <4> QED
        BY <2>1, <2>3, <2>5, <4>1
    <3> HIDE DEF v
    <3>2. Leads(g, "slab", UpTo(S, o), loc, via)
      <4>1. u = cycles[e][Len(cycles[e]) - 1]
        BY <3>1
      <4>2. Leads(g, "slab", UpTo(S, start[e]), SlotSpot(g, dir, u, d, y),
                  InSlot(RankOn(g, dir, LineOf(g, dir, u), FirstOf(g, dir, u)),
                         PackedAt(g, dir, Tile(g, dir), d, y)))
        BY <4>1, SlotSaved
      <4> QED
        BY <4>2
    <3>3. Leads(g, "slab", Later(S, o), via, new)
      BY <3>1, SlotRestored
    <3>4. Follow(UpTo(S, o), Later(S, o))
      <4>1. ASSUME NEW s \in UpTo(S, o), NEW x \in Later(S, o)
            PROVE  RoundBefore(RoundOf(s), RoundOf(x))
        <5>1. s \in S /\ x \in S /\ s.seq <= o /\ ~(x.seq <= o)
          BY <4>1 DEF UpTo, Later
        <5>2. PICK f, l : StepOf(ph, decode, cycles, start, f, l, s)
          BY <5>1, StepsAre
        <5>3. PICK b, k : StepOf(ph, decode, cycles, start, b, k, x)
          BY <5>1, StepsAre
        <5>4. /\ s.seq = start[f] + l /\ x.seq = start[b] + k
              /\ start[f] + l < start[b] + k => RoundBefore(RoundOf(s), RoundOf(x))
          BY <5>2, <5>3, StepTime
        <5>5. /\ f \in 1..Len(cycles) /\ b \in 1..Len(cycles)
              /\ l \in Int /\ k \in Int
          BY <5>2, <5>3 DEF StepOf
        <5>6. o \in Int /\ start[f] \in Int /\ start[b] \in Int
          BY <5>5 DEF Turning, Scheduled
        <5> QED
          BY <5>1, <5>4, <5>5, <5>6, SMTT(60)
      <4> QED
        BY <4>1 DEF Follow
    <3>5. S = UpTo(S, o) \cup Later(S, o)
      BY DEF UpTo, Later
    <3> HIDE DEF loc, via, new, o
    <3>6. Leads(g, "slab", UpTo(S, o) \cup Later(S, o), loc, new)
      BY <3>2, <3>3, <3>4, LeadsOn
    <3> QED
      BY <3>1, <3>5, <3>6 DEF loc, new
  <2> QED
    BY <2>4, <2>5
<1> QED
  BY <1>3, <1>4, <1>5

\* Steps of different lines share no sender and no receiver.
LEMMA LinesUnshared ==
  ASSUME NEW g, NEW dir \in Directions, NEW p \in LinesOf(g, dir), NEW q \in LinesOf(g, dir),
         NEW s, NEW x, GeometryOK(g), p # q, StaysOn(g, dir, p, s), StaysOn(g, dir, q, x),
         s.kind # Save => s.to # -1
  PROVE  ~Conflicts(s, x)
<1>1. PICK a \in Places(g, dir) : s.from = RankOn(g, dir, p, a)
  BY DEF StaysOn
<1>2. PICK b \in Places(g, dir) : x.from = RankOn(g, dir, q, b)
  BY DEF StaysOn
<1>3. x.from # s.from
  BY <1>1, <1>2, RanksApart
<1>4. ASSUME s.kind # Save, x.to = s.to PROVE FALSE
  <2>1. PICK c \in Places(g, dir) : s.to = RankOn(g, dir, p, c)
    BY <1>4 DEF StaysOn
  <2>2. PICK e \in Places(g, dir) : x.to = RankOn(g, dir, q, e)
    BY <1>4 DEF StaysOn
  <2> QED
    BY <1>4, <2>1, <2>2, RanksApart
<1> QED
  BY <1>3, <1>4 DEF Conflicts

\* What one step of a phase is.
LEMMA TurningStep ==
  ASSUME NEW g, NEW dir, NEW ph, NEW map, NEW cycles, NEW start, NEW decode, NEW S,
         Turning(g, dir, ph, map, cycles, start, decode, S), NEW e, NEW k, NEW s,
         StepOf(ph, decode, cycles, start, e, k, s)
  PROVE  /\ s.phase = ph /\ s.seq = start[e] + k /\ s.kind \in {Move, Save, Restore}
         /\ start[e] \in Nat /\ k \in Nat /\ k <= Len(cycles[e]) - 1
         /\ LineOf(g, dir, cycles[e][1]) \in LinesOf(g, dir)
         /\ StaysOn(g, dir, LineOf(g, dir, cycles[e][1]), s)
         /\ s.kind # Save => s.to # -1
<1> DEFINE q == LineOf(g, dir, cycles[e][1])
           c == cycles[e]
<1>1. e \in 1..Len(cycles) /\ k \in 0..(Len(c) - 1)
      /\ s = CycleStep(ph, decode, c, start[e], k)
  BY DEF StepOf
<1>2. CycleFacts(g, dir, ph, map, cycles, start, decode, e)
  BY <1>1, TurningCycle
<1>3. /\ StepFacts(g, dir, ph, q, c, start[e], k, s)
      /\ LineCycle(g, dir, q, c) /\ start[e] \in Nat
  BY <1>1, <1>2 DEF CycleFacts
<1>4. Len(c) \in Nat /\ q \in LinesOf(g, dir)
      /\ \A i \in 1..Len(c) : c[i] \in LineSlots(g, dir)
  BY <1>3 DEF LineCycle
<1>5. ASSUME s.kind # Save PROVE s.to # -1
  <2>1. dir \in Directions /\ GeometryOK(g)
    BY DEF Turning
  <2>2. k # 0
    BY <1>3, <1>5 DEF StepFacts, LineSave
  <2> DEFINE v == c[Len(c) - k]
             z == FirstOf(g, dir, v)
  <2>3. s.to = RankOn(g, dir, q, z)
    BY <1>3, <2>2 DEF StepFacts
  <2>4. v \in LineSlots(g, dir)
    <3>1. Len(c) - k \in 1..Len(c)
      BY <1>1, <1>4, <2>2
    <3> QED
      BY <1>4, <3>1
  <2> HIDE DEF v
  <2>5. z \in Places(g, dir)
    BY <2>1, <2>4, SlotIs DEF SlotSegment, Segment
  <2> HIDE DEF z, q, c
  <2>6. RankOn(g, dir, q, z) \in RanksOf(g)
    BY <1>4, <2>1, <2>5, RankOnTyped
  <2> QED
    BY <2>3, <2>6 DEF RanksOf
<1>6. /\ s.phase = ph /\ s.seq = start[e] + k /\ s.kind \in {Move, Save, Restore}
      /\ StaysOn(g, dir, q, s)
  BY <1>3 DEF StepFacts
<1>7. k \in Nat /\ k <= Len(c) - 1
  BY <1>1, <1>4
<1> QED
  BY <1>3, <1>4, <1>5, <1>6, <1>7

\* Steps of one time and of different cycles are of different lines.
LEMMA StepsApart ==
  ASSUME NEW g, NEW dir, NEW ph, NEW map, NEW cycles, NEW start, NEW decode, NEW S,
         Turning(g, dir, ph, map, cycles, start, decode, S), NEW e, NEW a, NEW s,
         StepOf(ph, decode, cycles, start, e, a, s), NEW f, NEW b, NEW x,
         StepOf(ph, decode, cycles, start, f, b, x), e # f, s.seq = x.seq
  PROVE  LineOf(g, dir, cycles[f][1]) # LineOf(g, dir, cycles[e][1])
<1>1. /\ e \in 1..Len(cycles) /\ f \in 1..Len(cycles)
      /\ a \in 0..(Len(cycles[e]) - 1) /\ b \in 0..(Len(cycles[f]) - 1)
  BY DEF StepOf
<1>2. /\ s.seq = start[e] + a /\ start[e] \in Nat /\ a \in Nat
      /\ a <= Len(cycles[e]) - 1
  BY TurningStep
<1>3. x.seq = start[f] + b /\ start[f] \in Nat /\ b \in Nat
  BY TurningStep
<1>4. Len(cycles[e]) \in Nat
  <2>1. CycleFacts(g, dir, ph, map, cycles, start, decode, e)
    BY <1>1, TurningCycle
  <2> QED
    BY <2>1 DEF CycleFacts, Rotates
<1> DEFINE o == start[e]
           p == start[f]
           n == Len(cycles[e])
<1>5. o \in Nat /\ p \in Nat /\ n \in Nat /\ o + a = p + b
  BY <1>2, <1>3, <1>4
<1>6. a \in Nat /\ b \in Nat /\ a <= n - 1
  BY <1>2, <1>3
<1> HIDE DEF o, p, n
<1>7. o <= p + b /\ p + b <= o + n - 1
  BY <1>5, <1>6
<1> QED
  BY <1>1, <1>7, LinesApart DEF o, p, n

\* In steps S every save of a rank is followed by a restore of that rank, and this
\* comes before the next save of the rank.
InTurns(S) ==
  \A s \in S : s.kind = Save =>
    \E t \in S : /\ t.kind = Restore /\ t.from = s.from
                 /\ RoundBefore(RoundOf(s), RoundOf(t))
                 /\ \A x \in S :
                      /\ x.kind = Save /\ x.from = s.from
                      /\ RoundBefore(RoundOf(s), RoundOf(x))
                      => RoundBefore(RoundOf(t), RoundOf(x))

\* A save is the first step of its cycle, the last one the restore of that slab.
LEMMA SaveIsFirst ==
  ASSUME NEW g, NEW dir, NEW ph, NEW map, NEW cycles, NEW start, NEW decode, NEW S,
         Turning(g, dir, ph, map, cycles, start, decode, S), NEW s \in S, s.kind = Save
  PROVE  \E e, t : /\ StepOf(ph, decode, cycles, start, e, 0, s)
                   /\ StepOf(ph, decode, cycles, start, e, Len(cycles[e]) - 1, t)
                   /\ Len(cycles[e]) \in Nat /\ Len(cycles[e]) >= 2
                   /\ t \in S /\ t.kind = Restore /\ t.from = s.from
<1>1. PICK e, k : StepOf(ph, decode, cycles, start, e, k, s)
  BY StepsAre
<1> DEFINE c == cycles[e]
           n == Len(c)
           t == CycleStep(ph, decode, c, start[e], n - 1)
           q == LineOf(g, dir, c[1])
<1>2. e \in 1..Len(cycles) /\ k \in 0..(n - 1) /\ s = CycleStep(ph, decode, c, start[e], k)
  BY <1>1 DEF StepOf
<1>3. CycleFacts(g, dir, ph, map, cycles, start, decode, e)
  BY <1>2, TurningCycle
<1>4. n \in Nat /\ n >= 2
  BY <1>3 DEF CycleFacts, Rotates
<1>5. n - 1 \in 0..(n - 1)
  BY <1>4
<1>6. /\ StepFacts(g, dir, ph, q, c, start[e], k, s)
      /\ StepFacts(g, dir, ph, q, c, start[e], n - 1, t)
  BY <1>2, <1>3, <1>5 DEF CycleFacts
<1>7. StepOf(ph, decode, cycles, start, e, n - 1, t)
  BY <1>2, <1>5 DEF StepOf
<1>8. t \in S
  BY <1>2, <1>5 DEF Turning
<1> HIDE DEF t, q, n, c
<1>9. k = 0
  BY <1>6 DEF StepFacts
<1>10. t.kind = Restore /\ t.from = s.from
  BY <1>6, <1>9 DEF StepFacts, LineSave, LineRestore, n
<1> QED
  BY <1>1, <1>4, <1>7, <1>8, <1>9, <1>10 DEF n, c

\* Cycles of a line run one after the other, so its ranks save and restore in turns.
LEMMA SavesInTurns ==
  ASSUME NEW g, NEW dir, NEW ph, NEW map, NEW cycles, NEW start, NEW decode, NEW S,
         Turning(g, dir, ph, map, cycles, start, decode, S)
  PROVE  InTurns(S)
<1> SUFFICES ASSUME NEW s \in S, s.kind = Save
             PROVE  \E t \in S : /\ t.kind = Restore /\ t.from = s.from
                                 /\ RoundBefore(RoundOf(s), RoundOf(t))
                                 /\ \A x \in S :
                                      /\ x.kind = Save /\ x.from = s.from
                                      /\ RoundBefore(RoundOf(s), RoundOf(x))
                                      => RoundBefore(RoundOf(t), RoundOf(x))
  BY DEF InTurns
<1>1. PICK e, t : /\ StepOf(ph, decode, cycles, start, e, 0, s)
                  /\ StepOf(ph, decode, cycles, start, e, Len(cycles[e]) - 1, t)
                  /\ Len(cycles[e]) \in Nat /\ Len(cycles[e]) >= 2
                  /\ t \in S /\ t.kind = Restore /\ t.from = s.from
  BY SaveIsFirst
<1> DEFINE n == Len(cycles[e])
           p == LineOf(g, dir, cycles[e][1])
<1>2. start[e] \in Nat /\ p \in LinesOf(g, dir) /\ StaysOn(g, dir, p, s)
  BY <1>1, TurningStep
<1>3. RoundBefore(RoundOf(s), RoundOf(t))
  <2>1. start[e] + 0 < start[e] + (n - 1)
    BY <1>1, <1>2
  <2> QED
    BY <1>1, <2>1, StepTime
<1>4. ASSUME NEW x \in S, x.kind = Save, x.from = s.from, RoundBefore(RoundOf(s), RoundOf(x))
      PROVE  RoundBefore(RoundOf(t), RoundOf(x))
  <2>1. PICK f, u : /\ StepOf(ph, decode, cycles, start, f, 0, x)
                    /\ StepOf(ph, decode, cycles, start, f, Len(cycles[f]) - 1, u)
                    /\ Len(cycles[f]) \in Nat /\ Len(cycles[f]) >= 2
                    /\ u \in S /\ u.kind = Restore /\ u.from = x.from
    BY <1>4, SaveIsFirst
  <2> DEFINE m == Len(cycles[f])
             q == LineOf(g, dir, cycles[f][1])
  <2>2. start[f] \in Nat /\ q \in LinesOf(g, dir) /\ StaysOn(g, dir, q, x)
    BY <2>1, TurningStep
  <2>3. p = q
    <3>1. PICK a \in Places(g, dir) : s.from = RankOn(g, dir, p, a)
      BY <1>2 DEF StaysOn
    <3>2. PICK b \in Places(g, dir) : x.from = RankOn(g, dir, q, b)
      BY <2>2 DEF StaysOn
    <3>3. dir \in Directions /\ GeometryOK(g)
      BY DEF Turning
    <3> HIDE DEF p, q
    <3>4. RankOn(g, dir, p, a) = RankOn(g, dir, q, b)
      BY <1>4, <3>1, <3>2
    <3> QED
      BY <1>2, <2>2, <3>3, <3>4, RanksApart
  <2>4. RoundOf(s) \in Rounds /\ RoundOf(x) \in Rounds
    <3>1. /\ s.seq = start[e] + 0 /\ x.seq = start[f] + 0
          /\ s.phase = ph /\ x.phase = ph /\ ph \in Int
      BY <1>1, <2>1, StepTime
    <3>2. s.seq \in Int /\ x.seq \in Int /\ s.kind \in Int /\ x.kind \in Int
      BY <1>2, <1>4, <2>2, <3>1 DEF Save
    <3> QED
      BY <3>1, <3>2 DEF RoundOf, Rounds
  <2>5. ~RoundBefore(RoundOf(x), RoundOf(s)) /\ RoundOf(s) # RoundOf(x)
    BY <1>4, <2>4, RoundsOrdered
  <2>6. e # f
    BY <1>1, <2>1, <2>5 DEF StepOf
  <2>7. ~(start[f] + 0 < start[e] + 0)
    BY <1>1, <2>1, <2>5, StepTime
  <2>8. start[e] + n <= start[f] \/ start[f] + m <= start[e]
    <3>1. e \in 1..Len(cycles) /\ f \in 1..Len(cycles)
      BY <1>1, <2>1 DEF StepOf
    <3>2. cycles[e][1] \div Reach(g, dir) = cycles[f][1] \div Reach(g, dir)
      BY <2>3 DEF LineOf
    <3> QED
      BY <2>6, <3>1, <3>2 DEF Turning, Scheduled
  <2>9. start[e] + (n - 1) < start[f] + 0
    <3> DEFINE a == start[e]
               b == start[f]
    <3>1. a \in Nat /\ b \in Nat /\ n \in Nat /\ m \in Nat /\ m >= 2
          /\ ~(b + 0 < a + 0) /\ (a + n <= b \/ b + m <= a)
      BY <1>1, <1>2, <2>1, <2>2, <2>7, <2>8
    <3> HIDE DEF a, b, n, m
    <3>2. a + (n - 1) < b + 0
      BY <3>1
    <3> QED
      BY <3>2 DEF a, b
  <2> QED
    BY <1>1, <2>1, <2>9, StepTime
<1> QED
  BY <1>1, <1>3, <1>4

\* The list of a phase, and where the phase leads what is in the slots.
Turns(g, dir, ph, map, list) ==
  /\ PhaseList(StepsIn(list), ph, list) /\ InTurns(StepsIn(list))
  /\ \A u \in LineSlots(g, dir) : \A d \in 0..(Tile(g, dir) - 1), y \in 0..(Cross(g, dir) - 1) :
       Leads(g, "slab", StepsIn(list), SlotSpot(g, dir, u, d, y), SlotSpot(g, dir, map[u], d, y))

\* The list the planner makes of a map's cycles turns every cycle of the map.
LEMMA TurningListed ==
  ASSUME NEW g, NEW dir \in Directions, NEW ph \in Int, NEW map, NEW decode, NEW h, NEW w,
         NEW list, NEW n, GeometryOK(g), n = Lines(g, dir) * Reach(g, dir), Shuffles(map, n),
         \A u \in LineSlots(g, dir) : LineOf(g, dir, map[u]) = LineOf(g, dir, u),
         Decoded(g, dir, decode), Decodes(decode, g, n, h, w),
         list = AppendAxisGroupSerialCycles(ph, decode, Reach(g, dir), BuildNative2DCycles(map))
  PROVE  Turns(g, dir, ph, map, list)
<1> DEFINE cycles == BuildNative2DCycles(map)
           size == Reach(g, dir)
           S == StepsIn(list)
           T == SlabSteps(g, ph, h, w)
<1>1. Orbits(map, n, cycles)
  BY OrbitsFound
<1>2. cycles \in Seq(Cycles(n)) /\ size \in Nat \ {0}
  BY <1>1, ReachIs DEF Orbits
<1>3. list = AppendAxisGroupSerialCycles(ph, decode, size, cycles)
  OBVIOUS
<1> HIDE DEF cycles, size
<1>4. list \in Seq(T)
  BY <1>2, <1>3, AxisGroupsTyped
<1>5. PICK start, at : /\ Scheduled(cycles, size, start)
                       /\ Programmed(list, ph, decode, cycles, start, at)
  BY <1>2, <1>3, AxisProgrammed
<1>6. map \in [LineSlots(g, dir) -> LineSlots(g, dir)]
  BY DEF Shuffles, LineSlots
<1>7. \A p \in 1..Len(list) : StepOf(ph, decode, cycles, start, at[p][1], at[p][2], list[p])
  BY <1>5 DEF Programmed, StepOf
<1>8. Turning(g, dir, ph, map, cycles, start, decode, S)
  <2>1. ASSUME NEW s \in S
        PROVE  \E e \in 1..Len(cycles) : \E k \in 0..(Len(cycles[e]) - 1) :
                 s = CycleStep(ph, decode, cycles[e], start[e], k)
    <3>1. PICK p \in 1..Len(list) : s = list[p]
      BY <2>1 DEF StepsIn
    <3>2. StepOf(ph, decode, cycles, start, at[p][1], at[p][2], s)
      BY <1>7, <3>1
    <3> QED
      BY <3>2 DEF StepOf
  <2>2. ASSUME NEW e \in 1..Len(cycles), NEW k \in 0..(Len(cycles[e]) - 1)
        PROVE  CycleStep(ph, decode, cycles[e], start[e], k) \in S
    <3>1. PICK p \in 1..Len(list) : at[p][1] = e /\ at[p][2] = k
      BY <1>5, ZenonT(60) DEF Programmed
    <3>2. list[p] = CycleStep(ph, decode, cycles[e], start[e], k)
      BY <1>7, <3>1 DEF StepOf
    <3> QED
      BY <3>2 DEF StepsIn
  <2> HIDE DEF S
  <2> QED
    BY <1>1, <1>5, <1>6, <2>1, <2>2 DEF Turning, size
<1>9. list \in Seq(S)
  <2>1. /\ Len(list) \in Nat /\ DOMAIN list = 1..Len(list)
        /\ list = [i \in 1..Len(list) |-> list[i]]
    BY <1>4, LenProperties
  <2>2. \A i \in 1..Len(list) : list[i] \in S
    BY DEF StepsIn
  <2> DEFINE f == [i \in 1..Len(list) |-> list[i]]
  <2>3. f \in [1..Len(list) -> S]
    BY <2>2
  <2> HIDE DEF S
  <2> QED
    BY <2>1, <2>3, IsASeq
<1>10. Timed(S)
  <2> SUFFICES ASSUME NEW s \in S
               PROVE  s.phase \in Int /\ s.seq \in Int /\ s.kind \in {Move, Save, Restore}
    BY DEF Timed
  <2> HIDE DEF S
  <2>1. PICK e, k : StepOf(ph, decode, cycles, start, e, k, s)
    BY <1>8, StepsAre
  <2>2. /\ s.phase = ph /\ s.seq = start[e] + k /\ s.kind \in {Move, Save, Restore}
        /\ start[e] \in Nat /\ k \in Nat
    BY <1>8, <2>1, TurningStep
  <2> QED
    BY <2>2
<1>11. \A s \in S : s.phase = ph
  <2> TAKE s \in S
  <2> HIDE DEF S
  <2>1. PICK e, k : StepOf(ph, decode, cycles, start, e, k, s)
    BY <1>8, StepsAre
  <2> QED
    BY <1>8, <2>1, TurningStep
<1>12. RoundsUnshared(list)
  <2> SUFFICES ASSUME NEW k \in 1..Len(list), NEW l \in 1..Len(list), k # l,
                      RoundOf(list[k]) = RoundOf(list[l])
               PROVE  ~Conflicts(list[k], list[l])
    BY DEF RoundsUnshared
  <2> DEFINE s == list[k]
             x == list[l]
             e == at[k][1]
             f == at[l][1]
             a == at[k][2]
             b == at[l][2]
             p == LineOf(g, dir, cycles[e][1])
             q == LineOf(g, dir, cycles[f][1])
  <2>1. /\ StepOf(ph, decode, cycles, start, e, a, s)
        /\ StepOf(ph, decode, cycles, start, f, b, x)
    BY <1>7
  <2>2. s.seq = x.seq
    BY DEF RoundOf
  <2>3. e = f /\ a = b => k = l
    BY <1>5 DEF Programmed
  <2> HIDE DEF e, f, a, b, s, x, S
  <2>4. /\ s.seq = start[e] + a /\ start[e] \in Nat /\ a \in Nat /\ a <= Len(cycles[e]) - 1
        /\ p \in LinesOf(g, dir) /\ StaysOn(g, dir, p, s) /\ (s.kind # Save => s.to # -1)
    BY <1>8, <2>1, TurningStep
  <2>5. /\ x.seq = start[f] + b /\ start[f] \in Nat /\ b \in Nat
        /\ q \in LinesOf(g, dir) /\ StaysOn(g, dir, q, x)
    BY <1>8, <2>1, TurningStep
  <2>6. start[f] + b = start[e] + a
    BY <2>2, <2>4, <2>5
  <2>7. e # f
    BY <2>3, <2>4, <2>5, <2>6
  <2>8. q # p
    BY <1>8, <2>1, <2>2, <2>7, StepsApart
  <2> HIDE DEF p, q
  <2>9. ~Conflicts(s, x)
    BY <2>4, <2>5, <2>8, LinesUnshared
  <2> QED
    BY <2>9 DEF s, x
<1>13. PhaseList(S, ph, list)
  BY <1>9, <1>10, <1>11, <1>12 DEF PhaseList
<1>14. ASSUME NEW u \in LineSlots(g, dir), NEW d \in 0..(Tile(g, dir) - 1),
              NEW y \in 0..(Cross(g, dir) - 1)
       PROVE  Leads(g, "slab", S, SlotSpot(g, dir, u, d, y), SlotSpot(g, dir, map[u], d, y))
  <2> HIDE DEF S
  <2> QED
    BY <1>8, <1>14, SlotLeads
<1>15. InTurns(S)
  <2> HIDE DEF S
  <2> QED
    BY <1>8, SavesInTurns
<1> QED
  BY <1>13, <1>14, <1>15 DEF Turns

(***************************************************************************)
(* The slab planner's slot maps.                                           *)
(***************************************************************************)

\* A slot map keeps groups and deals out the tiles of each.
AxisKeeps(groups, procs, blocks, z) ==
  \A u \in 0..(groups * z - 1) :
    /\ AxisSlotMap(groups, procs, blocks)[u] \div z = u \div z
    /\ AxisSlotMap(groups, procs, blocks)[u] % z = CyclicSlot(u % z, procs, blocks)

\* The slot map of an axis keeps every slot in its group.
LEMMA AxisMapKeeps ==
  ASSUME NEW groups \in Nat \ {0}, NEW procs \in Nat \ {0}, NEW blocks \in Nat \ {0},
         NEW z, z = procs * blocks
  PROVE  AxisKeeps(groups, procs, blocks, z)
<1> SUFFICES ASSUME NEW u \in 0..(groups * z - 1)
             PROVE  /\ AxisSlotMap(groups, procs, blocks)[u] \div z = u \div z
                    /\ AxisSlotMap(groups, procs, blocks)[u] % z
                         = CyclicSlot(u % z, procs, blocks)
  BY DEF AxisKeeps
<1> DEFINE v == AxisSlotMap(groups, procs, blocks)[u]
           n == groups * z
           q == u \div z
           r == u % z
           c == CyclicSlot(r, procs, blocks)
<1>1. z \in Nat \ {0}
  BY SMT
<1>2. groups * procs * blocks = n
  <2>1. \A a, b, e \in Int : a * b * e = a * (b * e)
    BY SMT
  <2> QED
    BY <2>1
<1>3. AxisSlotMap(groups, procs, blocks)
        = [s \in 0..(n - 1) |-> (s - (s % z)) + CyclicSlot(s % z, procs, blocks)]
  BY <1>2 DEF AxisSlotMap
<1>4. v = (u - r) + c
  BY <1>3
<1>0. v = AxisSlotMap(groups, procs, blocks)[u]
  OBVIOUS
<1>5. u \div z \in 0..(groups - 1) /\ u % z \in 0..(z - 1) /\ u = (u \div z) * z + (u % z)
      /\ u \in Nat
  BY <1>1, RowAndPlace
<1>6. c \in 0..(z - 1)
  <2>1. r \in 0..(procs * blocks - 1)
    BY <1>5
  <2> HIDE DEF r
  <2> QED
    BY <2>1, CyclicSlotIs
<1>7. q \in Nat /\ r \in 0..(z - 1) /\ u = q * z + r
  BY <1>5
<1> HIDE DEF q, r, c, n, v
<1>8. v = q * z + c
  <2> DEFINE x == q * z
  <2>1. x \in Int
    BY <1>1, <1>7, SMT
  <2>2. u = x + r
    BY <1>7
  <2> HIDE DEF x
  <2>3. v = x + c
    BY <1>1, <1>4, <1>6, <1>7, <2>1, <2>2
  <2> QED
    BY <2>3 DEF x
<1>9. (q * z + c) \div z = q /\ (q * z + c) % z = c
  BY <1>1, <1>6, <1>7, Parts
<1> QED
  BY <1>0, <1>8, <1>9 DEF q, r, c

\* The inverted map takes slots back.
LEMMA InverseIs ==
  ASSUME NEW map, NEW n, Shuffles(map, n), NEW s \in 0..(n - 1)
  PROVE  /\ InvertSlotMap(map)[map[s]] = s
         /\ InvertSlotMap(map)[s] \in 0..(n - 1)
         /\ map[InvertSlotMap(map)[s]] = s
<1> DEFINE A == 0..(n - 1)
           inv == InvertSlotMap(map)
<1>1. map \in [A -> A] /\ DOMAIN map = A /\ \A x, y \in A : map[x] = map[y] => x = y
  BY DEF Shuffles
<1>2. inv = [t \in A |-> CHOOSE x \in A : map[x] = t]
  BY <1>1 DEF InvertSlotMap
<1>3. \A t \in A : \E x \in A : map[x] = t
  BY ShuffleFills
<1> HIDE DEF A, inv
<1>4. \A t \in A : inv[t] \in A /\ map[inv[t]] = t
  BY <1>2, <1>3
<1>5. s \in A
  BY DEF A
<1>6. map[s] \in A
  BY <1>1, <1>5
<1>7. inv[map[s]] \in A /\ map[inv[map[s]]] = map[s]
  BY <1>4, <1>6
<1> QED
  BY <1>1, <1>4, <1>5, <1>7 DEF inv, A

\* The map of a direction.
LineMap(g, dir) == AxisSlotMap(Lines(g, dir), Procs(g, dir), Blocks(g, dir))

\* It and its inverse keep lines.
LEMMA LineMapIs ==
  ASSUME NEW g, NEW dir \in Directions, GeometryOK(g), NEW n,
         n = Lines(g, dir) * Reach(g, dir)
  PROVE  /\ Shuffles(LineMap(g, dir), n) /\ Shuffles(InvertSlotMap(LineMap(g, dir)), n)
         /\ \A u \in LineSlots(g, dir) :
              /\ LineMap(g, dir)[u] \in LineSlots(g, dir)
              /\ LineOf(g, dir, LineMap(g, dir)[u]) = LineOf(g, dir, u)
              /\ LineMap(g, dir)[u] % Reach(g, dir)
                   = CyclicSlot(u % Reach(g, dir), Procs(g, dir), Blocks(g, dir))
              /\ LineOf(g, dir, InvertSlotMap(LineMap(g, dir))[u]) = LineOf(g, dir, u)
              /\ InvertSlotMap(LineMap(g, dir))[LineMap(g, dir)[u]] = u
<1> DEFINE groups == Lines(g, dir)
           procs == Procs(g, dir)
           blocks == Blocks(g, dir)
           z == Reach(g, dir)
           map == LineMap(g, dir)
           inv == InvertSlotMap(map)
<1>1. groups \in Nat \ {0} /\ procs \in Nat \ {0} /\ blocks \in Nat \ {0}
  BY SizesOf, ReachIs
<1>2. z = procs * blocks /\ n = groups * z /\ LineSlots(g, dir) = 0..(groups * z - 1)
      /\ map = AxisSlotMap(groups, procs, blocks)
  BY DEF Reach, LineSlots, LineMap
<1>3. \A u : LineOf(g, dir, u) = u \div z
  BY DEF LineOf
<1> HIDE DEF groups, procs, blocks, z, map, inv
<1>4. Shuffles(map, n)
  BY <1>1, <1>2, AxisSlotMapShuffles
<1>5. Shuffles(inv, n)
  BY <1>4, InverseShuffles DEF inv
<1>6. \A u \in 0..(groups * z - 1) :
        /\ map[u] \in 0..(groups * z - 1)
        /\ map[u] \div z = u \div z /\ map[u] % z = CyclicSlot(u % z, procs, blocks)
  <2> TAKE u \in 0..(groups * z - 1)
  <2>1. map[u] \in 0..(groups * z - 1)
    BY <1>2, <1>4 DEF Shuffles
  <2>2. AxisKeeps(groups, procs, blocks, z)
    BY <1>1, <1>2, AxisMapKeeps
  <2> QED
    BY <1>2, <2>1, <2>2 DEF AxisKeeps
<1>7. \A u \in 0..(groups * z - 1) :
        /\ inv[map[u]] = u /\ inv[u] \in 0..(groups * z - 1) /\ map[inv[u]] = u
  BY <1>2, <1>4, InverseIs DEF inv
<1>8. \A u \in 0..(groups * z - 1) : inv[u] \div z = u \div z
  <2> TAKE u \in 0..(groups * z - 1)
  <2>1. inv[u] \in 0..(groups * z - 1) /\ map[inv[u]] = u
    BY <1>7
  <2>2. map[inv[u]] \div z = inv[u] \div z
    BY <1>6, <2>1
  <2> QED
    BY <2>1, <2>2
<1>9. \A u \in 0..(groups * z - 1) :
        /\ map[u] \in 0..(groups * z - 1)
        /\ LineOf(g, dir, map[u]) = LineOf(g, dir, u)
        /\ map[u] % z = CyclicSlot(u % z, procs, blocks)
        /\ LineOf(g, dir, inv[u]) = LineOf(g, dir, u)
        /\ inv[map[u]] = u
  BY <1>3, <1>6, <1>7, <1>8
<1> QED
  BY <1>2, <1>4, <1>5, <1>9 DEF procs, blocks, z, map, inv

\* The phase of a direction.
PhaseOf(g, dir, ph, map) ==
  IF dir = "cols" THEN ColumnPhase(g, ph, map) ELSE RowPhase(g, ph, map)

\* A phase the planner builds turns every cycle of its map.
LEMMA PhaseTurns ==
  ASSUME NEW g, NEW dir \in Directions, NEW ph \in Int, NEW map, NEW n, GeometryOK(g),
         n = Lines(g, dir) * Reach(g, dir), Shuffles(map, n),
         \A u \in LineSlots(g, dir) : LineOf(g, dir, map[u]) = LineOf(g, dir, u)
  PROVE  Turns(g, dir, ph, map, PhaseOf(g, dir, ph, map))
<1>1. DOMAIN map = 0..(n - 1) /\ LineSlots(g, dir) = 0..(n - 1)
  BY DEF Shuffles, LineSlots
<1>2. CASE dir = "cols"
  <2> DEFINE decode == [s \in DOMAIN map |-> ColumnPhaseSlotToRankLocal(g, s)]
             list == ColumnPhase(g, ph, map)
  <2>1. n = g.prows * (g.pcols * ColBlocks(g)) /\ Reach(g, dir) = g.pcols * ColBlocks(g)
    BY <1>2 DEF Lines, Reach, Procs, Blocks
  <2>2. list = AppendAxisGroupSerialCycles(ph, decode, Reach(g, dir), BuildNative2DCycles(map))
    BY <2>1 DEF ColumnPhase
  <2>3. \A u \in 0..(n - 1) : decode[u] = ColumnPhaseSlotToRankLocal(g, u)
    BY <1>1
  <2> HIDE DEF decode, list
  <2>4. Decoded(g, dir, decode)
    BY <1>1, <1>2, <2>3, ColumnsDecoded
  <2>5. Decodes(decode, g, n, g.rows, g.tcols)
    BY <2>1, <2>3, ColumnDecodes
  <2>6. Turns(g, dir, ph, map, list)
    BY <2>2, <2>4, <2>5, TurningListed
  <2> QED
    BY <1>2, <2>6 DEF PhaseOf, list
<1>3. CASE dir = "rows"
  <2> DEFINE decode == [s \in DOMAIN map |-> RowPhaseSlotToRankLocal(g, s)]
             list == RowPhase(g, ph, map)
  <2>1. n = g.pcols * (g.prows * RowBlocks(g)) /\ Reach(g, dir) = g.prows * RowBlocks(g)
    BY <1>3 DEF Lines, Reach, Procs, Blocks
  <2>2. list = AppendAxisGroupSerialCycles(ph, decode, Reach(g, dir), BuildNative2DCycles(map))
    BY <2>1 DEF RowPhase
  <2>3. \A u \in 0..(n - 1) : decode[u] = RowPhaseSlotToRankLocal(g, u)
    BY <1>1
  <2> HIDE DEF decode, list
  <2>4. Decoded(g, dir, decode)
    BY <1>1, <1>3, <2>3, RowsDecoded
  <2>5. Decodes(decode, g, n, g.trows, g.cols)
    BY <2>1, <2>3, RowDecodes
  <2>6. Turns(g, dir, ph, map, list)
    BY <2>2, <2>4, <2>5, TurningListed
  <2> QED
    BY <1>3, <2>6 DEF PhaseOf, list
<1> QED
  BY <1>2, <1>3 DEF Directions

\* Where a place of a line is once ownership is cyclic.
CyclicPlace(g, dir, x) ==
  CyclicSlot(x \div Tile(g, dir), Procs(g, dir), Blocks(g, dir)) * Tile(g, dir)
    + (x % Tile(g, dir))

\* Slot u has place x of line q, d places from its first.
HasPlace(g, dir, q, x, u, d) ==
  /\ u \in LineSlots(g, dir) /\ LineOf(g, dir, u) = q
  /\ d \in 0..(Tile(g, dir) - 1) /\ FirstOf(g, dir, u) + d = x
  /\ LineMap(g, dir)[u] \in LineSlots(g, dir)
  /\ LineOf(g, dir, LineMap(g, dir)[u]) = q
  /\ FirstOf(g, dir, LineMap(g, dir)[u]) + d = CyclicPlace(g, dir, x)
  /\ InvertSlotMap(LineMap(g, dir))[LineMap(g, dir)[u]] = u
  /\ CyclicPlace(g, dir, x) \in Places(g, dir)

\* Every place of a line is in one of its slots.
LEMMA PlaceHasSlot ==
  ASSUME NEW g, NEW dir \in Directions, NEW q \in LinesOf(g, dir),
         NEW x \in Places(g, dir), GeometryOK(g)
  PROVE  \E u, d : HasPlace(g, dir, q, x, u, d)
<1> DEFINE z == Reach(g, dir)
           t == Tile(g, dir)
           m == Lines(g, dir)
           b == x \div t
           d == x % t
           u == q * z + b
           procs == Procs(g, dir)
           blocks == Blocks(g, dir)
<1>1. z \in Nat \ {0} /\ t \in Nat \ {0} /\ m \in Nat \ {0}
      /\ procs \in Nat \ {0} /\ blocks \in Nat \ {0}
  BY ReachIs, SizesOf
<1>2. x \in 0..(z * t - 1) /\ z = procs * blocks
  <2>1. Side(g, dir) = blocks * t
    BY ReachIs
  <2>2. \A i, j, k \in Int : i * (j * k) = (i * j) * k
    BY SMT
  <2>3. Procs(g, dir) * Side(g, dir) = z * t
    BY <1>1, <2>1, <2>2 DEF Reach
  <2> QED
    BY <2>3 DEF Places, Reach
<1>3. q \in 0..(m - 1)
  BY DEF LinesOf
<1> HIDE DEF z, t, m, procs, blocks
<1>4. b \in 0..(z - 1) /\ d \in 0..(t - 1) /\ x = b * t + d
  BY <1>1, <1>2, RowAndPlace
<1> HIDE DEF b, d
<1>5. u \in 0..(m * z - 1)
  BY <1>1, <1>3, <1>4, PlaceInRow
<1>6. u \div z = q /\ u % z = b
  <2>1. q \in Nat
    BY <1>3
  <2> QED
    BY <1>1, <1>4, <2>1, Parts
<1> HIDE DEF u
<1>7. u \in LineSlots(g, dir)
  BY <1>5 DEF LineSlots, m, z
<1>8. LineOf(g, dir, u) = q /\ FirstOf(g, dir, u) + d = x
  BY <1>4, <1>6 DEF LineOf, FirstOf, z, t
<1> DEFINE v == LineMap(g, dir)[u]
           c == CyclicSlot(b, procs, blocks)
           n == Lines(g, dir) * Reach(g, dir)
<1>9. /\ v \in LineSlots(g, dir) /\ LineOf(g, dir, v) = LineOf(g, dir, u)
      /\ v % Reach(g, dir) = CyclicSlot(u % Reach(g, dir), Procs(g, dir), Blocks(g, dir))
      /\ InvertSlotMap(LineMap(g, dir))[v] = u
  <2>1. n = Lines(g, dir) * Reach(g, dir)
    OBVIOUS
  <2> HIDE DEF n
  <2> QED
    BY <1>7, <2>1, LineMapIs
<1>10. v % z = c
  BY <1>6, <1>9 DEF z, procs, blocks
<1>11. CyclicPlace(g, dir, x) = c * t + d
  BY DEF CyclicPlace, c, t, b, d, procs, blocks
<1>12. FirstOf(g, dir, v) + d = CyclicPlace(g, dir, x)
  BY <1>10, <1>11 DEF FirstOf, z, t
<1>13. c \in 0..(z - 1)
  <2>1. b \in 0..(procs * blocks - 1)
    BY <1>2, <1>4
  <2> QED
    BY <1>1, <1>2, <2>1, CyclicSlotIs
<1>14. CyclicPlace(g, dir, x) \in Places(g, dir)
  <2> HIDE DEF c
  <2>1. c * t + d \in 0..(z * t - 1)
    BY <1>1, <1>4, <1>13, PlaceInRow
  <2>2. Side(g, dir) = blocks * t
    BY ReachIs DEF blocks, t
  <2>3. \A i, j, k \in Int : i * (j * k) = (i * j) * k
    BY SMT
  <2>4. procs * Side(g, dir) = z * t
    BY <1>1, <1>2, <2>2, <2>3
  <2> QED
    BY <1>11, <2>1, <2>4 DEF Places, procs
<1>15. HasPlace(g, dir, q, x, u, d)
  BY <1>4, <1>7, <1>8, <1>9, <1>12, <1>14 DEF HasPlace, t
<1> QED
  BY <1>15

\* A phase over the slot map, and one over its inverse.
MakesCyclic(g, dir, ph, list) ==
  /\ PhaseList(StepsIn(list), ph, list) /\ InTurns(StepsIn(list))
  /\ \A q \in LinesOf(g, dir), x \in Places(g, dir) : \A y \in 0..(Cross(g, dir) - 1) :
       Leads(g, "slab", StepsIn(list), SpotOn(g, dir, q, x, y),
             SpotOn(g, dir, q, CyclicPlace(g, dir, x), y))
UndoesCyclic(g, dir, ph, list) ==
  /\ PhaseList(StepsIn(list), ph, list) /\ InTurns(StepsIn(list))
  /\ \A q \in LinesOf(g, dir), x \in Places(g, dir) : \A y \in 0..(Cross(g, dir) - 1) :
       Leads(g, "slab", StepsIn(list), SpotOn(g, dir, q, CyclicPlace(g, dir, x), y),
             SpotOn(g, dir, q, x, y))

\* A phase over the slot map of an axis makes the axis block-cyclic,
LEMMA PhaseMakesCyclic ==
  ASSUME NEW g, NEW dir \in Directions, NEW ph \in Int, NEW list, GeometryOK(g),
         list = PhaseOf(g, dir, ph, LineMap(g, dir))
  PROVE  MakesCyclic(g, dir, ph, list)
<1> DEFINE n == Lines(g, dir) * Reach(g, dir)
           map == LineMap(g, dir)
<1>1. n = Lines(g, dir) * Reach(g, dir)
  OBVIOUS
<1> HIDE DEF n
<1>2. /\ Shuffles(map, n)
      /\ \A u \in LineSlots(g, dir) : LineOf(g, dir, map[u]) = LineOf(g, dir, u)
  BY <1>1, LineMapIs
<1>3. list = PhaseOf(g, dir, ph, map)
  OBVIOUS
<1> HIDE DEF map
<1>4. Turns(g, dir, ph, map, list)
  BY <1>1, <1>2, <1>3, PhaseTurns
<1>5. ASSUME NEW q \in LinesOf(g, dir), NEW x \in Places(g, dir),
             NEW y \in 0..(Cross(g, dir) - 1)
      PROVE  Leads(g, "slab", StepsIn(list), SpotOn(g, dir, q, x, y),
                   SpotOn(g, dir, q, CyclicPlace(g, dir, x), y))
  <2>1. PICK u, d : HasPlace(g, dir, q, x, u, d)
    BY <1>5, PlaceHasSlot
  <2>2. /\ u \in LineSlots(g, dir) /\ d \in 0..(Tile(g, dir) - 1)
        /\ SlotSpot(g, dir, u, d, y) = SpotOn(g, dir, q, x, y)
        /\ SlotSpot(g, dir, map[u], d, y) = SpotOn(g, dir, q, CyclicPlace(g, dir, x), y)
    BY <2>1 DEF HasPlace, SlotSpot, map
  <2>3. Leads(g, "slab", StepsIn(list), SlotSpot(g, dir, u, d, y),
              SlotSpot(g, dir, map[u], d, y))
    BY <1>4, <1>5, <2>2 DEF Turns
  <2> QED
    BY <2>2, <2>3
<1> QED
  BY <1>4, <1>5 DEF MakesCyclic, Turns

\* and one over its inverse undoes that.
LEMMA PhaseUndoesCyclic ==
  ASSUME NEW g, NEW dir \in Directions, NEW ph \in Int, NEW list, GeometryOK(g),
         list = PhaseOf(g, dir, ph, InvertSlotMap(LineMap(g, dir)))
  PROVE  UndoesCyclic(g, dir, ph, list)
<1> DEFINE n == Lines(g, dir) * Reach(g, dir)
           map == LineMap(g, dir)
           inv == InvertSlotMap(map)
<1>1. n = Lines(g, dir) * Reach(g, dir)
  OBVIOUS
<1> HIDE DEF n
<1>2. /\ Shuffles(inv, n)
      /\ \A u \in LineSlots(g, dir) : LineOf(g, dir, inv[u]) = LineOf(g, dir, u)
  BY <1>1, LineMapIs
<1>3. list = PhaseOf(g, dir, ph, inv)
  OBVIOUS
<1> HIDE DEF map, inv
<1>4. Turns(g, dir, ph, inv, list)
  BY <1>1, <1>2, <1>3, PhaseTurns
<1>5. ASSUME NEW q \in LinesOf(g, dir), NEW x \in Places(g, dir),
             NEW y \in 0..(Cross(g, dir) - 1)
      PROVE  Leads(g, "slab", StepsIn(list), SpotOn(g, dir, q, CyclicPlace(g, dir, x), y),
                   SpotOn(g, dir, q, x, y))
  <2>1. PICK u, d : HasPlace(g, dir, q, x, u, d)
    BY <1>5, PlaceHasSlot
  <2>2. /\ map[u] \in LineSlots(g, dir) /\ d \in 0..(Tile(g, dir) - 1) /\ inv[map[u]] = u
        /\ SlotSpot(g, dir, u, d, y) = SpotOn(g, dir, q, x, y)
        /\ SlotSpot(g, dir, map[u], d, y) = SpotOn(g, dir, q, CyclicPlace(g, dir, x), y)
    BY <2>1 DEF HasPlace, SlotSpot, map, inv
  <2>3. Leads(g, "slab", StepsIn(list), SlotSpot(g, dir, map[u], d, y),
              SlotSpot(g, dir, inv[map[u]], d, y))
    BY <1>4, <1>5, <2>2 DEF Turns
  <2> QED
    BY <2>2, <2>3
<1> QED
  BY <1>4, <1>5 DEF UndoesCyclic, Turns

\* Lines crossing at a place of both.
Crossing(g, X, Y, qc, yc, qr, yr) ==
  /\ GlobalAt(g, X, Y) = SpotOn(g, "cols", qc, Y, yc)
  /\ GlobalAt(g, X, Y) = SpotOn(g, "rows", qr, X, yr)
  /\ qc \in LinesOf(g, "cols") /\ yc \in 0..(Cross(g, "cols") - 1)
  /\ qr \in LinesOf(g, "rows") /\ yr \in 0..(Cross(g, "rows") - 1)

\* Two axes cross in one cell of one rank.
LEMMA Crosses ==
  ASSUME NEW g, GeometryOK(g), NEW X \in Places(g, "rows"), NEW Y \in Places(g, "cols"),
         NEW qc, NEW yc, NEW qr, NEW yr,
         qc = X \div g.rows, yc = X % g.rows, qr = Y \div g.cols, yr = Y % g.cols
  PROVE  Crossing(g, X, Y, qc, yc, qr, yr)
  BY GlobalSpot DEF Crossing

\* The planners' maps and phases are those of the directions.
LEMMA SlabPhases ==
  ASSUME NEW g, GeometryOK(g)
  PROVE  /\ MakesCyclic(g, "cols", 0, ColumnPhase(g, 0, BuildColumnSlabSlotMap(g)))
         /\ MakesCyclic(g, "rows", 1, RowPhase(g, 1, BuildRowSlabSlotMap(g)))
         /\ UndoesCyclic(g, "rows", 0, RowPhase(g, 0, InvertSlotMap(BuildRowSlabSlotMap(g))))
         /\ UndoesCyclic(g, "cols", 1, ColumnPhase(g, 1, InvertSlotMap(BuildColumnSlabSlotMap(g))))
<1>1. "cols" \in Directions /\ "rows" \in Directions /\ 0 \in Int /\ 1 \in Int
  BY DEF Directions
<1>2. /\ LineMap(g, "cols") = BuildColumnSlabSlotMap(g)
      /\ LineMap(g, "rows") = BuildRowSlabSlotMap(g)
  BY DEF LineMap, Lines, Procs, Blocks, BuildColumnSlabSlotMap, BuildRowSlabSlotMap
<1>3. \A ph, map : /\ PhaseOf(g, "cols", ph, map) = ColumnPhase(g, ph, map)
                   /\ PhaseOf(g, "rows", ph, map) = RowPhase(g, ph, map)
  BY DEF PhaseOf
<1>4. MakesCyclic(g, "cols", 0, PhaseOf(g, "cols", 0, LineMap(g, "cols")))
  BY <1>1, PhaseMakesCyclic
<1>5. MakesCyclic(g, "rows", 1, PhaseOf(g, "rows", 1, LineMap(g, "rows")))
  BY <1>1, PhaseMakesCyclic
<1>6. UndoesCyclic(g, "rows", 0, PhaseOf(g, "rows", 0, InvertSlotMap(LineMap(g, "rows"))))
  BY <1>1, PhaseUndoesCyclic
<1>7. UndoesCyclic(g, "cols", 1, PhaseOf(g, "cols", 1, InvertSlotMap(LineMap(g, "cols"))))
  BY <1>1, PhaseUndoesCyclic
<1> QED
  BY <1>2, <1>3, <1>4, <1>5, <1>6, <1>7

\* The slab plan takes every cell of the matrix to its place of the block-cyclic one,
LEMMA SlabDelivers ==
  ASSUME NEW g, GeometryOK(g), NEW X \in Places(g, "rows"), NEW Y \in Places(g, "cols"), NEW p,
         p = Tagged("slab", BatchNative2DSteps(BuildSlabNative2DSteps(g, FALSE)))
  PROVE  Delivers(g, "slab", p, GlobalAt(g, X, Y),
                  GlobalAt(g, CyclicPlace(g, "rows", X), CyclicPlace(g, "cols", Y)))
<1> DEFINE l == ColumnPhase(g, 0, BuildColumnSlabSlotMap(g))
           m == RowPhase(g, 1, BuildRowSlabSlotMap(g))
           CX == CyclicPlace(g, "rows", X)
           CY == CyclicPlace(g, "cols", Y)
           S == StepsIn(l)
           T == StepsIn(m)
<1>1. p = Tagged("slab", BatchNative2DSteps(l \o m))
  BY DEF BuildSlabNative2DSteps
<1>2. MakesCyclic(g, "cols", 0, l) /\ MakesCyclic(g, "rows", 1, m)
  BY SlabPhases
<1>3. "cols" \in Directions /\ "rows" \in Directions
  BY DEF Directions
<1>4. CX \in Places(g, "rows") /\ CY \in Places(g, "cols")
  <2>1. 0 \in LinesOf(g, "rows") /\ 0 \in LinesOf(g, "cols")
    BY <1>3, SizesOf DEF LinesOf
  <2>2. \E u, d : HasPlace(g, "rows", 0, X, u, d)
    BY <1>3, <2>1, PlaceHasSlot
  <2>3. \E u, d : HasPlace(g, "cols", 0, Y, u, d)
    BY <1>3, <2>1, PlaceHasSlot
  <2> QED
    BY <2>2, <2>3 DEF HasPlace
<1> HIDE DEF l, m, CX, CY
<1>5. PhaseList(S, 0, l) /\ PhaseList(T, 1, m)
  BY <1>2 DEF MakesCyclic
<1> DEFINE qx == X \div g.rows
           yx == X % g.rows
           qy == Y \div g.cols
           yy == Y % g.cols
           qc == CY \div g.cols
           yc == CY % g.cols
           qd == CX \div g.rows
           yd == CX % g.rows
<1>6. /\ Crossing(g, X, Y, qx, yx, qy, yy)
      /\ Crossing(g, X, CY, qx, yx, qc, yc)
      /\ Crossing(g, CX, CY, qd, yd, qc, yc)
  BY <1>4, Crosses
<1> HIDE DEF qx, yx, qy, yy, qc, yc, qd, yd
<1>7. Leads(g, "slab", S, GlobalAt(g, X, Y), GlobalAt(g, X, CY))
  <2>1. /\ GlobalAt(g, X, Y) = SpotOn(g, "cols", qx, Y, yx)
        /\ GlobalAt(g, X, CY) = SpotOn(g, "cols", qx, CY, yx)
        /\ qx \in LinesOf(g, "cols") /\ yx \in 0..(Cross(g, "cols") - 1)
    BY <1>6 DEF Crossing
  <2>2. Leads(g, "slab", S, SpotOn(g, "cols", qx, Y, yx), SpotOn(g, "cols", qx, CY, yx))
    BY <1>2, <2>1 DEF MakesCyclic, CY
  <2> QED
    BY <2>1, <2>2
<1>8. Leads(g, "slab", T, GlobalAt(g, X, CY), GlobalAt(g, CX, CY))
  <2>1. /\ GlobalAt(g, X, CY) = SpotOn(g, "rows", qc, X, yc)
        /\ GlobalAt(g, CX, CY) = SpotOn(g, "rows", qc, CX, yc)
        /\ qc \in LinesOf(g, "rows") /\ yc \in 0..(Cross(g, "rows") - 1)
    BY <1>6 DEF Crossing
  <2>2. Leads(g, "slab", T, SpotOn(g, "rows", qc, X, yc), SpotOn(g, "rows", qc, CX, yc))
    BY <1>2, <2>1 DEF MakesCyclic, CX
  <2> QED
    BY <2>1, <2>2
<1> HIDE DEF S, T
<1>9. 0 < 1
  OBVIOUS
<1>10. Delivers(g, "slab", p, GlobalAt(g, X, Y), GlobalAt(g, CX, CY))
  BY <1>1, <1>5, <1>7, <1>8, <1>9, PhasesDeliver
<1> QED
  BY <1>10 DEF CX, CY

\* and its way back takes it back.
LEMMA SlabBackDelivers ==
  ASSUME NEW g, GeometryOK(g), NEW X \in Places(g, "rows"), NEW Y \in Places(g, "cols"), NEW p,
         p = Tagged("slab", BatchNative2DSteps(BuildSlabNative2DSteps(g, TRUE)))
  PROVE  Delivers(g, "slab", p,
                  GlobalAt(g, CyclicPlace(g, "rows", X), CyclicPlace(g, "cols", Y)),
                  GlobalAt(g, X, Y))
<1> DEFINE l == RowPhase(g, 0, InvertSlotMap(BuildRowSlabSlotMap(g)))
           m == ColumnPhase(g, 1, InvertSlotMap(BuildColumnSlabSlotMap(g)))
           CX == CyclicPlace(g, "rows", X)
           CY == CyclicPlace(g, "cols", Y)
           S == StepsIn(l)
           T == StepsIn(m)
<1>1. p = Tagged("slab", BatchNative2DSteps(l \o m))
  BY DEF BuildSlabNative2DSteps
<1>2. UndoesCyclic(g, "rows", 0, l) /\ UndoesCyclic(g, "cols", 1, m)
  BY SlabPhases
<1>3. "cols" \in Directions /\ "rows" \in Directions
  BY DEF Directions
<1>4. CX \in Places(g, "rows") /\ CY \in Places(g, "cols")
  <2>1. 0 \in LinesOf(g, "rows") /\ 0 \in LinesOf(g, "cols")
    BY <1>3, SizesOf DEF LinesOf
  <2>2. \E u, d : HasPlace(g, "rows", 0, X, u, d)
    BY <1>3, <2>1, PlaceHasSlot
  <2>3. \E u, d : HasPlace(g, "cols", 0, Y, u, d)
    BY <1>3, <2>1, PlaceHasSlot
  <2> QED
    BY <2>2, <2>3 DEF HasPlace
<1> HIDE DEF l, m, CX, CY
<1>5. PhaseList(S, 0, l) /\ PhaseList(T, 1, m)
  BY <1>2 DEF UndoesCyclic
<1> DEFINE qx == X \div g.rows
           yx == X % g.rows
           qy == Y \div g.cols
           yy == Y % g.cols
           qc == CY \div g.cols
           yc == CY % g.cols
           qd == CX \div g.rows
           yd == CX % g.rows
<1>6. /\ Crossing(g, X, Y, qx, yx, qy, yy)
      /\ Crossing(g, X, CY, qx, yx, qc, yc)
      /\ Crossing(g, CX, CY, qd, yd, qc, yc)
  BY <1>4, Crosses
<1> HIDE DEF qx, yx, qy, yy, qc, yc, qd, yd
<1>7. Leads(g, "slab", S, GlobalAt(g, CX, CY), GlobalAt(g, X, CY))
  <2>1. /\ GlobalAt(g, X, CY) = SpotOn(g, "rows", qc, X, yc)
        /\ GlobalAt(g, CX, CY) = SpotOn(g, "rows", qc, CX, yc)
        /\ qc \in LinesOf(g, "rows") /\ yc \in 0..(Cross(g, "rows") - 1)
    BY <1>6 DEF Crossing
  <2>2. Leads(g, "slab", S, SpotOn(g, "rows", qc, CX, yc), SpotOn(g, "rows", qc, X, yc))
    BY <1>2, <2>1 DEF UndoesCyclic, CX
  <2> QED
    BY <2>1, <2>2
<1>8. Leads(g, "slab", T, GlobalAt(g, X, CY), GlobalAt(g, X, Y))
  <2>1. /\ GlobalAt(g, X, Y) = SpotOn(g, "cols", qx, Y, yx)
        /\ GlobalAt(g, X, CY) = SpotOn(g, "cols", qx, CY, yx)
        /\ qx \in LinesOf(g, "cols") /\ yx \in 0..(Cross(g, "cols") - 1)
    BY <1>6 DEF Crossing
  <2>2. Leads(g, "slab", T, SpotOn(g, "cols", qx, CY, yx), SpotOn(g, "cols", qx, Y, yx))
    BY <1>2, <2>1 DEF UndoesCyclic, CY
  <2> QED
    BY <2>1, <2>2
<1> HIDE DEF S, T
<1>9. 0 < 1
  OBVIOUS
<1>10. Delivers(g, "slab", p, GlobalAt(g, CX, CY), GlobalAt(g, X, Y))
  BY <1>1, <1>5, <1>7, <1>8, <1>9, PhasesDeliver
<1> QED
  BY <1>10 DEF CX, CY

(***************************************************************************)
(* The homes of an entry are cells of the padded matrix.                   *)
(***************************************************************************)
\* A home and a location are the same cell of a rank's local matrix.
SameCell(g, home, loc) ==
  \E r \in RanksOf(g), a \in 0..(g.rows - 1), b \in 0..(g.cols - 1) :
    home = <<r, Offset(g, a, b)>> /\ loc = InMatrix(r, a, b)

\* An entry has a row and a column.
LEMMA EntryPlaces ==
  ASSUME NEW g, GeometryOK(g), NEW e \in EntriesOf(g)
  PROVE  /\ e \div g.lcols \in LogicalRows(g) /\ e % g.lcols \in LogicalCols(g)
         /\ e = (e \div g.lcols) * g.lcols + (e % g.lcols)
<1>1. /\ g.prows \in Nat \ {0} /\ g.pcols \in Nat \ {0}
      /\ g.lrows \in Nat \ {0} /\ g.lcols \in Nat \ {0}
      /\ g.lrows % g.prows = 0 /\ g.lcols % g.pcols = 0
  BY DEF GeometryOK, EdgeArgumentsOK
<1>2. \A a \in Nat, b \in Nat \ {0} : a % b = 0 => b * (a \div b) = a
  <2> SUFFICES ASSUME NEW a \in Nat, NEW b \in Nat \ {0}, a % b = 0
               PROVE  b * (a \div b) = a
    OBVIOUS
  <2> DEFINE k == a \div b
  <2>1. k \in Nat /\ a = k * b + (a % b)
    BY DivMod
  <2> HIDE DEF k
  <2>2. k * b = b * k /\ k * b \in Nat
    BY <2>1, SMT
  <2>3. a = b * k
    BY <2>1, <2>2
  <2> QED
    BY <2>3 DEF k
<1>3. g.prows * LocalLogicalRows(g) = g.lrows /\ g.pcols * LocalLogicalCols(g) = g.lcols
  BY <1>1, <1>2 DEF LocalLogicalRows, LocalLogicalCols
<1>4. e \in 0..(g.lrows * g.lcols - 1)
  BY DEF EntriesOf
<1>5. /\ e \div g.lcols \in 0..(g.lrows - 1) /\ e % g.lcols \in 0..(g.lcols - 1)
      /\ e = (e \div g.lcols) * g.lcols + (e % g.lcols)
  BY <1>1, <1>4, RowAndPlace
<1> QED
  BY <1>3, <1>5 DEF LogicalRows, LogicalCols

\* A place of a padded axis from its shard and the place in the shard.
LEMMA PlaceOfShard ==
  ASSUME NEW n \in Nat \ {0}, NEW l \in Nat \ {0}, l <= n, NEW i \in Nat
  PROVE  /\ PaddedAt(l, n, i) \div n = i \div l
         /\ PaddedAt(l, n, i) % n = i % l
<1> DEFINE q == i \div l
           r == i % l
<1>1. q \in Nat /\ r \in 0..(l - 1)
  BY DivMod
<1> HIDE DEF q, r
<1>2. r \in 0..(n - 1)
  BY <1>1
<1>3. (q * n + r) \div n = q /\ (q * n + r) % n = r
  BY <1>1, <1>2, Parts
<1> QED
  BY <1>1, <1>2, <1>3 DEF PaddedAt, q, r

\* Where a place of a line is once ownership is cyclic, as a rank and a place there.
LEMMA CyclicPlaceIs ==
  ASSUME NEW g, NEW dir \in Directions, NEW x \in Places(g, dir), GeometryOK(g)
  PROVE  /\ CyclicPlace(g, dir, x) \div Side(g, dir) = (x \div Tile(g, dir)) % Procs(g, dir)
         /\ CyclicPlace(g, dir, x) % Side(g, dir)
              = ((x \div Tile(g, dir)) \div Procs(g, dir)) * Tile(g, dir) + (x % Tile(g, dir))
         /\ (x \div Tile(g, dir)) % Procs(g, dir) \in 0..(Procs(g, dir) - 1)
         /\ ((x \div Tile(g, dir)) \div Procs(g, dir)) * Tile(g, dir) + (x % Tile(g, dir))
              \in 0..(Side(g, dir) - 1)
         /\ CyclicPlace(g, dir, x) \in Places(g, dir)
<1> DEFINE t == Tile(g, dir)
           procs == Procs(g, dir)
           blocks == Blocks(g, dir)
           side == Side(g, dir)
           b == x \div t
           d == x % t
           p == b % procs
           k == b \div procs
<1>1. /\ t \in Nat \ {0} /\ procs \in Nat \ {0} /\ blocks \in Nat \ {0} /\ side \in Nat \ {0}
      /\ side = blocks * t
  BY ReachIs, SizesOf
<1>2. x \in 0..(procs * side - 1)
  BY DEF Places
<1>3. CyclicPlace(g, dir, x) = CyclicSlot(b, procs, blocks) * t + d
  BY DEF CyclicPlace
<1>4. CyclicPlace(g, dir, x) \in Places(g, dir)
  <2>1. 0 \in LinesOf(g, dir)
    BY SizesOf DEF LinesOf
  <2>2. PICK u, e : HasPlace(g, dir, 0, x, u, e)
    BY <2>1, PlaceHasSlot
  <2> QED
    BY <2>2 DEF HasPlace
<1> HIDE DEF t, procs, blocks, side
<1>5. x \in 0..((procs * blocks) * t - 1)
  <2>1. \A i, j, m \in Int : i * (j * m) = (i * j) * m
    BY SMT
  <2> QED
    BY <1>1, <1>2, <2>1
<1>6. procs * blocks \in Nat \ {0}
  <2>1. \A i, j \in Nat \ {0} : i * j \in Nat \ {0}
    BY SMT
  <2> QED
    BY <1>1, <2>1
<1> DEFINE z == procs * blocks
<1>7. b \in 0..(z - 1) /\ d \in 0..(t - 1)
  <2>1. z \in Nat \ {0} /\ x \in 0..(z * t - 1)
    BY <1>5, <1>6
  <2> HIDE DEF z
  <2> QED
    BY <1>1, <2>1, RowAndPlace
<1> HIDE DEF b, d
<1>8. p \in 0..(procs - 1) /\ k \in 0..(blocks - 1)
      /\ CyclicSlot(b, procs, blocks) = p * blocks + k
  BY <1>1, <1>7, CyclicSlotIs
<1> HIDE DEF p, k
<1> DEFINE r == k * t + d
<1>9. r \in 0..(side - 1)
  BY <1>1, <1>7, <1>8, PlaceInRow
<1>10. (p * blocks + k) * t + d = p * side + r
  <2>1. \A i, j, m, n \in Int : (i * j + m) * n = i * (j * n) + m * n
    BY SMT
  <2>2. (p * blocks + k) * t = p * (blocks * t) + k * t
    BY <1>1, <1>8, <2>1
  <2>3. p * (blocks * t) \in Int /\ k * t \in Int /\ d \in Int
    BY <1>1, <1>7, <1>8
  <2>4. (p * blocks + k) * t + d = p * (blocks * t) + (k * t + d)
    BY <2>2, <2>3
  <2> QED
    BY <1>1, <2>4
<1>11. (p * side + r) \div side = p /\ (p * side + r) % side = r
  <2> HIDE DEF r
  <2>1. p \in Nat
    BY <1>8
  <2> QED
    BY <1>1, <1>9, <2>1, Parts, SMTT(60)
<1>12. CyclicPlace(g, dir, x) = p * side + r
  BY <1>3, <1>8, <1>10
<1> QED
  BY <1>4, <1>8, <1>9, <1>11, <1>12 DEF p, k, b, d, t, procs, side

\* A cell of the padded matrix, taken apart.
LEMMA CellOf ==
  ASSUME NEW g, GeometryOK(g), NEW X \in Places(g, "rows"), NEW Y \in Places(g, "cols"),
         NEW home,
         home = <<RankAt(g, X \div g.rows, Y \div g.cols),
                  Offset(g, X % g.rows, Y % g.cols)>>
  PROVE  SameCell(g, home, GlobalAt(g, X, Y))
<1> DEFINE r == RankAt(g, X \div g.rows, Y \div g.cols)
           a == X % g.rows
           b == Y % g.cols
<1>1. /\ "cols" \in Directions /\ "rows" \in Directions
      /\ Side(g, "cols") = g.cols /\ Procs(g, "cols") = g.pcols /\ Lines(g, "cols") = g.prows
      /\ Side(g, "rows") = g.rows /\ Procs(g, "rows") = g.prows
  BY DEF Directions, Side, Procs, Lines
<1>2. X \div g.rows \in 0..(g.prows - 1) /\ a \in 0..(g.rows - 1) /\ b \in 0..(g.cols - 1)
  BY <1>1, PlaceIs
<1>3. r \in RanksOf(g)
  <2>1. X \div g.rows \in LinesOf(g, "cols")
    BY <1>1, <1>2 DEF LinesOf
  <2>2. RankOn(g, "cols", X \div g.rows, Y) \in RanksOf(g)
    BY <1>1, <2>1, RankOnTyped
  <2> QED
    BY <2>2 DEF RankOn
<1>4. GlobalAt(g, X, Y) = InMatrix(r, a, b) /\ home = <<r, Offset(g, a, b)>>
  BY DEF GlobalAt
<1> HIDE DEF r, a, b
<1> QED
  BY <1>2, <1>3, <1>4 DEF SameCell

\* Where the caller has an entry,
LEMMA JaxHomeIs ==
  ASSUME NEW g, GeometryOK(g), NEW e \in EntriesOf(g), NEW i, NEW j,
         i = e \div g.lcols, j = e % g.lcols
  PROVE  SameCell(g, JaxHome(g, e), GlobalAt(g, PaddedRow(g, i), PaddedCol(g, j)))
<1>1. i \in LogicalRows(g) /\ j \in LogicalCols(g)
  BY EntryPlaces
<1>2. PaddedRow(g, i) \in Places(g, "rows") /\ PaddedCol(g, j) \in Places(g, "cols")
  BY <1>1, LogicalPlaces
<1> DEFINE lv == LocalLogicalRows(g)
           lh == LocalLogicalCols(g)
<1>3. /\ lv \in Nat \ {0} /\ lv <= g.rows /\ lh \in Nat \ {0} /\ lh <= g.cols
      /\ g.rows \in Nat \ {0} /\ g.cols \in Nat \ {0}
      /\ g.prows \in Nat \ {0} /\ g.pcols \in Nat \ {0}
  BY SharesFit DEF GeometryOK
<1>4. /\ PaddedRow(g, i) = PaddedAt(lv, g.rows, i) /\ PaddedCol(g, j) = PaddedAt(lh, g.cols, j)
      /\ i \in Nat /\ j \in Nat
  BY <1>1 DEF PaddedRow, PaddedCol, LogicalRows, LogicalCols
<1>5. JaxHome(g, e) = <<RankAt(g, i \div lv, j \div lh), Offset(g, i % lv, j % lh)>>
  BY DEF JaxHome
<1> HIDE DEF lv, lh
<1>6. /\ PaddedAt(lv, g.rows, i) \div g.rows = i \div lv
      /\ PaddedAt(lv, g.rows, i) % g.rows = i % lv
  BY <1>3, <1>4, PlaceOfShard, ZenonT(60)
<1>7. /\ PaddedAt(lh, g.cols, j) \div g.cols = j \div lh
      /\ PaddedAt(lh, g.cols, j) % g.cols = j % lh
  BY <1>3, <1>4, PlaceOfShard, ZenonT(60)
<1> DEFINE X == PaddedRow(g, i)
           Y == PaddedCol(g, j)
<1>8. /\ X \div g.rows = i \div lv /\ X % g.rows = i % lv
      /\ Y \div g.cols = j \div lh /\ Y % g.cols = j % lh
  BY <1>4, <1>6, <1>7
<1>9. X \in Places(g, "rows") /\ Y \in Places(g, "cols")
  BY <1>2
<1> HIDE DEF X, Y
<1>10. JaxHome(g, e) = <<RankAt(g, X \div g.rows, Y \div g.cols), Offset(g, X % g.rows, Y % g.cols)>>
  BY <1>5, <1>8
<1>11. SameCell(g, JaxHome(g, e), GlobalAt(g, X, Y))
  BY <1>9, <1>10, CellOf
<1> QED
  BY <1>11 DEF X, Y

\* and where the solver's descriptor has it.
LEMMA CyclicHomeIs ==
  ASSUME NEW g, GeometryOK(g), NEW e \in EntriesOf(g), NEW i, NEW j,
         i = e \div g.lcols, j = e % g.lcols
  PROVE  SameCell(g, CyclicHome(g, e),
                  GlobalAt(g, CyclicPlace(g, "rows", i), CyclicPlace(g, "cols", j)))
<1>1. i \in Places(g, "rows") /\ j \in Places(g, "cols")
  BY EntryPlaces, LogicalPlaces
<1>2. /\ "cols" \in Directions /\ "rows" \in Directions
      /\ Side(g, "cols") = g.cols /\ Procs(g, "cols") = g.pcols /\ Tile(g, "cols") = g.tcols
      /\ Side(g, "rows") = g.rows /\ Procs(g, "rows") = g.prows /\ Tile(g, "rows") = g.trows
  BY DEF Directions, Side, Procs, Tile
<1> DEFINE X == CyclicPlace(g, "rows", i)
           Y == CyclicPlace(g, "cols", j)
<1>3. /\ X \div g.rows = (i \div g.trows) % g.prows
      /\ X % g.rows = ((i \div g.trows) \div g.prows) * g.trows + (i % g.trows)
      /\ X \in Places(g, "rows")
  <2>1. "rows" \in Directions /\ i \in Places(g, "rows")
    BY <1>1, <1>2
  <2> QED
    BY <1>2, <2>1, CyclicPlaceIs
<1>4. /\ Y \div g.cols = (j \div g.tcols) % g.pcols
      /\ Y % g.cols = ((j \div g.tcols) \div g.pcols) * g.tcols + (j % g.tcols)
      /\ Y \in Places(g, "cols")
  <2>1. "cols" \in Directions /\ j \in Places(g, "cols")
    BY <1>1, <1>2
  <2> QED
    BY <1>2, <2>1, CyclicPlaceIs
<1>5. CyclicHome(g, e)
        = <<RankAt(g, (i \div g.trows) % g.prows, (j \div g.tcols) % g.pcols),
            Offset(g, ((i \div g.trows) \div g.prows) * g.trows + (i % g.trows),
                      ((j \div g.tcols) \div g.pcols) * g.tcols + (j % g.tcols))>>
  BY DEF CyclicHome
<1> HIDE DEF X, Y
<1>6. CyclicHome(g, e)
        = <<RankAt(g, X \div g.rows, Y \div g.cols), Offset(g, X % g.rows, Y % g.cols)>>
  BY <1>3, <1>4, <1>5
<1>7. SameCell(g, CyclicHome(g, e), GlobalAt(g, X, Y))
  BY <1>3, <1>4, <1>6, CellOf
<1> QED
  BY <1>7 DEF X, Y

(***************************************************************************)
(* The way of an entry through the whole plan, in lockstep.                *)
(***************************************************************************)
\* A finite list.
IsList(p) == Len(p) \in Nat /\ p = [k \in 1..Len(p) |-> p[k]]

\* List q is the part of p after its first a entries.
PartOf(p, a, q) ==
  /\ a \in Nat /\ Len(q) \in Nat /\ Len(p) \in Nat /\ a + Len(q) <= Len(p)
  /\ \A k \in 1..Len(q) : p[a + k] = q[k]

\* Two lists one after the other are its parts.
LEMMA PartsJoined ==
  ASSUME NEW p, NEW q, NEW s, s = p \o q, IsList(p), IsList(q)
  PROVE  /\ IsList(s) /\ Len(s) = Len(p) + Len(q)
         /\ PartOf(s, 0, p) /\ PartOf(s, Len(p), q)
<1> DEFINE T == {p[k] : k \in 1..Len(p)} \cup {q[k] : k \in 1..Len(q)}
<1>1. /\ Len(p) \in Nat /\ p = [k \in 1..Len(p) |-> p[k]]
      /\ Len(q) \in Nat /\ q = [k \in 1..Len(q) |-> q[k]]
  BY DEF IsList
<1>2. p \in [1..Len(p) -> T] /\ q \in [1..Len(q) -> T]
  <2>1. (\A k \in 1..Len(p) : p[k] \in T) /\ (\A k \in 1..Len(q) : q[k] \in T)
    OBVIOUS
  <2> HIDE DEF T
  <2> QED
    BY <1>1, <2>1
<1> HIDE DEF T
<1>3. /\ ListOf(T, p \o q)
      /\ Len(p \o q) = Len(p) + Len(q)
      /\ \A k \in 1..(Len(p) + Len(q)) :
           (p \o q)[k] = IF k <= Len(p) THEN p[k] ELSE q[k - Len(p)]
  <2>1. ListOf(T, p) /\ ListOf(T, q)
    BY <1>1, <1>2 DEF ListOf
  <2> QED
    BY <2>1, Joined
<1>4. /\ ListOf(T, s) /\ Len(s) = Len(p) + Len(q)
      /\ \A k \in 1..(Len(p) + Len(q)) : s[k] = IF k <= Len(p) THEN p[k] ELSE q[k - Len(p)]
  BY <1>3
<1>5. IsList(s)
  BY <1>4 DEF ListOf, IsList
<1>6. PartOf(s, 0, p)
  <2>1. \A k \in 1..Len(p) : k \in 1..(Len(p) + Len(q)) /\ 0 + k = k /\ k <= Len(p)
    BY <1>1
  <2>2. \A k \in 1..Len(p) : s[0 + k] = p[k]
    BY <1>4, <2>1
  <2> QED
    BY <1>1, <1>4, <2>2 DEF PartOf
<1>7. PartOf(s, Len(p), q)
  <2>1. \A k \in 1..Len(q) : /\ Len(p) + k \in 1..(Len(p) + Len(q)) /\ ~(Len(p) + k <= Len(p))
                             /\ (Len(p) + k) - Len(p) = k
    BY <1>1
  <2>2. \A k \in 1..Len(q) : s[Len(p) + k] = q[k]
    BY <1>4, <2>1
  <2> QED
    BY <1>1, <1>4, <2>2 DEF PartOf
<1> QED
  BY <1>4, <1>5, <1>6, <1>7

\* A part of a part is a part.
LEMMA PartOfPart ==
  ASSUME NEW p, NEW a, NEW q, NEW b, NEW s, NEW c, c = a + b, PartOf(p, a, q), PartOf(q, b, s)
  PROVE  PartOf(p, c, s)
<1>1. /\ a \in Nat /\ b \in Nat /\ c \in Nat /\ Len(s) \in Nat /\ Len(q) \in Nat /\ Len(p) \in Nat
      /\ c + Len(s) <= Len(p) /\ b + Len(s) <= Len(q)
  BY DEF PartOf
<1>2. ASSUME NEW k \in 1..Len(s) PROVE p[c + k] = s[k]
  <2>1. b + k \in 1..Len(q) /\ a + (b + k) = c + k
    BY <1>1
  <2>2. q[b + k] = s[k] /\ p[a + (b + k)] = q[b + k]
    BY <2>1 DEF PartOf
  <2> QED
    BY <2>1, <2>2
<1> QED
  BY <1>1, <1>2 DEF PartOf

\* Two routes, the one ending where the other begins, are one.
LEMMA RoutesJoin ==
  ASSUME NEW p, NEW a \in Nat, NEW b \in Nat, NEW c \in Nat, NEW f, NEW h,
         a <= b, b <= c, Route(p, a, b, f), Route(p, b, c, h), f[b] = h[b]
  PROVE  \E route : /\ Route(p, a, c, route)
                    /\ route[a] = f[a] /\ route[c] = h[c]
<1> DEFINE route == [k \in a..c |-> IF k <= b THEN f[k] ELSE h[k]]
<1>1. ASSUME NEW k \in (a + 1)..c PROVE Passes(p[k], route[k - 1], route[k])
  <2>1. k \in a..c /\ k - 1 \in a..c /\ k \in Int
    OBVIOUS
  <2>2. CASE k <= b
    <3>1. k \in (a + 1)..b /\ k - 1 <= b
      BY <2>2
    <3>2. route[k] = f[k] /\ route[k - 1] = f[k - 1]
      BY <2>1, <2>2, <3>1
    <3> QED
      BY <3>1, <3>2 DEF Route
  <2>3. CASE ~(k <= b)
    <3>1. k \in (b + 1)..c
      BY <2>3
    <3>2. route[k] = h[k]
      BY <2>1, <2>3
    <3>3. route[k - 1] = h[k - 1]
      <4>1. CASE k - 1 <= b
        <5>1. k - 1 = b
          BY <2>3, <4>1
        <5>2. route[k - 1] = f[k - 1]
          BY <2>1, <4>1
        <5> QED
          BY <5>1, <5>2
      <4>2. CASE ~(k - 1 <= b)
        BY <2>1, <4>2
      <4> QED
        BY <4>1, <4>2
    <3> HIDE DEF route
    <3> QED
      BY <3>1, <3>2, <3>3 DEF Route
  <2> QED
    BY <2>2, <2>3
<1>2. route[a] = f[a]
  OBVIOUS
<1>3. route[c] = h[c]
  <2>1. CASE c <= b
    <3>1. c = b
      BY <2>1
    <3> QED
      BY <3>1
  <2>2. CASE ~(c <= b)
    BY <2>2
  <2> QED
    BY <2>1, <2>2
<1> HIDE DEF route
<1>4. Route(p, a, c, route)
  BY <1>1 DEF Route
<1> QED
  BY <1>2, <1>3, <1>4

\* Between entries a and b of plan p, in lockstep, what is at loc gets to new, is
\* always somewhere, and passes from rank to rank.
Brings(g, p, a, b, loc, new) ==
  /\ a \in Nat /\ b \in Nat /\ a <= b /\ b <= Len(p) /\ Len(p) \in Nat
  /\ Read(g, Lockstep(g, p)[b], new) = Read(g, Lockstep(g, p)[a], loc)
  /\ \A k \in a..b : \E place : /\ LocationOK(g, "slab", place)
                                /\ Read(g, Lockstep(g, p)[k], place)
                                     = Read(g, Lockstep(g, p)[a], loc)
  /\ \E route : Route(p, a, b, route) /\ route[a] = loc[2] /\ route[b] = new[2]

\* From one stretch to the next.
LEMMA BringsOn ==
  ASSUME NEW g, NEW p, NEW a, NEW b, NEW c, NEW loc, NEW via, NEW new,
         Brings(g, p, a, b, loc, via), Brings(g, p, b, c, via, new)
  PROVE  Brings(g, p, a, c, loc, new)
<1>1. /\ a \in Nat /\ b \in Nat /\ c \in Nat /\ a <= b /\ b <= c /\ c <= Len(p) /\ Len(p) \in Nat
      /\ a <= c
  BY DEF Brings
<1> DEFINE w == Lockstep(g, p)
<1>2. /\ Read(g, w[b], via) = Read(g, w[a], loc)
      /\ Read(g, w[c], new) = Read(g, w[b], via)
  BY DEF Brings
<1>3. ASSUME NEW k \in a..c
      PROVE  \E place : LocationOK(g, "slab", place) /\ Read(g, w[k], place) = Read(g, w[a], loc)
  <2>1. CASE k <= b
    <3>1. k \in a..b
      BY <1>1, <2>1
    <3> QED
      BY <3>1 DEF Brings
  <2>2. CASE ~(k <= b)
    <3>1. k \in b..c
      BY <1>1, <2>2
    <3>2. PICK place : /\ LocationOK(g, "slab", place)
                       /\ Read(g, w[k], place) = Read(g, w[b], via)
      BY <3>1 DEF Brings
    <3> QED
      BY <1>2, <3>2
  <2> QED
    BY <2>1, <2>2
<1>4. \E route : Route(p, a, c, route) /\ route[a] = loc[2] /\ route[c] = new[2]
  <2>1. PICK f : Route(p, a, b, f) /\ f[a] = loc[2] /\ f[b] = via[2]
    BY DEF Brings
  <2>2. PICK h : Route(p, b, c, h) /\ h[b] = via[2] /\ h[c] = new[2]
    BY DEF Brings
  <2>3. f[b] = h[b]
    BY <2>1, <2>2
  <2> QED
    BY <1>1, <2>1, <2>2, <2>3, RoutesJoin
<1> QED
  BY <1>1, <1>2, <1>3, <1>4 DEF Brings

\* A part of the plan brings what its batches deliver.
LEMMA PartBrings ==
  ASSUME NEW g, NEW p, NEW exec \in {"edge", "slab"}, NEW q, NEW a, NEW b, NEW loc, NEW new,
         GeometryOK(g), PlanOK(g, p), PartOf(p, a, q), b = a + Len(q),
         \A k \in 1..Len(q) : BatchOK(g, q[k]) /\ q[k].exec = exec,
         Delivers(g, exec, q, loc, new)
  PROVE  Brings(g, p, a, b, loc, new)
<1> DEFINE n == Len(q)
           w == Lockstep(g, p)
           v == [k \in 0..n |-> w[a + k]]
<1>1. /\ a \in Nat /\ n \in Nat /\ b \in Nat /\ Len(p) \in Nat /\ b <= Len(p) /\ b = a + n /\ a <= b
  BY DEF PartOf
<1>2. /\ \A k \in 1..Len(p) : w[k] = Passed(g, w[k - 1], p[k])
      /\ \A k \in 0..Len(p) : w[k] \in Memories(g)
  BY LockstepIs
<1>3. \A k \in 1..n : p[a + k] = q[k] /\ BatchOK(g, q[k]) /\ q[k].exec = exec
  BY DEF PartOf
<1> HIDE DEF w, n
<1>4. \A k \in 0..n : v[k] = w[a + k]
  OBVIOUS
<1> HIDE DEF v
<1>5. Batched(g, exec, q, n, v)
  <2>1. ASSUME NEW k \in 0..n PROVE v[k] \in Memories(g)
    <3>1. a + k \in 0..Len(p)
      BY <1>1
    <3> QED
      BY <1>2, <1>4, <3>1
  <2>2. ASSUME NEW k \in 1..n PROVE v[k] = Passed(g, v[k - 1], q[k])
    <3>1. a + k \in 1..Len(p) /\ k \in 0..n /\ k - 1 \in 0..n /\ a + (k - 1) = (a + k) - 1
      BY <1>1
    <3>2. w[a + k] = Passed(g, w[(a + k) - 1], p[a + k])
      BY <1>2, <3>1
    <3>3. v[k] = w[a + k] /\ v[k - 1] = w[a + (k - 1)]
      BY <1>4, <3>1
    <3> QED
      BY <1>3, <3>1, <3>2, <3>3
  <2> QED
    BY <1>1, <1>3, <2>1, <2>2 DEF Batched
<1>6. /\ Read(g, v[n], new) = Read(g, v[0], loc)
      /\ \A k \in 0..n : \E place : /\ LocationOK(g, exec, place)
                                    /\ Read(g, v[k], place) = Read(g, v[0], loc)
      /\ \E route : Route(q, 0, n, route) /\ route[0] = loc[2] /\ route[n] = new[2]
  BY <1>5 DEF Delivers, n
<1>7. v[n] = w[b] /\ v[0] = w[a]
  <2>1. n \in 0..n /\ 0 \in 0..n /\ a + 0 = a
    BY <1>1
  <2> QED
    BY <1>1, <1>4, <2>1
<1>8. ASSUME NEW k \in a..b
      PROVE  \E place : LocationOK(g, "slab", place) /\ Read(g, w[k], place) = Read(g, w[a], loc)
  <2>1. k - a \in 0..n /\ a + (k - a) = k
    BY <1>1
  <2>2. v[k - a] = w[k]
    BY <1>4, <2>1
  <2>3. PICK place : LocationOK(g, exec, place) /\ Read(g, v[k - a], place) = Read(g, v[0], loc)
    BY <1>6, <2>1
  <2>4. LocationOK(g, "slab", place)
    BY <2>3 DEF LocationOK
  <2> QED
    BY <1>7, <2>2, <2>3, <2>4
<1>9. Read(g, w[b], new) = Read(g, w[a], loc)
  BY <1>6, <1>7
<1>10. \E route : Route(p, a, b, route) /\ route[a] = loc[2] /\ route[b] = new[2]
  <2>1. PICK f : Route(q, 0, n, f) /\ f[0] = loc[2] /\ f[n] = new[2]
    BY <1>6
  <2> DEFINE route == [k \in a..b |-> f[k - a]]
  <2>2. ASSUME NEW k \in (a + 1)..b PROVE Passes(p[k], route[k - 1], route[k])
    <3> DEFINE l == k - a
    <3>1. l \in (0 + 1)..n /\ l \in 1..n /\ a + l = k /\ (k - 1) - a = l - 1
          /\ k \in a..b /\ k - 1 \in a..b
      BY <1>1
    <3>2. route[k] = f[l] /\ route[k - 1] = f[l - 1]
      BY <3>1
    <3> HIDE DEF l, route
    <3>3. p[k] = q[l]
      BY <1>3, <3>1
    <3>4. Passes(q[l], f[l - 1], f[l])
      BY <2>1, <3>1 DEF Route
    <3> QED
      BY <3>2, <3>3, <3>4
  <2>3. route[a] = f[0] /\ route[b] = f[n]
    <3>1. a \in a..b /\ b \in a..b /\ a - a = 0 /\ b - a = n
      BY <1>1
    <3> QED
      BY <3>1
  <2> HIDE DEF route
  <2>4. Route(p, a, b, route)
    BY <2>2 DEF Route
  <2> QED
    BY <2>1, <2>3, <2>4
<1> QED
  BY <1>1, <1>8, <1>9, <1>10 DEF Brings, w

\* The parts of a geometry's plan.
EdgeThere(g) == Tagged("edge", BatchNative2DSteps(EdgeSteps(g)))
SlabThere(g) == Tagged("slab", BatchNative2DSteps(BuildSlabNative2DSteps(g, FALSE)))
SlabBack(g)  == Tagged("slab", BatchNative2DSteps(BuildSlabNative2DSteps(g, TRUE)))
EdgeBack(g)  == Tagged("edge", BatchNative2DSteps(ReverseEdgePaddingSteps(EdgeSteps(g))))

\* Batches of one executor that it is made for.
RunsOn(g, exec, q) == IsList(q) /\ \A k \in 1..Len(q) : BatchOK(g, q[k]) /\ q[k].exec = exec

\* Tagging gives them the executor.
LEMMA TaggedRuns ==
  ASSUME NEW g, NEW exec, NEW batches, NEW q, q = Tagged(exec, batches), Runnable(g, q)
  PROVE  RunsOn(g, exec, q)
<1>1. /\ Len(q) \in Nat /\ q = [k \in 1..Len(q) |-> q[k]]
      /\ \A k \in 1..Len(q) : BatchOK(g, q[k])
  BY DEF Runnable
<1>2. DOMAIN q = 1..Len(q)
  BY <1>1
<1>3. DOMAIN q = DOMAIN batches
  BY DEF Tagged
<1>4. \A k \in 1..Len(q) : q[k].exec = exec
  BY <1>2, <1>3 DEF Tagged
<1> QED
  BY <1>1, <1>4 DEF RunsOn, IsList

\* The four parts are of their executors.
LEMMA PartsRun ==
  ASSUME NEW g, GeometryOK(g)
  PROVE  /\ RunsOn(g, "edge", EdgeThere(g)) /\ RunsOn(g, "slab", SlabThere(g))
         /\ RunsOn(g, "slab", SlabBack(g)) /\ RunsOn(g, "edge", EdgeBack(g))
<1>1. Runnable(g, SlabThere(g)) /\ Runnable(g, SlabBack(g))
  BY SlabBatchesRun DEF SlabThere, SlabBack
<1>2. PICK S : \E N \in Nat : /\ EdgeSteps(g) \in Seq(S) /\ Chained(g, S)
                              /\ \A s \in S : s.seq \in 0..N
  BY EdgeStepsChained
<1>3. PICK N \in Nat : /\ EdgeSteps(g) \in Seq(S) /\ Chained(g, S)
                       /\ \A s \in S : s.seq \in 0..N
  BY <1>2
<1>4. PICK T : Chained(g, T) /\ ReverseEdgePaddingSteps(EdgeSteps(g)) \in Seq(T)
  BY <1>3, ReverseChained
<1>5. Schedulable(g, "edge", S) /\ Schedulable(g, "edge", T)
  BY <1>3, <1>4, ChainedSchedulable
<1>6. Runnable(g, EdgeThere(g))
  BY <1>3, <1>5, BatchesRun DEF EdgeThere
<1>7. Runnable(g, EdgeBack(g))
  BY <1>4, <1>5, BatchesRun DEF EdgeBack
<1> QED
  BY <1>1, <1>6, <1>7, TaggedRuns DEF EdgeThere, SlabThere, SlabBack, EdgeBack

\* Plan p has the parts of geometry g, its solver call at entry at.
Assembled(g, p, at) ==
  /\ Len(p) \in Nat /\ at \in 1..Len(p) /\ p[at] = SolveEntry
  /\ PartOf(p, 0, EdgeThere(g))
  /\ PartOf(p, Len(EdgeThere(g)), SlabThere(g))
  /\ at = (Len(EdgeThere(g)) + Len(SlabThere(g))) + 1
  /\ PartOf(p, at, SlabBack(g))
  /\ PartOf(p, at + Len(SlabBack(g)), EdgeBack(g))
  /\ Len(p) = (at + Len(SlabBack(g))) + Len(EdgeBack(g))

\* So is every plan.
LEMMA PlanAssembled ==
  ASSUME NEW g, GeometryOK(g)
  PROVE  \E at : Assembled(g, Plan(g), at)
<1> DEFINE a == EdgeThere(g)
           b == SlabThere(g)
           c == SlabBack(g)
           d == EdgeBack(g)
           e == <<SolveEntry>>
           f == a \o b
           r == c \o d
           h == f \o e
           p == h \o r
           at == Len(f) + 1
<1>1. IsList(a) /\ IsList(b) /\ IsList(c) /\ IsList(d)
  BY PartsRun DEF RunsOn
<1>2. IsList(e) /\ Len(e) = 1 /\ e[1] = SolveEntry
  BY DEF IsList
<1>3. Plan(g) = p
  BY DEF Plan, ForwardBatches, ReverseBatches, EdgeThere, SlabThere, SlabBack, EdgeBack
<1> HIDE DEF a, b, c, d, e
<1>4. IsList(f) /\ Len(f) = Len(a) + Len(b) /\ PartOf(f, 0, a) /\ PartOf(f, Len(a), b)
  BY <1>1, PartsJoined
<1>5. IsList(r) /\ Len(r) = Len(c) + Len(d) /\ PartOf(r, 0, c) /\ PartOf(r, Len(c), d)
  BY <1>1, PartsJoined
<1> HIDE DEF f, r
<1>6. IsList(h) /\ Len(h) = Len(f) + Len(e) /\ PartOf(h, 0, f) /\ PartOf(h, Len(f), e)
  BY <1>2, <1>4, PartsJoined
<1> HIDE DEF h
<1>7. IsList(p) /\ Len(p) = Len(h) + Len(r) /\ PartOf(p, 0, h) /\ PartOf(p, Len(h), r)
  BY <1>5, <1>6, PartsJoined
<1> HIDE DEF p
<1>8. /\ Len(a) \in Nat /\ Len(b) \in Nat /\ Len(c) \in Nat /\ Len(d) \in Nat
      /\ Len(f) \in Nat /\ Len(h) \in Nat /\ Len(r) \in Nat /\ Len(p) \in Nat
      /\ Len(h) = at /\ at = (Len(a) + Len(b)) + 1
      /\ Len(p) = (at + Len(c)) + Len(d) /\ at \in 1..Len(p)
  <2>1. /\ Len(a) \in Nat /\ Len(b) \in Nat /\ Len(c) \in Nat /\ Len(d) \in Nat
        /\ Len(f) \in Nat /\ Len(h) \in Nat /\ Len(r) \in Nat /\ Len(p) \in Nat
    BY <1>1, <1>4, <1>5, <1>6, <1>7 DEF IsList
  <2> QED
    BY <2>1, <1>2, <1>4, <1>5, <1>6, <1>7
<1>9. PartOf(p, 0, f) /\ PartOf(p, Len(f), e)
  <2>1. 0 = 0 + 0 /\ Len(f) = 0 + Len(f)
    BY <1>8
  <2> QED
    BY <1>6, <1>7, <2>1, PartOfPart
<1>10. p[at] = SolveEntry
  <2>1. 1 \in 1..Len(e)
    BY <1>2
  <2> QED
    BY <1>2, <1>9, <2>1 DEF PartOf
<1>11. PartOf(p, 0, a) /\ PartOf(p, Len(a), b)
  <2>1. 0 = 0 + 0 /\ Len(a) = 0 + Len(a)
    BY <1>8
  <2> QED
    BY <1>4, <1>9, <2>1, PartOfPart
<1>12. PartOf(p, at, r)
  BY <1>7, <1>8
<1> HIDE DEF at
<1> DEFINE m == at + Len(c)
<1>13. PartOf(p, at, c) /\ PartOf(p, m, d)
  <2>1. at = at + 0 /\ m = at + Len(c)
    BY <1>8
  <2> HIDE DEF m
  <2> QED
    BY <1>5, <1>12, <2>1, PartOfPart
<1>14. Assembled(g, p, at)
  BY <1>8, <1>10, <1>11, <1>13 DEF Assembled, a, b, c, d
<1> QED
  BY <1>3, <1>14

\* Reading at the same cell.
LEMMA ReadHome ==
  ASSUME NEW g, NEW w, NEW home, NEW loc, SameCell(g, home, loc)
  PROVE  /\ Read(g, w, loc) = w.mem[home[1]][home[2]]
         /\ home = <<home[1], home[2]>> /\ home[1] \in RanksOf(g)
         /\ loc[2] = home[1]
<1>1. PICK r \in RanksOf(g), a \in 0..(g.rows - 1), b \in 0..(g.cols - 1) :
        home = <<r, Offset(g, a, b)>> /\ loc = InMatrix(r, a, b)
  BY DEF SameCell
<1>2. Read(g, w, loc) = w.mem[r][Offset(g, a, b)] /\ loc[2] = r
  BY <1>1 DEF Read, InMatrix
<1> QED
  BY <1>1, <1>2

\* Two entries the caller has in one cell are one.
LEMMA JaxHomeOne ==
  ASSUME NEW g, GeometryOK(g), NEW e \in EntriesOf(g), NEW f \in EntriesOf(g),
         JaxHome(g, e) = JaxHome(g, f)
  PROVE  e = f
<1> DEFINE lv == LocalLogicalRows(g)
           lh == LocalLogicalCols(g)
           i == e \div g.lcols
           j == e % g.lcols
           k == f \div g.lcols
           l == f % g.lcols
<1>1. /\ lv \in Nat \ {0} /\ lv <= g.rows /\ lh \in Nat \ {0} /\ lh <= g.cols
      /\ g.rows \in Nat \ {0} /\ g.cols \in Nat \ {0} /\ g.lcols \in Nat \ {0}
      /\ g.prows \in Nat \ {0} /\ g.pcols \in Nat \ {0}
  BY SharesFit DEF GeometryOK
<1>2. /\ i \in 0..(g.prows * lv - 1) /\ j \in 0..(g.pcols * lh - 1)
      /\ e = i * g.lcols + j
  BY EntryPlaces DEF LogicalRows, LogicalCols
<1>3. /\ k \in 0..(g.prows * lv - 1) /\ l \in 0..(g.pcols * lh - 1)
      /\ f = k * g.lcols + l
  BY EntryPlaces DEF LogicalRows, LogicalCols
<1>4. /\ RankAt(g, i \div lv, j \div lh) = RankAt(g, k \div lv, l \div lh)
      /\ Offset(g, i % lv, j % lh) = Offset(g, k % lv, l % lh)
  <2> DEFINE p == RankAt(g, i \div lv, j \div lh)
             o == Offset(g, i % lv, j % lh)
             q == RankAt(g, k \div lv, l \div lh)
             n == Offset(g, k % lv, l % lh)
  <2>1. JaxHome(g, e) = <<p, o>>
    BY DEF JaxHome
  <2>2. JaxHome(g, f) = <<q, n>>
    BY DEF JaxHome
  <2> HIDE DEF p, o, q, n
  <2>3. <<p, o>> = <<q, n>>
    BY <2>1, <2>2
  <2>4. p = q /\ o = n
    BY <2>3
  <2> QED
    BY <2>4 DEF p, o, q, n
<1> HIDE DEF lv, lh, i, j, k, l
<1>5. /\ i \div lv \in 0..(g.prows - 1) /\ i % lv \in 0..(lv - 1) /\ i = (i \div lv) * lv + (i % lv)
      /\ k \div lv \in 0..(g.prows - 1) /\ k % lv \in 0..(lv - 1) /\ k = (k \div lv) * lv + (k % lv)
  BY <1>1, <1>2, <1>3, RowAndPlace
<1>6. /\ j \div lh \in 0..(g.pcols - 1) /\ j % lh \in 0..(lh - 1) /\ j = (j \div lh) * lh + (j % lh)
      /\ l \div lh \in 0..(g.pcols - 1) /\ l % lh \in 0..(lh - 1) /\ l = (l \div lh) * lh + (l % lh)
  BY <1>1, <1>2, <1>3, RowAndPlace
<1>7. i \div lv = k \div lv /\ j \div lh = l \div lh
  BY <1>4, <1>5, <1>6, RankAtOne
<1>8. i % lv = k % lv /\ j % lh = l % lh
  <2>1. /\ i % lv \in 0..(g.rows - 1) /\ k % lv \in 0..(g.rows - 1)
        /\ j % lh \in 0..(g.cols - 1) /\ l % lh \in 0..(g.cols - 1)
    BY <1>1, <1>5, <1>6
  <2>2. /\ Offset(g, i % lv, j % lh) % g.rows = i % lv
        /\ Offset(g, i % lv, j % lh) \div g.rows = j % lh
    BY <2>1, OffsetIs
  <2>3. /\ Offset(g, k % lv, l % lh) % g.rows = k % lv
        /\ Offset(g, k % lv, l % lh) \div g.rows = l % lh
    BY <2>1, OffsetIs
  <2> QED
    BY <1>4, <2>2, <2>3
<1>9. i = k
  BY <1>5, <1>7, <1>8
<1>10. j = l
  BY <1>6, <1>7, <1>8
<1> QED
  BY <1>2, <1>3, <1>9, <1>10

\* The caller's shards have every entry at its home.
LEMMA GivenHas ==
  ASSUME NEW g, GeometryOK(g), NEW e \in EntriesOf(g), NEW loc,
         SameCell(g, JaxHome(g, e), loc)
  PROVE  Read(g, GivenMemories(g), loc) = e
<1>1. PICK r \in RanksOf(g), a \in 0..(g.rows - 1), b \in 0..(g.cols - 1) :
        JaxHome(g, e) = <<r, Offset(g, a, b)>> /\ loc = InMatrix(r, a, b)
  BY DEF SameCell
<1> DEFINE o == Offset(g, a, b)
           here == {f \in 0..(g.lrows * g.lcols - 1) : JaxHome(g, f) = <<r, o>>}
<1>2. o \in 0..(g.rows * g.cols - 1)
  BY OffsetIs DEF LocalCells
<1>3. Read(g, GivenMemories(g), loc) = Shard(g, JaxHome, r, Pad)[o]
  <2>1. Read(g, GivenMemories(g), loc) = GivenMemories(g).mem[r][o]
    BY <1>1 DEF Read, InMatrix
  <2> QED
    BY <2>1 DEF GivenMemories
<1>4. JaxHome(g, e) = <<r, o>>
  BY <1>1
<1> HIDE DEF o
<1>5. here = {e}
  <2>1. e \in here
    BY <1>4 DEF EntriesOf
  <2>2. ASSUME NEW f \in here PROVE f = e
    <3>1. f \in EntriesOf(g) /\ JaxHome(g, f) = JaxHome(g, e)
      BY <1>4 DEF EntriesOf
    <3> QED
      BY <3>1, JaxHomeOne
  <2> QED
    BY <2>1, <2>2
<1>6. Shard(g, JaxHome, r, Pad)[o] = IF here = {} THEN Pad ELSE CHOOSE f \in here : TRUE
  BY <1>2 DEF Shard
<1> HIDE DEF here
<1>7. (CHOOSE f \in here : TRUE) = e
  BY <1>5
<1> QED
  BY <1>3, <1>5, <1>6, <1>7

\* The solver leaves every entry where the descriptor has it.
LEMMA SolverKeeps ==
  ASSUME NEW g, GeometryOK(g), NEW e \in EntriesOf(g), NEW loc, NEW w \in Memories(g),
         SameCell(g, CyclicHome(g, e), loc)
  PROVE  Read(g, Passed(g, w, SolveEntry), loc) = Read(g, w, loc)
<1>1. PICK r \in RanksOf(g), a \in 0..(g.rows - 1), b \in 0..(g.cols - 1) :
        CyclicHome(g, e) = <<r, Offset(g, a, b)>> /\ loc = InMatrix(r, a, b)
  BY DEF SameCell
<1> DEFINE o == Offset(g, a, b)
<1>2. o \in LocalCells(g)
  BY OffsetIs
<1>3. DOMAIN w.mem[r] = LocalCells(g)
  BY RankMemories
<1>4. CyclicHome(g, e) = <<r, o>>
  BY <1>1
<1>5. /\ Read(g, Passed(g, w, SolveEntry), loc) = Passed(g, w, SolveEntry).mem[r][o]
      /\ Read(g, w, loc) = w.mem[r][o]
  BY <1>1 DEF Read, InMatrix
<1> HIDE DEF o
<1>6. Passed(g, w, SolveEntry).mem[r] = SolvedMem(g, w.mem[r], r)
  BY DEF Passed, SolveEntry
<1>7. SolvedMem(g, w.mem[r], r)[o] = w.mem[r][o]
  BY <1>2, <1>3, <1>4 DEF SolvedMem
<1> QED
  BY <1>5, <1>6, <1>7

\* Memories w have entry e at a home.
HasAt(w, home, e) == w.mem[home[1]][home[2]] = e

\* The way of entry e: from the caller's home to the descriptor's, over the solver
\* call at entry at, and back, never without a place.
Travels(g, p, at, e) ==
  LET w == Lockstep(g, p)
  IN  /\ HasAt(w[0], JaxHome(g, e), e)
      /\ HasAt(w[at - 1], CyclicHome(g, e), e)
      /\ HasAt(w[at], CyclicHome(g, e), e)
      /\ HasAt(w[Len(p)], JaxHome(g, e), e)
      /\ \A k \in 0..Len(p) : \E place : /\ LocationOK(g, "slab", place)
                                         /\ Read(g, w[k], place) = e
      /\ \E route : /\ Route(p, 0, at - 1, route)
                    /\ route[0] = JaxHome(g, e)[1] /\ route[at - 1] = CyclicHome(g, e)[1]
      /\ \E route : /\ Route(p, at, Len(p), route)
                    /\ route[at] = CyclicHome(g, e)[1] /\ route[Len(p)] = JaxHome(g, e)[1]

\* The part of the plan before the solver call brings it there,
LEMMA BroughtThere ==
  ASSUME NEW g, GeometryOK(g), NEW p, PlanOK(g, p), NEW at, Assembled(g, p, at),
         NEW i \in LogicalRows(g), NEW j \in LogicalCols(g), NEW l, l = at - 1
  PROVE  Brings(g, p, 0, l, GlobalAt(g, PaddedRow(g, i), PaddedCol(g, j)),
                GlobalAt(g, CyclicPlace(g, "rows", i), CyclicPlace(g, "cols", j)))
<1> DEFINE a == EdgeThere(g)
           b == SlabThere(g)
           m == Len(a)
           from == GlobalAt(g, PaddedRow(g, i), PaddedCol(g, j))
           via  == GlobalAt(g, i, j)
           to   == GlobalAt(g, CyclicPlace(g, "rows", i), CyclicPlace(g, "cols", j))
<1>1. i \in Places(g, "rows") /\ j \in Places(g, "cols")
  BY LogicalPlaces
<1>2. Delivers(g, "edge", a, from, via)
  BY EdgeDelivers DEF EdgeThere
<1>3. Delivers(g, "slab", b, via, to)
  BY <1>1, SlabDelivers DEF SlabThere
<1>4. PartOf(p, 0, a) /\ PartOf(p, m, b) /\ at = (m + Len(b)) + 1
  BY DEF Assembled
<1>5. /\ \A k \in 1..Len(a) : BatchOK(g, a[k]) /\ a[k].exec = "edge"
      /\ \A k \in 1..Len(b) : BatchOK(g, b[k]) /\ b[k].exec = "slab"
      /\ Len(a) \in Nat /\ Len(b) \in Nat
  BY PartsRun DEF RunsOn, IsList
<1>6. m = 0 + Len(a) /\ l = m + Len(b)
  BY <1>4, <1>5
<1> HIDE DEF a, b, from, via, to, m
<1>7. Brings(g, p, 0, m, from, via)
  <2>1. "edge" \in {"edge", "slab"}
    OBVIOUS
  <2> QED
    BY <1>2, <1>4, <1>5, <1>6, <2>1, PartBrings
<1>8. Brings(g, p, m, l, via, to)
  <2>1. "slab" \in {"edge", "slab"}
    OBVIOUS
  <2> QED
    BY <1>3, <1>4, <1>5, <1>6, <2>1, PartBrings
<1>9. Brings(g, p, 0, l, from, to)
  BY <1>7, <1>8, BringsOn
<1> QED
  BY <1>9 DEF from, to

\* and the part after it back.
LEMMA BroughtBack ==
  ASSUME NEW g, GeometryOK(g), NEW p, PlanOK(g, p), NEW at, Assembled(g, p, at),
         NEW i \in LogicalRows(g), NEW j \in LogicalCols(g), NEW l, l = Len(p)
  PROVE  Brings(g, p, at, l, GlobalAt(g, CyclicPlace(g, "rows", i), CyclicPlace(g, "cols", j)),
                GlobalAt(g, PaddedRow(g, i), PaddedCol(g, j)))
<1> DEFINE c == SlabBack(g)
           d == EdgeBack(g)
           m == at + Len(c)
           from == GlobalAt(g, CyclicPlace(g, "rows", i), CyclicPlace(g, "cols", j))
           via  == GlobalAt(g, i, j)
           to   == GlobalAt(g, PaddedRow(g, i), PaddedCol(g, j))
<1>1. i \in Places(g, "rows") /\ j \in Places(g, "cols")
  BY LogicalPlaces
<1>2. Delivers(g, "slab", c, from, via)
  BY <1>1, SlabBackDelivers DEF SlabBack
<1>3. Delivers(g, "edge", d, via, to)
  BY EdgeBackDelivers DEF EdgeBack
<1>4. PartOf(p, at, c) /\ PartOf(p, m, d) /\ l = m + Len(d) /\ m = at + Len(c)
  BY DEF Assembled
<1>5. /\ \A k \in 1..Len(c) : BatchOK(g, c[k]) /\ c[k].exec = "slab"
      /\ \A k \in 1..Len(d) : BatchOK(g, d[k]) /\ d[k].exec = "edge"
  BY PartsRun DEF RunsOn
<1> HIDE DEF c, d, from, via, to, m
<1>6. Brings(g, p, at, m, from, via)
  <2>1. "slab" \in {"edge", "slab"}
    OBVIOUS
  <2> QED
    BY <1>2, <1>4, <1>5, <2>1, PartBrings
<1>7. Brings(g, p, m, l, via, to)
  <2>1. "edge" \in {"edge", "slab"}
    OBVIOUS
  <2> QED
    BY <1>3, <1>4, <1>5, <2>1, PartBrings
<1>8. Brings(g, p, at, l, from, to)
  BY <1>6, <1>7, BringsOn
<1> QED
  BY <1>8 DEF from, to

\* Every entry travels so.
LEMMA EntryTravels ==
  ASSUME NEW g, GeometryOK(g), NEW p, PlanOK(g, p), NEW at, Assembled(g, p, at),
         NEW e \in EntriesOf(g)
  PROVE  Travels(g, p, at, e)
<1> DEFINE i == e \div g.lcols
           j == e % g.lcols
           w == Lockstep(g, p)
           jax == GlobalAt(g, PaddedRow(g, i), PaddedCol(g, j))
           cyclic == GlobalAt(g, CyclicPlace(g, "rows", i), CyclicPlace(g, "cols", j))
           l == at - 1
           n == Len(p)
<1>1. i \in LogicalRows(g) /\ j \in LogicalCols(g)
  BY EntryPlaces
<1>2. SameCell(g, JaxHome(g, e), jax) /\ SameCell(g, CyclicHome(g, e), cyclic)
  BY JaxHomeIs, CyclicHomeIs
<1> HIDE DEF i, j
<1>3. Brings(g, p, 0, l, jax, cyclic)
  BY <1>1, BroughtThere
<1>4. Brings(g, p, at, n, cyclic, jax)
  BY <1>1, BroughtBack
<1>5. /\ at \in 1..n /\ n \in Nat /\ p[at] = SolveEntry /\ l \in 0..n
      /\ w[at] = Passed(g, w[l], p[at]) /\ w[l] \in Memories(g) /\ w[0] = GivenMemories(g)
  <2>1. at \in 1..n /\ n \in Nat /\ p[at] = SolveEntry
    BY DEF Assembled
  <2>2. l \in 0..n
    BY <2>1
  <2> QED
    BY <2>1, <2>2, LockstepIs
<1> HIDE DEF jax, cyclic, w, l, n
<1>6. Read(g, w[0], jax) = e
  BY <1>2, <1>5, GivenHas
<1>7. Read(g, w[l], cyclic) = e
  BY <1>3, <1>6 DEF Brings, w
<1>8. Read(g, w[at], cyclic) = e
  BY <1>2, <1>5, <1>7, SolverKeeps
<1>9. Read(g, w[n], jax) = e
  BY <1>4, <1>8 DEF Brings, w
<1>10. ASSUME NEW k \in 0..n
       PROVE  \E place : LocationOK(g, "slab", place) /\ Read(g, w[k], place) = e
  <2>1. CASE k <= l
    <3>1. k \in 0..l
      BY <1>5, <2>1
    <3> QED
      BY <1>3, <1>6, <3>1 DEF Brings, w
  <2>2. CASE ~(k <= l)
    <3>1. k \in at..n
      BY <1>5, <2>2 DEF l
    <3> QED
      BY <1>4, <1>8, <3>1 DEF Brings, w
  <2> QED
    BY <2>1, <2>2
<1>11. /\ HasAt(w[0], JaxHome(g, e), e) /\ HasAt(w[l], CyclicHome(g, e), e)
       /\ HasAt(w[at], CyclicHome(g, e), e) /\ HasAt(w[n], JaxHome(g, e), e)
  BY <1>2, <1>6, <1>7, <1>8, <1>9, ReadHome DEF HasAt
<1>12. jax[2] = JaxHome(g, e)[1] /\ cyclic[2] = CyclicHome(g, e)[1]
  BY <1>2, ReadHome
<1>13. /\ \E route : /\ Route(p, 0, l, route)
                      /\ route[0] = JaxHome(g, e)[1] /\ route[l] = CyclicHome(g, e)[1]
       /\ \E route : /\ Route(p, at, n, route)
                      /\ route[at] = CyclicHome(g, e)[1] /\ route[n] = JaxHome(g, e)[1]
  BY <1>3, <1>4, <1>12 DEF Brings
<1> QED
  BY <1>10, <1>11, <1>13 DEF Travels, w, l, n

\* The executor's plan, with its solver call, and every entry's way through it.
LEMMA OnTheWay ==
  ASSUME RunInv, NEW e \in Entries
  PROVE  /\ Travels(geo, plan, solveAt, e)
         /\ Assembled(geo, plan, solveAt) /\ solveAt \in 1..Len(plan)
         /\ \A k \in 1..Len(plan) : plan[k].exec = "solve" => k = solveAt
<1>1. geo \in Geometries /\ plan = Plan(geo)
  BY DEF RunInv, Shapes
<1>2. GeometryOK(geo) /\ PlanOK(geo, plan)
  BY <1>1, AllPlanned, GeometryIsOK DEF Planned
<1>3. PICK at : Assembled(geo, plan, at)
  BY <1>1, <1>2, PlanAssembled
<1>4. at \in 1..Len(plan) /\ plan[at].exec = "solve" /\ DOMAIN plan = 1..Len(plan)
  BY <1>2, <1>3 DEF Assembled, SolveEntry, PlanOK
<1>5. \A k \in 1..Len(plan) : plan[k].exec = "solve" => k = at
  <2>1. PICK l \in 1..Len(plan) : \A k \in 1..Len(plan) : k # l => BatchOK(geo, plan[k])
    BY <1>2 DEF PlanOK
  <2>2. \A k \in 1..Len(plan) : plan[k].exec = "solve" => k = l
    BY <2>1 DEF BatchOK
  <2> QED
    BY <1>4, <2>2
<1>6. solveAt = at
  BY <1>4, <1>5 DEF solveAt
<1>7. e \in EntriesOf(geo)
  BY DEF Entries, EntriesOf
<1>8. Travels(geo, plan, at, e)
  BY <1>2, <1>3, <1>7, EntryTravels
<1> QED
  BY <1>3, <1>4, <1>5, <1>6, <1>8

\* A rank at the solver call or past the plan has what lockstep has.
LEMMA AtRest ==
  ASSUME RunInv, NEW r \in Ranks, NEW l, l = pos[r] - 1,
         pos[r] = solveAt \/ pos[r] = planEnd
  PROVE  mem[r] = Lockstep(geo, plan)[l].mem[r]
<1>1. HasRun(geo, plan, r, pos[r], open[r], owes[r], mem[r], scratch[r])
  BY DEF RunInv, RanksRun
<1> QED
  BY <1>1 DEF HasRun

\* At the solver call every rank has the entries of its shard of the block-cyclic
\* matrix.
LEMMA LayoutFollows == RunInv => ForwardLayout
<1> SUFFICES ASSUME RunInv, NEW r \in Ranks, pos[r] = solveAt, NEW e \in Entries,
                    CyclicHome(geo, e)[1] = r
             PROVE  mem[r][CyclicHome(geo, e)[2]] = e
  BY DEF ForwardLayout, Holds
<1>1. Travels(geo, plan, solveAt, e)
  BY OnTheWay
<1> DEFINE l == pos[r] - 1
<1>2. mem[r] = Lockstep(geo, plan)[l].mem[r]
  BY AtRest
<1>3. HasAt(Lockstep(geo, plan)[l], CyclicHome(geo, e), e)
  BY <1>1 DEF Travels
<1> QED
  BY <1>2, <1>3 DEF HasAt

\* At the end it has those of the shard it was called with.
LEMMA ReturnFollows == RunInv => RoundTrip
<1> SUFFICES ASSUME RunInv, NEW r \in Ranks, pos[r] = planEnd, NEW e \in Entries,
                    JaxHome(geo, e)[1] = r
             PROVE  mem[r][JaxHome(geo, e)[2]] = e
  BY DEF RoundTrip, Holds
<1>1. Travels(geo, plan, solveAt, e) /\ solveAt \in 1..Len(plan)
      /\ Assembled(geo, plan, solveAt)
  BY OnTheWay
<1> DEFINE l == pos[r] - 1
<1>2. mem[r] = Lockstep(geo, plan)[l].mem[r]
  BY AtRest
<1>3. l = Len(plan)
  <2>1. Len(plan) \in Nat
    BY <1>1 DEF Assembled
  <2> QED
    BY <2>1 DEF planEnd
<1> HIDE DEF l
<1>4. HasAt(Lockstep(geo, plan)[l], JaxHome(geo, e), e)
  BY <1>1, <1>3 DEF Travels
<1> QED
  BY <1>2, <1>4 DEF HasAt

\* A rank that has run the forward batches holds its shard of the block-cyclic
\* matrix where the cuSOLVERMp descriptor expects it, whatever its peers are doing
\* (ExecutePadded2DNativePlanRaw, forward).
THEOREM EntriesPlaced == Spec => []ForwardLayout
<1>1. RunInv => ForwardLayout
  BY LayoutFollows
<1> QED
  BY <1>1, RunsAsInLockstep, PTL

\* A rank that has returned holds the entries of the shard it was called with
\* (ExecutePadded2DNativePlanRaw, reverse, after the forward one and the solver).
THEOREM EntriesReturned == Spec => []RoundTrip
<1>1. RunInv => RoundTrip
  BY ReturnFollows
<1> QED
  BY <1>1, RunsAsInLockstep, PTL

(***************************************************************************)
(* One slab of a rank at a time is put aside.                              *)
(***************************************************************************)
\* Phases one after the other save and restore in turns.
LEMMA PhasesInTurns ==
  ASSUME NEW S, NEW T, NEW a \in Int, NEW b \in Int, a < b,
         \A s \in S : s.phase = a, \A s \in T : s.phase = b, InTurns(S), InTurns(T)
  PROVE  InTurns(S \cup T)
<1>1. \A s \in S, x \in T : /\ RoundBefore(RoundOf(s), RoundOf(x))
                            /\ ~RoundBefore(RoundOf(x), RoundOf(s))
  BY DEF RoundBefore, RoundOf
<1>2. ASSUME NEW s \in S, s.kind = Save
      PROVE  \E t \in S \cup T :
               /\ t.kind = Restore /\ t.from = s.from /\ RoundBefore(RoundOf(s), RoundOf(t))
               /\ \A x \in S \cup T :
                    x.kind = Save /\ x.from = s.from /\ RoundBefore(RoundOf(s), RoundOf(x))
                    => RoundBefore(RoundOf(t), RoundOf(x))
  <2>1. PICK t \in S : /\ t.kind = Restore /\ t.from = s.from
                       /\ RoundBefore(RoundOf(s), RoundOf(t))
                       /\ \A x \in S :
                            x.kind = Save /\ x.from = s.from
                            /\ RoundBefore(RoundOf(s), RoundOf(x))
                            => RoundBefore(RoundOf(t), RoundOf(x))
    BY <1>2 DEF InTurns
  <2> WITNESS t \in S \cup T
  <2> QED
    BY <1>1, <2>1
<1>3. ASSUME NEW s \in T, s.kind = Save
      PROVE  \E t \in S \cup T :
               /\ t.kind = Restore /\ t.from = s.from /\ RoundBefore(RoundOf(s), RoundOf(t))
               /\ \A x \in S \cup T :
                    x.kind = Save /\ x.from = s.from /\ RoundBefore(RoundOf(s), RoundOf(x))
                    => RoundBefore(RoundOf(t), RoundOf(x))
  <2>1. PICK t \in T : /\ t.kind = Restore /\ t.from = s.from
                       /\ RoundBefore(RoundOf(s), RoundOf(t))
                       /\ \A x \in T :
                            x.kind = Save /\ x.from = s.from
                            /\ RoundBefore(RoundOf(s), RoundOf(x))
                            => RoundBefore(RoundOf(t), RoundOf(x))
    BY <1>3 DEF InTurns
  <2> WITNESS t \in S \cup T
  <2> QED
    BY <1>1, <2>1
<1> QED
  BY <1>2, <1>3 DEF InTurns

\* In batches B[1..n] a save of rank r is followed by a restore of the rank, before
\* its next save.
Alternates(B, n, r) ==
  \A u \in 1..n : Saves(B[u], r) =>
    \E v \in (u + 1)..n : /\ Restores(B[v], r)
                          /\ \A l \in (u + 1)..n : Saves(B[l], r) => v < l

\* So it is when the batches have steps that save and restore in turns.
LEMMA BatchesAlternate ==
  ASSUME NEW S, NEW B, NEW n, NEW rd, InRounds(S, B, n, rd), InTurns(S), NEW r
  PROVE  Alternates(B, n, r)
<1>1. /\ n \in Nat
      /\ \A k \in 1..n : \A i \in DOMAIN B[k].steps :
           /\ B[k].steps[i] \in S /\ RoundOf(B[k].steps[i]) = rd[k]
           /\ B[k].steps[i].kind = B[k].kind
  BY DEF InRounds
<1>2. /\ \A k, l \in 1..n : RoundBefore(rd[k], rd[l]) <=> k < l
      /\ \A s \in S : \E k \in 1..n : /\ rd[k] = RoundOf(s)
                                      /\ \E i \in DOMAIN B[k].steps : B[k].steps[i] = s
  BY RoundPlaces
<1> SUFFICES ASSUME NEW u \in 1..n, Saves(B[u], r)
             PROVE  \E v \in (u + 1)..n : /\ Restores(B[v], r)
                                          /\ \A l \in (u + 1)..n : Saves(B[l], r) => v < l
  BY DEF Alternates
<1>3. PICK s \in S : s.kind = Save /\ s.from = r /\ RoundOf(s) = rd[u]
  <2>1. PICK i \in DOMAIN B[u].steps : B[u].steps[i].from = r
    BY DEF Saves, SendsOf
  <2> QED
    BY <1>1, <2>1 DEF Saves
<1>4. PICK t \in S : /\ t.kind = Restore /\ t.from = r /\ RoundBefore(rd[u], RoundOf(t))
                     /\ \A x \in S : x.kind = Save /\ x.from = r
                                     /\ RoundBefore(rd[u], RoundOf(x))
                                     => RoundBefore(RoundOf(t), RoundOf(x))
  BY <1>3 DEF InTurns
<1>5. PICK v \in 1..n : rd[v] = RoundOf(t) /\ \E i \in DOMAIN B[v].steps : B[v].steps[i] = t
  BY <1>2
<1>6. u < v
  BY <1>2, <1>4, <1>5
<1>7. Restores(B[v], r)
  BY <1>1, <1>4, <1>5 DEF Restores, SendsOf
<1>8. ASSUME NEW l \in (u + 1)..n, Saves(B[l], r) PROVE v < l
  <2>1. l \in 1..n /\ u < l
    BY <1>1
  <2>2. PICK i \in DOMAIN B[l].steps : B[l].steps[i].from = r
    BY <1>8 DEF Saves, SendsOf
  <2>3. PICK x \in S : x.kind = Save /\ x.from = r /\ RoundOf(x) = rd[l]
    BY <1>1, <1>8, <2>1, <2>2 DEF Saves
  <2>4. RoundBefore(rd[u], rd[l])
    BY <1>2, <2>1
  <2>5. RoundBefore(rd[v], rd[l])
    BY <1>4, <1>5, <2>3, <2>4
  <2> QED
    BY <1>2, <2>1, <2>5
<1>9. v \in (u + 1)..n
  BY <1>1, <1>6
<1> QED
  BY <1>7, <1>8, <1>9

\* The slab plans have such steps.
LEMMA SlabAlternates ==
  ASSUME NEW g, GeometryOK(g), NEW r
  PROVE  /\ Alternates(SlabThere(g), Len(SlabThere(g)), r)
         /\ Alternates(SlabBack(g), Len(SlabBack(g)), r)
<1>1. ASSUME NEW l, NEW m, NEW p, p = Tagged("slab", BatchNative2DSteps(l \o m)),
             PhaseList(StepsIn(l), 0, l), InTurns(StepsIn(l)),
             PhaseList(StepsIn(m), 1, m), InTurns(StepsIn(m))
      PROVE  Alternates(p, Len(p), r)
  <2> DEFINE S == StepsIn(l)
             T == StepsIn(m)
  <2>1. (\A s \in S : s.phase = 0) /\ (\A s \in T : s.phase = 1)
    BY <1>1 DEF PhaseList
  <2>2. InTurns(S) /\ InTurns(T) /\ PhaseList(S, 0, l) /\ PhaseList(T, 1, m) /\ 0 # 1
    BY <1>1
  <2> HIDE DEF S, T
  <2>3. InTurns(S \cup T)
    BY <2>1, <2>2, PhasesInTurns
  <2>4. PICK rd : InRounds(S \cup T, p, Len(p), rd)
    BY <1>1, <2>2, PhasesBatched
  <2> QED
    BY <2>3, <2>4, BatchesAlternate
<1> DEFINE lc == ColumnPhase(g, 0, BuildColumnSlabSlotMap(g))
           lr == RowPhase(g, 1, BuildRowSlabSlotMap(g))
           br == RowPhase(g, 0, InvertSlotMap(BuildRowSlabSlotMap(g)))
           bc == ColumnPhase(g, 1, InvertSlotMap(BuildColumnSlabSlotMap(g)))
<1>2. /\ MakesCyclic(g, "cols", 0, lc) /\ MakesCyclic(g, "rows", 1, lr)
      /\ UndoesCyclic(g, "rows", 0, br) /\ UndoesCyclic(g, "cols", 1, bc)
  BY SlabPhases
<1>3. /\ SlabThere(g) = Tagged("slab", BatchNative2DSteps(lc \o lr))
      /\ SlabBack(g) = Tagged("slab", BatchNative2DSteps(br \o bc))
  BY DEF SlabThere, SlabBack, BuildSlabNative2DSteps
<1> HIDE DEF lc, lr, br, bc
<1>4. /\ PhaseList(StepsIn(lc), 0, lc) /\ InTurns(StepsIn(lc))
      /\ PhaseList(StepsIn(lr), 1, lr) /\ InTurns(StepsIn(lr))
  BY <1>2 DEF MakesCyclic
<1>5. /\ PhaseList(StepsIn(br), 0, br) /\ InTurns(StepsIn(br))
      /\ PhaseList(StepsIn(bc), 1, bc) /\ InTurns(StepsIn(bc))
  BY <1>2 DEF UndoesCyclic
<1>6. Alternates(SlabThere(g), Len(SlabThere(g)), r)
  BY <1>1, <1>3, <1>4
<1>7. Alternates(SlabBack(g), Len(SlabBack(g)), r)
  BY <1>1, <1>3, <1>5
<1> QED
  BY <1>6, <1>7

\* An entry of a plan that may fill the saved slot of rank r.
FillsSlot(b, r) == b.exec = "edge" \/ Saves(b, r)

\* After a save of a part of the slab executor, and before the next entry that may
\* fill the slot, there is a restore.
LEMMA PartInTurns ==
  ASSUME NEW g, NEW p, NEW o, NEW q, PartOf(p, o, q), RunsOn(g, "slab", q), NEW r,
         Alternates(q, Len(q), r), NEW u \in 1..Len(q), NEW k \in 1..Len(p), o + u < k,
         Saves(p[o + u], r), FillsSlot(p[k], r)
  PROVE  \E j \in (o + u + 1)..(k - 1) : Restores(p[j], r)
<1> DEFINE n == Len(q)
<1>1. /\ o \in Nat /\ n \in Nat /\ Len(p) \in Nat /\ o + n <= Len(p)
      /\ \A l \in 1..n : p[o + l] = q[l] /\ q[l].exec = "slab"
  BY DEF PartOf, RunsOn
<1>2. PICK v \in (u + 1)..n : /\ Restores(q[v], r)
                              /\ \A l \in (u + 1)..n : Saves(q[l], r) => v < l
  BY <1>1 DEF Alternates
<1>3. v \in 1..n /\ u \in Nat /\ v \in Nat /\ k \in Nat /\ u < v /\ v <= n
  BY <1>1, <1>2
<1>4. Restores(p[o + v], r)
  BY <1>1, <1>2, <1>3
<1>5. o + v < k
  <2>1. CASE k <= o + n
    <3> DEFINE l == k - o
    <3>1. l \in 1..n /\ l \in (u + 1)..n /\ k = o + l
      BY <1>1, <1>3, <2>1
    <3> HIDE DEF l
    <3>2. p[k] = q[l] /\ q[l].exec = "slab"
      BY <1>1, <3>1
    <3>3. Saves(q[l], r)
      BY <3>2 DEF FillsSlot
    <3>4. v < l
      BY <1>2, <3>1, <3>3
    <3> QED
      BY <1>1, <1>3, <3>1, <3>4
  <2>2. CASE o + n < k
    BY <1>1, <1>3, <2>2
  <2> QED
    BY <1>1, <1>3, <2>1, <2>2
<1>6. o + v \in (o + u + 1)..(k - 1)
  BY <1>1, <1>3, <1>5
<1> QED
  BY <1>4, <1>6

\* So it is in the whole plan: only the parts of the slab executor save.
LEMMA PlanInTurns ==
  ASSUME NEW g, GeometryOK(g), NEW p, NEW at, Assembled(g, p, at), NEW r,
         NEW i \in 1..Len(p), NEW k \in 1..Len(p), i < k, Saves(p[i], r), FillsSlot(p[k], r)
  PROVE  \E j \in (i + 1)..(k - 1) : Restores(p[j], r)
<1> DEFINE a == Len(EdgeThere(g))
           b == Len(SlabThere(g))
           c == Len(SlabBack(g))
           d == Len(EdgeBack(g))
<1>1. /\ RunsOn(g, "edge", EdgeThere(g)) /\ RunsOn(g, "slab", SlabThere(g))
      /\ RunsOn(g, "slab", SlabBack(g)) /\ RunsOn(g, "edge", EdgeBack(g))
  BY PartsRun
<1>2. /\ PartOf(p, 0, EdgeThere(g)) /\ PartOf(p, a, SlabThere(g))
      /\ PartOf(p, at, SlabBack(g)) /\ PartOf(p, at + c, EdgeBack(g))
      /\ Len(p) \in Nat /\ p[at] = SolveEntry
  BY DEF Assembled
<1>3. /\ at = (a + b) + 1 /\ Len(p) = (at + c) + d
      /\ a \in Nat /\ b \in Nat /\ c \in Nat /\ d \in Nat
  BY <1>1 DEF Assembled, RunsOn, IsList
<1>4. Alternates(SlabThere(g), b, r) /\ Alternates(SlabBack(g), c, r)
  BY SlabAlternates
<1>5. \A q : RunsOn(g, "edge", q) => \A l \in 1..Len(q) : q[l].kind = Move
  BY DEF RunsOn, BatchOK
<1>6. p[i].kind = Save
  BY DEF Saves
<1>7. ~(i \in 1..a)
  <2>1. ASSUME i \in 1..a PROVE FALSE
    <3>1. 0 + i = i
      BY <2>1
    <3>2. p[i] = EdgeThere(g)[i]
      BY <1>2, <2>1, <3>1 DEF PartOf
    <3> QED
      BY <1>1, <1>5, <1>6, <2>1, <3>2 DEF Move, Save
  <2> QED
    BY <2>1
<1>8. i # at
  BY <1>2, <1>6 DEF SolveEntry, Move, Save
<1>9. ASSUME NEW l \in 1..d PROVE i # at + c + l
  <2>1. p[(at + c) + l] = EdgeBack(g)[l]
    BY <1>2 DEF PartOf
  <2> QED
    BY <1>1, <1>5, <1>6, <2>1 DEF Move, Save
<1> HIDE DEF a, b, c, d
<1>10. (\E u \in 1..b : i = a + u) \/ (\E u \in 1..c : i = at + u)
  <2>1. CASE i <= a + b
    <3>1. i - a \in 1..b /\ i = a + (i - a)
      BY <1>2, <1>3, <1>7, <2>1
    <3> QED
      BY <3>1
  <2>2. CASE a + b < i /\ i <= at + c
    <3>1. i - at \in 1..c /\ i = at + (i - at)
      BY <1>2, <1>3, <1>8, <2>2
    <3> QED
      BY <3>1
  <2>3. CASE at + c < i
    <3>1. i - (at + c) \in 1..d /\ i = at + c + (i - (at + c))
      BY <1>2, <1>3, <2>3
    <3> QED
      BY <1>9, <3>1
  <2> QED
    BY <1>2, <1>3, <2>1, <2>2, <2>3
<1>11. CASE \E u \in 1..b : i = a + u
  <2>1. PICK u \in 1..b : i = a + u
    BY <1>11
  <2> QED
    BY <1>1, <1>2, <1>4, <2>1, PartInTurns DEF b
<1>12. CASE \E u \in 1..c : i = at + u
  <2>1. PICK u \in 1..c : i = at + u
    BY <1>12
  <2> QED
    BY <1>1, <1>2, <1>4, <2>1, PartInTurns DEF c
<1> QED
  BY <1>10, <1>11, <1>12

\* A rank that has a slab put aside is at no entry that may fill the slot.
LEMMA AsideFollows ==
  ASSUME RunInv, [Next]_vars, NEW r \in Ranks, SlabAside(r),
         NEW k \in 0..(RequiredCyclicSlotElements(geo) - 1)
  PROVE  scratch'[r][SavedSlot(geo) + k] = scratch[r][SavedSlot(geo) + k]
<1>1. Planned /\ Spares(r)
  BY AllPlanned, SlabFollows
<1>2. /\ GeometryOK(geo) /\ plan = Plan(geo) /\ DOMAIN plan = 1..Len(plan)
      /\ Len(plan) \in Nat /\ pos[r] \in 1..(Len(plan) + 1)
  BY <1>1, OfRank DEF RunInv, Shapes
<1>3. PICK at : Assembled(geo, plan, at)
  BY <1>2, PlanAssembled
<1>4. PICK s \in 1..(pos[r] - 1) :
        /\ Saves(plan[s], r)
        /\ \A j \in (s + 1)..(pos[r] - 1) : ~Restores(plan[j], r)
  BY DEF SlabAside
<1>5. ~MayFill(r)
  <2> SUFFICES ASSUME MayFill(r) PROVE FALSE
    OBVIOUS
  <2>1. pos[r] \in 1..Len(plan) /\ FillsSlot(plan[pos[r]], r)
    BY <1>2 DEF MayFill, AtBatch, Batch, FillsSlot
  <2>2. s \in 1..Len(plan) /\ s < pos[r]
    BY <1>2
  <2>3. \E j \in (s + 1)..(pos[r] - 1) : Restores(plan[j], r)
    BY <1>2, <1>3, <1>4, <2>1, <2>2, PlanInTurns
  <2> QED
    BY <1>4, <2>3
<1> QED
  BY <1>1, <1>5 DEF Spares

\* A slab that a rank has put aside is in the saved slot until the rank's restore
\* has sent it back: no step of any rank writes the slot meanwhile, not even the
\* save of another cycle the rank is in (ExecuteSlabNative2DSteps over the steps of
\* AppendAxisGroupSerialCycles).
THEOREM SavedSlabKept == Spec => SavedSlabPreserved
<1>1. RunInv /\ [Next]_vars
        => [\A r \in Ranks : SlabAside(r) =>
              \A k \in 0..(RequiredCyclicSlotElements(geo) - 1) :
                scratch'[r][SavedSlot(geo) + k] = scratch[r][SavedSlot(geo) + k]]_vars
  BY AsideFollows
<1> QED
  BY <1>1, RunsAsInLockstep, PTL DEF Spec, SavedSlabPreserved

(***************************************************************************)
(* No entry is ever nowhere.                                               *)
(***************************************************************************)
\* Memories m and s of a rank have e.
Keeps(m, s, e) == e \in Range(m) \/ e \in Range(s)

\* The memories of some rank, or a message, have entry e.
Somewhere(e) ==
  \/ \E r \in Ranks : Keeps(mem[r], scratch[r], e)
  \/ \E s, t \in Ranks : \E i \in DOMAIN chan[<<s, t>>] : e \in Range(chan[<<s, t>>][i].data)

\* In lockstep rank r has e after k entries, which it has not all run.
Awaits(k, r, e) ==
  /\ r \in Ranks /\ pos[r] <= k
  /\ Keeps(Lockstep(geo, plan)[k].mem[r], Lockstep(geo, plan)[k].scratch[r], e)

\* What is read is of the array or undefined.
LEMMA PeekHas ==
  ASSUME NEW a, NEW k, NEW e \in Nat, Peek(a, k) = e
  PROVE  e \in Range(a)
  BY DEF Peek, Junk, Range

\* What is packed was there.
LEMMA PackedHas ==
  ASSUME NEW g, NEW w, NEW b, NEW r, NEW e \in Nat, e \in Range(PackedIn(g, w, b, r))
  PROVE  Keeps(w.mem[r], w.scratch[r], e)
<1>1. CASE SendsOf(r, b) # {} /\ b.kind # Restore
  <2> DEFINE s == w.scratch[r]
             m == w.mem[r]
             rect == SendStep(r, b).source
             base == PackBase(g, b)
  <2>1. e \in Range(PackRect(g, rect, m, s, base))
    BY <1>1 DEF PackedIn
  <2> HIDE DEF s, m, rect, base
  <2>2. PICK k \in DOMAIN s : e = PackRect(g, rect, m, s, base)[k]
    BY <2>1 DEF Range, PackRect
  <2>3. \/ e = s[k]
        \/ e = Peek(m, Offset(g, rect.row + ((k - base) % rect.height),
                                 rect.col + ((k - base) \div rect.height)))
    BY <2>2 DEF PackRect
  <2>4. e \in Range(m) \/ e \in Range(s)
    BY <2>3, PeekHas DEF Range
  <2> QED
    BY <2>4 DEF Keeps, m, s
<1>2. CASE ~(SendsOf(r, b) # {} /\ b.kind # Restore)
  BY <1>2 DEF PackedIn, Keeps
<1> QED
  BY <1>1, <1>2

\* What is sent was packed.
LEMMA PayloadHas ==
  ASSUME NEW g, NEW w, NEW b, NEW r, NEW e \in Nat, e \in Range(PayloadOf(g, w, b, r))
  PROVE  e \in Range(PackedIn(g, w, b, r))
<1>1. \E k : e = Peek(PackedIn(g, w, b, r), k)
  BY DEF Range, PayloadOf
<1> QED
  BY <1>1, PeekHas

\* What a batch leaves in scratch was packed or sent by another rank,
LEMMA ScratchHas ==
  ASSUME NEW g, NEW w, NEW b, NEW r, NEW e \in Nat, e \in Range(ScratchAfter(g, w, b, r))
  PROVE  \/ e \in Range(PackedIn(g, w, b, r))
         \/ Receives(r, b) /\ e \in Range(PayloadOf(g, w, b, RecvStep(r, b).from))
<1>1. CASE Receives(r, b)
  <2> DEFINE a == PackedIn(g, w, b, r)
             d == PayloadOf(g, w, b, RecvStep(r, b).from)
  <2>1. e \in Range(Landed(g, a, b, d))
    BY <1>1 DEF ScratchAfter
  <2> HIDE DEF a, d
  <2>2. e \in Range(a) \/ e \in Range(d)
    BY <2>1 DEF Landed, Range
  <2> QED
    BY <1>1, <2>2 DEF a, d
<1>2. CASE ~Receives(r, b)
  BY <1>2 DEF ScratchAfter
<1> QED
  BY <1>1, <1>2

\* and what it leaves in the matrix was there or came through scratch.
LEMMA MatrixHas ==
  ASSUME NEW g, NEW w, NEW b, NEW r, NEW e \in Nat, e \in Range(MemAfter(g, w, b, r))
  PROVE  e \in Range(w.mem[r]) \/ e \in Range(ScratchAfter(g, w, b, r))
<1>1. CASE RecvsOf(r, b) = {}
  BY <1>1 DEF MemAfter
<1>2. CASE RecvsOf(r, b) # {}
  <2> DEFINE m == w.mem[r]
             s == ScratchAfter(g, w, b, r)
             rect == RecvStep(r, b).target
             base == IF IsLocal(r, b) THEN SendBase(g, b) ELSE RecvBase(g, b)
  <2>1. e \in Range(UnpackRect(g, rect, s, base, m))
    BY <1>2 DEF MemAfter
  <2> HIDE DEF m, s, rect, base
  <2>2. PICK o \in DOMAIN m : e = UnpackRect(g, rect, s, base, m)[o]
    BY <2>1 DEF Range, UnpackRect
  <2>3. e = m[o] \/ \E k : e = Peek(s, k)
    BY <2>2 DEF UnpackRect
  <2>4. e \in Range(m) \/ e \in Range(s)
    BY <2>3, PeekHas DEF Range
  <2> QED
    BY <2>4 DEF m, s
<1> QED
  BY <1>1, <1>2

\* The solver brings nothing in.
LEMMA SolvedHas ==
  ASSUME NEW g, NEW m, NEW r, NEW e \in Nat, e \in Range(SolvedMem(g, m, r))
  PROVE  e \in Range(m)
<1>1. PICK o \in DOMAIN m : e = SolvedMem(g, m, r)[o]
  BY DEF Range, SolvedMem
<1>2. e = m[o]
  BY <1>1 DEF SolvedMem, Junk
<1> QED
  BY <1>2 DEF Range

\* What a message has is somewhere.
LEMMA FlyingHas ==
  ASSUME RunInv, Planned, NEW s \in Ranks, NEW t \in Ranks, NEW k \in 1..Len(plan), NEW e,
         Carries(plan[k], s, t), Sent(Standing(s), k), ~Taken(Standing(t), k),
         e \in Range(PayloadOf(geo, Lockstep(geo, plan)[k - 1], plan[k], s))
  PROVE  Somewhere(e)
<1> DEFINE q == chan[<<s, t>>]
           I == Flying(plan, s, t, Standing(s), Standing(t))
           S == {MessageAt(geo, plan, s, l) : l \in I}
<1>1. Queue(geo, plan, s, I, q)
  BY DEF RunInv, PairsRun, PairOK
<1>2. k \in I
  BY OfRank DEF Flying
<1>3. q \in Seq(S)
  BY <1>1 DEF Queue
<1>4. DOMAIN q = 1..Len(q)
  <2> HIDE DEF S
  <2> QED
    BY <1>3, LenProperties
<1> HIDE DEF I, q, S
<1>5. PICK i \in 1..Len(q) : q[i].at = k
  BY <1>1, <1>2 DEF Queue
<1>6. q[i] = MessageAt(geo, plan, s, q[i].at)
  BY <1>1, QueueAt
<1>7. q[i].data = PayloadOf(geo, Lockstep(geo, plan)[k - 1], plan[k], s)
  BY <1>5, <1>6 DEF MessageAt
<1> QED
  BY <1>4, <1>5, <1>7 DEF Somewhere, q

\* What a rank has after a batch it has not run, it has, or had before the batch,
\* or is to receive.
LEMMA BackAtBatch ==
  ASSUME RunInv, Planned, NEW k \in 1..Len(plan), NEW r, NEW e \in Nat, NEW l, l = k - 1,
         plan[k].exec # "solve", Awaits(k, r, e)
  PROVE  \/ Somewhere(e)
         \/ Awaits(l, r, e)
         \/ /\ Receives(r, plan[k]) /\ ~Taken(Standing(r), k)
            /\ e \in Range(PayloadOf(geo, Lockstep(geo, plan)[l], plan[k],
                                     RecvStep(r, plan[k]).from))
<1> DEFINE w == Lockstep(geo, plan)[l]
           b == plan[k]
           packed == PackedIn(geo, w, b, r)
           after == ScratchAfter(geo, w, b, r)
           data == PayloadOf(geo, w, b, RecvStep(r, b).from)
<1>1. r \in Ranks /\ pos[r] <= k
      /\ Keeps(Lockstep(geo, plan)[k].mem[r], Lockstep(geo, plan)[k].scratch[r], e)
  BY DEF Awaits
<1>2. /\ r \in RanksOf(geo) /\ PlanOK(geo, plan) /\ Len(plan) \in Nat
      /\ HasRun(geo, plan, r, pos[r], open[r], owes[r], mem[r], scratch[r])
      /\ pos[r] \in 1..(Len(plan) + 1) /\ open[r] \in BOOLEAN
  BY <1>1, OfRank DEF RankInv
<1>3. /\ Lockstep(geo, plan)[k].mem[r] = MemAfter(geo, w, b, r)
      /\ Lockstep(geo, plan)[k].scratch[r] = after
  BY <1>2, AfterBatch
<1>4. e \in Range(w.mem[r]) \/ e \in Range(after)
  BY <1>1, <1>3, MatrixHas DEF Keeps
<1>5. e \in Range(after) => e \in Range(packed) \/ (Receives(r, b) /\ e \in Range(data))
  BY ScratchHas
<1>6. e \in Range(packed) => Keeps(w.mem[r], w.scratch[r], e)
  BY PackedHas
<1>7. CASE pos[r] < k
  <2>1. ~Taken(Standing(r), k)
    BY <1>2, <1>7 DEF Taken, Past, Standing, At
  <2>2. pos[r] <= l
    BY <1>2, <1>7
  <2>3. Keeps(w.mem[r], w.scratch[r], e) => Awaits(l, r, e)
    BY <1>1, <2>2 DEF Awaits
  <2> QED
    BY <1>4, <1>5, <1>6, <2>1, <2>3 DEF Keeps
<1>8. CASE pos[r] = k /\ ~open[r]
  <2>1. mem[r] = w.mem[r] /\ scratch[r] = w.scratch[r]
    BY <1>2, <1>8 DEF HasRun
  <2>2. ~Taken(Standing(r), k)
    BY <1>2, <1>8 DEF Taken, Past, Standing, At
  <2>3. Keeps(w.mem[r], w.scratch[r], e) => Somewhere(e)
    BY <1>1, <2>1 DEF Somewhere
  <2> QED
    BY <1>4, <1>5, <1>6, <2>2, <2>3 DEF Keeps
<1>9. CASE pos[r] = k /\ open[r]
  <2>1. /\ mem[r] = w.mem[r]
        /\ scratch[r] = IF Receives(r, b) /\ "recv" \notin owes[r] THEN after ELSE packed
    BY <1>2, <1>9 DEF HasRun
  <2>2. e \in Range(mem[r]) \/ e \in Range(scratch[r]) => Somewhere(e)
    BY <1>1 DEF Somewhere, Keeps
  <2>3. CASE Receives(r, b) /\ "recv" \notin owes[r]
    BY <1>4, <2>1, <2>2, <2>3
  <2>4. CASE Receives(r, b) /\ "recv" \in owes[r]
    <3>1. ~Taken(Standing(r), k)
      BY <1>2, <1>9, <2>4 DEF Taken, Past, Standing, At
    <3> QED
      BY <1>4, <1>5, <2>1, <2>2, <2>4, <3>1
  <2>5. CASE ~Receives(r, b)
    BY <1>4, <1>5, <2>1, <2>2, <2>5
  <2> QED
    BY <2>3, <2>4, <2>5
<1> QED
  BY <1>1, <1>2, <1>7, <1>8, <1>9

\* What a rank is to receive is in flight, or its sender has it, or had it before.
LEMMA BackAtPeer ==
  ASSUME RunInv, Planned, NEW k \in 1..Len(plan), NEW r \in Ranks, NEW e \in Nat, NEW l, l = k - 1,
         plan[k].exec # "solve", Receives(r, plan[k]), ~Taken(Standing(r), k),
         e \in Range(PayloadOf(geo, Lockstep(geo, plan)[l], plan[k], RecvStep(r, plan[k]).from))
  PROVE  Somewhere(e) \/ \E s : Awaits(l, s, e)
<1> DEFINE w == Lockstep(geo, plan)[l]
           b == plan[k]
           s == RecvStep(r, b).from
<1>1. r \in RanksOf(geo) /\ Ranks = RanksOf(geo) /\ PlanOK(geo, plan) /\ Len(plan) \in Nat
      /\ GeometryOK(geo)
  BY OfRank
<1>2. BatchOK(geo, b) /\ RecvsOf(r, b) # {} /\ ~IsLocal(r, b)
  BY <1>1, EntryIs DEF Receives
<1>3. s \in RanksOf(geo)
  BY <1>1, <1>2, Partner
<1>4. Carries(b, s, r)
  <2> HIDE DEF b, s
  <2>1. RecvStep(r, b).from = s
    BY DEF s
  <2> QED
    BY <1>1, <1>2, <1>3, <2>1, CarriesIs
<1>5. /\ RankInv(geo, plan, s, pos[s], open[s], owes[s])
      /\ HasRun(geo, plan, s, pos[s], open[s], owes[s], mem[s], scratch[s])
      /\ pos[s] \in 1..(Len(plan) + 1) /\ open[s] \in BOOLEAN /\ s \in Ranks
  BY <1>1, <1>3, OfRank DEF RankInv
<1>6. e \in Range(PayloadOf(geo, w, b, s))
  OBVIOUS
<1> HIDE DEF s
<1>7. CASE Sent(Standing(s), k)
  BY <1>4, <1>5, <1>6, <1>7, FlyingHas
<1>8. CASE ~Sent(Standing(s), k)
  <2>1. Keeps(w.mem[s], w.scratch[s], e)
    BY <1>6, PayloadHas, PackedHas
  <2>2. ~(pos[s] > k) /\ (pos[s] = k /\ open[s] => "send" \in owes[s])
    BY <1>8 DEF Sent, Past, Standing, At
  <2>3. CASE pos[s] < k
    <3>1. pos[s] <= l
      BY <1>5, <2>3
    <3> QED
      BY <1>5, <2>1, <3>1 DEF Awaits
  <2>4. CASE pos[s] = k /\ ~open[s]
    <3>1. mem[s] = w.mem[s] /\ scratch[s] = w.scratch[s]
      BY <1>5, <2>4 DEF HasRun
    <3> QED
      BY <1>5, <2>1, <3>1 DEF Somewhere
  <2>5. CASE pos[s] = k /\ open[s] /\ "send" \in owes[s]
    <3>1. open[s] = TRUE
      BY <1>5, <2>5
    <3>2. MaySend(geo, plan, s, k, owes[s], mem[s], scratch[s])
      <4>1. /\ RankInv(geo, plan, s, pos[s], TRUE, owes[s])
            /\ HasRun(geo, plan, s, pos[s], TRUE, owes[s], mem[s], scratch[s])
        BY <1>5, <3>1, Zenon
      <4> QED
        BY <1>1, <1>3, <2>5, <4>1 DEF MaySend
    <3>3. SentFrom(geo, s, plan[k], scratch[s]) = PayloadOf(geo, Lockstep(geo, plan)[k - 1], plan[k], s)
      BY <3>2, SendsPayload
    <3>4. e \in Range(SentFrom(geo, s, b, scratch[s]))
      BY <1>6, <3>3
    <3>5. \E i : e = Peek(scratch[s], i)
      BY <3>4 DEF SentFrom, Range
    <3>6. e \in Range(scratch[s])
      BY <3>5, PeekHas
    <3> QED
      BY <1>5, <3>6 DEF Somewhere, Keeps
  <2> QED
    BY <1>5, <2>2, <2>3, <2>4, <2>5
<1> QED
  BY <1>7, <1>8

\* At the solver call.
LEMMA BackAtSolve ==
  ASSUME RunInv, Planned, NEW k \in 1..Len(plan), NEW r, NEW e \in Nat, NEW l, l = k - 1,
         plan[k].exec = "solve", Awaits(k, r, e)
  PROVE  Somewhere(e) \/ Awaits(l, r, e)
<1> DEFINE w == Lockstep(geo, plan)[l]
<1>1. r \in Ranks /\ pos[r] <= k
      /\ Keeps(Lockstep(geo, plan)[k].mem[r], Lockstep(geo, plan)[k].scratch[r], e)
  BY DEF Awaits
<1>2. /\ r \in RanksOf(geo) /\ PlanOK(geo, plan) /\ Len(plan) \in Nat
      /\ RankInv(geo, plan, r, pos[r], open[r], owes[r])
      /\ HasRun(geo, plan, r, pos[r], open[r], owes[r], mem[r], scratch[r])
      /\ pos[r] \in 1..(Len(plan) + 1)
  BY <1>1, OfRank
<1>3. Lockstep(geo, plan)[k] = Passed(geo, w, plan[k])
  BY <1>2, LockstepIs
<1>4. /\ Lockstep(geo, plan)[k].mem[r] = SolvedMem(geo, w.mem[r], r)
      /\ Lockstep(geo, plan)[k].scratch[r] = w.scratch[r]
  BY <1>2, <1>3 DEF Passed
<1>5. Keeps(w.mem[r], w.scratch[r], e)
  BY <1>1, <1>4, SolvedHas DEF Keeps
<1>6. CASE pos[r] < k
  <2>1. pos[r] <= l
    BY <1>2, <1>6
  <2> QED
    BY <1>1, <1>5, <2>1 DEF Awaits
<1>7. CASE pos[r] = k
  <2>1. ~open[r]
    BY <1>2, <1>7 DEF RankInv, Joins
  <2>2. mem[r] = w.mem[r] /\ scratch[r] = w.scratch[r]
    BY <1>2, <1>7, <2>1 DEF HasRun
  <2> QED
    BY <1>1, <1>5, <2>2 DEF Somewhere
<1> QED
  BY <1>1, <1>2, <1>6, <1>7

\* So what a rank awaits is somewhere.
LEMMA AwaitedIs ==
  ASSUME RunInv, Planned, NEW e \in Nat, NEW k \in 0..Len(plan), NEW r, Awaits(k, r, e)
  PROVE  Somewhere(e)
<1> DEFINE T == {n \in Nat : n <= Len(plan) /\ (\E s : Awaits(n, s, e)) => Somewhere(e)}
<1>1. r \in Ranks
  BY DEF Awaits
<1>2. Len(plan) \in Nat /\ \A s \in Ranks : pos[s] \in 1..(Len(plan) + 1)
  BY <1>1, OfRank
<1>3. 0 \in T
  BY <1>2 DEF Awaits
<1>4. ASSUME NEW n \in Nat, n \in T PROVE n + 1 \in T
  <2> DEFINE m == n + 1
  <2> SUFFICES ASSUME m <= Len(plan), NEW s, Awaits(m, s, e) PROVE Somewhere(e)
    OBVIOUS
  <2>1. m \in 1..Len(plan) /\ n = m - 1 /\ n <= Len(plan)
    BY <1>2
  <2>2. s \in Ranks
    BY DEF Awaits
  <2> HIDE DEF m
  <2>3. Somewhere(e) \/ \E t : Awaits(n, t, e)
    <3>1. CASE plan[m].exec = "solve"
      BY <2>1, <3>1, BackAtSolve
    <3>2. CASE plan[m].exec # "solve"
      BY <2>1, <2>2, <3>2, BackAtBatch, BackAtPeer
    <3> QED
      BY <3>1, <3>2
  <2> QED
    BY <1>4, <2>1, <2>3
<1>5. Nat \subseteq T
  <2> HIDE DEF T
  <2> QED
    BY <1>3, <1>4, SetInduction
<1> QED
  BY <1>2, <1>5

\* What has a place in lockstep, a rank has.
LEMMA PlacedKept ==
  ASSUME NEW g, NEW w \in Memories(g), NEW place, NEW e,
         GeometryOK(g), LocationOK(g, "slab", place), Read(g, w, place) = e
  PROVE  \E r \in RanksOf(g) : Keeps(w.mem[r], w.scratch[r], e)
<1>1. CASE MatrixPlace(g, place)
  <2>1. PICK r \in RanksOf(g), i \in 0..(g.rows - 1), j \in 0..(g.cols - 1) :
          place = InMatrix(r, i, j)
    BY <1>1 DEF MatrixPlace
  <2>2. Read(g, w, place) = w.mem[r][Offset(g, i, j)]
    BY <2>1 DEF Read, InMatrix
  <2>3. Offset(g, i, j) \in DOMAIN w.mem[r]
    <3>1. DOMAIN w.mem[r] = LocalCells(g)
      BY RankMemories
    <3>2. Offset(g, i, j) \in LocalCells(g)
      BY OffsetIs
    <3> QED
      BY <3>1, <3>2
  <2> QED
    BY <2>2, <2>3 DEF Keeps, Range
<1>2. CASE SavedPlace(g, place)
  <2>1. PICK r \in RanksOf(g), k \in 0..(RequiredCyclicSlotElements(g) - 1) :
          place = InSlot(r, k)
    BY <1>2 DEF SavedPlace
  <2>2. Read(g, w, place) = w.scratch[r][k]
    BY <2>1 DEF Read, InSlot
  <2>3. k \in DOMAIN w.scratch[r]
    <3>1. DOMAIN w.scratch[r] = ScratchCells(g)
      BY RankMemories
    <3>2. k \in ScratchCells(g)
      BY Slots DEF ScratchCells
    <3> QED
      BY <3>1, <3>2
  <2> QED
    BY <2>2, <2>3 DEF Keeps, Range
<1> QED
  BY <1>1, <1>2 DEF LocationOK

\* Every entry is somewhere.
LEMMA NeverLostFollows == RunInv => EntryNeverLost
<1> DEFINE n == Len(plan)
           w == Lockstep(geo, plan)
           kept == UNION {Range(mem[r]) \cup Range(scratch[r]) : r \in Ranks}
           sent == UNION {UNION {Range(chan[p][i].data) : i \in DOMAIN chan[p]} :
                          p \in DOMAIN chan}
<1>0. EntryNeverLost <=> Entries \subseteq kept \cup sent
  BY DEF EntryNeverLost
<1> SUFFICES ASSUME RunInv, NEW e \in Entries PROVE e \in kept \cup sent
  <2> HIDE DEF kept, sent
  <2> QED
    BY <1>0
<1>1. Planned
  BY AllPlanned
<1>2. geo \in Geometries /\ plan = Plan(geo) /\ DOMAIN chan = Ranks \X Ranks
  BY DEF RunInv, Shapes
<1>3. GeometryOK(geo) /\ PlanOK(geo, plan) /\ n \in Nat /\ Ranks = RanksOf(geo)
  <2>1. GeometryOK(geo) /\ PlanOK(geo, plan)
    BY <1>1, <1>2, GeometryIsOK DEF Planned
  <2> QED
    BY <2>1 DEF PlanOK, Ranks, RanksOf
<1>4. e \in Nat
  BY DEF Entries
<1>5. PICK place : LocationOK(geo, "slab", place) /\ Read(geo, w[n], place) = e
  <2>1. Travels(geo, plan, solveAt, e)
    BY OnTheWay
  <2>2. n \in 0..n
    BY <1>3
  <2> QED
    BY <2>1, <2>2 DEF Travels
<1>6. PICK r \in Ranks : Keeps(w[n].mem[r], w[n].scratch[r], e)
  <2>1. w[n] \in Memories(geo)
    <3>1. n \in 0..n
      BY <1>3
    <3> QED
      BY <1>3, <3>1, LockstepIs
  <2> QED
    BY <1>3, <1>5, <2>1, PlacedKept
<1>7. Somewhere(e)
  <2>1. /\ RankInv(geo, plan, r, pos[r], open[r], owes[r])
        /\ HasRun(geo, plan, r, pos[r], open[r], owes[r], mem[r], scratch[r])
        /\ pos[r] \in 1..(n + 1)
    BY <1>1, OfRank
  <2>2. CASE pos[r] <= n
    <3>1. Awaits(n, r, e)
      BY <1>6, <2>2 DEF Awaits
    <3>2. n \in 0..n
      BY <1>3
    <3> QED
      BY <1>1, <1>4, <3>1, <3>2, AwaitedIs
  <2>3. CASE pos[r] = n + 1
    <3>1. ~open[r]
      BY <2>1, <2>3 DEF RankInv
    <3>2. pos[r] - 1 = n
      BY <1>3, <2>3
    <3>3. mem[r] = w[n].mem[r] /\ scratch[r] = w[n].scratch[r]
      BY <2>1, <3>1, <3>2 DEF HasRun
    <3> QED
      BY <1>6, <3>3 DEF Somewhere
  <2> QED
    BY <1>3, <2>1, <2>2, <2>3
<1>8. ASSUME NEW s \in Ranks, Keeps(mem[s], scratch[s], e)
      PROVE  e \in kept
  BY <1>8 DEF Keeps
<1>9. ASSUME NEW s \in Ranks, NEW t \in Ranks, NEW i \in DOMAIN chan[<<s, t>>],
             e \in Range(chan[<<s, t>>][i].data)
      PROVE  e \in sent
  <2> DEFINE p == <<s, t>>
  <2>1. p \in DOMAIN chan
    BY <1>2
  <2> HIDE DEF p
  <2>2. i \in DOMAIN chan[p] /\ e \in Range(chan[p][i].data)
    BY <1>9 DEF p
  <2>3. e \in UNION {Range(chan[p][j].data) : j \in DOMAIN chan[p]}
    BY <2>2
  <2> QED
    BY <2>1, <2>3
<1> HIDE DEF kept, sent
<1> QED
  BY <1>7, <1>8, <1>9 DEF Somewhere

\* In-place movement never destroys the last copy of a real entry: at every moment
\* some local matrix, scratch buffer or message has it (ExecutePadded2DNativePlanRaw
\* overwrites cells that were packed, saved or sent before).
THEOREM NothingLost == Spec => []EntryNeverLost
<1>1. RunInv => EntryNeverLost
  BY NeverLostFollows
<1> QED
  BY <1>1, RunsAsInLockstep, PTL

(***************************************************************************)
(* From rank to rank.                                                      *)
(***************************************************************************)
\* Data that passes between two ranks is a payload from the one to the other.
LEMMA PassIs ==
  ASSUME NEW g, NEW b, NEW s, NEW t, BatchOK(g, b), Passes(b, s, t), s # t
  PROVE  /\ s \in RanksOf(g) /\ t \in RanksOf(g)
         /\ Carries(b, s, t) /\ Concerns(b, s) /\ Concerns(b, t)
<1>1. PICK i \in DOMAIN b.steps : b.kind # Save /\ b.steps[i].from = s /\ b.steps[i].to = t
  BY DEF Passes
<1>2. s \in RanksOf(g) /\ t \in RanksOf(g)
  BY <1>1 DEF BatchOK, StepOK
<1>3. SendsOf(s, b) = {i} /\ SendStep(s, b) = b.steps[i]
  <2>1. SendsOf(b.steps[i].from, b) = {i} /\ SendStep(b.steps[i].from, b) = b.steps[i]
    BY SendOf
  <2> QED
    BY <1>1, <2>1
<1>4. Carries(b, s, t)
  BY <1>1, <1>3 DEF Carries, BatchOK
<1> QED
  BY <1>2, <1>4, CarriesIs

\* A rank past the entry that brings it a payload has it from a rank that has sent it.
LEMMA SentBefore ==
  ASSUME RunInv, Planned, NEW k \in 1..Len(plan), NEW s \in Ranks, NEW t \in Ranks,
         Carries(plan[k], s, t), pos[t] > k
  PROVE  pos[s] > k \/ (pos[s] = k /\ open[s])
<1>1. PairOK(geo, plan, s, t, Standing(s), Standing(t), chan[<<s, t>>])
  BY DEF RunInv, PairsRun
<1>2. k \in DOMAIN plan
  BY OfRank
<1>3. Taken(Standing(t), k)
  BY DEF Taken, Past, Standing, At
<1>4. Sent(Standing(s), k)
  BY <1>1, <1>2, <1>3 DEF PairOK
<1> QED
  BY <1>4 DEF Sent, Past, Standing, At

\* When what was on rank s has come to another rank, past entry b, s has taken part.
LEMMA RouteReached ==
  ASSUME RunInv, Planned, NEW a \in Nat, NEW b \in Nat, NEW route,
         NEW s \in Ranks, NEW r \in Ranks, a <= b, b <= Len(plan), Route(plan, a, b, route),
         route[a] = s, route[b] = r, s # r, pos[r] > b,
         \A k \in (a + 1)..b : BatchOK(geo, plan[k])
  PROVE  \E k \in (a + 1)..b : /\ Concerns(plan[k], s)
                               /\ pos[s] > k \/ (pos[s] = k /\ open[s])
<1>1. Ranks = RanksOf(geo) /\ Len(plan) \in Nat /\ \A u \in Ranks : pos[u] \in Int
  BY OfRank
<1> DEFINE Got(k) == route[k] \in Ranks /\ pos[route[k]] > k
           T == {d \in Nat : b - d >= a => Got(b - d)}
<1>2. \A k \in (a + 1)..b : k \in 1..Len(plan) /\ Passes(plan[k], route[k - 1], route[k])
  BY <1>1 DEF Route
<1>3. 0 \in T
  <2>1. b - 0 = b
    OBVIOUS
  <2> QED
    BY <2>1
<1>4. ASSUME NEW d \in Nat, d \in T PROVE d + 1 \in T
  <2> DEFINE k == b - d
             l == b - (d + 1)
  <2> SUFFICES ASSUME l >= a PROVE Got(l)
    OBVIOUS
  <2>1. k \in (a + 1)..b /\ k - 1 = l /\ l \in Int /\ k \in Int /\ l < k /\ k >= a
    OBVIOUS
  <2>2. Got(k)
    BY <1>4, <2>1
  <2> HIDE DEF k, l
  <2>3. Passes(plan[k], route[l], route[k]) /\ k \in 1..Len(plan) /\ BatchOK(geo, plan[k])
    BY <1>2, <2>1
  <2>4. CASE route[l] = route[k]
    <3>1. pos[route[k]] \in Int
      BY <1>1, <2>2
    <3> QED
      BY <2>1, <2>2, <2>4, <3>1
  <2>5. CASE route[l] # route[k]
    <3>1. route[l] \in Ranks /\ Carries(plan[k], route[l], route[k])
      BY <1>1, <2>3, <2>5, PassIs
    <3>2. pos[route[l]] > k \/ pos[route[l]] = k
      BY <2>2, <2>3, <3>1, SentBefore
    <3>3. pos[route[l]] \in Int
      BY <1>1, <3>1
    <3> QED
      BY <2>1, <3>1, <3>2, <3>3
  <2> QED
    BY <2>4, <2>5
<1>5. Nat \subseteq T
  <2> HIDE DEF T
  <2> QED
    BY <1>3, <1>4, SetInduction
<1>6. \A k \in a..b : Got(k)
  <2> TAKE k \in a..b
  <2>1. b - k \in Nat /\ b - (b - k) = k /\ k >= a
    OBVIOUS
  <2>2. b - k \in T
    BY <1>5, <2>1
  <2>3. Got(b - (b - k))
    BY <2>1, <2>2
  <2> HIDE DEF Got
  <2> QED
    BY <2>1, <2>3
<1> SUFFICES ASSUME \A k \in (a + 1)..b : ~(/\ Concerns(plan[k], s)
                                            /\ pos[s] > k \/ (pos[s] = k /\ open[s]))
             PROVE  FALSE
  OBVIOUS
<1> DEFINE U == {d \in Nat : a + d <= b => route[a + d] = s}
<1>7. 0 \in U
  <2>1. a + 0 = a
    OBVIOUS
  <2> QED
    BY <2>1
<1>8. ASSUME NEW d \in Nat, d \in U PROVE d + 1 \in U
  <2> DEFINE k == a + (d + 1)
             l == a + d
  <2> SUFFICES ASSUME k <= b, route[k] # s PROVE FALSE
    OBVIOUS
  <2>1. k \in (a + 1)..b /\ k \in a..b /\ k - 1 = l /\ l <= b
    OBVIOUS
  <2>2. route[l] = s
    BY <1>8, <2>1
  <2> HIDE DEF k, l
  <2>3. Passes(plan[k], route[l], route[k]) /\ k \in 1..Len(plan) /\ BatchOK(geo, plan[k])
    BY <1>2, <2>1
  <2>4. route[k] \in Ranks /\ pos[route[k]] > k
    BY <1>6, <2>1
  <2>5. Carries(plan[k], s, route[k]) /\ Concerns(plan[k], s)
    BY <2>2, <2>3, PassIs
  <2>6. pos[s] > k \/ (pos[s] = k /\ open[s])
    BY <2>3, <2>4, <2>5, SentBefore
  <2> QED
    BY <2>1, <2>5, <2>6
<1>9. Nat \subseteq U
  <2> HIDE DEF U
  <2> QED
    BY <1>7, <1>8, SetInduction
<1>10. route[b] = s
  <2>1. b - a \in Nat /\ a + (b - a) = b
    OBVIOUS
  <2>2. b - a \in U
    BY <1>9, <2>1
  <2>3. route[a + (b - a)] = s
    BY <2>1, <2>2
  <2> QED
    BY <2>1, <2>3
<1> QED
  BY <1>10

\* From entry a to b of plan p there are batches that do not concern rank r.
Idles(g, p, r, a, b) == \A k \in (a + 1)..b : BatchOK(g, p[k]) /\ ~Concerns(p[k], r)

\* Nothing comes to it then and nothing leaves it.
LEMMA IdleRoute ==
  ASSUME NEW g, NEW p, NEW a \in Nat, NEW b \in Nat, NEW route, NEW r, a <= b,
         Route(p, a, b, route), Idles(g, p, r, a, b)
  PROVE  route[a] = r <=> route[b] = r
<1> DEFINE U == {d \in Nat : a + d <= b => (route[a] = r <=> route[a + d] = r)}
<1>1. 0 \in U
  <2>1. a + 0 = a
    OBVIOUS
  <2> QED
    BY <2>1
<1>2. ASSUME NEW d \in Nat, d \in U PROVE d + 1 \in U
  <2> DEFINE k == a + (d + 1)
             l == a + d
  <2> SUFFICES ASSUME k <= b PROVE route[a] = r <=> route[k] = r
    OBVIOUS
  <2>1. k \in (a + 1)..b /\ k - 1 = l /\ l <= b
    OBVIOUS
  <2>2. route[a] = r <=> route[l] = r
    BY <1>2, <2>1
  <2> HIDE DEF k, l
  <2>3. Passes(p[k], route[l], route[k]) /\ BatchOK(g, p[k]) /\ ~Concerns(p[k], r)
    BY <2>1 DEF Route, Idles
  <2>4. route[l] = r <=> route[k] = r
    <3>1. CASE route[l] = route[k]
      BY <3>1
    <3>2. CASE route[l] # route[k]
      BY <2>3, <3>2, PassIs
    <3> QED
      BY <3>1, <3>2
  <2> QED
    BY <2>2, <2>4
<1>3. Nat \subseteq U
  <2> HIDE DEF U
  <2> QED
    BY <1>1, <1>2, SetInduction
<1>4. b - a \in Nat /\ a + (b - a) = b
  OBVIOUS
<1>5. b - a \in U
  BY <1>3, <1>4
<1>6. route[a] = r <=> route[a + (b - a)] = r
  BY <1>4, <1>5
<1> QED
  BY <1>4, <1>6

\* The plan's entries on both sides of the solver call.
LEMMA TwoSides ==
  ASSUME RunInv, Planned
  PROVE  /\ geo \in Geometries /\ GeometryOK(geo) /\ PlanOK(geo, plan) /\ Ranks = RanksOf(geo)
         /\ Len(plan) \in Nat /\ DOMAIN plan = 1..Len(plan) /\ planEnd = Len(plan) + 1
         /\ solveAt \in 1..Len(plan) /\ plan[solveAt].exec = "solve"
         /\ \A k \in 1..Len(plan) : k # solveAt => BatchOK(geo, plan[k])
         /\ \A r \in Ranks : /\ pos[r] \in 1..(Len(plan) + 1) /\ open[r] \in BOOLEAN
                             /\ pos[r] # Len(plan) + 1 => Concerns(plan[pos[r]], r)
                             /\ open[r] => /\ pos[r] # Len(plan) + 1 /\ pos[r] # solveAt
<1>1. geo \in Geometries /\ plan = Plan(geo)
  BY DEF RunInv, Shapes
<1>2. GeometryOK(geo) /\ PlanOK(geo, plan) /\ Ranks = RanksOf(geo)
  BY <1>1, GeometryIsOK DEF Planned, Ranks, RanksOf
<1>3. Len(plan) \in Nat /\ DOMAIN plan = 1..Len(plan) /\ planEnd = Len(plan) + 1
  BY <1>2 DEF PlanOK, planEnd
<1>4. solveAt \in 1..Len(plan) /\ plan[solveAt].exec = "solve"
  BY <1>2, SolveAtIs
<1>5. \A k \in 1..Len(plan) : k # solveAt => BatchOK(geo, plan[k])
  <2>1. PICK l \in 1..Len(plan) : \A k \in 1..Len(plan) : k # l => BatchOK(geo, plan[k])
    BY <1>2 DEF PlanOK
  <2>2. solveAt = l
    BY <1>4, <2>1 DEF BatchOK
  <2> QED
    BY <2>1, <2>2
<1>6. ASSUME NEW r \in Ranks
      PROVE  /\ pos[r] \in 1..(Len(plan) + 1) /\ open[r] \in BOOLEAN
             /\ pos[r] # Len(plan) + 1 => Concerns(plan[pos[r]], r)
             /\ open[r] => pos[r] # Len(plan) + 1 /\ pos[r] # solveAt
  <2>1. RankInv(geo, plan, r, pos[r], open[r], owes[r])
    BY OfRank
  <2> QED
    BY <1>4, <2>1 DEF RankInv, Joins
<1> QED
  BY <1>1, <1>2, <1>3, <1>4, <1>5, <1>6

\* The next entry that concerns a rank after entry k is not past another that does.
LEMMA NextIsFirst ==
  ASSUME NEW g, NEW p, NEW r, NEW k \in 0..Len(p), NEW l \in (k + 1)..Len(p), PlanOK(g, p),
         Concerns(p[l], r)
  PROVE  NextFor(r, p, k) <= l /\ NextFor(r, p, k) \in Int
<1>1. /\ NextFor(r, p, k) \in (k + 1)..(Len(p) + 1)
      /\ \A i \in (k + 1)..(NextFor(r, p, k) - 1) : ~Concerns(p[i], r)
  BY NextIs
<1> DEFINE n == NextFor(r, p, k)
<1>2. n \in Int /\ \A i \in (k + 1)..(n - 1) : ~Concerns(p[i], r)
  BY <1>1
<1> HIDE DEF n
<1>3. ~(l <= n - 1)
  BY <1>2
<1> QED
  BY <1>2, <1>3 DEF n, PlanOK

\* A rank no entry of a direction concerns has the same entries before and after it.
LEMMA IdleStays ==
  ASSUME RunInv, Planned, NEW r \in Ranks,
         After(r, 0) = solveAt \/ After(r, solveAt) = planEnd
  PROVE  JaxShard(geo, r) = CyclicShard(geo, r)
<1> DEFINE at == solveAt
           n == Len(plan)
<1>1. /\ PlanOK(geo, plan) /\ n \in Nat /\ planEnd = n + 1 /\ at \in 1..n
      /\ \A k \in 1..n : k # at => BatchOK(geo, plan[k])
  BY TwoSides
<1> SUFFICES ASSUME NEW e \in EntriesOf(geo)
             PROVE  JaxHome(geo, e)[1] = r <=> CyclicHome(geo, e)[1] = r
  BY DEF JaxShard, CyclicShard
<1>2. Travels(geo, plan, at, e)
  BY OnTheWay DEF Entries, EntriesOf
<1>3. CASE After(r, 0) = at
  <2> DEFINE l == at - 1
  <2>1. PICK route : /\ Route(plan, 0, l, route)
                     /\ route[0] = JaxHome(geo, e)[1] /\ route[l] = CyclicHome(geo, e)[1]
    BY <1>2 DEF Travels
  <2>2. NextFor(r, plan, 0) = at
    BY <1>3 DEF After
  <2>3. \A k \in 1..l : ~Concerns(plan[k], r)
    <3>1. 0 \in 0..n /\ 0 + 1 = 1
      BY <1>1
    <3>2. \A i \in (0 + 1)..(NextFor(r, plan, 0) - 1) : ~Concerns(plan[i], r)
      BY <1>1, <3>1, NextIs
    <3> QED
      BY <2>2, <3>2
  <2>4. l \in Nat /\ 0 <= l /\ Idles(geo, plan, r, 0, l)
    BY <1>1, <2>3 DEF Idles
  <2> HIDE DEF l
  <2>5. route[0] = r <=> route[l] = r
    BY <2>1, <2>4, IdleRoute
  <2> QED
    BY <2>1, <2>5
<1>4. CASE After(r, at) = planEnd
  <2>1. PICK route : /\ Route(plan, at, n, route)
                     /\ route[at] = CyclicHome(geo, e)[1] /\ route[n] = JaxHome(geo, e)[1]
    BY <1>2 DEF Travels
  <2>2. NextFor(r, plan, at) = n + 1
    BY <1>1, <1>4 DEF After
  <2>3. \A k \in (at + 1)..n : ~Concerns(plan[k], r)
    <3>1. at \in 0..n
      BY <1>1
    <3>2. \A i \in (at + 1)..(NextFor(r, plan, at) - 1) : ~Concerns(plan[i], r)
      BY <1>1, <3>1, NextIs
    <3> QED
      BY <1>1, <2>2, <3>2
  <2>4. at \in Nat /\ at <= n /\ Idles(geo, plan, r, at, n)
    BY <1>1, <2>3 DEF Idles
  <2> HIDE DEF at, n
  <2>5. route[at] = r <=> route[n] = r
    BY <1>1, <2>1, <2>4, IdleRoute
  <2> QED
    BY <2>1, <2>5
<1> QED
  BY <1>3, <1>4

\* Rank s has run, or is running, an entry after entry a.
HasStarted(s, a) ==
  \E k \in (a + 1)..Len(plan) : /\ Concerns(plan[k], s)
                                /\ pos[s] > k \/ (pos[s] = k /\ open[s])

\* A rank at the solver call, or past it, has its entries from ranks that have started.
LEMMA PlacedFrom ==
  ASSUME RunInv, Planned, NEW r \in Ranks, NEW s \in Ranks, s # r, pos[r] >= solveAt,
         JaxShard(geo, s) \cap CyclicShard(geo, r) # {}
  PROVE  HasStarted(s, 0)
<1> DEFINE n == Len(plan)
           l == solveAt - 1
<1>1. /\ n \in Nat /\ solveAt \in 1..n /\ pos[r] \in Int
      /\ \A k \in 1..n : k # solveAt => BatchOK(geo, plan[k])
  BY TwoSides
<1>2. PICK e \in EntriesOf(geo) : JaxHome(geo, e)[1] = s /\ CyclicHome(geo, e)[1] = r
  BY DEF JaxShard, CyclicShard
<1>3. Travels(geo, plan, solveAt, e)
  BY OnTheWay DEF Entries, EntriesOf
<1>4. PICK route : Route(plan, 0, l, route) /\ route[0] = s /\ route[l] = r
  BY <1>2, <1>3 DEF Travels
<1>5. l \in Nat /\ 0 <= l /\ l <= n /\ pos[r] > l /\ \A k \in (0 + 1)..l : BatchOK(geo, plan[k])
  BY <1>1
<1> HIDE DEF l
<1>6. PICK k \in (0 + 1)..l : Concerns(plan[k], s) /\ (pos[s] > k \/ (pos[s] = k /\ open[s]))
  BY <1>4, <1>5, RouteReached
<1>7. k \in (0 + 1)..n
  BY <1>1, <1>5
<1> QED
  BY <1>6, <1>7 DEF HasStarted

\* A rank that has returned, from ranks that have started back.
LEMMA RestoredFrom ==
  ASSUME RunInv, Planned, NEW r \in Ranks, NEW s \in Ranks, s # r, pos[r] = planEnd,
         JaxShard(geo, r) \cap CyclicShard(geo, s) # {}
  PROVE  HasStarted(s, solveAt)
<1> DEFINE n == Len(plan)
           at == solveAt
<1>1. /\ n \in Nat /\ at \in 1..n /\ planEnd = n + 1
      /\ \A k \in 1..n : k # at => BatchOK(geo, plan[k])
  BY TwoSides
<1>2. PICK e \in EntriesOf(geo) : JaxHome(geo, e)[1] = r /\ CyclicHome(geo, e)[1] = s
  BY DEF JaxShard, CyclicShard
<1>3. Travels(geo, plan, at, e)
  BY OnTheWay DEF Entries, EntriesOf
<1>4. PICK route : Route(plan, at, n, route) /\ route[at] = s /\ route[n] = r
  BY <1>2, <1>3 DEF Travels
<1>5. at \in Nat /\ at <= n /\ pos[r] > n /\ \A k \in (at + 1)..n : BatchOK(geo, plan[k])
  BY <1>1
<1> HIDE DEF at, n
<1>6. \E k \in (at + 1)..n : Concerns(plan[k], s) /\ (pos[s] > k \/ (pos[s] = k /\ open[s]))
  BY <1>1, <1>4, <1>5, RouteReached DEF n
<1> QED
  BY <1>6 DEF HasStarted, at, n

(***************************************************************************)
(* The executor as ShardExchange sees it.                                  *)
(***************************************************************************)
\* What View is of a rank at entry ps of plan p, whose solver call is entry at; op
\* says whether its group is posted.
ViewAt(p, at, r, ps, op) ==
  IF ps < at THEN IF ps = NextFor(r, p, 0) /\ ~op THEN "given" ELSE "moving"
  ELSE IF ps = at THEN "placed"
  ELSE IF ps = Len(p) + 1 THEN "restored"
  ELSE IF ps = NextFor(r, p, at) /\ ~op THEN "solved" ELSE "returning"

\* What it has in place then.
HeldAt(g, r, v) ==
  IF v \in {"given", "restored"} THEN JaxShard(g, r)
  ELSE IF v \in {"placed", "solved"} THEN CyclicShard(g, r)
  ELSE {}

\* A rank at ps is not before the entries that concern it first.
Begun(p, at, r, ps) ==
  /\ NextFor(r, p, 0) \in 1..at /\ ps >= NextFor(r, p, 0)
  /\ ps > at => ps >= NextFor(r, p, at)
  /\ NextFor(r, p, at) \in (at + 1)..(Len(p) + 1)

\* Everything ShardExchange's steps depend on.
Seen ==
  /\ geo \in Geometries /\ Ranks = RanksOf(geo) /\ PlanOK(geo, plan)
  /\ Len(plan) \in Nat /\ DOMAIN plan = 1..Len(plan)
  /\ solveAt \in 1..Len(plan) /\ plan[solveAt].exec = "solve"
  /\ \A r \in Ranks :
       /\ pos[r] \in 1..(Len(plan) + 1) /\ open[r] \in BOOLEAN
       /\ open[r] => pos[r] # Len(plan) + 1 /\ pos[r] # solveAt
       /\ Begun(plan, solveAt, r, pos[r])
       /\ View(r) = ViewAt(plan, solveAt, r, pos[r], open[r])
       /\ Held(r) = HeldAt(geo, r, View(r))
       /\ NextFor(r, plan, 0) = solveAt \/ NextFor(r, plan, solveAt) = Len(plan) + 1
            => JaxShard(geo, r) = CyclicShard(geo, r)
  /\ \A r, s \in Ranks :
       /\ s # r /\ pos[r] >= solveAt /\ JaxShard(geo, s) \cap CyclicShard(geo, r) # {}
            => ~(pos[s] = NextFor(s, plan, 0) /\ ~open[s])
       /\ s # r /\ pos[r] = Len(plan) + 1 /\ JaxShard(geo, r) \cap CyclicShard(geo, s) # {}
            => ~(pos[s] = NextFor(s, plan, solveAt) /\ ~open[s])

\* A rank that has started is not where it was.
LEMMA StartedMoved ==
  ASSUME RunInv, Planned, NEW s \in Ranks, NEW a \in 0..Len(plan), HasStarted(s, a)
  PROVE  ~(pos[s] = NextFor(s, plan, a) /\ ~open[s])
<1>1. PlanOK(geo, plan) /\ pos[s] \in Int
  BY TwoSides
<1>2. PICK k \in (a + 1)..Len(plan) : /\ Concerns(plan[k], s)
                                      /\ pos[s] > k \/ (pos[s] = k /\ open[s])
  BY DEF HasStarted
<1>3. NextFor(s, plan, a) <= k /\ NextFor(s, plan, a) \in Int
  BY <1>1, <1>2, NextIsFirst
<1> QED
  BY <1>1, <1>2, <1>3

\* Where a rank can be.
LEMMA AllBegun ==
  ASSUME RunInv, Planned, NEW r \in Ranks
  PROVE  Begun(plan, solveAt, r, pos[r])
<1> DEFINE at == solveAt
           n == Len(plan)
<1>1. /\ PlanOK(geo, plan) /\ n \in Nat /\ at \in 1..n /\ plan[at].exec = "solve"
      /\ pos[r] \in 1..(n + 1) /\ (pos[r] # n + 1 => Concerns(plan[pos[r]], r))
  BY TwoSides
<1>2. Concerns(plan[at], r)
  BY <1>1 DEF Concerns
<1>3. /\ NextFor(r, plan, 0) \in (0 + 1)..(n + 1)
      /\ NextFor(r, plan, at) \in (at + 1)..(n + 1)
  <2>1. 0 \in 0..n /\ at \in 0..n
    BY <1>1
  <2> QED
    BY <1>1, <2>1, NextIs
<1>4. NextFor(r, plan, 0) <= at
  <2>1. 0 \in 0..n /\ at \in (0 + 1)..n
    BY <1>1
  <2> QED
    BY <1>1, <1>2, <2>1, NextIsFirst
<1>5. CASE pos[r] = n + 1
  BY <1>1, <1>3, <1>4, <1>5 DEF Begun
<1>6. CASE pos[r] # n + 1
  <2>1. Concerns(plan[pos[r]], r) /\ pos[r] \in (0 + 1)..n /\ 0 \in 0..n /\ at \in 0..n
    BY <1>1, <1>6
  <2>2. NextFor(r, plan, 0) <= pos[r]
    BY <1>1, <2>1, NextIsFirst
  <2>3. ASSUME pos[r] > at PROVE NextFor(r, plan, at) <= pos[r]
    <3>1. pos[r] \in (at + 1)..n
      BY <1>1, <1>6, <2>3
    <3> QED
      BY <1>1, <2>1, <3>1, NextIsFirst
  <2> QED
    BY <1>1, <1>3, <1>4, <2>2, <2>3 DEF Begun
<1> QED
  BY <1>5, <1>6

\* The view of a rank.
LEMMA ViewIs ==
  ASSUME RunInv, Planned, NEW r \in Ranks
  PROVE  View(r) = ViewAt(plan, solveAt, r, pos[r], open[r])
<1>1. /\ Len(plan) \in Nat /\ solveAt \in 1..Len(plan) /\ planEnd = Len(plan) + 1
      /\ pos[r] \in 1..(Len(plan) + 1)
  BY TwoSides
<1>2. /\ Untouched(r, 0) <=> pos[r] = NextFor(r, plan, 0) /\ ~open[r]
      /\ Untouched(r, solveAt) <=> pos[r] = NextFor(r, plan, solveAt) /\ ~open[r]
  BY DEF Untouched, After
<1> QED
  BY <1>1, <1>2 DEF View, ViewAt

\* What is in place when all entries of a home are.
LEMMA InPlaceAll ==
  ASSUME NEW r
  PROVE  /\ (\A e \in EntriesOf(geo) : JaxHome(geo, e)[1] = r => mem[r][JaxHome(geo, e)[2]] = e)
              => InPlace(r, JaxHome) = JaxShard(geo, r)
         /\ (\A e \in EntriesOf(geo) :
               CyclicHome(geo, e)[1] = r => mem[r][CyclicHome(geo, e)[2]] = e)
              => InPlace(r, CyclicHome) = CyclicShard(geo, r)
  BY DEF InPlace, JaxShard, CyclicShard, Entries, EntriesOf

\* A rank at its first entry has the memories of the start; at its first one after
\* the solver call, those the solver left.
LEMMA AtFirst ==
  ASSUME RunInv, Planned, NEW r \in Ranks, NEW a \in 0..Len(plan),
         pos[r] = NextFor(r, plan, a), ~open[r]
  PROVE  mem[r] = Lockstep(geo, plan)[a].mem[r]
<1>1. /\ HasRun(geo, plan, r, pos[r], open[r], owes[r], mem[r], scratch[r])
      /\ PlanOK(geo, plan) /\ r \in RanksOf(geo)
  BY OfRank
<1>2. mem[r] = Lockstep(geo, plan)[NextFor(r, plan, a) - 1].mem[r]
  BY <1>1 DEF HasRun
<1> QED
  BY <1>1, <1>2, SkipKeeps

\* What it has in place.
LEMMA HeldIs ==
  ASSUME RunInv, Planned, NEW r \in Ranks
  PROVE  Held(r) = HeldAt(geo, r, View(r))
<1> DEFINE w == Lockstep(geo, plan)
<1>1. /\ Len(plan) \in Nat /\ solveAt \in 1..Len(plan) /\ planEnd = Len(plan) + 1
      /\ pos[r] \in 1..(Len(plan) + 1)
      /\ View(r) = ViewAt(plan, solveAt, r, pos[r], open[r])
  BY TwoSides, ViewIs
<1>2. \A e \in EntriesOf(geo) : HasAt(w[0], JaxHome(geo, e), e)
                                /\ HasAt(w[solveAt], CyclicHome(geo, e), e)
  BY OnTheWay DEF Travels, Entries, EntriesOf
<1>3. CASE View(r) = "given"
  <2>1. pos[r] = NextFor(r, plan, 0) /\ ~open[r]
    BY <1>1, <1>3 DEF ViewAt
  <2>2. mem[r] = w[0].mem[r]
    <3>1. 0 \in 0..Len(plan)
      BY <1>1
    <3> QED
      BY <2>1, <3>1, AtFirst
  <2>3. InPlace(r, JaxHome) = JaxShard(geo, r)
    BY <1>2, <2>2, InPlaceAll DEF HasAt
  <2> QED
    BY <1>3, <2>3 DEF Held, HeldAt
<1>4. CASE View(r) = "restored"
  <2>1. pos[r] = planEnd
    BY <1>1, <1>4 DEF ViewAt
  <2>2. InPlace(r, JaxHome) = JaxShard(geo, r)
    BY <2>1, ReturnFollows, InPlaceAll DEF RoundTrip, Holds, Entries, EntriesOf
  <2> QED
    BY <1>4, <2>2 DEF Held, HeldAt
<1>5. CASE View(r) = "placed"
  <2>1. pos[r] = solveAt
    BY <1>1, <1>5 DEF ViewAt
  <2>2. InPlace(r, CyclicHome) = CyclicShard(geo, r)
    BY <2>1, LayoutFollows, InPlaceAll DEF ForwardLayout, Holds, Entries, EntriesOf
  <2> QED
    BY <1>5, <2>2 DEF Held, HeldAt
<1>6. CASE View(r) = "solved"
  <2>1. pos[r] = NextFor(r, plan, solveAt) /\ ~open[r]
    BY <1>1, <1>6 DEF ViewAt
  <2>2. mem[r] = w[solveAt].mem[r]
    <3>1. solveAt \in 0..Len(plan)
      BY <1>1
    <3> QED
      BY <2>1, <3>1, AtFirst
  <2>3. InPlace(r, CyclicHome) = CyclicShard(geo, r)
    BY <1>2, <2>2, InPlaceAll DEF HasAt
  <2> QED
    BY <1>6, <2>3 DEF Held, HeldAt
<1>7. CASE View(r) \notin {"given", "restored", "placed", "solved"}
  BY <1>7 DEF Held, HeldAt
<1> QED
  BY <1>3, <1>4, <1>5, <1>6, <1>7

\* All of it follows from the invariant.
LEMMA RunSeen == RunInv => Seen
<1> SUFFICES ASSUME RunInv PROVE Seen
  OBVIOUS
<1>1. Planned
  BY AllPlanned
<1>2. /\ geo \in Geometries /\ Ranks = RanksOf(geo) /\ PlanOK(geo, plan)
      /\ Len(plan) \in Nat /\ DOMAIN plan = 1..Len(plan) /\ planEnd = Len(plan) + 1
      /\ solveAt \in 1..Len(plan) /\ plan[solveAt].exec = "solve"
      /\ \A r \in Ranks : /\ pos[r] \in 1..(Len(plan) + 1) /\ open[r] \in BOOLEAN
                          /\ open[r] => pos[r] # Len(plan) + 1 /\ pos[r] # solveAt
  BY <1>1, TwoSides
<1>3. \A r \in Ranks : /\ Begun(plan, solveAt, r, pos[r])
                       /\ View(r) = ViewAt(plan, solveAt, r, pos[r], open[r])
                       /\ Held(r) = HeldAt(geo, r, View(r))
  BY <1>1, AllBegun, ViewIs, HeldIs
<1>4. \A r \in Ranks :
        NextFor(r, plan, 0) = solveAt \/ NextFor(r, plan, solveAt) = Len(plan) + 1
          => JaxShard(geo, r) = CyclicShard(geo, r)
  BY <1>1, <1>2, IdleStays DEF After
<1>5. 0 \in 0..Len(plan) /\ solveAt \in 0..Len(plan)
  BY <1>2
<1>6. ASSUME NEW r \in Ranks, NEW s \in Ranks
      PROVE  /\ s # r /\ pos[r] >= solveAt /\ JaxShard(geo, s) \cap CyclicShard(geo, r) # {}
                  => ~(pos[s] = NextFor(s, plan, 0) /\ ~open[s])
             /\ s # r /\ pos[r] = Len(plan) + 1 /\ JaxShard(geo, r) \cap CyclicShard(geo, s) # {}
                  => ~(pos[s] = NextFor(s, plan, solveAt) /\ ~open[s])
  <2>1. s # r /\ pos[r] >= solveAt /\ JaxShard(geo, s) \cap CyclicShard(geo, r) # {}
          => HasStarted(s, 0)
    BY <1>1, PlacedFrom
  <2>2. s # r /\ pos[r] = Len(plan) + 1 /\ JaxShard(geo, r) \cap CyclicShard(geo, s) # {}
          => HasStarted(s, solveAt)
    BY <1>1, <1>2, RestoredFrom
  <2>3. HasStarted(s, 0) => ~(pos[s] = NextFor(s, plan, 0) /\ ~open[s])
    BY <1>1, <1>5, StartedMoved
  <2>4. HasStarted(s, solveAt) => ~(pos[s] = NextFor(s, plan, solveAt) /\ ~open[s])
    BY <1>1, <1>5, StartedMoved
  <2> QED
    BY <2>1, <2>2, <2>3, <2>4
<1> QED
  BY <1>2, <1>3, <1>4, <1>6 DEF Seen

(***************************************************************************)
(* The steps ShardExchange sees.                                           *)
(***************************************************************************)
\* The ranks are on one side of the solver call.
OneSide == (\A r \in Ranks : pos[r] <= solveAt) \/ (\A r \in Ranks : pos[r] > solveAt)

\* What a rank shows when it goes on from entry c of the plan to entry n.
LEMMA GoesOnSeen ==
  ASSUME NEW p, NEW at, NEW r, NEW c \in 1..Len(p), NEW n \in (c + 1)..(Len(p) + 1), NEW op,
         Len(p) \in Nat, at \in 1..Len(p), c # at, Begun(p, at, r, c), c < at => n <= at
  PROVE  /\ c < at => /\ ViewAt(p, at, r, c, op) \in {"given", "moving"}
                      /\ ViewAt(p, at, r, n, FALSE) = IF n = at THEN "placed" ELSE "moving"
         /\ c > at => /\ ViewAt(p, at, r, c, op) \in {"solved", "returning"}
                      /\ ViewAt(p, at, r, n, FALSE) = IF n = Len(p) + 1 THEN "restored"
                                                      ELSE "returning"
  BY DEF ViewAt, Begun

\* What the others show stays, when only rank r steps.
LEMMA OthersSeen ==
  ASSUME Seen, Seen', NEW r \in Ranks, geo' = geo, plan' = plan,
         \A s \in Ranks : s # r => pos'[s] = pos[s] /\ open'[s] = open[s]
  PROVE  /\ Ranks' = Ranks /\ solveAt' = solveAt
         /\ \A s \in Ranks : /\ View(s)' = ViewAt(plan, solveAt, s, pos'[s], open'[s])
                             /\ Held(s)' = HeldAt(geo, s, View(s)')
                             /\ s # r => View(s)' = View(s) /\ Held(s)' = Held(s)
<1>1. Ranks' = Ranks /\ solveAt' = solveAt
  BY DEF Ranks, solveAt
<1>2. \A s \in Ranks : /\ View(s)' = ViewAt(plan, solveAt, s, pos'[s], open'[s])
                       /\ Held(s)' = HeldAt(geo, s, View(s)')
  BY <1>1 DEF Seen
<1>3. \A s \in Ranks : /\ View(s) = ViewAt(plan, solveAt, s, pos[s], open[s])
                       /\ Held(s) = HeldAt(geo, s, View(s))
  BY DEF Seen
<1>4. ASSUME NEW s \in Ranks, s # r PROVE View(s)' = View(s) /\ Held(s)' = Held(s)
  <2>1. View(s)' = View(s)
    BY <1>2, <1>3, <1>4
  <2> QED
    BY <1>2, <1>3, <2>1
<1> QED
  BY <1>1, <1>2, <1>4

\* A rank's steps, for what it shows: it stays, it posts a group, or it goes on to its
\* next entry.
LEMMA RankMoves ==
  ASSUME Seen, TypeOK, NEW r \in Ranks, RankStep(r)
  PROVE  /\ geo' = geo /\ plan' = plan
         /\ \A s \in Ranks : s # r => pos'[s] = pos[s] /\ open'[s] = open[s]
         /\ \/ pos'[r] = pos[r] /\ open'[r] = open[r]
            \/ AtBatch(r) /\ ~open[r] /\ pos'[r] = pos[r] /\ open'[r]
            \/ /\ pos[r] \in 1..Len(plan) /\ pos[r] # solveAt
               /\ pos'[r] = NextFor(r, plan, pos[r]) /\ open'[r] = FALSE
<1>1. /\ pos \in [Ranks -> 1..planEnd] /\ open \in [Ranks -> BOOLEAN]
  BY DEF TypeOK
<1>2. /\ DOMAIN plan = 1..Len(plan) /\ plan[solveAt].exec = "solve" /\ Len(plan) \in Nat
      /\ pos[r] \in 1..(Len(plan) + 1)
      /\ open[r] => pos[r] # Len(plan) + 1 /\ pos[r] # solveAt
  BY DEF Seen
<1>3. AtBatch(r) => pos[r] \in 1..Len(plan) /\ pos[r] # solveAt
  BY <1>2 DEF AtBatch, Batch
<1>4. CASE SaveSlab(r)
  BY <1>1, <1>3, <1>4 DEF SaveSlab, Advance, After
<1>5. CASE LocalMove(r)
  BY <1>1, <1>3, <1>5 DEF LocalMove, Advance, After
<1>6. CASE Post(r)
  BY <1>1, <1>6 DEF Post
<1>7. CASE Send(r)
  BY <1>7 DEF Send
<1>8. CASE Receive(r)
  BY <1>8 DEF Receive
<1>9. CASE CompleteGroup(r)
  BY <1>1, <1>2, <1>9 DEF CompleteGroup, Advance, After
<1> QED
  BY <1>4, <1>5, <1>6, <1>7, <1>8, <1>9 DEF RankStep

\* A rank that comes from a view, to another, changes its own place in the views only.
LEMMA Shown ==
  ASSUME Ranks' = Ranks, NEW r \in Ranks, NEW v, NEW h, View(r)' = v, Held(r)' = h,
         \A s \in Ranks : s # r => View(s)' = View(s) /\ Held(s)' = Held(s)
  PROVE  /\ [s \in Ranks |-> View(s)]' = [[s \in Ranks |-> View(s)] EXCEPT ![r] = v]
         /\ [s \in Ranks |-> Held(s)]' = [[s \in Ranks |-> Held(s)] EXCEPT ![r] = h]
<1>1. [s \in Ranks |-> View(s)]' = [s \in Ranks |-> View(s)']
  OBVIOUS
<1>2. [s \in Ranks |-> Held(s)]' = [s \in Ranks |-> Held(s)']
  OBVIOUS
<1>3. [s \in Ranks |-> View(s)'] = [[s \in Ranks |-> View(s)] EXCEPT ![r] = v]
  OBVIOUS
<1>4. [s \in Ranks |-> Held(s)'] = [[s \in Ranks |-> Held(s)] EXCEPT ![r] = h]
  OBVIOUS
<1> QED
  BY <1>1, <1>2, <1>3, <1>4

\* Posting a group, or a batch that is not the last of its direction, is a departure
\* or nothing.
LEMMA Departs ==
  ASSUME Seen, Ranks' = Ranks, geo' = geo, NEW r \in Ranks, NEW from, NEW to,
         <<from, to>> \in {<<"given", "moving">>, <<"solved", "returning">>},
         View(r) \in {from, to}, View(r)' = to, Held(r)' = {},
         \A s \in Ranks : s # r => View(s)' = View(s) /\ Held(s)' = Held(s)
  PROVE  [Abstract!Next]_(Abstract!absvars)
<1> DEFINE V == [s \in Ranks |-> View(s)]
           H == [s \in Ranks |-> Held(s)]
<1>1. V' = [V EXCEPT ![r] = to] /\ H' = [H EXCEPT ![r] = {}]
  BY Shown
<1>2. Abstract!Rank = Ranks
  BY DEF Abstract!Rank, Seen
<1>3. CASE View(r) = from
  <2>1. V[r] = from
    BY <1>3
  <2>2. Abstract!Start(r, from, to)
    BY <1>1, <2>1 DEF Abstract!Start
  <2>3. Abstract!Depart(r) \/ Abstract!DepartBack(r)
    BY <2>2 DEF Abstract!Depart, Abstract!DepartBack
  <2> QED
    BY <1>2, <2>3 DEF Abstract!Next
<1>4. CASE View(r) = to
  <2>1. Held(r) = {}
    BY <1>4 DEF Seen, HeldAt
  <2>2. V' = V /\ H' = H
    <3>1. V[r] = to /\ H[r] = {}
      BY <1>4, <2>1
    <3> HIDE DEF V, H
    <3>2. DOMAIN V = Ranks /\ DOMAIN H = Ranks
      BY DEF V, H
    <3>3. V = [s \in DOMAIN V |-> V[s]] /\ H = [s \in DOMAIN H |-> H[s]]
      BY DEF V, H
    <3> QED
      BY <1>1, <3>1, <3>3
  <2> QED
    BY <2>2 DEF Abstract!absvars
<1> QED
  BY <1>3, <1>4

\* A rank that reaches the solver call has its entries from ranks that have started.
LEMMA ArrivesThere ==
  ASSUME Seen, Seen', OneSide', geo' = geo, plan' = plan, NEW r \in Ranks,
         pos'[r] = solveAt, View(r) \in {"given", "moving"},
         \A s \in Ranks : s # r => pos'[s] = pos[s] /\ open'[s] = open[s]
  PROVE  Abstract!Place(r)
<1> DEFINE V == [s \in Ranks |-> View(s)]
           H == [s \in Ranks |-> Held(s)]
           at == solveAt
<1>1. /\ Ranks' = Ranks /\ at' = at /\ Ranks = RanksOf(geo) /\ Len(plan) \in Nat
      /\ at \in 1..Len(plan)
      /\ \A s \in Ranks : /\ View(s)' = ViewAt(plan, at, s, pos'[s], open'[s])
                          /\ Held(s)' = HeldAt(geo, s, View(s)')
                          /\ s # r => View(s)' = View(s) /\ Held(s)' = Held(s)
  BY OthersSeen DEF Seen
<1>2. View(r)' = "placed" /\ Held(r)' = CyclicShard(geo, r)
  <2>1. View(r)' = "placed"
    BY <1>1 DEF ViewAt
  <2> QED
    BY <1>1, <2>1 DEF HeldAt
<1>3. V' = [V EXCEPT ![r] = "placed"] /\ H' = [H EXCEPT ![r] = CyclicShard(geo, r)]
  <2>1. Ranks' = Ranks /\ \A s \in Ranks : s # r => View(s)' = View(s) /\ Held(s)' = Held(s)
    BY <1>1
  <2> QED
    BY <1>2, <2>1, Shown
<1>4. \A s \in Ranks : pos'[s] \in 1..(Len(plan) + 1) /\ pos'[s] <= at
  <2>1. \A s \in Ranks : pos'[s] \in 1..(Len(plan) + 1)
    BY <1>1 DEF Seen
  <2> QED
    BY <1>1, <2>1 DEF OneSide
<1>5. ASSUME NEW s \in Ranks, s \in Abstract!Takes(r) PROVE V[s] \in {"moving", "placed"}
  <2>1. s # r /\ JaxShard(geo, s) \cap CyclicShard(geo, r) # {}
    BY <1>1, <1>5 DEF Abstract!Takes, Abstract!Rank
  <2>2. ~(pos'[s] = NextFor(s, plan, 0) /\ ~open'[s])
    BY <1>1, <1>4, <2>1 DEF Seen
  <2>3. View(s)' \in {"moving", "placed"}
    BY <1>1, <1>4, <2>1, <2>2 DEF ViewAt
  <2> QED
    BY <1>1, <2>1, <2>3
<1>6. V[r] \in {"given", "moving"}
  OBVIOUS
<1>7. Abstract!Takes(r) \subseteq Ranks
  BY <1>1 DEF Abstract!Takes, Abstract!Rank
<1>8. Abstract!Arrive(r, {"given", "moving"}, "placed", CyclicShard(geo, r),
                      {"moving", "placed"}, Abstract!Takes(r))
  BY <1>3, <1>5, <1>6, <1>7 DEF Abstract!Arrive
<1> QED
  BY <1>8 DEF Abstract!Place

\* A rank that returns has its entries from ranks that have started back.
LEMMA ComesBack ==
  ASSUME Seen, Seen', OneSide', geo' = geo, plan' = plan, NEW r \in Ranks,
         pos'[r] = Len(plan) + 1, View(r) \in {"solved", "returning"},
         \A s \in Ranks : s # r => pos'[s] = pos[s] /\ open'[s] = open[s]
  PROVE  Abstract!Return(r)
<1> DEFINE V == [s \in Ranks |-> View(s)]
           H == [s \in Ranks |-> Held(s)]
           at == solveAt
<1>1. /\ Ranks' = Ranks /\ at' = at /\ Ranks = RanksOf(geo) /\ Len(plan) \in Nat
      /\ at \in 1..Len(plan)
      /\ \A s \in Ranks : /\ View(s)' = ViewAt(plan, at, s, pos'[s], open'[s])
                          /\ Held(s)' = HeldAt(geo, s, View(s)')
                          /\ s # r => View(s)' = View(s) /\ Held(s)' = Held(s)
  BY OthersSeen DEF Seen
<1>2. View(r)' = "restored" /\ Held(r)' = JaxShard(geo, r)
  <2>1. View(r)' = "restored"
    BY <1>1 DEF ViewAt
  <2> QED
    BY <1>1, <2>1 DEF HeldAt
<1>3. V' = [V EXCEPT ![r] = "restored"] /\ H' = [H EXCEPT ![r] = JaxShard(geo, r)]
  <2>1. Ranks' = Ranks /\ \A s \in Ranks : s # r => View(s)' = View(s) /\ Held(s)' = Held(s)
    BY <1>1
  <2> QED
    BY <1>2, <2>1, Shown
<1>4. \A s \in Ranks : pos'[s] \in 1..(Len(plan) + 1) /\ pos'[s] > at
  <2>1. \A s \in Ranks : pos'[s] \in 1..(Len(plan) + 1)
    BY <1>1 DEF Seen
  <2> QED
    BY <1>1, <2>1 DEF OneSide
<1>5. ASSUME NEW s \in Ranks, r \in Abstract!Takes(s) PROVE V[s] \in {"returning", "restored"}
  <2>1. s # r /\ JaxShard(geo, r) \cap CyclicShard(geo, s) # {}
    BY <1>1, <1>5 DEF Abstract!Takes, Abstract!Rank
  <2>2. ~(pos'[s] = NextFor(s, plan, at) /\ ~open'[s])
    BY <1>1, <1>4, <2>1 DEF Seen
  <2>3. View(s)' \in {"returning", "restored"}
    BY <1>1, <1>4, <2>1, <2>2 DEF ViewAt
  <2> QED
    BY <1>1, <2>1, <2>3
<1>6. V[r] \in {"solved", "returning"}
  OBVIOUS
<1>7. Abstract!Rank = Ranks
  BY <1>1 DEF Abstract!Rank
<1>8. Abstract!Arrive(r, {"solved", "returning"}, "restored", JaxShard(geo, r),
                      {"returning", "restored"}, {s \in Ranks : r \in Abstract!Takes(s)})
  BY <1>3, <1>5, <1>6 DEF Abstract!Arrive
<1> QED
  BY <1>7, <1>8 DEF Abstract!Return

\* Where a rank goes on to.
LEMMA GoesOnTo ==
  ASSUME Seen, NEW r \in Ranks, pos[r] \in 1..Len(plan), pos[r] # solveAt
  PROVE  /\ NextFor(r, plan, pos[r]) \in (pos[r] + 1)..(Len(plan) + 1)
         /\ pos[r] < solveAt => NextFor(r, plan, pos[r]) <= solveAt
<1>1. /\ PlanOK(geo, plan) /\ Len(plan) \in Nat /\ solveAt \in 1..Len(plan)
      /\ plan[solveAt].exec = "solve" /\ pos[r] \in 0..Len(plan)
  BY DEF Seen
<1>2. Concerns(plan[solveAt], r)
  BY <1>1 DEF Concerns
<1>3. NextFor(r, plan, pos[r]) \in (pos[r] + 1)..(Len(plan) + 1)
  BY <1>1, NextIs
<1>4. ASSUME pos[r] < solveAt PROVE NextFor(r, plan, pos[r]) <= solveAt
  <2>1. solveAt \in (pos[r] + 1)..Len(plan)
    BY <1>1, <1>4
  <2> QED
    BY <1>1, <1>2, <2>1, NextIsFirst
<1> QED
  BY <1>3, <1>4

\* No step of one rank leads across the solver call.
LEMMA SidesKept ==
  ASSUME Seen, TypeOK, OneSide, NEW r \in Ranks, RankStep(r)
  PROVE  OneSide'
<1>1. /\ Ranks' = Ranks /\ solveAt' = solveAt
      /\ \A s \in Ranks : s # r => pos'[s] = pos[s]
      /\ \/ pos'[r] = pos[r]
         \/ /\ pos[r] \in 1..Len(plan) /\ pos[r] # solveAt
            /\ pos'[r] = NextFor(r, plan, pos[r])
  BY RankMoves DEF Ranks, solveAt
<1>2. Len(plan) \in Nat /\ solveAt \in 1..Len(plan) /\ \A s \in Ranks : pos[s] \in Int
  BY DEF Seen
<1>3. /\ pos[r] <= solveAt => pos'[r] <= solveAt
      /\ pos[r] > solveAt => pos'[r] > solveAt
  <2>1. CASE pos'[r] = pos[r]
    BY <2>1
  <2>2. CASE /\ pos[r] \in 1..Len(plan) /\ pos[r] # solveAt
             /\ pos'[r] = NextFor(r, plan, pos[r])
    BY <1>2, <2>2, GoesOnTo
  <2> QED
    BY <1>1, <2>1, <2>2
<1>4. CASE \A s \in Ranks : pos[s] <= solveAt
  <2>1. \A s \in Ranks : pos'[s] <= solveAt
    BY <1>1, <1>3, <1>4
  <2> QED
    BY <1>1, <2>1 DEF OneSide
<1>5. CASE \A s \in Ranks : pos[s] > solveAt
  <2>1. \A s \in Ranks : pos'[s] > solveAt
    BY <1>1, <1>3, <1>5
  <2> QED
    BY <1>1, <2>1 DEF OneSide
<1> QED
  BY <1>4, <1>5 DEF OneSide

\* Every step of a rank is one of ShardExchange, or shows nothing.
LEMMA StepShown ==
  ASSUME Seen, Seen', TypeOK, OneSide, NEW r \in Ranks, RankStep(r)
  PROVE  [Abstract!Next]_(Abstract!absvars)
<1> DEFINE at == solveAt
           n == NextFor(r, plan, pos[r])
<1>1. /\ geo' = geo /\ plan' = plan
      /\ \A s \in Ranks : s # r => pos'[s] = pos[s] /\ open'[s] = open[s]
  BY RankMoves
<1>2. /\ Ranks' = Ranks /\ Ranks = RanksOf(geo)
      /\ View(r)' = ViewAt(plan, at, r, pos'[r], open'[r])
      /\ Held(r)' = HeldAt(geo, r, View(r)')
      /\ \A s \in Ranks : s # r => View(s)' = View(s) /\ Held(s)' = Held(s)
  BY <1>1, OthersSeen DEF Seen
<1>3. /\ View(r) = ViewAt(plan, at, r, pos[r], open[r]) /\ Held(r) = HeldAt(geo, r, View(r))
      /\ Begun(plan, at, r, pos[r]) /\ Len(plan) \in Nat /\ at \in 1..Len(plan)
      /\ pos[r] \in 1..(Len(plan) + 1) /\ plan[at].exec = "solve" /\ DOMAIN plan = 1..Len(plan)
  BY DEF Seen
<1>4. Abstract!Rank = Ranks
  BY <1>2 DEF Abstract!Rank
<1>5. OneSide'
  BY SidesKept
<1>6. CASE pos'[r] = pos[r] /\ open'[r] = open[r]
  <2>1. View(r)' = View(r) /\ Held(r)' = Held(r)
    <3>1. View(r)' = View(r)
      BY <1>2, <1>3, <1>6
    <3> QED
      BY <1>2, <1>3, <3>1
  <2>2. \A s \in Ranks : View(s)' = View(s) /\ Held(s)' = Held(s)
    BY <1>2, <2>1
  <2>3. [s \in Ranks |-> View(s)]' = [s \in Ranks |-> View(s)]
    BY <1>2, <2>2
  <2>4. [s \in Ranks |-> Held(s)]' = [s \in Ranks |-> Held(s)]
    BY <1>2, <2>2
  <2> QED
    BY <1>1, <2>3, <2>4 DEF Abstract!absvars
<1>7. CASE AtBatch(r) /\ ~open[r] /\ pos'[r] = pos[r] /\ open'[r]
  <2>1. pos[r] \in 1..Len(plan) /\ pos[r] # at
    BY <1>3, <1>7 DEF AtBatch, Batch
  <2>2. CASE pos[r] < at
    <3>1. View(r) \in {"given", "moving"} /\ View(r)' = "moving" /\ Held(r)' = {}
      BY <1>2, <1>3, <1>7, <2>1, <2>2 DEF ViewAt, HeldAt
    <3> QED
      BY <1>1, <1>2, <3>1, Departs
  <2>3. CASE pos[r] > at
    <3>1. View(r) \in {"solved", "returning"} /\ View(r)' = "returning" /\ Held(r)' = {}
      BY <1>2, <1>3, <1>7, <2>1, <2>3 DEF ViewAt, HeldAt
    <3> QED
      BY <1>1, <1>2, <3>1, Departs
  <2> QED
    BY <1>3, <2>1, <2>2, <2>3
<1>8. CASE /\ pos[r] \in 1..Len(plan) /\ pos[r] # at /\ pos'[r] = n /\ open'[r] = FALSE
  <2>1. n \in (pos[r] + 1)..(Len(plan) + 1) /\ (pos[r] < at => n <= at)
    BY <1>8, GoesOnTo
  <2> HIDE DEF n
  <2>2. /\ pos[r] < at => /\ View(r) \in {"given", "moving"}
                          /\ View(r)' = IF n = at THEN "placed" ELSE "moving"
        /\ pos[r] > at => /\ View(r) \in {"solved", "returning"}
                          /\ View(r)' = IF n = Len(plan) + 1 THEN "restored" ELSE "returning"
    <3>1. View(r)' = ViewAt(plan, at, r, n, FALSE)
      BY <1>2, <1>8
    <3>2. /\ pos[r] < at =>
               /\ ViewAt(plan, at, r, pos[r], open[r]) \in {"given", "moving"}
               /\ ViewAt(plan, at, r, n, FALSE) = IF n = at THEN "placed" ELSE "moving"
          /\ pos[r] > at =>
               /\ ViewAt(plan, at, r, pos[r], open[r]) \in {"solved", "returning"}
               /\ ViewAt(plan, at, r, n, FALSE) = IF n = Len(plan) + 1 THEN "restored"
                                                  ELSE "returning"
      <4> DEFINE c == pos[r]
                 o == open[r]
      <4>1. /\ c \in 1..Len(plan) /\ n \in (c + 1)..(Len(plan) + 1) /\ Len(plan) \in Nat
            /\ at \in 1..Len(plan) /\ c # at /\ Begun(plan, at, r, c) /\ (c < at => n <= at)
        BY <1>3, <1>8, <2>1
      <4> HIDE DEF c, o, at
      <4>2. /\ c < at => /\ ViewAt(plan, at, r, c, o) \in {"given", "moving"}
                         /\ ViewAt(plan, at, r, n, FALSE) = IF n = at THEN "placed"
                                                            ELSE "moving"
            /\ c > at => /\ ViewAt(plan, at, r, c, o) \in {"solved", "returning"}
                         /\ ViewAt(plan, at, r, n, FALSE) =
                              IF n = Len(plan) + 1 THEN "restored" ELSE "returning"
        BY <4>1, GoesOnSeen
      <4> QED
        BY <4>2 DEF c, o, at
    <3> QED
      BY <1>3, <3>1, <3>2
  <2>3. CASE pos[r] < at /\ n = at
    BY <1>1, <1>4, <1>5, <1>8, <2>2, <2>3, ArrivesThere DEF Abstract!Next
  <2>4. CASE pos[r] < at /\ n # at
    <3>1. View(r) \in {"given", "moving"} /\ View(r)' = "moving" /\ Held(r)' = {}
      BY <1>2, <2>2, <2>4 DEF HeldAt
    <3> QED
      BY <1>1, <1>2, <3>1, Departs
  <2>5. CASE pos[r] > at /\ n = Len(plan) + 1
    BY <1>1, <1>4, <1>5, <1>8, <2>2, <2>5, ComesBack DEF Abstract!Next
  <2>6. CASE pos[r] > at /\ n # Len(plan) + 1
    <3>1. View(r) \in {"solved", "returning"} /\ View(r)' = "returning" /\ Held(r)' = {}
      BY <1>2, <2>2, <2>6 DEF HeldAt
    <3> QED
      BY <1>1, <1>2, <3>1, Departs
  <2> QED
    BY <1>3, <1>8, <2>3, <2>4, <2>5, <2>6
<1>9. \/ pos'[r] = pos[r] /\ open'[r] = open[r]
      \/ AtBatch(r) /\ ~open[r] /\ pos'[r] = pos[r] /\ open'[r]
      \/ pos[r] \in 1..Len(plan) /\ pos[r] # at /\ pos'[r] = n /\ open'[r] = FALSE
  BY RankMoves
<1> QED
  BY <1>6, <1>7, <1>8, <1>9

\* What the solver call shows.
LEMMA SolveShown ==
  ASSUME Seen, Seen', TypeOK, Solve
  PROVE  Abstract!Next /\ OneSide'
<1> DEFINE at == solveAt
           V == [s \in Ranks |-> View(s)]
           H == [s \in Ranks |-> Held(s)]
<1>1. /\ geo' = geo /\ plan' = plan /\ open' = open
      /\ \A r \in Ranks : pos[r] = at /\ pos'[r] = NextFor(r, plan, at)
  BY DEF Solve, After
<1>2. Ranks' = Ranks /\ at' = at /\ Abstract!Rank = Ranks
  BY <1>1 DEF Ranks, solveAt, Abstract!Rank, Seen
<1>3. /\ Len(plan) \in Nat /\ at \in 1..Len(plan)
      /\ \A r \in Ranks :
           /\ Begun(plan, at, r, pos[r]) /\ open[r] = FALSE
           /\ View(r) = ViewAt(plan, at, r, pos[r], open[r])
           /\ Held(r) = HeldAt(geo, r, View(r))
           /\ NextFor(r, plan, at) = Len(plan) + 1 => JaxShard(geo, r) = CyclicShard(geo, r)
  BY <1>1 DEF Seen
<1>4. \A r \in Ranks : /\ View(r)' = ViewAt(plan, at, r, pos'[r], open[r])
                       /\ Held(r)' = HeldAt(geo, r, View(r)')
  BY <1>1, <1>2 DEF Seen
<1>5. ASSUME NEW r \in Ranks
      PROVE  /\ View(r) = "placed" /\ Held(r)' = Held(r)
             /\ View(r)' \in {"solved", "restored"} /\ pos'[r] > at
             /\ View(r)' = "restored" => JaxShard(geo, r) = CyclicShard(geo, r)
  <2> DEFINE n == NextFor(r, plan, at)
  <2>1. pos[r] = at /\ pos'[r] = n /\ open[r] = FALSE /\ n \in (at + 1)..(Len(plan) + 1)
    BY <1>1, <1>3 DEF Begun
  <2>2. View(r) = "placed" /\ Held(r) = CyclicShard(geo, r)
    <3>1. View(r) = "placed"
      BY <1>3, <2>1 DEF ViewAt
    <3> QED
      BY <1>3, <3>1 DEF HeldAt
  <2>3. CASE n = Len(plan) + 1
    <3>1. View(r)' = "restored" /\ JaxShard(geo, r) = CyclicShard(geo, r)
      BY <1>3, <1>4, <2>1, <2>3 DEF ViewAt
    <3>2. Held(r)' = JaxShard(geo, r)
      BY <1>4, <3>1 DEF HeldAt
    <3> QED
      BY <1>3, <2>1, <2>2, <3>1, <3>2
  <2>4. CASE n # Len(plan) + 1
    <3>1. View(r)' = "solved"
      BY <1>3, <1>4, <2>1, <2>4 DEF ViewAt
    <3>2. Held(r)' = CyclicShard(geo, r)
      BY <1>4, <3>1 DEF HeldAt
    <3> QED
      BY <1>3, <2>1, <2>2, <3>1, <3>2
  <2> QED
    BY <2>3, <2>4
<1>6. OneSide'
  BY <1>2, <1>5 DEF OneSide
<1>7. H' = H
  BY <1>2, <1>5
<1>8. /\ \A r \in Ranks : V[r] = "placed"
      /\ V' \in [Ranks -> {"solved", "restored"}]
      /\ \A r \in Ranks : (V')[r] = "restored" => Abstract!Stays(r)
  BY <1>2, <1>5 DEF Abstract!Stays
<1>9. Abstract!SolveAll
  BY <1>1, <1>2, <1>7, <1>8 DEF Abstract!SolveAll
<1> QED
  BY <1>6, <1>9 DEF Abstract!Next

\* How a call begins.
LEMMA BeginsShown ==
  ASSUME Seen, Init
  PROVE  Abstract!Init /\ OneSide
<1> DEFINE at == solveAt
           V == [s \in Ranks |-> View(s)]
           H == [s \in Ranks |-> Held(s)]
<1>1. \A r \in Ranks : pos[r] = NextFor(r, plan, 0) /\ open[r] = FALSE
  BY DEF Init, After
<1>2. /\ geo \in Geometries /\ Len(plan) \in Nat /\ at \in 1..Len(plan)
      /\ Ranks = RanksOf(geo)
      /\ \A r \in Ranks :
           /\ Begun(plan, at, r, pos[r])
           /\ View(r) = ViewAt(plan, at, r, pos[r], open[r])
           /\ Held(r) = HeldAt(geo, r, View(r))
           /\ NextFor(r, plan, 0) = at => JaxShard(geo, r) = CyclicShard(geo, r)
  BY DEF Seen
<1>3. ASSUME NEW r \in Ranks
      PROVE  /\ pos[r] <= at /\ View(r) \in {"given", "placed"}
             /\ View(r) = "placed" => JaxShard(geo, r) = CyclicShard(geo, r)
             /\ Held(r) = JaxShard(geo, r)
  <2>1. pos[r] \in 1..at /\ pos[r] = NextFor(r, plan, 0) /\ open[r] = FALSE
    BY <1>1, <1>2 DEF Begun
  <2>2. CASE pos[r] = at
    <3>1. View(r) = "placed" /\ JaxShard(geo, r) = CyclicShard(geo, r)
      BY <1>2, <2>1, <2>2 DEF ViewAt
    <3> QED
      BY <1>2, <2>1, <3>1 DEF HeldAt
  <2>3. CASE pos[r] # at
    <3>1. View(r) = "given"
      BY <1>2, <2>1, <2>3 DEF ViewAt
    <3> QED
      BY <1>2, <2>1, <3>1 DEF HeldAt
  <2> QED
    BY <2>2, <2>3
<1>4. OneSide
  BY <1>3 DEF OneSide
<1>5. Abstract!Rank = Ranks
  BY <1>2 DEF Abstract!Rank
<1>6. /\ V \in [Ranks -> {"given", "placed"}]
      /\ \A r \in Ranks : V[r] = "placed" => Abstract!Stays(r)
      /\ H = [r \in Ranks |-> JaxShard(geo, r)]
  BY <1>3 DEF Abstract!Stays
<1>7. Abstract!Init
  BY <1>2, <1>5, <1>6 DEF Abstract!Init
<1> QED
  BY <1>4, <1>7

\* A step that changes nothing shows nothing.
LEMMA NothingShown ==
  ASSUME UNCHANGED vars
  PROVE  /\ UNCHANGED Abstract!absvars
         /\ OneSide => OneSide'
<1>1. /\ geo' = geo /\ plan' = plan /\ pos' = pos /\ open' = open /\ mem' = mem
  BY DEF vars
<1>2. Ranks' = Ranks /\ solveAt' = solveAt /\ planEnd' = planEnd /\ Entries' = Entries
  BY <1>1 DEF Ranks, solveAt, planEnd, Entries
<1>3. \A r \in Ranks : View(r)' = View(r)
  BY <1>1, <1>2 DEF View, Untouched, After
<1>4. \A r \in Ranks : Held(r)' = Held(r)
  BY <1>1, <1>2, <1>3 DEF Held, InPlace
<1>5. [r \in Ranks |-> View(r)]' = [r \in Ranks |-> View(r)]
  BY <1>2, <1>3
<1>6. [r \in Ranks |-> Held(r)]' = [r \in Ranks |-> Held(r)]
  BY <1>2, <1>4
<1>7. UNCHANGED Abstract!absvars
  BY <1>1, <1>5, <1>6 DEF Abstract!absvars
<1>8. OneSide => OneSide'
  BY <1>1, <1>2 DEF OneSide
<1> QED
  BY <1>7, <1>8

\* Each step, whatever it is.
LEMMA NextShown ==
  ASSUME Seen, Seen', TypeOK, OneSide, [Next]_vars
  PROVE  [Abstract!Next]_(Abstract!absvars) /\ OneSide'
<1>1. CASE UNCHANGED vars
  BY <1>1, NothingShown
<1>2. ASSUME NEW r \in Ranks, RankStep(r) PROVE [Abstract!Next]_(Abstract!absvars) /\ OneSide'
  BY <1>2, StepShown, SidesKept
<1>3. CASE Solve
  BY <1>3, SolveShown
<1>4. CASE Terminated
  BY <1>4, NothingShown DEF Terminated
<1> QED
  BY <1>1, <1>2, <1>3, <1>4 DEF Next

\* Seen from the caller, the batches of every rank amount to one exchange of its shard
\* for the solver's and back: the executor (ExecutePadded2DNativePlanRaw, forward and
\* reversed, around the solver call) implements ShardExchange.
THEOREM ExecutorExchanges == Spec => ImplementsShardExchange
<1>1. RunInv => Seen
  BY RunSeen
<1>2. Seen /\ Init => Abstract!Init /\ OneSide
  BY BeginsShown
<1>3. Seen /\ Seen' /\ TypeOK /\ OneSide /\ [Next]_vars
        => [Abstract!Next]_(Abstract!absvars) /\ OneSide'
  BY NextShown
<1> QED
  BY <1>1, <1>2, <1>3, RunsAsInLockstep, TypeCorrect, PTL
     DEF Spec, ImplementsShardExchange, Abstract!Spec

(***************************************************************************)
(* Nobody waits for ever.                                                  *)
(***************************************************************************)
\* The guards of RankStep: rank r can run the batch it is at (SaveSlab, LocalMove or
\* Post), or complete a half of its group, or the group.
CanGo(r) ==
  \/ AtBatch(r) /\ ~open[r]
  \/ /\ "send" \in owes[r]
     /\ LET t == SendStep(r, plan[pos[r]]).to
        IN  \/ Len(chan[r, t]) < depth
            \/ chan[r, t] = <<>> /\ AwaitsFrom(t, r)
  \/ "recv" \in owes[r] /\ chan[RecvStep(r, plan[pos[r]]).from, r] # <<>>
  \/ open[r] /\ owes[r] = {}

\* Until all have returned, some rank can step, or all are at the solver call.
NeverStuck ==
  Returned \/ (\A r \in Ranks : pos[r] = solveAt) \/ (\E r \in Ranks : CanGo(r))

\* A rank no other is behind.
Hindmost(r) == r \in Ranks /\ \A s \in Ranks : pos[r] <= pos[s]

\* There is one.
LEMMA SomeHindmost ==
  ASSUME RunInv, Planned
  PROVE  \E r \in Ranks : Hindmost(r)
<1> DEFINE S == {pos[r] : r \in Ranks}
<1>1. \A r \in Ranks : pos[r] \in Nat
  BY OfRank
<1>2. 0 \in Ranks
  <2>1. geo.prows \in Nat \ {0} /\ geo.pcols \in Nat \ {0} /\ Ranks = RanksOf(geo)
    BY TwoSides DEF GeometryOK
  <2>2. geo.prows * geo.pcols >= 1 /\ geo.prows * geo.pcols \in Nat
    BY <2>1
  <2> QED
    BY <2>1, <2>2 DEF RanksOf
<1>3. S \in SUBSET Nat /\ S # {}
  BY <1>1, <1>2
<1>4. Least(S) \in S /\ \A y \in S : Least(S) <= y
  <2> HIDE DEF S
  <2> QED
    BY <1>3, LeastIs
<1> QED
  BY <1>4 DEF Hindmost

\* A rank in a group, in its batch.
LEMMA GroupOf ==
  ASSUME RunInv, Planned, NEW r \in Ranks, open[r]
  PROVE  /\ pos[r] \in 1..Len(plan) /\ BatchOK(geo, plan[pos[r]]) /\ Joins(r, plan[pos[r]])
         /\ owes[r] \subseteq Halves(r, plan[pos[r]])
         /\ Ranks = RanksOf(geo) /\ Len(plan) \in Nat /\ DOMAIN plan = 1..Len(plan)
<1>1. /\ RankInv(geo, plan, r, pos[r], open[r], owes[r]) /\ PlanOK(geo, plan)
      /\ Ranks = RanksOf(geo) /\ DOMAIN plan = 1..Len(plan) /\ Len(plan) \in Nat
  BY OfRank
<1>2. pos[r] \in 1..Len(plan) /\ Joins(r, plan[pos[r]]) /\ owes[r] \subseteq Halves(r, plan[pos[r]])
  BY <1>1 DEF RankInv
<1>3. plan[pos[r]].exec # "solve"
  BY <1>2 DEF Joins
<1> QED
  BY <1>1, <1>2, <1>3, EntryIs

\* If the last rank has not sent, its receiver waits or can join.
LEMMA SenderReady ==
  ASSUME RunInv, Planned, NEW r \in Ranks, Hindmost(r), open[r], "send" \in owes[r]
  PROVE  \E u \in Ranks : CanGo(u)
<1> DEFINE c == pos[r]
           b == plan[pos[r]]
           t == SendStep(r, b).to
           X == Standing(r)
           Y == Standing(t)
<1>1. /\ c \in 1..Len(plan) /\ BatchOK(geo, b) /\ Joins(r, b) /\ owes[r] \subseteq Halves(r, b)
      /\ Ranks = RanksOf(geo) /\ Len(plan) \in Nat /\ DOMAIN plan = 1..Len(plan)
  BY GroupOf
<1>2. SendsOf(r, b) # {} /\ b.exec # "solve" /\ b.kind # Save /\ ~IsLocal(r, b)
  BY <1>1 DEF Halves, Joins
<1>3. /\ t \in Ranks /\ t # r
      /\ RecvsOf(t, b) # {} /\ RecvStep(t, b) = SendStep(r, b) /\ SendStep(r, b).from = r
  BY <1>1, <1>2, PartnerOfSender, RemoteStep
<1>4. Carries(b, r, t)
  BY <1>2, <1>3 DEF Carries
<1>5. PairOK(geo, plan, r, t, X, Y, chan[<<r, t>>]) /\ pos[t] \in Nat /\ c \in Nat /\ c <= pos[t]
  <2>1. pos[t] \in Nat
    BY <1>3, OfRank
  <2> QED
    BY <1>1, <1>3, <2>1 DEF RunInv, PairsRun, Hindmost
<1>6. \A k \in 1..Len(plan) : Sent(X, k) => k < c
  BY <1>1 DEF Sent, Past, Standing, At
<1>7. ~Taken(Y, c)
  <2>1. ~Sent(X, c)
    BY <1>1 DEF Sent, Past, Standing, At
  <2> HIDE DEF X, Y, t
  <2> QED
    BY <1>1, <1>4, <1>5, <2>1 DEF PairOK
<1>8. pos[t] = c /\ (open[t] => "recv" \in owes[t])
  BY <1>5, <1>7 DEF Taken, Past, Standing, At
<1>9. CASE ~open[t]
  <2>1. AtBatch(t)
    BY <1>1, <1>2, <1>8 DEF AtBatch, Batch
  <2> QED
    BY <1>3, <1>9, <2>1 DEF CanGo
<1>10. CASE open[t]
  <2>1. AwaitsFrom(t, r)
    BY <1>3, <1>8, <1>10 DEF AwaitsFrom
  <2>2. Flying(plan, r, t, X, Y) = {}
    <3> SUFFICES ASSUME NEW k \in 1..Len(plan), Sent(X, k), ~Taken(Y, k) PROVE FALSE
      BY <1>1 DEF Flying
    <3>1. k < c
      BY <1>6
    <3>2. Taken(Y, k)
      BY <1>8, <3>1 DEF Taken, Past, Standing, At
    <3> QED
      BY <3>2
  <2>3. chan[<<r, t>>] = <<>>
    <3>1. Queue(geo, plan, r, {}, chan[<<r, t>>]) /\ {} \in SUBSET Nat
      BY <1>5, <2>2 DEF PairOK
    <3> HIDE DEF t
    <3>2. chan[<<r, t>>] # <<>> => Head(chan[<<r, t>>]).at \in {}
      BY <3>1, QueueHead
    <3> QED
      BY <3>2
  <2> QED
    BY <2>1, <2>3 DEF CanGo
<1> QED
  BY <1>9, <1>10

\* If it has sent and not received, its sender has sent or can.
LEMMA ReceiverReady ==
  ASSUME RunInv, Planned, NEW r \in Ranks, Hindmost(r), open[r], "recv" \in owes[r]
  PROVE  \E u \in Ranks : CanGo(u)
<1> DEFINE c == pos[r]
           b == plan[pos[r]]
           s == RecvStep(r, b).from
           X == Standing(s)
           Y == Standing(r)
<1>1. /\ c \in 1..Len(plan) /\ BatchOK(geo, b) /\ Joins(r, b) /\ owes[r] \subseteq Halves(r, b)
      /\ Ranks = RanksOf(geo) /\ Len(plan) \in Nat /\ DOMAIN plan = 1..Len(plan)
  BY GroupOf
<1>2. RecvsOf(r, b) # {} /\ b.exec # "solve" /\ b.kind # Save /\ ~IsLocal(r, b)
  BY <1>1 DEF Halves, Joins
<1>3. s \in Ranks /\ s # r
  BY <1>1, <1>2, Partner, RemoteStep
<1>4. Carries(b, s, r)
  <2>1. /\ RecvsOf(r, b) # {} /\ RecvStep(r, b).from = s /\ ~IsLocal(r, b)
        /\ s \in RanksOf(geo) /\ r \in RanksOf(geo) /\ BatchOK(geo, b)
    BY <1>1, <1>2, <1>3
  <2> HIDE DEF s, b
  <2> QED
    BY <2>1, CarriesIs
<1>5. PairOK(geo, plan, s, r, X, Y, chan[<<s, r>>]) /\ pos[s] \in Nat /\ c \in Nat /\ c <= pos[s]
  <2>1. pos[s] \in Nat
    BY <1>3, OfRank
  <2> QED
    BY <1>1, <1>3, <2>1 DEF RunInv, PairsRun, Hindmost
<1>6. ~Taken(Y, c)
  BY <1>1 DEF Taken, Past, Standing, At
<1>7. CASE Sent(X, c)
  <2>1. c \in Flying(plan, s, r, X, Y)
    BY <1>1, <1>4, <1>6, <1>7, SMTT(60) DEF Flying
  <2>2. \E i \in 1..Len(chan[<<s, r>>]) : chan[<<s, r>>][i].at = c
    BY <1>5, <2>1 DEF PairOK, Queue
  <2>3. chan[<<s, r>>] # <<>>
    BY <2>2, EmptySeq
  <2> QED
    BY <2>3 DEF CanGo
<1>8. CASE ~Sent(X, c)
  <2>1. pos[s] = c /\ (open[s] => "send" \in owes[s])
    BY <1>5, <1>8 DEF Sent, Past, Standing, At
  <2>2. CASE ~open[s]
    <3>1. AtBatch(s)
      BY <1>1, <1>2, <2>1 DEF AtBatch, Batch
    <3> QED
      BY <1>3, <2>2, <3>1 DEF CanGo
  <2>3. CASE open[s]
    <3>1. Hindmost(s)
      BY <1>3, <2>1 DEF Hindmost
    <3> HIDE DEF s
    <3> QED
      BY <1>3, <2>1, <2>3, <3>1, SenderReady
  <2> QED
    BY <2>2, <2>3
<1> QED
  BY <1>7, <1>8

\* As long as not all have returned, or wait for the solver, the last rank or one it
\* exchanges with can go on.
LEMMA NeverStuckFollows ==
  ASSUME RunInv, Planned, OneSide
  PROVE  NeverStuck
<1>1. /\ Len(plan) \in Nat /\ DOMAIN plan = 1..Len(plan) /\ planEnd = Len(plan) + 1
      /\ solveAt \in 1..Len(plan) /\ PlanOK(geo, plan)
      /\ \A k \in 1..Len(plan) : k # solveAt => BatchOK(geo, plan[k])
      /\ \A s \in Ranks : pos[s] \in 1..(Len(plan) + 1)
  BY TwoSides
<1>2. PICK r \in Ranks : Hindmost(r)
  BY SomeHindmost
<1>3. \A s \in Ranks : pos[r] <= pos[s]
  BY <1>2 DEF Hindmost
<1>4. RankInv(geo, plan, r, pos[r], open[r], owes[r])
  BY OfRank
<1>5. CASE pos[r] = Len(plan) + 1
  <2>1. \A s \in Ranks : pos[s] = planEnd
    BY <1>1, <1>3, <1>5
  <2> QED
    BY <2>1 DEF NeverStuck, Returned
<1>6. CASE pos[r] = solveAt
  <2>1. \A s \in Ranks : pos[s] <= solveAt
    BY <1>1, <1>6 DEF OneSide
  <2>2. \A s \in Ranks : pos[s] = solveAt
    BY <1>1, <1>3, <1>6, <2>1
  <2> QED
    BY <2>2 DEF NeverStuck
<1>7. CASE pos[r] # Len(plan) + 1 /\ pos[r] # solveAt
  <2>1. pos[r] \in 1..Len(plan) /\ BatchOK(geo, plan[pos[r]])
    BY <1>1, <1>7
  <2>2. CASE ~open[r]
    <3>1. AtBatch(r)
      BY <1>1, <2>1 DEF AtBatch, Batch, BatchOK
    <3> QED
      BY <2>2, <3>1 DEF CanGo, NeverStuck
  <2>3. CASE open[r] /\ owes[r] = {}
    BY <2>3 DEF CanGo, NeverStuck
  <2>4. CASE open[r] /\ "send" \in owes[r]
    BY <1>2, <2>4, SenderReady DEF NeverStuck
  <2>5. CASE open[r] /\ "recv" \in owes[r]
    BY <1>2, <2>5, ReceiverReady DEF NeverStuck
  <2>6. open[r] \in BOOLEAN /\ owes[r] \in SUBSET {"send", "recv"}
    BY <1>4 DEF RankInv
  <2> QED
    BY <2>2, <2>3, <2>4, <2>5, <2>6
<1> QED
  BY <1>5, <1>6, <1>7

\* Nobody waits for ever: in every reachable state some rank can step, the solver can
\* be called, or all have returned, with or without buffering in the transport (the
\* NCCL groups of RunRawNcclSendRecv never wait for each other in a circle).
THEOREM ExecutorNeverStuck == Spec => []NeverStuck
<1>1. RunInv => Seen
  BY RunSeen
<1>2. Seen /\ Init => OneSide
  BY BeginsShown
<1>3. Seen /\ Seen' /\ TypeOK /\ OneSide /\ [Next]_vars => OneSide'
  BY NextShown
<1>4. RunInv /\ OneSide => NeverStuck
  BY AllPlanned, NeverStuckFollows
<1> QED
  BY <1>1, <1>2, <1>3, <1>4, RunsAsInLockstep, TypeCorrect, PTL DEF Spec

(***************************************************************************)
(* Every step is progress.                                                 *)
(***************************************************************************)
\* The halves of a group left to complete, and what is left to do for a rank: a batch
\* takes at most four steps (Post, Send, Receive, CompleteGroup).
OwedBy(r) ==
  (IF "send" \in owes[r] THEN 1 ELSE 0) + (IF "recv" \in owes[r] THEN 1 ELSE 0)
WorkLeft(r) == 4 * (planEnd - pos[r]) - (IF open[r] THEN 3 - OwedBy(r) ELSE 0)

\* It is a natural number.
LEMMA WorkIsNat ==
  ASSUME RunInv, Planned, NEW r \in Ranks
  PROVE  WorkLeft(r) \in Nat
<1>1. /\ Len(plan) \in Nat /\ planEnd = Len(plan) + 1 /\ pos[r] \in 1..(Len(plan) + 1)
      /\ open[r] \in BOOLEAN /\ (open[r] => pos[r] # Len(plan) + 1)
  BY TwoSides
<1>2. OwedBy(r) \in 0..2
  BY DEF OwedBy
<1>3. CASE open[r]
  <2>1. WorkLeft(r) = 4 * (planEnd - pos[r]) - (3 - OwedBy(r))
    BY <1>3 DEF WorkLeft
  <2>2. planEnd - pos[r] \in Nat \ {0}
    BY <1>1, <1>3
  <2> QED
    BY <1>2, <2>1, <2>2
<1>4. CASE ~open[r]
  <2>1. WorkLeft(r) = 4 * (planEnd - pos[r])
    BY <1>1, <1>4 DEF WorkLeft
  <2> QED
    BY <1>1, <2>1
<1> QED
  BY <1>3, <1>4

\* A rank that is done with a batch has at least its last step less to do,
LEMMA NextIsLess ==
  ASSUME RunInv, Planned, Seen, NEW r \in Ranks, pos[r] \in 1..Len(plan), pos[r] # solveAt,
         plan' = plan, pos'[r] = NextFor(r, plan, pos[r]), open'[r] = FALSE
  PROVE  WorkLeft(r)' \in Int /\ WorkLeft(r)' < WorkLeft(r)
<1>1. pos'[r] \in (pos[r] + 1)..(Len(plan) + 1)
  BY GoesOnTo
<1>2. /\ Len(plan) \in Nat /\ planEnd = Len(plan) + 1 /\ planEnd' = planEnd
      /\ open[r] \in BOOLEAN
  BY TwoSides DEF planEnd
<1>3. WorkLeft(r)' = 4 * (planEnd - pos'[r])
  <2>1. ~open'[r] /\ 4 * (planEnd - pos'[r]) \in Int
    BY <1>1, <1>2
  <2> QED
    BY <1>2, <2>1 DEF WorkLeft
<1>4. WorkLeft(r) = 4 * (planEnd - pos[r]) - (IF open[r] THEN 3 - OwedBy(r) ELSE 0)
  BY DEF WorkLeft
<1>5. OwedBy(r) \in 0..2
  BY DEF OwedBy
<1>6. 4 * (planEnd - pos'[r]) <= 4 * (planEnd - pos[r]) - 4
  BY <1>1, <1>2
<1>7. 4 * (planEnd - pos[r]) \in Int /\ 4 * (planEnd - pos'[r]) \in Int
  BY <1>1, <1>2
<1>8. CASE open[r]
  BY <1>3, <1>4, <1>5, <1>6, <1>7, <1>8
<1>9. CASE ~open[r]
  BY <1>3, <1>4, <1>6, <1>7, <1>9
<1> QED
  BY <1>8, <1>9

\* and so has one that does any other step of it.
LEMMA StepIsLess ==
  ASSUME RunInv, Planned, Seen, TypeOK, NEW r \in Ranks, RankStep(r)
  PROVE  /\ WorkLeft(r)' \in Int /\ WorkLeft(r)' < WorkLeft(r)
         /\ \A s \in Ranks : s # r => WorkLeft(s)' = WorkLeft(s)
<1>1. /\ pos \in [Ranks -> 1..planEnd] /\ open \in [Ranks -> BOOLEAN]
      /\ owes \in [Ranks -> SUBSET {"send", "recv"}]
  BY DEF TypeOK
<1>2. /\ DOMAIN plan = 1..Len(plan) /\ plan[solveAt].exec = "solve" /\ Len(plan) \in Nat
      /\ pos[r] \in 1..(Len(plan) + 1) /\ planEnd = Len(plan) + 1
      /\ open[r] => pos[r] # Len(plan) + 1 /\ pos[r] # solveAt
  BY TwoSides
<1>3. AtBatch(r) => pos[r] \in 1..Len(plan) /\ pos[r] # solveAt
  BY <1>2 DEF AtBatch, Batch
<1>4. /\ plan' = plan
      /\ \A s \in Ranks : s # r => pos'[s] = pos[s] /\ open'[s] = open[s]
  BY RankMoves
<1>5. \A s \in Ranks : s # r => owes'[s] = owes[s]
  BY <1>1 DEF RankStep, SaveSlab, LocalMove, Post, Send, Receive, CompleteGroup
<1>6. \A s \in Ranks : s # r => WorkLeft(s)' = WorkLeft(s)
  BY <1>4, <1>5 DEF WorkLeft, OwedBy, planEnd
<1>7. CASE SaveSlab(r)
  <2>1. pos[r] \in 1..Len(plan) /\ pos[r] # solveAt
        /\ pos'[r] = NextFor(r, plan, pos[r]) /\ open'[r] = FALSE
    BY <1>1, <1>3, <1>7 DEF SaveSlab, Advance, After
  <2> QED
    BY <1>4, <1>6, <2>1, NextIsLess
<1>8. CASE LocalMove(r)
  <2>1. pos[r] \in 1..Len(plan) /\ pos[r] # solveAt
        /\ pos'[r] = NextFor(r, plan, pos[r]) /\ open'[r] = FALSE
    BY <1>1, <1>3, <1>8 DEF LocalMove, Advance, After
  <2> QED
    BY <1>4, <1>6, <2>1, NextIsLess
<1>9. CASE CompleteGroup(r)
  <2>1. pos[r] \in 1..Len(plan) /\ pos[r] # solveAt
        /\ pos'[r] = NextFor(r, plan, pos[r]) /\ open'[r] = FALSE
    BY <1>1, <1>2, <1>9 DEF CompleteGroup, Advance, After
  <2> QED
    BY <1>4, <1>6, <2>1, NextIsLess
<1>10. 4 * (planEnd - pos[r]) \in Int
  BY <1>2
<1>11. CASE Post(r)
  <2>1. /\ ~open[r] /\ open'[r] /\ pos' = pos
        /\ owes'[r] = Halves(r, plan[pos[r]])
    BY <1>1, <1>11 DEF Post, Batch
  <2>2. CASE OwedBy(r)' < 3
    <3>1. WorkLeft(r)' = 4 * (planEnd - pos[r]) - (3 - OwedBy(r)')
      BY <1>4, <2>1 DEF WorkLeft, planEnd
    <3>2. WorkLeft(r) = 4 * (planEnd - pos[r])
      BY <1>10, <2>1 DEF WorkLeft
    <3>3. OwedBy(r)' \in Int
      BY DEF OwedBy
    <3> QED
      BY <1>6, <1>10, <2>2, <3>1, <3>2, <3>3
  <2>3. OwedBy(r)' < 3
    BY DEF OwedBy
  <2> QED
    BY <2>2, <2>3
<1>12. ASSUME Send(r) \/ Receive(r)
       PROVE  WorkLeft(r)' \in Int /\ WorkLeft(r)' < WorkLeft(r)
  <2>1. /\ pos' = pos /\ open' = open
        /\ \/ "send" \in owes[r] /\ owes'[r] = owes[r] \ {"send"}
           \/ "recv" \in owes[r] /\ owes'[r] = owes[r] \ {"recv"}
    BY <1>1, <1>12 DEF Send, Receive
  <2>2. OwedBy(r)' = OwedBy(r) - 1 /\ OwedBy(r) \in 0..2
    BY <2>1 DEF OwedBy
  <2>3. open[r]
    BY <2>1, OfRank DEF RankInv
  <2>4. WorkLeft(r)' = 4 * (planEnd - pos[r]) - (3 - OwedBy(r)')
    BY <1>4, <2>1, <2>3 DEF WorkLeft, planEnd
  <2>5. WorkLeft(r) = 4 * (planEnd - pos[r]) - (3 - OwedBy(r))
    BY <2>3 DEF WorkLeft
  <2> QED
    BY <1>10, <2>2, <2>4, <2>5, SMTT(60)
<1> QED
  BY <1>6, <1>7, <1>8, <1>9, <1>11, <1>12 DEF RankStep

\* A step leaves no rank more to do, and some rank less.
IsProgress ==
  /\ \A r \in Ranks : WorkLeft(r)' <= WorkLeft(r)
  /\ \E r \in Ranks : WorkLeft(r)' < WorkLeft(r)

\* The solver call is a step of every rank.
LEMMA SolveIsLess ==
  ASSUME RunInv, Planned, Solve, NEW r \in Ranks
  PROVE  WorkLeft(r)' \in Int /\ WorkLeft(r)' < WorkLeft(r)
<1>1. /\ PlanOK(geo, plan) /\ Ranks = RanksOf(geo)
      /\ Len(plan) \in Nat /\ planEnd = Len(plan) + 1 /\ solveAt \in 1..Len(plan)
  BY TwoSides
<1>2. /\ pos[r] = solveAt /\ pos'[r] = NextFor(r, plan, solveAt)
      /\ plan' = plan /\ open' = open /\ owes' = owes
  BY DEF Solve, After
<1>3. ~open[r]
  BY <1>2, TwoSides
<1>4. NextFor(r, plan, solveAt) \in (solveAt + 1)..(Len(plan) + 1)
  <2>1. solveAt \in 0..Len(plan)
    BY <1>1
  <2> QED
    BY <1>1, <2>1, NextIs
<1>5. WorkLeft(r)' = 4 * (planEnd - pos'[r]) /\ WorkLeft(r) = 4 * (planEnd - pos[r])
  <2>1. 4 * (planEnd - pos'[r]) \in Int /\ 4 * (planEnd - pos[r]) \in Int
    BY <1>1, <1>2, <1>4
  <2>2. planEnd' = planEnd /\ ~open'[r]
    BY <1>2, <1>3 DEF planEnd
  <2> QED
    BY <1>3, <2>1, <2>2 DEF WorkLeft
<1> QED
  BY <1>1, <1>2, <1>4, <1>5

\* Steps of the executor.
LEMMA StepProgresses ==
  ASSUME RunInv, RunInv', Planned, TypeOK, [Next]_vars
  PROVE  [IsProgress]_vars
<1>1. Seen
  BY RunSeen
<1>2. \A r \in Ranks : WorkLeft(r) \in Nat
  BY WorkIsNat
<1>3. ASSUME NEW r \in Ranks, RankStep(r) PROVE IsProgress
  <2>1. /\ WorkLeft(r)' \in Int /\ WorkLeft(r)' < WorkLeft(r)
        /\ \A s \in Ranks : s # r => WorkLeft(s)' = WorkLeft(s)
    BY <1>1, <1>3, StepIsLess
  <2>2. geo' = geo
    BY <1>1, <1>3, RankMoves
  <2>3. Ranks' = Ranks
    BY <2>2 DEF Ranks
  <2>4. \A s \in Ranks : WorkLeft(s)' <= WorkLeft(s)
    BY <1>2, <2>1
  <2> QED
    BY <2>1, <2>3, <2>4 DEF IsProgress
<1>4. CASE Solve
  <2>1. \A r \in Ranks : WorkLeft(r)' \in Int /\ WorkLeft(r)' < WorkLeft(r)
    BY <1>4, SolveIsLess
  <2>2. \E r \in Ranks : TRUE
    BY SomeHindmost
  <2>3. \A r \in Ranks : WorkLeft(r)' <= WorkLeft(r)
    BY <1>2, <2>1
  <2> QED
    BY <2>1, <2>2, <2>3 DEF IsProgress
<1>5. CASE Terminated
  BY <1>5 DEF Terminated
<1> QED
  BY <1>3, <1>4, <1>5 DEF Next

\* Every rank goes forward only: each step of the executor is one of the bounded number
\* the plan leaves to some rank, and undoes none of another's.
THEOREM EveryStepCounts ==
  Spec => /\ [](\A r \in Ranks : WorkLeft(r) \in Nat)
          /\ [][IsProgress]_vars
<1>1. RunInv => \A r \in Ranks : WorkLeft(r) \in Nat
  BY AllPlanned, WorkIsNat
<1>2. RunInv /\ RunInv' /\ TypeOK /\ [Next]_vars => [IsProgress]_vars
  BY AllPlanned, StepProgresses
<1> QED
  BY <1>1, <1>2, RunsAsInLockstep, TypeCorrect, PTL DEF Spec
=============================================================================
