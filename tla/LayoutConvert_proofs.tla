------------------------- MODULE LayoutConvert_proofs -------------------------
(***************************************************************************)
(* The conversion of a shard's storage order transposes it, in place, for  *)
(* any shape and any scratch size, and the conversion back undoes it.      *)
(*                                                                         *)
(* Euclid's loop ends with the greatest common divisor and an inverse; the *)
(* three shuffles together find, for a cell of the transposed grid, the    *)
(* cell it comes from; the plan goes through the phases line by line; and  *)
(* while a launch runs every cell holds what the phases over its line make *)
(* of the storage the conversion started from.  The slices in the scratch  *)
(* never meet, and the row shuffle's arithmetic stays within a word.       *)
(***************************************************************************)
EXTENDS LayoutConvert, SequenceTheorems, BlockCyclic_proofs

(***************************************************************************)
(* Slices of the scratch.                                                  *)
(***************************************************************************)
Phases == {"pre", "row", "post"}

\* The launches whose slices fit side by side into a scratch of a size.
Fitting(size) ==
  {l \in [phase : Phases, first : Int, count : Int, length : Nat \ {0}] :
     l.count * l.length <= size}

\* A batch has no more lines than the scratch has room for.
LEMMA BatchFits ==
  ASSUME NEW lines \in Nat \ {0}, NEW length \in Nat \ {0}, NEW size \in Nat,
         size >= length
  PROVE  /\ LineBatch(lines, length, size) \in Nat \ {0}
         /\ LineBatch(lines, length, size) * length <= size
<1> DEFINE q == size \div length
<1>1. q \in Nat /\ q >= 1 /\ q * length <= size
  OBVIOUS
<1>2. /\ LineBatch(lines, length, size) \in Nat \ {0}
      /\ LineBatch(lines, length, size) <= q
  BY <1>1, MaxGridXAssumption DEF LineBatch, Higher, Lower
<1>3. QED
  BY <1>1, <1>2

\* Every launch of a pass fits, the shorter last one too.
LEMMA PassFits ==
  ASSUME NEW lines \in Nat \ {0}, NEW length \in Nat \ {0}, NEW size \in Nat,
         size >= length, NEW phase \in Phases
  PROVE  Pass(phase, lines, length, size) \in Seq(Fitting(size))
<1> DEFINE batch == LineBatch(lines, length, size)
           n == (lines + batch - 1) \div batch
           launch(i) == [phase |-> phase, first |-> (i - 1) * batch,
                         count |-> Lower(batch, lines - (i - 1) * batch),
                         length |-> length]
<1>1. batch \in Nat \ {0} /\ batch * length <= size
  BY BatchFits
<1> HIDE DEF batch
<1>2. n \in Nat
  BY <1>1
<1>3. \A i \in 1..n : launch(i) \in Fitting(size)
  <2> TAKE i \in 1..n
  <2> DEFINE c == Lower(batch, lines - (i - 1) * batch)
  <2>1. c \in Int /\ c <= batch
    BY <1>1, <1>2 DEF Lower
  <2>2. (i - 1) * batch \in Int
    BY <1>1, <1>2
  <2> HIDE DEF c
  <2>3. c * length <= batch * length
    BY <1>1, <2>1
  <2>4. c * length <= size
    BY <1>1, <2>1, <2>3
  <2>5. QED
    BY <2>1, <2>2, <2>4 DEF Fitting, c
<1>4. [i \in 1..n |-> launch(i)] \in Seq(Fitting(size))
  <2> HIDE DEF n, launch
  <2> QED
    BY <1>2, <1>3
<1>5. QED
  BY <1>4 DEF Pass, batch

\* So does every launch of a conversion the scratch is long enough for.
LEMMA LaunchesFit ==
  ASSUME NEW rows \in Nat \ {0}, NEW cols \in Nat \ {0}, NEW size \in Nat,
         size >= rows, size >= cols
  PROVE  Launches(rows, cols, size) \in Seq(Fitting(size))
<1>1. /\ Pass("pre", cols, rows, size) \in Seq(Fitting(size))
      /\ Pass("row", rows, cols, size) \in Seq(Fitting(size))
      /\ Pass("post", cols, rows, size) \in Seq(Fitting(size))
  <2>1. \A phase \in Phases : /\ Pass(phase, cols, rows, size) \in Seq(Fitting(size))
                             /\ Pass(phase, rows, cols, size) \in Seq(Fitting(size))
    BY PassFits, Zenon
  <2>2. QED
    BY <2>1 DEF Phases
<1>2. <<>> \in Seq(Fitting(size))
  OBVIOUS
<1> DEFINE first == IF Gcd(rows, cols) > 1 THEN Pass("pre", cols, rows, size)
                    ELSE <<>>
<1>3. first \in Seq(Fitting(size))
  BY <1>1, <1>2
<1> HIDE DEF first
<1>4. first \o Pass("row", rows, cols, size) \in Seq(Fitting(size))
  BY <1>1, <1>3, ConcatProperties
<1>5. (first \o Pass("row", rows, cols, size)) \o Pass("post", cols, rows, size)
        \in Seq(Fitting(size))
  BY <1>1, <1>4, ConcatProperties
<1>6. QED
  BY <1>2, <1>5 DEF Launches, first

\* The running launch is one of the plan, its blocks are numbered from zero, and
\* there are none before the first launch and after a conversion.
LaunchInv ==
  /\ call \in Calls
  /\ at \in Nat
  /\ at = 0 => blocks = <<>>
  /\ at # 0 => /\ call.scratch >= Higher(call.rows, call.cols)
               /\ at <= Len(Plan)
               /\ DOMAIN blocks = 0..(Plan[at].count - 1)

\* The launches of the plan under way fit the scratch.
LEMMA PlanFits ==
  ASSUME call \in Calls, call.scratch >= Higher(call.rows, call.cols)
  PROVE  Plan \in Seq(Fitting(call.scratch))
<1>1. /\ call.rows \in Nat \ {0} /\ call.cols \in Nat \ {0}
      /\ call.scratch \in Nat
  BY CallsAssumption
<1>2. call.scratch >= call.rows /\ call.scratch >= call.cols
  BY <1>1 DEF Higher
<1>3. QED
  BY <1>1, <1>2, LaunchesFit DEF Plan, GridRows, GridCols

\* LaunchInv holds initially.
LEMMA InitLaunchInv == Init => LaunchInv
  BY DEF Init, LaunchInv

\* Every step preserves it: a launch starts with the blocks of its count, and
\* turning back or refusing leaves none.
LEMMA NextLaunchInv == LaunchInv /\ [Next]_vars => LaunchInv'
<1> SUFFICES ASSUME LaunchInv, [Next]_vars
             PROVE  LaunchInv'
  OBVIOUS
<1>1. ASSUME UNCHANGED <<call, way, at, blocks>>
      PROVE  LaunchInv'
  BY <1>1 DEF LaunchInv, Plan, GridRows, GridCols
<1>2. CASE Reject
  BY <1>2 DEF Reject, LaunchInv, Plan, GridRows, GridCols
<1>3. CASE Launch
  <2>1. /\ call' = call /\ way' = way /\ at' = at + 1
        /\ DOMAIN blocks' = 0..(Plan[at + 1].count - 1)
        /\ at < Len(Plan)
        /\ call.scratch >= Higher(call.rows, call.cols)
    BY <1>3 DEF Launch, Converting
  <2>2. Plan' = Plan
    BY <2>1 DEF Plan, GridRows, GridCols
  <2>3. Len(Plan) \in Nat
    BY <2>1, PlanFits DEF LaunchInv
  <2>4. QED
    BY <2>1, <2>2, <2>3 DEF LaunchInv
<1>4. CASE Turn
  BY <1>4 DEF Turn, LaunchInv
<1>5. ASSUME NEW b \in DOMAIN blocks, Gather(b) \/ WriteBack(b)
      PROVE  LaunchInv'
  <2>1. /\ UNCHANGED <<call, way, at>>
        /\ DOMAIN blocks' = DOMAIN blocks
        /\ b \in DOMAIN blocks
    BY <1>5 DEF Gather, WriteBack
  <2>2. at # 0
    BY <2>1 DEF LaunchInv
  <2>3. Plan' = Plan
    BY <2>1 DEF Plan, GridRows, GridCols
  <2>4. DOMAIN blocks' = 0..(Plan'[at'].count - 1)
    BY <2>1, <2>2, <2>3 DEF LaunchInv
  <2>5. QED
    BY <2>1, <2>2, <2>3, <2>4 DEF LaunchInv
<1>6. CASE Terminated
  BY <1>6, <1>1 DEF Terminated, vars
<1>7. CASE UNCHANGED vars
  BY <1>7, <1>1 DEF vars
<1>8. QED
  BY <1>2, <1>3, <1>4, <1>5, <1>6, <1>7 DEF Next

\* The end of one slice is the beginning of the next.
LEMMA NextSlice ==
  ASSUME NEW n \in Int, NEW length \in Int
  PROVE  (n + 1) * length = n * length + length
  OBVIOUS

\* Slices of the blocks of a fitting launch are disjoint and inside.
LEMMA FittingSlices ==
  ASSUME NEW size \in Nat, NEW l \in Fitting(size), NEW b \in 0..(l.count - 1)
  PROVE  /\ Slice(b, l.length) + l.length <= size
         /\ \A c \in 0..(l.count - 1) :
              b < c => Slice(b, l.length) + l.length <= Slice(c, l.length)
<1>1. l.count \in Int /\ l.length \in Nat \ {0} /\ l.count * l.length <= size
  BY DEF Fitting
<1>2. ASSUME NEW m \in Int, b < m
      PROVE  b * l.length + l.length <= m * l.length
  <2>1. b + 1 <= m
    BY <1>1, <1>2
  <2>2. (b + 1) * l.length <= m * l.length
    BY <1>1, <2>1
  <2>3. (b + 1) * l.length = b * l.length + l.length
    <3>1. b \in Int /\ l.length \in Int
      BY <1>1
    <3>2. QED
      BY <3>1, NextSlice, Zenon
  <2>4. QED
    BY <2>2, <2>3
<1>3. b * l.length + l.length <= l.count * l.length
  BY <1>1, <1>2
<1>4. b * l.length + l.length <= size
  BY <1>1, <1>3
<1>5. QED
  BY <1>1, <1>2, <1>4 DEF Slice

\* SlicesDisjoint follows from the invariant.
LEMMA LaunchInvSlices == LaunchInv => SlicesDisjoint
<1> SUFFICES ASSUME LaunchInv, NEW b \in DOMAIN blocks
             PROVE  LET l == Plan[at]
                    IN  /\ Slice(b, l.length) + l.length <= call.scratch
                        /\ \A c \in DOMAIN blocks :
                             b < c => Slice(b, l.length) + l.length
                                        <= Slice(c, l.length)
  BY DEF SlicesDisjoint
<1>1. at # 0
  BY DEF LaunchInv
<1>2. Plan \in Seq(Fitting(call.scratch))
  BY <1>1, PlanFits DEF LaunchInv
<1>3. Plan[at] \in Fitting(call.scratch)
  BY <1>1, <1>2 DEF LaunchInv
<1>4. call.scratch \in Nat
  BY CallsAssumption DEF LaunchInv
<1>5. DOMAIN blocks = 0..(Plan[at].count - 1)
  BY <1>1 DEF LaunchInv
<1>6. QED
  BY <1>3, <1>4, <1>5, FittingSlices

\* Blocks of a launch work in disjoint slices inside the scratch allocation,
\* whatever the shape of the shard and the size of the scratch.
THEOREM SlicesNeverMeet == Spec => []SlicesDisjoint
<1>1. LaunchInv /\ [Next]_vars => LaunchInv'
  BY NextLaunchInv
<1>2. QED
  BY InitLaunchInv, <1>1, LaunchInvSlices, PTL DEF Spec

(***************************************************************************)
(* Words and products.                                                     *)
(***************************************************************************)
\* A product with a positive number is no less than the other factor.
LEMMA ProductNotLess == \A c \in Nat : \A d \in Nat \ {0} : c <= c * d /\ c <= d * c
<1> TAKE c \in Nat
<1> TAKE d \in Nat \ {0}
<1>1. /\ d - 1 \in Nat /\ c * (d - 1) \in Nat
      /\ c * d = c + c * (d - 1) /\ d * c = c + c * (d - 1)
  BY SMT
<1> QED
  BY <1>1

\* Products of smaller factors are smaller.
LEMMA ProductBound ==
  ASSUME NEW n \in Nat, NEW a \in 0..n, NEW b \in 0..n
  PROVE  a * b \in Nat /\ a * b <= n * n /\ n * n \in Nat
  <1>1. a * b <= n * b
    BY SMT
  <1>2. n * b <= n * n
    BY SMT
  <1>3. a * b \in Nat /\ n * b \in Nat /\ n * n \in Nat
    BY SMT
  <1> QED
    BY <1>1, <1>2, <1>3

\* The row shuffle's arithmetic stays within a word, for any shard whose sides
\* keep below the root of the width and any inverse within range: neither the
\* address it starts from nor the product is cut off.
THEOREM RowShuffleFits ==
  ASSUME NEW rows \in Nat \ {0}, NEW cols \in Nat \ {0},
         NEW row \in 0..(rows - 1), NEW col \in 0..(cols - 1),
         NEW inverse \in 0..cols, NEW quotient \in 0..(cols - 1),
         Width \in Nat, rows * (rows + 1) <= Width, cols * (cols + 1) <= Width
  PROVE  /\ Word(col + row * (cols - 1) + rows) = col + row * (cols - 1) + rows
         /\ Word(inverse * quotient) = inverse * quotient
  <1>1. ASSUME NEW x \in Nat, x < Width PROVE Word(x) = x
    BY <1>1 DEF Word
  <1>2. PICK n \in Nat : /\ rows <= n + 1 /\ cols <= n + 1
                         /\ (n + 1) * (n + 2) <= Width
    <2>1. CASE rows <= cols
      <3>1. cols - 1 \in Nat /\ rows <= (cols - 1) + 1 /\ cols <= (cols - 1) + 1
        BY <2>1
      <3>2. ((cols - 1) + 1) * ((cols - 1) + 2) = cols * (cols + 1)
        BY SMT
      <3> QED
        BY <3>1, <3>2
    <2>2. CASE cols <= rows
      <3>1. rows - 1 \in Nat /\ rows <= (rows - 1) + 1 /\ cols <= (rows - 1) + 1
        BY <2>2
      <3>2. ((rows - 1) + 1) * ((rows - 1) + 2) = rows * (rows + 1)
        BY SMT
      <3> QED
        BY <3>1, <3>2
    <2> QED
      BY <2>1, <2>2
  <1>3. (n + 1) * (n + 2) = n * n + 3 * n + 2
    BY SMT
  <1>4. /\ row * (cols - 1) \in Nat /\ row * (cols - 1) <= n * n /\ n * n \in Nat
        /\ inverse * quotient \in Nat /\ inverse * quotient <= n * n + n
    <2>1. row \in 0..n /\ cols - 1 \in 0..n /\ quotient \in 0..n
      BY <1>2
    <2>2. /\ row * (cols - 1) \in Nat /\ row * (cols - 1) <= n * n
          /\ n * n \in Nat
      BY <2>1, ProductBound
    <2>3. PICK x \in 0..n : inverse = x \/ inverse = x + 1
      <3>1. inverse \in 0..n \/ inverse - 1 \in 0..n
        BY <1>2
      <3> QED
        BY <3>1
    <2>4. x * quotient \in Nat /\ x * quotient <= n * n
      BY <2>1, ProductBound
    <2>5. (x + 1) * quotient = x * quotient + quotient
      BY <2>1, SMT
    <2> DEFINE y == x * quotient
    <2> HIDE DEF y
    <2>6. inverse * quotient = y \/ inverse * quotient = y + quotient
      BY <2>3, <2>5 DEF y
    <2>7. inverse * quotient \in Nat /\ inverse * quotient <= n * n + n
      BY <2>1, <2>2, <2>4, <2>6 DEF y
    <2> QED
      BY <2>2, <2>7
  <1>5. col + row * (cols - 1) + rows < Width /\ inverse * quotient < Width
    <2> DEFINE product == row * (cols - 1)
               other   == inverse * quotient
               square  == n * n
    <2>1. /\ product \in Nat /\ other \in Nat /\ square \in Nat
          /\ product <= square /\ other <= square + n
          /\ square + 3 * n + 2 <= Width
      BY <1>2, <1>3, <1>4
    <2> HIDE DEF product, other, square
    <2>2. col + product + rows < Width /\ other < Width
      BY <1>2, <2>1
    <2> QED
      BY <2>2 DEF product, other
  <1> QED
    BY <1>1, <1>4, <1>5

(***************************************************************************)
(* Euclid's loop.                                                          *)
(***************************************************************************)
\* Both arguments are combinations of what is left of them.
Spans(s, a, b) ==
  \E p, q, t, u \in Int : a = p * s.a + q * s.b /\ b = t * s.a + u * s.b

\* What is left are combinations of the arguments, with the loop's coefficients.
Bezout(s, a, b) ==
  \E y, z \in Int : s.a = s.lastX * a + y * b /\ s.b = s.x * a + z * b

\* The coefficients have different signs and are no larger than b.
Bounded(s, b) ==
  \E l \in 0..b, m \in Nat :
    /\ (s.lastX = l /\ s.x = 0 - m) \/ (s.lastX = 0 - l /\ s.x = m)
    /\ m * s.a + l * s.b = b

EuclidState == [a : Nat \ {0}, b : Nat, x : Int, lastX : Int]

EuclidInv(s, a, b) ==
  /\ s \in EuclidState
  /\ Spans(s, a, b)
  /\ Bezout(s, a, b)
  /\ Bounded(s, b)

\* A step of the loop keeps all that.
LEMMA EuclidStepInv ==
  ASSUME NEW a \in Nat \ {0}, NEW b \in Nat \ {0}, NEW s, EuclidInv(s, a, b)
  PROVE  /\ EuclidInv(EuclidStep(s), a, b)
         /\ s.b # 0 => EuclidStep(s).b < s.b
         /\ s.b = 0 => EuclidStep(s).b = 0
<1>1. CASE s.b = 0
  BY <1>1 DEF EuclidStep
<1>2. CASE s.b # 0
  <2> DEFINE q == s.a \div s.b
             r == s.a % s.b
             n == [a |-> s.b, b |-> r, x |-> s.lastX - q * s.x, lastX |-> s.x]
  <2>1. EuclidStep(s) = n
    BY <1>2 DEF EuclidStep
  <2>2. /\ s.a \in Nat \ {0} /\ s.b \in Nat \ {0} /\ s.x \in Int /\ s.lastX \in Int
    BY <1>2 DEF EuclidInv, EuclidState
  <2>3. q \in Nat /\ r \in 0..(s.b - 1) /\ s.a = q * s.b + r
    BY <2>2, DivMod
  <2> HIDE DEF q, r
  <2>4. r \in Nat /\ r < s.b
    BY <2>2, <2>3
  <2>5. n \in EuclidState
    BY <2>2, <2>3, <2>4 DEF EuclidState
  <2>6. Spans(n, a, b)
    <3>1. PICK c, d, t, u \in Int : a = c * s.a + d * s.b /\ b = t * s.a + u * s.b
      BY DEF EuclidInv, Spans
    <3>2. \A v, w, i, j, k \in Int : v * (i * j + k) + w * j = (v * i + w) * j + v * k
      BY SMT
    <3>3. /\ a = (c * q + d) * s.b + c * r
          /\ b = (t * q + u) * s.b + t * r
      BY <2>2, <2>3, <2>4, <3>1, <3>2
    <3>4. c * q + d \in Int /\ t * q + u \in Int
      BY <2>3, <3>1
    <3> QED
      BY <3>1, <3>3, <3>4 DEF Spans
  <2>7. Bezout(n, a, b)
    <3>1. PICK y, z \in Int : s.a = s.lastX * a + y * b /\ s.b = s.x * a + z * b
      BY DEF EuclidInv, Bezout
    <3>2. \A v, w, i, j, k \in Int :
            (v * a + i * b) - k * (w * a + j * b) = (v - k * w) * a + (i - k * j) * b
      BY SMT
    <3>3. r = s.a - q * s.b
      <4> DEFINE qb == q * s.b
      <4>1. qb \in Int /\ s.a = qb + r
        BY <2>2, <2>3
      <4> HIDE DEF qb
      <4>2. r = s.a - qb
        BY <2>2, <2>4, <4>1
      <4> QED
        BY <4>2 DEF qb
    <3>4. r = (s.lastX * a + y * b) - q * (s.x * a + z * b)
      BY <3>1, <3>3
    <3>5. r = (s.lastX - q * s.x) * a + (y - q * z) * b
      BY <2>2, <2>3, <3>1, <3>2, <3>4
    <3>6. y - q * z \in Int
      BY <2>3, <3>1
    <3> QED
      BY <3>1, <3>5, <3>6 DEF Bezout
  <2>8. Bounded(n, b)
    <3>1. PICK l \in 0..b, m \in Nat :
            /\ (s.lastX = l /\ s.x = 0 - m) \/ (s.lastX = 0 - l /\ s.x = m)
            /\ m * s.a + l * s.b = b
      BY DEF EuclidInv, Bounded
    <3> DEFINE k == l + q * m
    <3>2. l \in Nat /\ q * m \in Nat /\ k \in Nat
      BY <2>3, <3>1
    <3>3. m * s.a \in Nat /\ l * s.b \in Nat
      BY <2>2, <3>1, <3>2
    <3>4. m <= b
      <4>1. m <= m * s.a
        BY <2>2, <3>1, ProductNotLess
      <4> QED
        BY <3>1, <3>3, <4>1
    <3>5. k * s.b + m * r = b
      <4>1. \A c, d, e, f, h \in Int : (c + e * d) * f + d * h = d * (e * f + h) + c * f
        BY SMT
      <4>2. k * s.b + m * r = m * (q * s.b + r) + l * s.b
        BY <2>2, <2>3, <2>4, <3>1, <3>2, <4>1
      <4> QED
        BY <2>3, <3>1, <4>2
    <3>6. s.x = 0 - m => s.lastX - q * s.x = k \/ m = 0
      BY <2>3, <3>1, SMT
    <3>7. \/ s.x = 0 - m /\ s.lastX - q * s.x = k
          \/ s.x = m /\ s.lastX - q * s.x = 0 - k
      <4>1. \A e, d \in Int : e * (0 - d) = 0 - e * d
        BY SMT
      <4>2. CASE s.lastX = l /\ s.x = 0 - m
        <5>1. q * s.x = 0 - q * m
          BY <2>3, <3>1, <4>1, <4>2
        <5> DEFINE qm == q * m
                   qx == q * s.x
        <5>2. qm \in Int /\ qx = 0 - qm /\ l \in Int
          BY <3>2, <5>1
        <5> HIDE DEF qm, qx
        <5>3. l - qx = l + qm
          BY <5>2
        <5> QED
          BY <4>2, <5>3 DEF qm, qx
      <4>3. CASE s.lastX = 0 - l /\ s.x = m
        <5> DEFINE qm == q * m
        <5>1. qm \in Int /\ l \in Int
          BY <3>2
        <5> HIDE DEF qm
        <5>2. (0 - l) - qm = 0 - (l + qm)
          BY <5>1
        <5> QED
          BY <4>3, <5>2 DEF qm
      <4> QED
        BY <3>1, <4>2, <4>3
    <3>8. m \in 0..b
      BY <3>1, <3>4
    <3>9. n.a = s.b /\ n.b = r /\ n.lastX = s.x /\ n.x = s.lastX - q * s.x
      OBVIOUS
    <3>10. /\ (n.lastX = m /\ n.x = 0 - k) \/ (n.lastX = 0 - m /\ n.x = k)
           /\ k * n.a + m * n.b = b
      <4> HIDE DEF n, k
      <4> QED
        BY <3>2, <3>5, <3>7, <3>9
    <3> HIDE DEF n, k
    <3> QED
      BY <3>2, <3>8, <3>10 DEF Bounded
  <2> QED
    BY <1>2, <2>1, <2>4, <2>5, <2>6, <2>7, <2>8 DEF EuclidInv
<1> QED
  BY <1>1, <1>2 DEF EuclidInv, EuclidState

\* What the loop starts from.
EuclidStart(a, b) == [a |-> a, b |-> b, x |-> 0, lastX |-> 1]

\* The loop's run: its states from the arguments on, b + 1 of them.
EuclidRun(a, b, g) ==
  [n \in 0..(b + 1) |-> IF n = 0 THEN EuclidStart(a, b) ELSE EuclidStep(g[n - 1])]

\* There is such a run: one of a length can be extended by a step.
LEMMA EuclidRuns ==
  ASSUME NEW a, NEW b \in Nat \ {0}
  PROVE  \E run : run = EuclidRun(a, b, run)
<1> DEFINE Next1(f, k) == IF k = 0 THEN EuclidStart(a, b) ELSE EuclidStep(f[k - 1])
           T == {n \in Nat : \E f : f = [k \in 0..n |-> Next1(f, k)]}
<1>1. 0 \in T
  <2> DEFINE f == [k \in 0..0 |-> EuclidStart(a, b)]
  <2>1. f = [k \in 0..0 |-> Next1(f, k)]
    <3>1. \A k \in 0..0 : Next1(f, k) = EuclidStart(a, b)
      OBVIOUS
    <3> HIDE DEF Next1
    <3> QED
      BY <3>1
  <2> HIDE DEF f, Next1
  <2> QED
    BY <2>1
<1>2. ASSUME NEW n \in Nat, n \in T
      PROVE  n + 1 \in T
  <2>1. PICK f : f = [k \in 0..n |-> Next1(f, k)]
    BY <1>2
  <2> DEFINE h == [k \in 0..(n + 1) |-> IF k = n + 1 THEN EuclidStep(f[n]) ELSE f[k]]
  <2>2. \A k \in 0..n : h[k] = f[k] /\ f[k] = Next1(f, k)
    <3>1. \A k \in 0..n : h[k] = f[k]
      OBVIOUS
    <3> HIDE DEF h, Next1
    <3> QED
      BY <2>1, <3>1
  <2>3. h[n + 1] = EuclidStep(f[n])
    OBVIOUS
  <2>4. h = [k \in 0..(n + 1) |-> h[k]]
    OBVIOUS
  <2> HIDE DEF h
  <2>5. \A k \in 0..(n + 1) : h[k] = Next1(h, k)
    <3> TAKE k \in 0..(n + 1)
    <3>1. CASE k = n + 1
      <4>1. k - 1 = n /\ k # 0 /\ n \in 0..n
        BY <3>1
      <4> QED
        BY <2>2, <2>3, <3>1, <4>1
    <3>2. CASE k \in 0..n
      <4>1. k # 0 => k - 1 \in 0..n
        BY <3>2
      <4> QED
        BY <2>2, <3>2, <4>1
    <3> QED
      BY <3>1, <3>2
  <2>6. h = [k \in 0..(n + 1) |-> Next1(h, k)]
    <3> HIDE DEF Next1
    <3> QED
      BY <2>4, <2>5
  <2>7. n + 1 \in Nat
    OBVIOUS
  <2> HIDE DEF Next1
  <2> QED
    BY <2>6, <2>7
<1>3. b + 1 \in T
  <2> HIDE DEF T
  <2>1. Nat \subseteq T
    BY <1>1, <1>2, SetInduction
  <2>2. b + 1 \in Nat
    OBVIOUS
  <2> QED
    BY <2>1, <2>2
<1> QED
  BY <1>3 DEF EuclidRun

\* b + 1 steps are enough for the loop to end, in a state with its invariant.
LEMMA EuclidEnds ==
  ASSUME NEW a \in Nat \ {0}, NEW b \in Nat \ {0}, NEW run, run = EuclidRun(a, b, run)
  PROVE  EuclidInv(run[b + 1], a, b) /\ run[b + 1].b = 0
<1> DEFINE start == EuclidStart(a, b)
           Good(k) == /\ EuclidInv(run[k], a, b)
                      /\ run[k].b = 0 \/ run[k].b <= b - k
           T == {n \in Nat : n <= b + 1 => Good(n)}
<1>1. EuclidInv(start, a, b)
  <2> USE DEF EuclidStart
  <2>1. start \in EuclidState
    BY DEF EuclidState
  <2>2. Spans(start, a, b)
    <3>1. a = 1 * start.a + 0 * start.b /\ b = 0 * start.a + 1 * start.b
      OBVIOUS
    <3> HIDE DEF start
    <3> QED
      BY <3>1 DEF Spans
  <2>3. Bezout(start, a, b)
    <3>1. start.a = start.lastX * a + 0 * b /\ start.b = start.x * a + 1 * b
      OBVIOUS
    <3> HIDE DEF start
    <3> QED
      BY <3>1 DEF Bezout
  <2>4. Bounded(start, b)
    <3>1. start.lastX = 1 /\ start.x = 0 /\ 0 * start.a + 1 * start.b = b
      OBVIOUS
    <3>2. 1 \in 0..b /\ 0 \in Nat /\ 0 - 0 = 0
      OBVIOUS
    <3> HIDE DEF start
    <3> QED
      BY <3>1, <3>2 DEF Bounded
  <2> QED
    BY <2>1, <2>2, <2>3, <2>4 DEF EuclidInv
<1>2. start.b = b
  BY DEF EuclidStart
<1>3. \A k \in 0..(b + 1) : run[k] = IF k = 0 THEN start ELSE EuclidStep(run[k - 1])
  BY DEF EuclidRun
<1> HIDE DEF start
<1>4. 0 \in T
  BY <1>1, <1>2, <1>3
<1>5. ASSUME NEW n \in Nat, n \in T
      PROVE  n + 1 \in T
  <2>1. n + 1 \in Nat
    OBVIOUS
  <2> SUFFICES ASSUME n + 1 <= b + 1
               PROVE  Good(n + 1)
    BY <2>1
  <2>2. n <= b + 1 /\ n + 1 \in 0..(b + 1) /\ n + 1 # 0 /\ (n + 1) - 1 = n
    OBVIOUS
  <2>3. Good(n) /\ run[n + 1] = EuclidStep(run[n])
    BY <1>3, <1>5, <2>2
  <2>4. /\ EuclidInv(run[n + 1], a, b)
        /\ run[n].b # 0 => run[n + 1].b < run[n].b
        /\ run[n].b = 0 => run[n + 1].b = 0
    BY <2>3, EuclidStepInv
  <2>5. run[n].b \in Nat /\ run[n + 1].b \in Nat
    BY <2>3, <2>4 DEF EuclidInv, EuclidState
  <2>6. run[n + 1].b = 0 \/ run[n + 1].b <= b - (n + 1)
    BY <2>3, <2>4, <2>5
  <2> QED
    BY <2>4, <2>6
<1>6. Good(b + 1)
  <2> HIDE DEF T
  <2>1. Nat \subseteq T
    BY <1>4, <1>5, SetInduction
  <2>2. b + 1 \in Nat /\ b + 1 <= b + 1
    OBVIOUS
  <2>3. b + 1 \in T
    BY <2>1, <2>2
  <2> HIDE DEF Good
  <2> QED
    BY <2>2, <2>3 DEF T
<1>7. run[b + 1].b \in Nat
  BY <1>6 DEF EuclidInv, EuclidState
<1> QED
  BY <1>6, <1>7

\* What the loop is entered with and left with.
EuclidResult(s, a, b) ==
  /\ EuclidInv(s, a, b)
  /\ s.b = 0
  /\ ExtendedGcd(a, b).gcd = s.a
  /\ ExtendedGcd(a, b).inverse = IF s.a # 1 THEN 0
                                 ELSE IF s.lastX < 0 THEN s.lastX + b
                                 ELSE s.lastX

\* ExtendedGcd's result is read off such a state.
LEMMA EuclidGives ==
  ASSUME NEW a \in Nat \ {0}, NEW b \in Nat \ {0}
  PROVE  \E s : EuclidResult(s, a, b)
<1> DEFINE run == CHOOSE g : g = EuclidRun(a, b, g)
<1>1. run = EuclidRun(a, b, run)
  <2>1. \E g : g = EuclidRun(a, b, g)
    BY EuclidRuns
  <2> QED
    BY <2>1
<1>2. ExtendedGcd(a, b) =
        [gcd |-> run[b + 1].a,
         inverse |-> IF run[b + 1].a # 1 THEN 0
                     ELSE IF run[b + 1].lastX < 0 THEN run[b + 1].lastX + b
                     ELSE run[b + 1].lastX]
  BY DEF ExtendedGcd, EuclidRun, EuclidStart
<1> HIDE DEF run
<1>3. EuclidInv(run[b + 1], a, b) /\ run[b + 1].b = 0
  BY <1>1, EuclidEnds
<1>4. EuclidResult(run[b + 1], a, b)
  BY <1>2, <1>3 DEF EuclidResult
<1> QED
  BY <1>4

\* A number whose multiple is positive is positive.
LEMMA FactorOfPositive ==
  ASSUME NEW p \in Int, NEW g \in Nat \ {0}, p * g > 0
  PROVE  p \in Nat \ {0}
<1>1. CASE p <= 0
  <2>1. \A c \in Nat : \A d \in Nat \ {0} : (0 - c) * d = 0 - c * d /\ c * d \in Nat
    BY SMT
  <2>2. 0 - p \in Nat /\ 0 - (0 - p) = p
    BY <1>1
  <2>3. p * g = 0 - (0 - p) * g /\ (0 - p) * g \in Nat
    BY <2>1, <2>2
  <2> QED
    BY <2>3
<1> QED
  BY <1>1

\* A product of positive numbers is 1 only if they are.
LEMMA UnitFactors ==
  ASSUME NEW p \in Int, NEW g \in Nat \ {0}, p * g = 1
  PROVE  g = 1
<1>1. p \in Nat \ {0}
  BY FactorOfPositive
<1>2. p * g = g + (p - 1) * g /\ (p - 1) * g \in Nat
  <2>1. \A c \in Nat : (c + 1) * g = g + c * g /\ c * g \in Nat
    BY SMT
  <2>2. p - 1 \in Nat /\ (p - 1) + 1 = p
    BY <1>1
  <2> QED
    BY <2>1, <2>2
<1> DEFINE r == (p - 1) * g
<1> HIDE DEF r
<1>3. 1 = g + r /\ r \in Nat
  BY <1>2 DEF r
<1> QED
  BY <1>3

\* g divides both, with quotients a and b that have no factor in common.
Reduces(rows, cols, g, a, b) ==
  /\ g \in Nat \ {0} /\ a \in Nat \ {0} /\ b \in Nat \ {0}
  /\ rows = a * g /\ cols = b * g
  /\ a = rows \div g /\ b = cols \div g
  /\ \E y, z \in Int : y * a + z * b = 1

\* The greatest common divisor divides both sides, and nothing is left to divide.
LEMMA GcdReduces ==
  ASSUME NEW rows \in Nat \ {0}, NEW cols \in Nat \ {0}
  PROVE  LET g == Gcd(rows, cols)
         IN  Reduces(rows, cols, g, rows \div g, cols \div g)
<1> DEFINE g == Gcd(rows, cols)
<1>1. PICK s : EuclidResult(s, rows, cols)
  BY EuclidGives
<1>2. g = s.a /\ s.b = 0 /\ s \in EuclidState
  BY <1>1 DEF EuclidResult, EuclidInv, Gcd
<1> HIDE DEF g
<1>3. g \in Nat \ {0} /\ s.lastX \in Int
  BY <1>2 DEF EuclidState
<1>4. PICK p, t \in Int : rows = p * g /\ cols = t * g
  <2>1. PICK p, q, t, u \in Int : rows = p * s.a + q * s.b /\ cols = t * s.a + u * s.b
    BY <1>1 DEF EuclidResult, EuclidInv, Spans
  <2>2. \A i, j \in Int : i * g + j * 0 = i * g
    BY <1>3
  <2> QED
    BY <1>2, <2>1, <2>2
<1>5. PICK v, y \in Int : g = v * rows + y * cols
  BY <1>1, <1>2, <1>3 DEF EuclidResult, EuclidInv, Bezout
<1>6. p \in Nat \ {0} /\ t \in Nat \ {0}
  BY <1>3, <1>4, FactorOfPositive
<1>7. p = rows \div g /\ t = cols \div g
  <2>1. 0 \in 0..(g - 1) /\ p * g + 0 = rows /\ t * g + 0 = cols
    BY <1>3, <1>4
  <2> QED
    BY <1>3, <1>6, <2>1, Parts
<1>8. v * p + y * t = 1
  <2>1. \A c, d, e, f, h \in Int : c * (d * h) + e * (f * h) = (c * d + e * f) * h
    BY SMT
  <2> DEFINE k == v * p + y * t
  <2>2. k \in Int /\ k * g = g
    BY <1>3, <1>4, <1>5, <1>6, <2>1
  <2> HIDE DEF k
  <2>3. k * g + 0 = 1 * g + 0 /\ 0 \in 0..(g - 1) /\ 1 \in Int
    BY <1>3, <2>2
  <2>4. k = 1
    BY <1>3, <2>2, <2>3, Unique, SMTT(60)
  <2> QED
    BY <2>4 DEF k
<1>9. Reduces(rows, cols, g, p, t)
  BY <1>3, <1>4, <1>5, <1>6, <1>7, <1>8 DEF Reduces
<1> QED
  BY <1>7, <1>9 DEF g

\* Of sides without a common factor ExtendedGcd gives an inverse of one modulo the
\* other, within range, however the loop's coefficients come out: what the row
\* shuffle multiplies with.
THEOREM InverseInverts ==
  ASSUME NEW a \in Nat \ {0}, NEW b \in Nat \ {0},
         NEW y \in Int, NEW z \in Int, y * a + z * b = 1
  PROVE  /\ ExtendedGcd(a, b).inverse \in 0..b
         /\ \E w \in Int : ExtendedGcd(a, b).inverse * a = 1 + w * b
<1>1. PICK s : EuclidResult(s, a, b)
  BY EuclidGives
<1>2. s.b = 0 /\ s.a \in Nat \ {0} /\ s.lastX \in Int
  BY <1>1 DEF EuclidResult, EuclidInv, EuclidState
<1> DEFINE x == ExtendedGcd(a, b).inverse
           g == s.a
<1>3. x = IF g # 1 THEN 0 ELSE IF s.lastX < 0 THEN s.lastX + b ELSE s.lastX
  BY <1>1 DEF EuclidResult
<1> HIDE DEF x, g
<1>4. PICK p, t \in Int : a = p * g /\ b = t * g
  <2>1. PICK p, q, t, u \in Int : a = p * s.a + q * s.b /\ b = t * s.a + u * s.b
    BY <1>1 DEF EuclidResult, EuclidInv, Spans
  <2>2. \A i, j \in Int : i * g + j * 0 = i * g
    BY <1>2 DEF g
  <2> QED
    BY <1>2, <2>1, <2>2 DEF g
<1>5. g = 1
  <2>1. \A c, d, e, f, h \in Int : c * (d * h) + e * (f * h) = (c * d + e * f) * h
    BY SMT
  <2>2. g \in Nat \ {0}
    BY <1>2 DEF g
  <2>3. (y * p + z * t) * g = 1 /\ y * p + z * t \in Int
    BY <1>4, <2>1, <2>2
  <2> QED
    BY <2>2, <2>3, UnitFactors
<1>6. PICK w \in Int : 1 = s.lastX * a + w * b
  BY <1>1, <1>5 DEF EuclidResult, EuclidInv, Bezout, g
<1>7. PICK l \in 0..b : s.lastX = l \/ s.lastX = 0 - l
  BY <1>1 DEF EuclidResult, EuclidInv, Bounded
<1>8. CASE s.lastX < 0
  <2>1. x = s.lastX + b /\ x \in 0..b
    BY <1>2, <1>3, <1>5, <1>7, <1>8
  <2>2. \A c, d \in Int : (c + b) * a = (c * a + d * b) + (a - d) * b
    BY SMT
  <2>3. x * a = 1 + (a - w) * b /\ a - w \in Int
    BY <1>2, <1>6, <2>1, <2>2
  <2> QED
    BY <2>1, <2>3 DEF x
<1>9. CASE ~(s.lastX < 0)
  <2>1. x = s.lastX /\ x \in 0..b
    BY <1>2, <1>3, <1>5, <1>7, <1>9
  <2>2. \A c, d \in Int : c * a = (c * a + d * b) + (0 - d) * b
    BY SMT
  <2>3. x * a = 1 + (0 - w) * b /\ 0 - w \in Int
    BY <1>2, <1>6, <2>1, <2>2
  <2> QED
    BY <2>1, <2>3 DEF x
<1> QED
  BY <1>8, <1>9

(***************************************************************************)
(* The shuffles.                                                           *)
(***************************************************************************)
\* Quotient and remainder of a number below zero too.
LEMMA IntDivMod ==
  ASSUME NEW a \in Int, NEW b \in Nat \ {0}
  PROVE  /\ a \div b \in Int
         /\ a % b \in 0..(b - 1)
         /\ a = (a \div b) * b + (a % b)
  BY SMT

\* They are the parts of a number written as a multiple and a rest.
LEMMA IntParts ==
  ASSUME NEW b \in Nat \ {0}, NEW q \in Int, NEW r \in 0..(b - 1),
         NEW a \in Int, a = q * b + r
  PROVE  a \div b = q /\ a % b = r
<1> DEFINE d == a \div b
           m == a % b
<1>1. d \in Int /\ m \in 0..(b - 1) /\ a = d * b + m
  BY IntDivMod
<1> HIDE DEF d, m
<1>2. q * b + r = d * b + m
  BY <1>1
<1>3. d = q /\ m = r
  BY <1>1, <1>2, Unique
<1> QED
  BY <1>3 DEF d, m

\* A cell's address is within the grid, and its row and column can be read off it.
LEMMA CellAddress ==
  ASSUME NEW m \in Nat \ {0}, NEW n \in Nat \ {0},
         NEW i \in 0..(m - 1), NEW j \in 0..(n - 1)
  PROVE  /\ i * n + j \in 0..(m * n - 1)
         /\ (i * n + j) \div n = i
         /\ (i * n + j) % n = j
<1>1. i * n + n <= m * n
  BY Apart
<1>2. i * n \in Nat /\ m * n \in Nat
  BY SMT
<1> DEFINE x == i * n
           y == m * n
<1> HIDE DEF x, y
<1>3. x + j \in 0..(y - 1)
  BY <1>1, <1>2 DEF x, y
<1>4. i \in Nat
  OBVIOUS
<1> QED
  BY <1>3, <1>4, Parts DEF x, y

\* And every address is that of a cell.
LEMMA AddressCell ==
  ASSUME NEW m \in Nat \ {0}, NEW n \in Nat \ {0}, NEW o \in 0..(m * n - 1)
  PROVE  /\ o \in Nat
         /\ o \div n \in 0..(m - 1)
         /\ o % n \in 0..(n - 1)
         /\ (o \div n) * n + (o % n) = o
<1> DEFINE i == o \div n
           j == o % n
<1>1. m * n \in Nat
  BY SMT
<1>2. o \in Nat /\ o < m * n
  BY <1>1
<1>3. i \in Nat /\ j \in 0..(n - 1) /\ o = i * n + j
  BY <1>2, DivMod
<1> HIDE DEF i, j
<1>4. i < m
  <2> SUFFICES ASSUME m <= i PROVE FALSE
    BY <1>3
  <2>1. m * n <= i * n
    <3>1. CASE m = i
      BY <1>1, <3>1
    <3>2. CASE m < i
      <4>1. m * n + n <= i * n
        BY <1>3, <3>2, Apart
      <4>2. i * n \in Nat
        BY <1>3
      <4> QED
        BY <1>1, <4>1, <4>2
    <3> QED
      BY <1>3, <3>1, <3>2
  <2>2. i * n \in Nat
    BY <1>3
  <2> QED
    BY <1>1, <1>2, <1>3, <2>1, <2>2
<1>5. i \in 0..(m - 1)
  BY <1>3, <1>4
<1> QED
  BY <1>2, <1>3, <1>5 DEF i, j

\* A grid small enough for the words.
Grid(m, n) ==
  /\ m \in Nat \ {0} /\ n \in Nat \ {0}
  /\ m * (m + 1) <= Width /\ n * (n + 1) <= Width

\* The row shuffle reads within the row.
LEMMA ColumnInRow ==
  ASSUME NEW m, NEW n, NEW p \in Int, NEW j \in Int, Grid(m, n)
  PROVE  ShuffleColumn(p, j, m, n) \in 0..(n - 1)
<1> DEFINE g == Gcd(m, n)
           b == n \div g
           e == j + p * (n - 1) + (IF p - (j % g) > m - g THEN m ELSE 0)
           r == Word(e)
           y == Word(ReducedInverse(m, n) * ((r \div g) % b))
           t == y % b
           u == r % g
<1>1. g \in Nat \ {0} /\ b \in Nat \ {0} /\ n = b * g
  BY GcdReduces DEF Grid, Reduces
<1>2. ShuffleColumn(p, j, m, n) = t + u * b
  BY DEF ShuffleColumn
<1> HIDE DEF g, b
<1>3. e \in Int
  <2>1. m \in Int /\ n \in Int /\ p * (n - 1) \in Int
    BY DEF Grid
  <2> HIDE DEF g
  <2> QED
    BY <2>1
<1> HIDE DEF e
<1>4. r \in Nat
  BY <1>3, WidthAssumption, IntDivMod DEF Word
<1> HIDE DEF r
<1>5. u \in 0..(g - 1)
  BY <1>1, <1>4, DivMod
<1>6. y \in Nat
  <2> DEFINE z == (r \div g) % b
             x == ReducedInverse(m, n)
  <2>1. z \in Int
    BY <1>1, <1>4, DivMod
  <2>2. x \in Int
    <3>1. \E v, w \in Int : v * (m \div g) + w * (n \div g) = 1
      BY GcdReduces DEF Grid, Reduces, g
    <3>2. m \div g \in Nat \ {0} /\ n \div g \in Nat \ {0}
      BY GcdReduces DEF Grid, Reduces, g
    <3>3. ExtendedGcd(m \div g, n \div g).inverse \in 0..(n \div g)
      BY <3>1, <3>2, InverseInverts
    <3> QED
      BY <3>2, <3>3 DEF ReducedInverse, g
  <2> HIDE DEF x, z
  <2>3. x * z \in Int
    BY <2>1, <2>2
  <2>4. Word(x * z) \in Nat
    BY <2>3, WidthAssumption, IntDivMod DEF Word
  <2> QED
    BY <2>4 DEF x, z
<1> HIDE DEF y
<1>7. t \in 0..(b - 1)
  BY <1>1, <1>6, DivMod
<1> HIDE DEF t, u
<1>8. u * b + t \in 0..(g * b - 1)
  BY <1>1, <1>5, <1>7, CellAddress
<1>9. t + u * b = u * b + t /\ g * b = b * g
  <2>1. \A c, d, f \in Int : c + d * f = d * f + c /\ d * f = f * d
    BY SMT
  <2> QED
    BY <1>1, <1>5, <1>7, <2>1
<1> QED
  BY <1>1, <1>2, <1>8, <1>9

\* How the element a transposition puts in row i and column j is found: k is its
\* address, K and R the column and the row it comes from, q the group of rows i is
\* in, and d whether rotating R back by q wraps around.
Finds(i, j, m, n, g, a, b, q, c, R, d) ==
  /\ Reduces(m, n, g, a, b)
  /\ q \in 0..(g - 1) /\ c \in 0..(b - 1) /\ R \in 0..(m - 1)
  /\ q = i \div a
  /\ i * n + j \in Nat
  /\ i * n + j = (q * b + c) * m + R
  /\ (i * n + j) \div m = q * b + c
  /\ (i * n + j) % m = R
  /\ d = IF R < q THEN 1 ELSE 0

\* A row belongs to the group its address divided by the columns does.
LEMMA FindsAll ==
  ASSUME NEW m, NEW n, NEW i \in 0..(m - 1), NEW j \in 0..(n - 1), Grid(m, n)
  PROVE  \E q, c, R, d : Finds(i, j, m, n, Gcd(m, n), m \div Gcd(m, n),
                               n \div Gcd(m, n), q, c, R, d)
<1> DEFINE g == Gcd(m, n)
           a == m \div g
           b == n \div g
<1>1. Reduces(m, n, g, a, b) /\ m \in Nat \ {0} /\ n \in Nat \ {0}
  BY GcdReduces DEF Grid
<1> HIDE DEF g, a, b
<1>2. /\ g \in Nat \ {0} /\ a \in Nat \ {0} /\ b \in Nat \ {0}
      /\ m = a * g /\ n = b * g
  BY <1>1 DEF Reduces
<1>3. m = g * a /\ a * n = b * m
  <2>1. \A c, d, e \in Int : c * d = d * c /\ c * (d * e) = d * (c * e)
    BY SMT
  <2> QED
    BY <1>2, <2>1
<1> DEFINE q == i \div a
           s == i % a
           h == s * n + j
           c == h \div m
           R == h % m
           d == IF R < q THEN 1 ELSE 0
<1>4. q \in 0..(g - 1) /\ s \in 0..(a - 1) /\ i = q * a + s
  <2>1. i \in 0..(g * a - 1)
    BY <1>3
  <2> QED
    BY <1>2, <2>1, AddressCell, ZenonT(60)
<1> HIDE DEF s, q
<1>5. h \in 0..(a * n - 1)
  BY <1>1, <1>2, <1>4, CellAddress
<1> HIDE DEF h
<1>6. h \in 0..(b * m - 1)
  BY <1>3, <1>5
<1>7. c \in 0..(b - 1) /\ R \in 0..(m - 1) /\ h = c * m + R
  <2>1. \A t \in Nat \ {0} : \A o \in 0..(t * m - 1) :
          /\ o \div m \in 0..(t - 1) /\ o % m \in 0..(m - 1)
          /\ (o \div m) * m + (o % m) = o
    BY <1>1, AddressCell
  <2> QED
    BY <1>2, <1>6, <2>1
<1> HIDE DEF c, R
<1>8. i * n + j = (q * b + c) * m + R
  <2>1. \A t, u, v, w \in Int : (t * u + v) * w = t * (u * w) + v * w
    BY SMT
  <2>2. i * n = q * (a * n) + s * n
    BY <1>1, <1>2, <1>4, <2>1
  <2>3. (q * b + c) * m = q * (b * m) + c * m
    BY <1>1, <1>2, <1>4, <1>7, <2>1
  <2> DEFINE x == q * (b * m)
             y == s * n
             z == c * m
  <2>4. x \in Int /\ y \in Int /\ z \in Int
    BY <1>1, <1>2, <1>4, <1>7
  <2>5. i * n = x + y /\ (q * b + c) * m = x + z /\ y + j = z + R
    BY <1>3, <1>7, <2>2, <2>3 DEF h
  <2> HIDE DEF x, y, z
  <2>6. (x + y) + j = (x + z) + R
    BY <1>7, <2>4, <2>5
  <2> QED
    BY <2>5, <2>6
<1>9. q * b + c \in Nat
  BY <1>2, <1>4, <1>7
<1>10. /\ i * n + j \in Nat
       /\ (i * n + j) \div m = q * b + c
       /\ (i * n + j) % m = R
  <2> DEFINE K == q * b + c
  <2>1. K \in Nat
    BY <1>9
  <2> HIDE DEF K
  <2>2. K * m + R \in Nat /\ (K * m + R) \div m = K /\ (K * m + R) % m = R
    BY <1>1, <1>7, <2>1, Parts
  <2> QED
    BY <1>8, <2>2 DEF K
<1>11. Finds(i, j, m, n, g, a, b, q, c, R, d)
  BY <1>1, <1>4, <1>7, <1>8, <1>10 DEF Finds, q
<1> QED
  BY <1>11 DEF g, a, b

\* The column rotation of the last phase reads the row R lies in once the first
\* has rotated it.
LEMMA PostReads ==
  ASSUME NEW m, NEW n, NEW i \in 0..(m - 1), NEW j \in 0..(n - 1),
         NEW q, NEW c, NEW R, NEW d, Grid(m, n),
         Finds(i, j, m, n, Gcd(m, n), m \div Gcd(m, n), n \div Gcd(m, n), q, c, R, d)
  PROVE  /\ PostShuffleRow(i, j, m, n) = R - q + d * m
         /\ R - q + d * m \in 0..(m - 1)
<1> DEFINE g == Gcd(m, n)
           a == m \div g
           b == n \div g
<1>1. Finds(i, j, m, n, g, a, b, q, c, R, d)
  OBVIOUS
<1>2. PostShuffleRow(i, j, m, n) = (i * n + j - q) % m
  BY DEF PostShuffleRow, Finds
<1> HIDE DEF g, a, b
<1>3. /\ g \in Nat \ {0} /\ a \in Nat \ {0} /\ b \in Nat \ {0} /\ m \in Nat \ {0}
      /\ m = a * g
  BY <1>1 DEF Finds, Reduces, Grid
<1>4. /\ q \in 0..(g - 1) /\ c \in 0..(b - 1) /\ R \in 0..(m - 1)
      /\ d = IF R < q THEN 1 ELSE 0
  BY <1>1 DEF Finds
<1>5. g <= m
  <2>1. g \in Nat
    BY <1>3
  <2> QED
    BY <1>3, <2>1, ProductNotLess
<1>6. R - q + d * m \in 0..(m - 1)
  BY <1>3, <1>4, <1>5
<1> DEFINE K == q * b + c
           k == i * n + j
           p == R - q + d * m
<1>7. k \in Nat /\ k = K * m + R /\ K \in Int
  BY <1>1, <1>3, <1>4 DEF Finds
<1> HIDE DEF K, k
<1>8. k - q = (K - d) * m + p
  <2>1. \A t, u \in Int : (t - u) * m = t * m - u * m
    BY <1>3, SMT
  <2>2. (K - d) * m = K * m - d * m
    BY <1>3, <1>4, <1>7, <2>1
  <2> DEFINE x == K * m
             y == d * m
  <2>3. x \in Int /\ y \in Int
    BY <1>3, <1>4, <1>7
  <2> HIDE DEF x, y
  <2>4. (x + R) - q = (x - y) + (R - q + y)
    BY <1>4, <2>3
  <2> QED
    BY <1>7, <2>2, <2>4 DEF x, y
<1>9. k - q \in Int /\ K - d \in Int /\ p \in 0..(m - 1)
  BY <1>4, <1>6, <1>7
<1> HIDE DEF p
<1>10. (k - q) % m = p
  BY <1>3, <1>8, <1>9, IntParts
<1>11. (i * n + j - q) % m = R - q + d * m
  <2>1. ((i * n + j) - q) % m = R - q + d * m
    BY <1>10 DEF k, p
  <2> DEFINE x == i * n
  <2>2. x \in Int
    BY <1>3 DEF Grid
  <2> HIDE DEF x
  <2>3. x + j - q = (x + j) - q
    BY <1>4, <2>2
  <2> QED
    BY <2>1, <2>3 DEF x
<1> QED
  BY <1>2, <1>6, <1>11

\* A difference is beyond the last group exactly where the rotation has wrapped.
Wrapped(R, q, l, m, g) ==
  IF R < q THEN R - q + m - l > m - g ELSE ~(R - q - l > m - g)

\* The row shuffle tells from the row and the column alone whether the rotation
\* has wrapped around: R and the column leave the same rest in a group.
LEMMA WrapSeen ==
  ASSUME NEW m \in Nat \ {0}, NEW n \in Nat \ {0},
         NEW g \in Nat \ {0}, NEW a \in Nat \ {0}, NEW b \in Nat \ {0}, NEW K \in Int,
         NEW i \in Int, NEW j \in Nat, NEW q \in 0..(g - 1), NEW R \in 0..(m - 1),
         m = a * g, n = b * g, i * n + j = K * m + R
  PROVE  Wrapped(R, q, j % g, m, g)
<1> DEFINE f == j \div g
           l == j % g
           z == i * b + f - K * a
<1>1. f \in Int /\ l \in 0..(g - 1) /\ j = f * g + l
  BY DivMod
<1> HIDE DEF f, l
<1>2. z \in Int /\ R = z * g + l
  <2>1. \A t, u, v, w, x \in Int :
          (t * u + x - v * w) * g = t * (u * g) + x * g - v * (w * g)
    <3>1. \A t, u, v, w, x, y \in Int :
            (t * u + x - v * w) * y = t * (u * y) + x * y - v * (w * y)
      BY SMT
    <3> QED
      BY <3>1
  <2>2. z * g = i * n + f * g - K * m
    BY <1>1, <2>1
  <2> DEFINE x == i * n
             y == f * g
             w == K * m
  <2>3. x \in Int /\ y \in Int /\ w \in Int
    BY <1>1
  <2>4. x + (y + l) = w + R /\ z * g = x + y - w
    BY <1>1, <2>2
  <2> HIDE DEF x, y, w
  <2>5. R = (x + y - w) + l
    BY <1>1, <2>3, <2>4
  <2> QED
    BY <1>1, <2>4, <2>5
<1> HIDE DEF z
<1>3. CASE R < q
  <2>1. R \in 0..(g - 1) /\ 0 * g + R = z * g + l
    BY <1>2, <1>3
  <2>2. R = l
    BY <1>1, <1>2, <2>1, Unique
  <2>3. R - q + m - l > m - g
    BY <1>1, <2>2
  <2> QED
    BY <1>3, <2>3 DEF l, Wrapped
<1>4. CASE ~(R < q)
  <2>1. z * g + g <= m
    <3>1. z < a
      <4> SUFFICES ASSUME a <= z PROVE FALSE
        BY <1>2
      <4>1. a * g <= z * g
        <5>1. CASE a = z
          BY <5>1
        <5>2. CASE a < z
          BY <1>2, <5>2, Apart
        <5> QED
          BY <1>2, <5>1, <5>2
      <4>2. z * g \in Int
        BY <1>2
      <4> QED
        BY <1>1, <1>2, <4>1, <4>2
    <3> QED
      BY <1>2, <3>1, Apart
  <2>2. z * g \in Int
    BY <1>2
  <2>3. ~(R - q - l > m - g)
    BY <1>1, <1>2, <2>1, <2>2
  <2> QED
    BY <1>4, <2>3 DEF l, Wrapped
<1> QED
  BY <1>3, <1>4 DEF Wrapped

\* The address the row shuffle computes with: q lines past a multiple of g.
LEMMA ShuffledAddress ==
  ASSUME NEW m \in Nat \ {0}, NEW n \in Nat \ {0},
         NEW g \in Nat \ {0}, NEW a \in Nat \ {0}, NEW b \in Nat \ {0}, NEW K \in Int,
         NEW i \in Int, NEW j \in Int, NEW q \in Int, NEW R \in Int, NEW d \in {0, 1},
         m = a * g, n = b * g, i * n + j = K * m + R
  PROVE  LET p == R - q + d * m
         IN  j + p * (n - 1) + d * m = ((p - i) * b + K * a) * g + q
<1> DEFINE p == R - q + d * m
<1>1. p \in Int /\ d * m \in Int
  OBVIOUS
<1>2. ((p - i) * b + K * a) * g = (p - i) * n + K * m
  <2>1. \A t, u, v, w, x \in Int : (t * u + v * w) * x = t * (u * x) + v * (w * x)
    BY SMT
  <2>2. p - i \in Int
    BY <1>1
  <2> HIDE DEF p
  <2> QED
    BY <2>1, <2>2
<1>3. (p - i) * n = p * n - i * n
  <2>1. \A t, u, v \in Int : (t - u) * v = t * v - u * v
    BY SMT
  <2> HIDE DEF p
  <2> QED
    BY <1>1, <2>1
<1>4. p * (n - 1) = p * n - p
  <2>1. \A t, u \in Int : t * (u - 1) = t * u - t
    BY SMT
  <2> HIDE DEF p
  <2> QED
    BY <1>1, <2>1
<1> DEFINE x == p * n
           y == i * n
           w == K * m
           e == d * m
<1>5. x \in Int /\ y \in Int /\ w \in Int /\ e \in Int
  BY <1>1
<1>6. y + j = w + R /\ p = R - q + e
  OBVIOUS
<1>7. /\ p * (n - 1) = x - p
      /\ ((p - i) * b + K * a) * g = (x - y) + w
  BY <1>2, <1>3, <1>4
<1> HIDE DEF x, y, w, e, p
<1>8. j + (x - p) + e = ((x - y) + w) + q
  BY <1>1, <1>5, <1>6
<1>9. j + p * (n - 1) + e = ((p - i) * b + K * a) * g + q
  BY <1>7, <1>8
<1> QED
  BY <1>9 DEF e, p

\* x is an inverse of a modulo b, and what multiplying with it gives.
Inverts(x, a, b) == \E w \in Int : x * a = 1 + w * b
Undone(x, t, q, c, a, b) == (x * ((t * b + (q * b + c) * a) % b)) % b

\* Multiplied by the inverse of a, the group's number gives back the column within
\* its block.
LEMMA InverseApplied ==
  ASSUME NEW a \in Nat \ {0}, NEW b \in Nat \ {0}, NEW x \in Int,
         NEW t \in Int, NEW q \in Int, NEW c \in 0..(b - 1), Inverts(x, a, b)
  PROVE  Undone(x, t, q, c, a, b) = c
<1>0. PICK w \in Int : x * a = 1 + w * b
  BY DEF Inverts
<1> DEFINE s == t * b + (q * b + c) * a
           u == s \div b
           v == s % b
<1>1. s \in Int /\ s = (t + q * a) * b + c * a
  <2>1. \A e, f, h, k, l \in Int : e * f + (h * f + k) * l = (e + h * l) * f + k * l
    BY SMT
  <2>2. s \in Int
    OBVIOUS
  <2> QED
    BY <2>1, <2>2
<1> DEFINE y == t + q * a
<1>2. y \in Int
  OBVIOUS
<1> HIDE DEF s, y
<1>3. u \in Int /\ v \in 0..(b - 1) /\ s = u * b + v
  BY <1>1, IntDivMod
<1> HIDE DEF u, v
<1>4. x * v = (x * y - x * u + c * w) * b + c
  <2>1. v = (y - u) * b + c * a
    <3>1. \A e, f, h \in Int : (e - f) * h = e * h - f * h
      BY SMT
    <3>2. (y - u) * b = y * b - u * b
      BY <1>2, <1>3, <3>1
    <3> DEFINE A == y * b
               B == u * b
               C == c * a
    <3>3. A \in Int /\ B \in Int /\ C \in Int
      BY <1>2, <1>3
    <3>4. A + C = B + v /\ (y - u) * b = A - B
      BY <1>1, <1>3, <3>2 DEF y
    <3> HIDE DEF A, B, C
    <3>5. v = (A - B) + C
      BY <1>3, <3>3, <3>4
    <3> QED
      BY <3>4, <3>5 DEF C
  <2>2. \A e, f, h, k, l \in Int :
          e * ((f - h) * k + l * a) = (e * f - e * h) * k + l * (e * a)
    BY SMT
  <2>3. x * v = (x * y - x * u) * b + c * (1 + w * b)
    BY <1>0, <1>2, <1>3, <2>1, <2>2
  <2>4. \A e, f, h \in Int : e * b + f * (1 + h * b) = (e + f * h) * b + f
    BY SMT
  <2>5. x * y - x * u \in Int
    BY <1>2, <1>3
  <2> QED
    BY <2>3, <2>4, <2>5
<1> DEFINE Q == x * y - x * u + c * w
<1>5. Q \in Int /\ x * v \in Int
  BY <1>2, <1>3
<1> HIDE DEF Q
<1>6. x * v = Q * b + c
  BY <1>4 DEF Q
<1> DEFINE X == x * v
<1> HIDE DEF X
<1>7. X % b = c
  <2>1. X \in Int /\ Q \in Int /\ X = Q * b + c
    BY <1>5, <1>6 DEF X
  <2> QED
    BY <2>1, IntParts, SMTT(60)
<1> QED
  BY <1>7 DEF X, v, s, Undone

\* Neither the row shuffle's address nor its product is cut off.
WordsFit(m, n, p, j, x, v) ==
  /\ Word(j + p * (n - 1) + m) = j + p * (n - 1) + m
  /\ Word(x * v) = x * v

\* On a grid small enough they are not.
LEMMA GridFits ==
  ASSUME NEW m, NEW n, NEW p \in 0..(m - 1), NEW j \in 0..(n - 1),
         NEW x \in 0..n, NEW v \in 0..(n - 1), Grid(m, n)
  PROVE  WordsFit(m, n, p, j, x, v)
<1>1. m \in Nat \ {0} /\ n \in Nat \ {0}
  BY DEF Grid
<1>2. Width \in Nat /\ m * (m + 1) <= Width /\ n * (n + 1) <= Width
  BY WidthAssumption DEF Grid
<1>3. /\ Word(j + p * (n - 1) + m) = j + p * (n - 1) + m
      /\ Word(x * v) = x * v
  BY <1>1, <1>2, RowShuffleFits, ZenonT(60)
<1> QED
  BY <1>3 DEF WordsFit

\* The row shuffle reads the column K lies in, and undoing the first rotation there
\* the row R: the three phases together find row R and column K.
LEMMA RowReads ==
  ASSUME NEW m, NEW n, NEW i \in 0..(m - 1), NEW j \in 0..(n - 1),
         NEW q, NEW c, NEW R, NEW d, Grid(m, n),
         Finds(i, j, m, n, Gcd(m, n), m \div Gcd(m, n), n \div Gcd(m, n), q, c, R, d)
  PROVE  LET p == R - q + d * m
         IN  /\ ShuffleColumn(p, j, m, n) = q * (n \div Gcd(m, n)) + c
             /\ PreShuffleRow(p, q * (n \div Gcd(m, n)) + c, m, n) = R
<1> DEFINE g == Gcd(m, n)
           a == m \div g
           b == n \div g
           x == ReducedInverse(m, n)
           p == R - q + d * m
           K == q * b + c
           t == IF p - (j % g) > m - g THEN m ELSE 0
           e == j + p * (n - 1) + t
           r == Word(e)
           v == (r \div g) % b
<1>1. Finds(i, j, m, n, g, a, b, q, c, R, d)
  OBVIOUS
<1>2. ShuffleColumn(p, j, m, n) = (Word(x * v) % b) + (r % g) * b
  BY DEF ShuffleColumn
<1>3. PreShuffleRow(p, K, m, n) = (p + (K \div b)) % m
  BY DEF PreShuffleRow
<1>4. p \in 0..(m - 1)
  BY PostReads
<1>5. x \in 0..b /\ Inverts(x, a, b)
  <2>1. x = ExtendedGcd(a, b).inverse
    BY DEF ReducedInverse
  <2> HIDE DEF a, b, x
  <2>2. a \in Nat \ {0} /\ b \in Nat \ {0} /\ \E y, z \in Int : y * a + z * b = 1
    BY <1>1 DEF Finds, Reduces
  <2> QED
    BY <2>1, <2>2, InverseInverts DEF Inverts
<1> HIDE DEF g, a, b, x
<1>6. /\ g \in Nat \ {0} /\ a \in Nat \ {0} /\ b \in Nat \ {0}
      /\ m \in Nat \ {0} /\ n \in Nat \ {0} /\ m = a * g /\ n = b * g
  BY <1>1 DEF Finds, Reduces, Grid
<1>7. /\ q \in 0..(g - 1) /\ c \in 0..(b - 1) /\ R \in 0..(m - 1)
      /\ d = (IF R < q THEN 1 ELSE 0) /\ d \in {0, 1}
  BY <1>1 DEF Finds
<1>8. K \in Nat /\ i * n + j = K * m + R
  BY <1>1, <1>6, <1>7 DEF Finds
<1>9. K \div b = q
  <2>1. b \in Nat \ {0} /\ q \in Nat /\ c \in 0..(b - 1)
    BY <1>6, <1>7
  <2> QED
    BY <2>1, Parts
<1>10. t = d * m
  <2>1. Wrapped(R, q, j % g, m, g)
    <3> HIDE DEF K
    <3>1. i \in Int /\ j \in Nat /\ K \in Int
      BY <1>8
    <3>2. q \in 0..(g - 1) /\ R \in 0..(m - 1) /\ i * n + j = K * m + R
      BY <1>7, <1>8
    <3> QED
      BY <1>6, <3>1, <3>2, WrapSeen
  <2>2. j % g \in Int
    BY <1>6, DivMod
  <2>3. CASE R < q
    <3>1. d = 1 /\ d * m = m /\ p = R - q + m
      BY <1>6, <1>7, <2>3
    <3>2. R - q + m - (j % g) > m - g
      BY <2>1, <2>3 DEF Wrapped
    <3>3. p - (j % g) > m - g
      BY <1>6, <1>7, <2>2, <3>1, <3>2
    <3> QED
      BY <3>1, <3>3
  <2>4. CASE ~(R < q)
    <3>1. d = 0 /\ d * m = 0 /\ p = R - q
      BY <1>6, <1>7, <2>4
    <3>2. ~(p - (j % g) > m - g)
      BY <2>1, <2>4, <3>1 DEF Wrapped
    <3> QED
      BY <3>1, <3>2
  <2> QED
    BY <2>3, <2>4
<1> DEFINE s == (p - i) * b + K * a
<1>11. e = s * g + q
  <2> HIDE DEF K
  <2>1. i \in Int /\ j \in Int /\ K \in Int /\ R \in Int /\ q \in Int
    BY <1>7, <1>8
  <2> QED
    BY <1>6, <1>7, <1>8, <1>10, <2>1, ShuffledAddress
<1> HIDE DEF p
<1>12. /\ e \in Nat /\ r = e
       /\ v \in 0..(b - 1)
       /\ Word(x * v) = x * v
  <2> DEFINE y == j + p * (n - 1)
  <2>1. p * (n - 1) \in Nat
    <3>1. \A k, z \in Nat : k * z \in Nat
      BY SMT
    <3>2. n - 1 \in Nat /\ p \in Nat
      BY <1>4, <1>6
    <3> QED
      BY <3>1, <3>2
  <2>2. t \in {0, m} /\ e = y + t
    OBVIOUS
  <2>3. y \in Nat /\ y + m \in Nat
    BY <1>6, <2>1
  <2> HIDE DEF y, t, e
  <2>4. e \in Nat
    BY <1>6, <2>2, <2>3
  <2>5. r \in Nat
    BY <2>4, WidthAssumption, DivMod DEF Word
  <2> HIDE DEF r
  <2>6. v \in 0..(b - 1)
    BY <1>6, <2>5, DivMod
  <2> HIDE DEF v
  <2>7. b <= n
    <3>1. b \in Nat
      BY <1>6
    <3> QED
      BY <1>6, <3>1, ProductNotLess
  <2>8. x \in 0..n /\ v \in 0..(n - 1)
    BY <1>5, <1>6, <2>6, <2>7
  <2>9. /\ Word(j + p * (n - 1) + m) = j + p * (n - 1) + m
        /\ Word(x * v) = x * v
    BY <1>4, <2>8, GridFits DEF WordsFit
  <2>10. y + m < Width
    <3>1. \A z \in Nat : Word(z) = z => z < Width
      BY WidthAssumption, DivMod DEF Word
    <3> QED
      BY <2>3, <2>9, <3>1 DEF y
  <2>11. e < Width
    BY <1>6, <2>2, <2>3, <2>10, WidthAssumption
  <2>12. r = e
    BY <2>4, <2>11, WidthAssumption DEF Word, r
  <2> QED
    BY <2>4, <2>6, <2>9, <2>12
<1> HIDE DEF e, t
<1>14. s \in Int
  BY <1>4, <1>6, <1>7, <1>8
<1>15. r \div g = s /\ r % g = q
  <2> HIDE DEF s, r
  <2>1. e \in Int /\ e = s * g + q /\ s \in Int
    BY <1>11, <1>12, <1>14
  <2>2. g \in Nat \ {0} /\ q \in 0..(g - 1)
    BY <1>6, <1>7
  <2>3. e \div g = s /\ e % g = q
    BY <2>1, <2>2, IntParts
  <2> QED
    BY <1>12, <2>3
<1>16. v = s % b
  BY <1>15
<1>18. (x * v) % b = c
  <2>1. Inverts(x, a, b)
    BY <1>5
  <2>2. x \in Int /\ p - i \in Int /\ q \in Int
    BY <1>4, <1>5, <1>7
  <2>3. s = (p - i) * b + (q * b + c) * a
    OBVIOUS
  <2>4. c \in 0..(b - 1)
    BY <1>7
  <2> DEFINE h == p - i
  <2>5. h \in Int
    BY <2>2
  <2> HIDE DEF s, h
  <2>6. Undone(x, h, q, c, a, b) = c
    <3>1. a \in Nat \ {0} /\ b \in Nat \ {0} /\ x \in Int /\ q \in Int
      BY <1>6, <2>2
    <3> QED
      BY <2>1, <2>4, <2>5, <3>1, InverseApplied
  <2>7. (x * (s % b)) % b = c
    BY <2>3, <2>6 DEF h, Undone
  <2> HIDE DEF v
  <2> QED
    BY <1>16, <2>7
<1> HIDE DEF v, s, r
<1>20. ShuffleColumn(p, j, m, n) = c + q * b
  BY <1>2, <1>12, <1>15, <1>18
<1>21. c + q * b = K
  BY <1>6, <1>7
<1>22. (p + q) % m = R
  <2>1. p = R - q + d * m /\ d * m \in Int
    BY <1>6, <1>7 DEF p
  <2> DEFINE y == p + q
  <2>2. y = d * m + R /\ y \in Int /\ d \in Int
    BY <1>4, <1>7, <2>1
  <2> HIDE DEF y
  <2>3. R \in 0..(m - 1)
    BY <1>7
  <2>4. y % m = R
    BY <1>6, <2>2, <2>3, IntParts
  <2> QED
    BY <2>4 DEF y
<1>23. PreShuffleRow(p, K, m, n) = R
  BY <1>3, <1>9, <1>22
<1> QED
  BY <1>20, <1>21, <1>23 DEF K, b, g, p

(***************************************************************************)
(* Addresses.  A grid of m rows and n columns is stored row by row; the    *)
(* lines of the row shuffle are its rows, those of the other two phases    *)
(* its columns.                                                            *)
(***************************************************************************)
Lines(phase, m, n) == IF phase = "row" THEN m ELSE n
Length(phase, m, n) == IF phase = "row" THEN n ELSE m
LineOf(phase, o, n) == IF phase = "row" THEN o \div n ELSE o % n
IndexOf(phase, o, n) == IF phase = "row" THEN o % n ELSE o \div n

\* Where the element a phase puts at address o comes from.
Pulls(phase, o, m, n) ==
  IF phase = "row" THEN (o \div n) * n + ShuffleColumn(o \div n, o % n, m, n)
  ELSE IF phase = "pre" THEN PreShuffleRow(o \div n, o % n, m, n) * n + (o % n)
  ELSE PostShuffleRow(o \div n, o % n, m, n) * n + (o % n)

\* The address, at the start of a conversion, of what is at o before a phase and
\* after it.
Before(phase, o, m, n) ==
  IF phase = "pre" THEN o
  ELSE IF phase = "row" THEN Pulls("pre", o, m, n)
  ELSE Pulls("pre", Pulls("row", o, m, n), m, n)
After(phase, o, m, n) == Before(phase, Pulls(phase, o, m, n), m, n)

\* The address, in the order it comes from, of what an order of m rows has at o.
Transposed(o, m, n) == (o % m) * n + (o \div m)

\* The rows and the columns the phases pull from are those of the grid.
LEMMA RowsOfGrid ==
  ASSUME NEW m, NEW n, NEW i \in Int, NEW j \in Int, Grid(m, n)
  PROVE  /\ PreShuffleRow(i, j, m, n) \in 0..(m - 1)
         /\ PostShuffleRow(i, j, m, n) \in 0..(m - 1)
<1> DEFINE g == Gcd(m, n)
           a == m \div g
           b == n \div g
           k == j \div b
           l == i \div a
<1>1. a \in Nat \ {0} /\ b \in Nat \ {0} /\ m \in Nat \ {0} /\ n \in Int
  BY GcdReduces DEF Grid, Reduces
<1>2. /\ PreShuffleRow(i, j, m, n) = (i + k) % m
      /\ PostShuffleRow(i, j, m, n) = (i * n + j - l) % m
  BY DEF PreShuffleRow, PostShuffleRow
<1> HIDE DEF a, b
<1>3. k \in Int /\ l \in Int
  BY <1>1, IntDivMod
<1> HIDE DEF k, l
<1> DEFINE x == i + k
           y == i * n + j - l
<1>4. x \in Int /\ y \in Int
  BY <1>1, <1>3
<1> HIDE DEF x, y
<1>5. x % m \in 0..(m - 1) /\ y % m \in 0..(m - 1)
  BY <1>1, <1>4, IntDivMod
<1> QED
  BY <1>2, <1>5 DEF x, y

\* What a phase needs of an address.
InGrid(o, m, n) == o \in 0..(m * n - 1)

\* A phase pulls within a line.
PullsFrom(phase, o, u, m, n) ==
  /\ Pulls(phase, o, m, n) = u
  /\ InGrid(u, m, n)
  /\ LineOf(phase, u, n) = LineOf(phase, o, n)

\* Every phase does, at every address.
LEMMA PullsInLine ==
  ASSUME NEW m, NEW n, NEW o, NEW phase \in Phases, Grid(m, n), InGrid(o, m, n)
  PROVE  PullsFrom(phase, o, Pulls(phase, o, m, n), m, n)
<1> DEFINE i == o \div n
           j == o % n
           u == Pulls(phase, o, m, n)
<1>1. m \in Nat \ {0} /\ n \in Nat \ {0}
  BY DEF Grid
<1>2. i \in 0..(m - 1) /\ j \in 0..(n - 1)
  BY <1>1, AddressCell DEF InGrid
<1>3. /\ phase = "row" => u = i * n + ShuffleColumn(i, j, m, n)
      /\ phase = "pre" => u = PreShuffleRow(i, j, m, n) * n + j
      /\ phase = "post" => u = PostShuffleRow(i, j, m, n) * n + j
  BY DEF Pulls
<1> HIDE DEF i, j, u
<1>4. i \in Int /\ j \in Int
  BY <1>2
<1>5. CASE phase = "row"
  <2> DEFINE c == ShuffleColumn(i, j, m, n)
  <2>1. c \in 0..(n - 1)
    BY <1>4, ColumnInRow
  <2>2. u = i * n + c
    BY <1>3, <1>5
  <2> HIDE DEF c
  <2>3. u \in 0..(m * n - 1) /\ u \div n = i
    BY <1>1, <1>2, <2>1, <2>2, CellAddress
  <2> QED
    BY <1>5, <2>3 DEF PullsFrom, InGrid, LineOf, u, i
<1>6. CASE phase # "row"
  <2>1. PICK r \in 0..(m - 1) : u = r * n + j
    <3>1. /\ PreShuffleRow(i, j, m, n) \in 0..(m - 1)
          /\ PostShuffleRow(i, j, m, n) \in 0..(m - 1)
      BY <1>4, RowsOfGrid
    <3> QED
      BY <1>3, <1>6, <3>1 DEF Phases
  <2>2. u \in 0..(m * n - 1) /\ u % n = j
    BY <1>1, <1>2, <2>1, CellAddress
  <2> QED
    BY <1>6, <2>2 DEF PullsFrom, InGrid, LineOf, u, j
<1> QED
  BY <1>5, <1>6

\* Transposing twice leads back.
LEMMA TransposedBack ==
  ASSUME NEW m \in Nat \ {0}, NEW n \in Nat \ {0}, NEW o, InGrid(o, m, n)
  PROVE  /\ InGrid(Transposed(o, m, n), m, n)
         /\ Transposed(Transposed(o, m, n), n, m) = o
<1> DEFINE i == o % m
           j == o \div m
           u == Transposed(o, m, n)
<1>1. o \in 0..(n * m - 1)
  <2>1. m * n = n * m
    BY SMT
  <2> QED
    BY <2>1 DEF InGrid
<1>2. i \in 0..(m - 1) /\ j \in 0..(n - 1) /\ j * m + i = o
  BY <1>1, AddressCell
<1>3. u = i * n + j
  BY DEF Transposed
<1>4. Transposed(u, n, m) = (u % n) * m + (u \div n)
  BY DEF Transposed
<1> HIDE DEF i, j, u
<1>5. u \in 0..(m * n - 1) /\ u \div n = i /\ u % n = j
  BY <1>2, <1>3, CellAddress
<1>6. Transposed(u, n, m) = o
  BY <1>2, <1>4, <1>5
<1> QED
  BY <1>5, <1>6 DEF u, InGrid

\* A line is its own transposition.
LEMMA LineTransposed ==
  ASSUME NEW m \in Nat \ {0}, NEW n \in Nat \ {0}, NEW o, InGrid(o, m, n),
         m = 1 \/ n = 1
  PROVE  Transposed(o, m, n) = o
<1>1. CASE m = 1
  <2>1. o \in Nat
    BY <1>1 DEF InGrid
  <2>2. o \in Int /\ o = o * m + 0 /\ 0 \in 0..(m - 1)
    BY <1>1, <2>1
  <2>3. o \div m = o /\ o % m = 0
    BY <2>1, <2>2, IntParts
  <2> QED
    BY <2>1, <2>3 DEF Transposed
<1>2. CASE n = 1
  <2>1. o \in 0..(m - 1)
    BY <1>2 DEF InGrid
  <2>2. o \in Int /\ o = 0 * m + o /\ 0 \in Int
    BY <2>1
  <2>3. o \div m = 0 /\ o % m = o
    BY <2>1, <2>2, IntParts
  <2> QED
    BY <1>2, <2>1, <2>3 DEF Transposed
<1> QED
  BY <1>1, <1>2

\* The first phase would leave everything in place where it is left out.
LEMMA NoFirstPhase ==
  ASSUME NEW m, NEW n, NEW o, Grid(m, n), InGrid(o, m, n), Gcd(m, n) = 1
  PROVE  Pulls("pre", o, m, n) = o
<1> DEFINE i == o \div n
           j == o % n
           b == n \div Gcd(m, n)
<1>1. m \in Nat \ {0} /\ n \in Nat \ {0}
  BY DEF Grid
<1>2. i \in 0..(m - 1) /\ j \in 0..(n - 1) /\ i * n + j = o
  BY <1>1, AddressCell DEF InGrid
<1>3. Pulls("pre", o, m, n) = ((i + (j \div b)) % m) * n + j
  BY DEF Pulls, PreShuffleRow
<1>4. b = n
  <2>1. n = b * Gcd(m, n) /\ b \in Nat \ {0}
    BY <1>1, GcdReduces DEF Reduces
  <2> HIDE DEF b
  <2> QED
    BY <2>1
<1> HIDE DEF i, j, b
<1>5. j \div b = 0
  <2>1. j \in Int /\ 0 \in Int /\ j = 0 * n + j
    BY <1>1, <1>2
  <2> QED
    BY <1>1, <1>2, <1>4, <2>1, IntParts
<1>6. (i + 0) % m = i
  <2>1. i \in Nat /\ i < m /\ i + 0 = i
    BY <1>1, <1>2
  <2>2. i % m = i
    BY <1>1, <2>1, SMT
  <2> QED
    BY <2>1, <2>2
<1> QED
  BY <1>2, <1>3, <1>5, <1>6

\* The three phases together transpose a grid of any shape: what the column rotation,
\* the row shuffle and the first rotation (PostShuffleRow, ShuffleColumn,
\* PreShuffleRow) pull to an address is the element a transposition puts there.
THEOREM ThreePhases ==
  ASSUME NEW m, NEW n, NEW o, Grid(m, n), InGrid(o, m, n)
  PROVE  After("post", o, m, n) = Transposed(o, m, n)
<1> DEFINE i == o \div n
           j == o % n
           g == Gcd(m, n)
           b == n \div g
<1>1. m \in Nat \ {0} /\ n \in Nat \ {0}
  BY DEF Grid
<1>2. i \in 0..(m - 1) /\ j \in 0..(n - 1) /\ i * n + j = o
  BY <1>1, AddressCell DEF InGrid
<1>3. Pulls("post", o, m, n) = PostShuffleRow(i, j, m, n) * n + j
  BY DEF Pulls
<1> HIDE DEF i, j
<1>4. PICK q, c, R, d : Finds(i, j, m, n, g, m \div g, b, q, c, R, d)
  BY <1>2, FindsAll
<1> DEFINE p == R - q + d * m
           K == q * b + c
           u == p * n + j
           v == p * n + K
<1>5. p \in 0..(m - 1) /\ PostShuffleRow(i, j, m, n) = p
  BY <1>2, <1>4, PostReads
<1>6. ShuffleColumn(p, j, m, n) = K /\ PreShuffleRow(p, K, m, n) = R
  BY <1>2, <1>4, RowReads
<1>7. o \div m = K /\ o % m = R
  BY <1>2, <1>4 DEF Finds
<1> HIDE DEF g, b, p, K
<1>8. K \in 0..(n - 1)
  <2>1. p \in Int /\ j \in Int
    BY <1>2, <1>5
  <2> QED
    BY <1>6, <2>1, ColumnInRow
<1>9. u \div n = p /\ u % n = j
  BY <1>1, <1>2, <1>5, CellAddress
<1>10. v \div n = p /\ v % n = K
  BY <1>1, <1>5, <1>8, CellAddress
<1>11. Pulls("post", o, m, n) = u
  BY <1>3, <1>5
<1> HIDE DEF u, v
<1>12. Pulls("row", u, m, n) = v
  BY <1>6, <1>9 DEF Pulls, v
<1>13. Pulls("pre", v, m, n) = R * n + K
  BY <1>6, <1>10 DEF Pulls
<1>14. After("post", o, m, n) = R * n + K
  BY <1>11, <1>12, <1>13 DEF After, Before
<1> QED
  BY <1>7, <1>14 DEF Transposed

(***************************************************************************)
(* The plan.                                                               *)
(***************************************************************************)
\* The launches on a grid: some of a phase's lines.
Launched(m, n) ==
  {l \in [phase : Phases, first : Nat, count : Nat \ {0}, length : Nat \ {0}] :
     /\ l.length = Length(l.phase, m, n)
     /\ l.first + l.count <= Lines(l.phase, m, n)}

\* l is the last of its phase.
Completes(l, m, n) == l.first + l.count = Lines(l.phase, m, n)

Successive(p, q) == (p = "pre" /\ q = "row") \/ (p = "row" /\ q = "post")

\* k takes up where l has left, or starts the next phase.
Follows(l, k, m, n) ==
  \/ k.phase = l.phase /\ k.first = l.first + l.count
  \/ Completes(l, m, n) /\ k.first = 0 /\ Successive(l.phase, k.phase)

\* s goes through the phases from p to q, line by line.
Chain(s, p, q, m, n) ==
  /\ s \in Seq(Launched(m, n))
  /\ Len(s) >= 1
  /\ s[1].phase = p /\ s[1].first = 0
  /\ s[Len(s)].phase = q /\ Completes(s[Len(s)], m, n)
  /\ \A i \in 1..(Len(s) - 1) : Follows(s[i], s[i + 1], m, n)

\* There is always room for a line or no line fits.
LEMMA BatchOfLines ==
  ASSUME NEW lines \in Nat \ {0}, NEW length \in Nat \ {0}, NEW size \in Nat
  PROVE  LineBatch(lines, length, size) \in 1..lines
<1> DEFINE q == size \div length
<1>1. q \in Nat
  BY DivMod
<1> HIDE DEF q
<1>2. LineBatch(lines, length, size) = Lower(MaxGridX, Higher(1, Lower(lines, q)))
  BY DEF LineBatch, q
<1> QED
  BY <1>1, <1>2, MaxGridXAssumption DEF Higher, Lower

\* A pass goes through the lines of a phase.
LEMMA PassChain ==
  ASSUME NEW m \in Nat \ {0}, NEW n \in Nat \ {0}, NEW size \in Nat, NEW phase \in Phases
  PROVE  Chain(Pass(phase, Lines(phase, m, n), Length(phase, m, n), size),
               phase, phase, m, n)
<1> DEFINE lines == Lines(phase, m, n)
           length == Length(phase, m, n)
           batch == LineBatch(lines, length, size)
           k == (lines + batch - 1) \div batch
           r == (lines + batch - 1) % batch
           launch(i) == [phase |-> phase, first |-> (i - 1) * batch,
                         count |-> Lower(batch, lines - (i - 1) * batch),
                         length |-> length]
           s == Pass(phase, lines, length, size)
<1>1. lines \in Nat \ {0} /\ length \in Nat \ {0}
  BY DEF Lines, Length
<1>2. s = [i \in 1..k |-> launch(i)]
  BY DEF Pass
<1> HIDE DEF s, lines, length
<1>3. batch \in 1..lines
  BY <1>1, BatchOfLines
<1> HIDE DEF batch
<1>4. k \in Nat /\ r \in 0..(batch - 1) /\ lines + batch - 1 = k * batch + r
  <2> DEFINE x == lines + batch - 1
  <2>1. x \in Nat /\ batch \in Nat \ {0}
    BY <1>1, <1>3
  <2> HIDE DEF x
  <2>2. x \div batch \in Nat /\ x % batch \in 0..(batch - 1)
        /\ x = (x \div batch) * batch + (x % batch)
    BY <2>1, DivMod
  <2> QED
    BY <2>2 DEF x
<1> HIDE DEF k, r
<1>5. k * batch >= lines /\ k * batch < lines + batch /\ k * batch \in Nat
  <2>1. k * batch \in Nat
    BY <1>1, <1>3, <1>4
  <2> DEFINE x == k * batch
  <2> HIDE DEF x
  <2>2. x \in Nat /\ lines + batch - 1 = x + r
    BY <1>4, <2>1 DEF x
  <2>3. x >= lines /\ x < lines + batch
    BY <1>1, <1>3, <1>4, <2>2
  <2> QED
    BY <2>1, <2>3 DEF x
<1>6. \A i \in 1..k : /\ (i - 1) * batch \in Nat /\ i * batch \in Nat
                      /\ i * batch = (i - 1) * batch + batch
                      /\ (i - 1) * batch < lines
                      /\ i < k => i * batch < lines
                      /\ i = k => i * batch >= lines
  <2>1. \A i \in Nat \ {0} : /\ (i - 1) * batch \in Nat /\ i * batch \in Nat
                             /\ i * batch = (i - 1) * batch + batch
    BY <1>3, SMT
  <2>2. \A i \in 1..k : i \in Nat \ {0} /\ k \in Int /\ i \in Int
    BY <1>4
  <2>3. \A i \in 1..k : i < k => i * batch + batch <= k * batch
    BY <1>3, <2>2, Apart
  <2> TAKE i \in 1..k
  <2> DEFINE x == i * batch
             y == k * batch
             z == (i - 1) * batch
  <2>4. x \in Nat /\ z \in Nat /\ x = z + batch /\ (i < k => x + batch <= y)
    BY <2>1, <2>2, <2>3
  <2>5. y >= lines /\ y < lines + batch /\ y \in Nat /\ (i = k => x = y)
    BY <1>5
  <2>6. i < k \/ i = k
    BY <1>4
  <2> HIDE DEF x, y, z
  <2>7. z < lines /\ (i < k => x < lines) /\ (i = k => x >= lines)
    BY <1>1, <1>3, <2>4, <2>5, <2>6
  <2> QED
    BY <2>4, <2>7 DEF x, z
<1>7. \A i \in 1..k : launch(i) \in Launched(m, n)
  <2> TAKE i \in 1..k
  <2> DEFINE z == (i - 1) * batch
             c == Lower(batch, lines - z)
  <2>1. z \in Nat /\ z < lines
    BY <1>6
  <2> HIDE DEF z
  <2>2. c \in Nat \ {0} /\ z + c <= lines
    BY <1>1, <1>3, <2>1 DEF Lower
  <2> HIDE DEF c
  <2>3. [phase |-> phase, first |-> z, count |-> c, length |-> length] \in Launched(m, n)
    BY <1>1, <2>1, <2>2 DEF Launched, lines, length
  <2> QED
    BY <2>3 DEF z, c
<1>8. \A i \in 1..k : i < k => Follows(launch(i), launch(i + 1), m, n)
  <2> TAKE i \in 1..k
  <2> SUFFICES ASSUME i < k PROVE Follows(launch(i), launch(i + 1), m, n)
    OBVIOUS
  <2> DEFINE z == (i - 1) * batch
             x == i * batch
  <2>1. z \in Nat /\ x \in Nat /\ x = z + batch /\ x < lines
    BY <1>6
  <2>2. (i + 1) - 1 = i
    BY <1>4
  <2>3. launch(i + 1).first = x /\ launch(i + 1).phase = phase
    BY <2>2
  <2>4. launch(i).first = z /\ launch(i).phase = phase
        /\ launch(i).count = Lower(batch, lines - z)
    OBVIOUS
  <2> HIDE DEF z, x, launch
  <2>5. Lower(batch, lines - z) = batch
    BY <1>1, <1>3, <2>1 DEF Lower
  <2> QED
    BY <2>1, <2>3, <2>4, <2>5 DEF Follows
<1>9. k >= 1 /\ 1 \in 1..k /\ k \in 1..k
  <2>1. k # 0
    <3>1. 0 * batch = 0
      BY <1>3
    <3> QED
      BY <1>1, <1>5, <3>1
  <2> QED
    BY <1>4, <2>1
<1>10. launch(1).phase = phase /\ launch(1).first = 0
  <2>1. (1 - 1) * batch = 0
    BY <1>3
  <2> QED
    BY <2>1
<1>11. launch(k).phase = phase /\ Completes(launch(k), m, n)
  <2> DEFINE z == (k - 1) * batch
             x == k * batch
  <2>1. z \in Nat /\ x = z + batch /\ x >= lines /\ z < lines
    BY <1>6, <1>9
  <2> HIDE DEF z, x
  <2>2. z + Lower(batch, lines - z) = lines
    BY <1>1, <1>3, <2>1 DEF Lower
  <2> QED
    BY <2>2 DEF Completes, lines, z
<1> HIDE DEF launch
<1>12. s \in Seq(Launched(m, n)) /\ Len(s) = k /\ \A i \in 1..k : s[i] = launch(i)
  BY <1>2, <1>4, <1>7
<1>13. \A i \in 1..(k - 1) : Follows(s[i], s[i + 1], m, n)
  <2>1. \A i \in 1..(k - 1) : i \in 1..k /\ i + 1 \in 1..k /\ i < k
    BY <1>4
  <2> QED
    BY <1>8, <1>12, <2>1
<1> QED
  BY <1>9, <1>10, <1>11, <1>12, <1>13 DEF Chain, s, lines, length

\* A chain to a phase and one from the next make a chain.
LEMMA ChainsJoin ==
  ASSUME NEW m, NEW n, NEW s, NEW t, NEW p, NEW q, NEW u, NEW v,
         Chain(s, p, q, m, n), Chain(t, u, v, m, n), Successive(q, u)
  PROVE  Chain(s \o t, p, v, m, n)
<1> DEFINE w == s \o t
           a == Len(s)
           b == Len(t)
<1>1. s \in Seq(Launched(m, n)) /\ t \in Seq(Launched(m, n)) /\ a >= 1 /\ b >= 1
      /\ a \in Nat /\ b \in Nat
  BY DEF Chain
<1>2. /\ w \in Seq(Launched(m, n))
      /\ Len(w) = a + b
      /\ \A i \in 1..(a + b) : w[i] = IF i <= a THEN s[i] ELSE t[i - a]
  BY <1>1, ConcatProperties
<1>3. /\ s[1].phase = p /\ s[1].first = 0
      /\ s[a].phase = q /\ Completes(s[a], m, n)
      /\ \A i \in 1..(a - 1) : Follows(s[i], s[i + 1], m, n)
      /\ t[1].phase = u /\ t[1].first = 0
      /\ t[b].phase = v /\ Completes(t[b], m, n)
      /\ \A i \in 1..(b - 1) : Follows(t[i], t[i + 1], m, n)
  BY DEF Chain
<1> HIDE DEF w, a, b
<1>4. w[1] = s[1]
  <2>1. 1 \in 1..(a + b) /\ 1 <= a
    BY <1>1
  <2> QED
    BY <1>2, <2>1
<1>5. w[a + b] = t[b]
  <2>1. a + b \in 1..(a + b) /\ ~(a + b <= a) /\ (a + b) - a = b
    BY <1>1
  <2> QED
    BY <1>2, <2>1
<1>6. \A i \in 1..((a + b) - 1) : Follows(w[i], w[i + 1], m, n)
  <2> TAKE i \in 1..((a + b) - 1)
  <2>1. i \in 1..(a + b) /\ i + 1 \in 1..(a + b) /\ i \in Int
    BY <1>1
  <2>2. CASE i < a
    <3>1. i <= a /\ i + 1 <= a /\ i \in 1..(a - 1)
      BY <1>1, <2>2
    <3>2. w[i] = s[i] /\ w[i + 1] = s[i + 1]
      BY <1>2, <2>1, <3>1
    <3> QED
      BY <1>3, <3>1, <3>2
  <2>3. CASE i = a
    <3>1. i <= a /\ ~(i + 1 <= a) /\ (i + 1) - a = 1
      BY <1>1, <2>3
    <3>2. w[i] = s[a] /\ w[i + 1] = t[1]
      BY <1>2, <2>1, <2>3, <3>1
    <3> QED
      BY <1>3, <3>2 DEF Follows
  <2>4. CASE i > a
    <3> DEFINE j == i - a
    <3>1. ~(i <= a) /\ ~(i + 1 <= a) /\ (i + 1) - a = j + 1 /\ j \in 1..(b - 1)
      BY <1>1, <2>4
    <3>2. w[i] = t[j] /\ w[i + 1] = t[j + 1]
      BY <1>2, <2>1, <3>1
    <3> HIDE DEF j
    <3> QED
      BY <1>3, <3>1, <3>2
  <2> QED
    BY <1>1, <2>1, <2>2, <2>3, <2>4
<1>7. Len(w) >= 1
  BY <1>1, <1>2
<1> QED
  BY <1>2, <1>3, <1>4, <1>5, <1>6, <1>7 DEF Chain, w, a, b

\* The plan of a grid goes through all phases, the first one where it is needed;
\* a line has none.
LEMMA PlanChain ==
  ASSUME NEW m \in Nat \ {0}, NEW n \in Nat \ {0}, NEW size \in Nat
  PROVE  IF m = 1 \/ n = 1 THEN Launches(m, n, size) = <<>>
         ELSE Chain(Launches(m, n, size), IF Gcd(m, n) > 1 THEN "pre" ELSE "row",
                    "post", m, n)
<1> DEFINE pre == Pass("pre", n, m, size)
           row == Pass("row", m, n, size)
           post == Pass("post", n, m, size)
<1>1. /\ Chain(pre, "pre", "pre", m, n)
      /\ Chain(row, "row", "row", m, n)
      /\ Chain(post, "post", "post", m, n)
  <2>1. \A phase \in Phases :
          Chain(Pass(phase, Lines(phase, m, n), Length(phase, m, n), size),
                phase, phase, m, n)
    BY PassChain
  <2>2. "pre" \in Phases /\ "row" \in Phases /\ "post" \in Phases
    BY DEF Phases
  <2>3. /\ Lines("pre", m, n) = n /\ Length("pre", m, n) = m
        /\ Lines("row", m, n) = m /\ Length("row", m, n) = n
        /\ Lines("post", m, n) = n /\ Length("post", m, n) = m
    BY DEF Lines, Length
  <2> QED
    BY <2>1, <2>2, <2>3
<1>2. m = 1 \/ n = 1 => Launches(m, n, size) = <<>>
  BY DEF Launches
<1>3. ~(m = 1 \/ n = 1) =>
        Launches(m, n, size) =
          (IF Gcd(m, n) > 1 THEN pre ELSE <<>>) \o row \o post
  BY DEF Launches
<1>4. Successive("pre", "row") /\ Successive("row", "post")
  BY DEF Successive
<1> HIDE DEF pre, row, post
<1>5. Chain(pre \o row, "pre", "row", m, n)
  BY <1>1, <1>4, ChainsJoin
<1>6. Chain((pre \o row) \o post, "pre", "post", m, n)
  BY <1>1, <1>4, <1>5, ChainsJoin
<1>7. Chain(row \o post, "row", "post", m, n)
  BY <1>1, <1>4, ChainsJoin
<1>8. <<>> \o row = row
  BY <1>1 DEF Chain
<1> QED
  BY <1>2, <1>3, <1>6, <1>7, <1>8

(***************************************************************************)
(* The launches under way.                                                 *)
(***************************************************************************)
\* Launch l, whose blocks are in the states bl, has been over the line of o.
Over(l, bl, o, n) ==
  LET b == LineOf(l.phase, o, n) - l.first
  IN  b < 0 \/ (b \in DOMAIN bl /\ bl[b] = "done")

\* The address, at the start of the conversion, of what is at o while l runs.
Left(l, bl, o, m, n) ==
  IF Over(l, bl, o, n) THEN After(l.phase, o, m, n) ELSE Before(l.phase, o, m, n)

\* What is given of a launch, its blocks and an address.
Running(l, bl, o, m, n) ==
  /\ Grid(m, n) /\ InGrid(o, m, n)
  /\ l \in Launched(m, n)
  /\ DOMAIN bl = 0..(l.count - 1)

All(bl, state) == \A b \in DOMAIN bl : bl[b] = state

\* Lines are numbered from zero.
LEMMA LinesNumbered ==
  ASSUME NEW m, NEW n, NEW o, NEW phase \in Phases, Grid(m, n), InGrid(o, m, n)
  PROVE  /\ LineOf(phase, o, n) \in 0..(Lines(phase, m, n) - 1)
         /\ IndexOf(phase, o, n) \in 0..(Length(phase, m, n) - 1)
<1>1. m \in Nat \ {0} /\ n \in Nat \ {0}
  BY DEF Grid
<1>2. o \div n \in 0..(m - 1) /\ o % n \in 0..(n - 1)
  BY <1>1, AddressCell DEF InGrid
<1> QED
  BY <1>2 DEF LineOf, IndexOf, Lines, Length

\* A first launch finds everything where the conversion did.
LEMMA LeftAtFirst ==
  ASSUME NEW l, NEW bl, NEW o, NEW m, NEW n, Running(l, bl, o, m, n), All(bl, "ready"),
         l.first = 0, l.phase = IF Gcd(m, n) > 1 THEN "pre" ELSE "row"
  PROVE  Left(l, bl, o, m, n) = o
<1>1. l.phase \in Phases
  BY DEF Running, Launched
<1>2. LineOf(l.phase, o, n) \in Nat
  <2>1. LineOf(l.phase, o, n) \in 0..(Lines(l.phase, m, n) - 1)
    BY <1>1, LinesNumbered DEF Running
  <2> QED
    BY <2>1
<1>3. ~Over(l, bl, o, n)
  BY <1>2 DEF Over, All
<1>4. Before(l.phase, o, m, n) = o
  <2>1. CASE Gcd(m, n) > 1
    BY <2>1 DEF Before
  <2>2. CASE ~(Gcd(m, n) > 1)
    <3>1. Gcd(m, n) \in Nat \ {0}
      BY GcdReduces DEF Running, Grid, Reduces
    <3>2. Gcd(m, n) = 1
      BY <2>2, <3>1
    <3>3. Pulls("pre", o, m, n) = o
      BY <3>2, NoFirstPhase DEF Running
    <3> QED
      BY <2>2, <3>3 DEF Before
  <2> QED
    BY <2>1, <2>2
<1> QED
  BY <1>3, <1>4 DEF Left

\* Once its blocks are done a launch has been over the lines before the next.
LEMMA OverWhenDone ==
  ASSUME NEW l, NEW bl, NEW o, NEW m, NEW n, Running(l, bl, o, m, n), All(bl, "done")
  PROVE  Over(l, bl, o, n) <=> LineOf(l.phase, o, n) < l.first + l.count
<1>1. l.phase \in Phases /\ l.first \in Nat /\ l.count \in Nat \ {0}
  BY DEF Running, Launched
<1> DEFINE line == LineOf(l.phase, o, n)
<1>2. line \in Nat
  <2>1. line \in 0..(Lines(l.phase, m, n) - 1)
    BY <1>1, LinesNumbered DEF Running
  <2> HIDE DEF line
  <2> QED
    BY <2>1
<1>3. DOMAIN bl = 0..(l.count - 1)
  BY DEF Running
<1>4. Over(l, bl, o, n) <=> (line - l.first < 0 \/ line - l.first \in 0..(l.count - 1))
  BY <1>3 DEF Over, All
<1> HIDE DEF line
<1>5. (line - l.first < 0 \/ line - l.first \in 0..(l.count - 1)) <=> line < l.first + l.count
  BY <1>1, <1>2
<1> QED
  BY <1>4, <1>5 DEF line

\* The next launch finds what the last one leaves.
LEMMA LeftToNext ==
  ASSUME NEW l, NEW bl, NEW k, NEW bk, NEW o, NEW m, NEW n,
         Running(l, bl, o, m, n), Running(k, bk, o, m, n), Follows(l, k, m, n),
         All(bl, "done"), All(bk, "ready")
  PROVE  Left(k, bk, o, m, n) = Left(l, bl, o, m, n)
<1>1. /\ l.phase \in Phases /\ l.first \in Nat /\ l.count \in Nat \ {0}
      /\ k.phase \in Phases /\ k.first \in Nat
  BY DEF Running, Launched
<1>2. Over(l, bl, o, n) <=> LineOf(l.phase, o, n) < l.first + l.count
  BY OverWhenDone
<1>3. /\ LineOf(l.phase, o, n) \in 0..(Lines(l.phase, m, n) - 1)
      /\ LineOf(k.phase, o, n) \in 0..(Lines(k.phase, m, n) - 1)
  BY <1>1, LinesNumbered DEF Running
<1>4. Over(k, bk, o, n) <=> LineOf(k.phase, o, n) < k.first
  <2> DEFINE line == LineOf(k.phase, o, n)
  <2>1. Over(k, bk, o, n) <=> line - k.first < 0
    BY DEF Over, All
  <2>2. line \in Int
    BY <1>3
  <2> HIDE DEF line
  <2>3. line - k.first < 0 <=> line < k.first
    BY <1>1, <2>2
  <2> QED
    BY <2>1, <2>3 DEF line
<1>5. CASE k.phase = l.phase /\ k.first = l.first + l.count
  BY <1>2, <1>4, <1>5 DEF Left
<1>6. CASE Completes(l, m, n) /\ k.first = 0 /\ Successive(l.phase, k.phase)
  <2>1. Over(l, bl, o, n)
    <3> DEFINE line == LineOf(l.phase, o, n)
               lines == Lines(l.phase, m, n)
    <3>1. line \in 0..(lines - 1) /\ l.first + l.count = lines
      BY <1>3, <1>6 DEF Completes
    <3> HIDE DEF line, lines
    <3>2. line < l.first + l.count
      BY <1>1, <3>1
    <3> QED
      BY <1>2, <3>2 DEF line
  <2>2. ~Over(k, bk, o, n)
    <3> DEFINE line == LineOf(k.phase, o, n)
    <3>1. line \in Nat
      BY <1>3
    <3> HIDE DEF line
    <3>2. ~(line < k.first)
      BY <1>6, <3>1
    <3> QED
      BY <1>4, <3>2 DEF line
  <2>3. After(l.phase, o, m, n) = Before(k.phase, o, m, n)
    BY <1>6 DEF Successive, After, Before
  <2> QED
    BY <2>1, <2>2, <2>3 DEF Left
<1> QED
  BY <1>5, <1>6 DEF Follows

\* The last launch leaves the grid transposed.
LEMMA LeftAtLast ==
  ASSUME NEW l, NEW bl, NEW o, NEW m, NEW n, Running(l, bl, o, m, n), All(bl, "done"),
         l.phase = "post", Completes(l, m, n)
  PROVE  Left(l, bl, o, m, n) = Transposed(o, m, n)
<1>1. l.phase \in Phases /\ l.first \in Nat /\ l.count \in Nat \ {0}
  BY DEF Running, Launched
<1>2. Over(l, bl, o, n)
  <2> DEFINE line == LineOf(l.phase, o, n)
             lines == Lines(l.phase, m, n)
  <2>1. line \in 0..(lines - 1)
    BY <1>1, LinesNumbered DEF Running
  <2>2. l.first + l.count = lines
    BY DEF Completes
  <2>3. Over(l, bl, o, n) <=> line < l.first + l.count
    BY OverWhenDone
  <2> HIDE DEF line, lines
  <2>4. line < l.first + l.count
    BY <1>1, <2>1, <2>2
  <2> QED
    BY <2>3, <2>4
<1>3. After("post", o, m, n) = Transposed(o, m, n)
  BY ThreePhases DEF Running
<1> QED
  BY <1>2, <1>3 DEF Left

\* What a block that is ready gathers for an address of its line.
LEMMA LeftToGather ==
  ASSUME NEW l, NEW bl, NEW o, NEW m, NEW n, NEW b, Running(l, bl, o, m, n),
         b \in DOMAIN bl, bl[b] = "ready", LineOf(l.phase, o, n) = l.first + b
  PROVE  /\ InGrid(Pulls(l.phase, o, m, n), m, n)
         /\ Left(l, bl, Pulls(l.phase, o, m, n), m, n) = After(l.phase, o, m, n)
<1> DEFINE u == Pulls(l.phase, o, m, n)
<1>1. l.phase \in Phases /\ l.first \in Nat /\ b \in Nat
  BY DEF Running, Launched
<1>2. PullsFrom(l.phase, o, u, m, n)
  BY <1>1, PullsInLine DEF Running
<1>3. InGrid(u, m, n) /\ LineOf(l.phase, u, n) = l.first + b
  BY <1>2 DEF PullsFrom
<1>4. After(l.phase, o, m, n) = Before(l.phase, u, m, n)
  BY DEF After
<1> HIDE DEF u
<1>5. ~Over(l, bl, u, n)
  <2>1. (l.first + b) - l.first = b /\ ~(b < 0)
    BY <1>1
  <2> QED
    BY <1>3, <2>1 DEF Over
<1>6. Left(l, bl, u, m, n) = Before(l.phase, u, m, n)
  BY <1>5 DEF Left
<1> QED
  BY <1>3, <1>4, <1>6 DEF u

\* A block that gathers or writes changes what its own line counts as.
LEMMA LeftToWrite ==
  ASSUME NEW l, NEW bl, NEW o, NEW m, NEW n, NEW b, NEW state,
         Running(l, bl, o, m, n), b \in DOMAIN bl, bl[b] # "done"
  PROVE  Left(l, [bl EXCEPT ![b] = state], o, m, n) =
           IF state = "done" /\ LineOf(l.phase, o, n) = l.first + b
           THEN After(l.phase, o, m, n) ELSE Left(l, bl, o, m, n)
<1> DEFINE bn == [bl EXCEPT ![b] = state]
           line == LineOf(l.phase, o, n)
           c == line - l.first
<1>1. l.phase \in Phases /\ l.first \in Nat /\ b \in Nat
  BY DEF Running, Launched
<1>2. line \in Int
  <2>1. line \in 0..(Lines(l.phase, m, n) - 1)
    BY <1>1, LinesNumbered DEF Running
  <2> HIDE DEF line
  <2> QED
    BY <2>1
<1>3. DOMAIN bn = DOMAIN bl /\ bn[b] = state /\ \A d \in DOMAIN bl : d # b => bn[d] = bl[d]
  OBVIOUS
<1>4. /\ Over(l, bl, o, n) <=> (c < 0 \/ (c \in DOMAIN bl /\ bl[c] = "done"))
      /\ Over(l, bn, o, n) <=> (c < 0 \/ (c \in DOMAIN bn /\ bn[c] = "done"))
  BY DEF Over
<1> HIDE DEF bn, line
<1>5. c = b <=> line = l.first + b
  BY <1>1, <1>2
<1>6. ~(b < 0)
  BY <1>1
<1> HIDE DEF c
<1>7. CASE line = l.first + b
  <2>1. Over(l, bn, o, n) <=> state = "done"
    BY <1>3, <1>4, <1>5, <1>6, <1>7
  <2>2. ~Over(l, bl, o, n)
    BY <1>4, <1>5, <1>6, <1>7
  <2> QED
    BY <1>7, <2>1, <2>2 DEF Left, bn, line
<1>8. CASE line # l.first + b
  <2>1. Over(l, bn, o, n) <=> Over(l, bl, o, n)
    BY <1>3, <1>4, <1>5, <1>8
  <2> QED
    BY <1>8, <2>1 DEF Left, bn, line
<1> QED
  BY <1>7, <1>8

(***************************************************************************)
(* The invariant.                                                          *)
(***************************************************************************)
Cells == 0..(call.rows * call.cols - 1)

\* What was at o when the conversion under way started.
Start(o) == IF way = "back" THEN Transposed(o, call.rows, call.cols) ELSE o

\* What of that is at o now.
Content(o) == IF at = 0 THEN o ELSE Left(Plan[at], blocks, o, GridRows, GridCols)

\* Launches run during a conversion, with blocks that go from ready to done.
StatesInRange ==
  /\ way \in {"there", "back", "done", "rejected"}
  /\ at # 0 => way \in {"there", "back"}
  /\ \A b \in DOMAIN blocks : blocks[b] \in {"ready", "gathered", "done"}
  /\ DOMAIN scratch = 0..(call.scratch - 1)

\* Storage is as the launches left it.
Stored == data = [o \in Cells |-> Start(Content(o))]

\* The slice of a block that has gathered is what its line is to become.
Gathered(b, o) ==
  LET l == Plan[at]
  IN  scratch[Slice(b, l.length) + IndexOf(l.phase, o, GridCols)]
        = Start(After(l.phase, o, GridRows, GridCols))
Held ==
  \A b \in DOMAIN blocks : blocks[b] = "gathered" =>
    \A o \in Cells : LineOf(Plan[at].phase, o, GridCols) = Plan[at].first + b =>
      Gathered(b, o)

ConvertInv == LaunchInv /\ StatesInRange /\ Stored /\ Held

\* The grid is one the lemmas are about, its addresses are the cells.
LEMMA GridOfCall ==
  ASSUME call \in Calls
  PROVE  /\ Grid(GridRows, GridCols)
         /\ \A o : o \in Cells <=> InGrid(o, GridRows, GridCols)
         /\ Grid(call.rows, call.cols)
<1>1. /\ call.rows \in Nat \ {0} /\ call.cols \in Nat \ {0}
      /\ call.rows * (call.rows + 1) <= Width /\ call.cols * (call.cols + 1) <= Width
  BY CallsAssumption, WidthAssumption
<1>2. call.rows * call.cols = call.cols * call.rows
  <2>1. \A x, y \in Int : x * y = y * x
    BY SMT
  <2> QED
    BY <1>1, <2>1
<1> QED
  BY <1>1, <1>2 DEF Grid, GridRows, GridCols, InGrid, Cells

\* The plan goes through the phases of that grid.
PhasesInOrder ==
  IF GridRows = 1 \/ GridCols = 1 THEN Plan = <<>>
  ELSE Chain(Plan, IF Gcd(GridRows, GridCols) > 1 THEN "pre" ELSE "row", "post",
             GridRows, GridCols)

\* It does for every call.
LEMMA PlanOfCall ==
  ASSUME call \in Calls
  PROVE  PhasesInOrder /\ Len(Plan) \in Nat
<1>1. call.scratch \in Nat /\ GridRows \in Nat \ {0} /\ GridCols \in Nat \ {0}
  BY CallsAssumption, GridOfCall DEF Grid
<1>2. PhasesInOrder
  <2> DEFINE m == GridRows
             n == GridCols
  <2>1. m \in Nat \ {0} /\ n \in Nat \ {0}
    BY <1>1
  <2>2. Plan = Launches(m, n, call.scratch)
    BY DEF Plan
  <2> HIDE DEF m, n
  <2>3. IF m = 1 \/ n = 1 THEN Launches(m, n, call.scratch) = <<>>
        ELSE Chain(Launches(m, n, call.scratch),
                   IF Gcd(m, n) > 1 THEN "pre" ELSE "row", "post", m, n)
    BY <1>1, <2>1, PlanChain
  <2> QED
    BY <2>2, <2>3 DEF PhasesInOrder, m, n
<1>3. Len(Plan) \in Nat
  <2>1. CASE Plan = <<>>
    BY <2>1
  <2>2. CASE Plan \in Seq(Launched(GridRows, GridCols))
    BY <2>2
  <2> QED
    BY <1>2, <2>1, <2>2 DEF PhasesInOrder, Chain
<1> QED
  BY <1>2, <1>3

\* The launch that runs is one of the grid.
LaunchRuns ==
  \A o \in Cells : Running(Plan[at], blocks, o, GridRows, GridCols)

\* It is, while one runs.
LEMMA RunningLaunch == LaunchInv /\ at # 0 => LaunchRuns
<1> SUFFICES ASSUME LaunchInv, at # 0, NEW o \in Cells
             PROVE  Running(Plan[at], blocks, o, GridRows, GridCols)
  BY DEF LaunchRuns
<1>1. call \in Calls /\ at \in Nat /\ at <= Len(Plan)
      /\ DOMAIN blocks = 0..(Plan[at].count - 1)
  BY DEF LaunchInv
<1>2. PhasesInOrder /\ Len(Plan) \in Nat
  BY <1>1, PlanOfCall
<1>3. Plan \in Seq(Launched(GridRows, GridCols))
  <2>1. Plan # <<>>
    BY <1>1, <1>2
  <2> QED
    BY <1>2, <2>1 DEF PhasesInOrder, Chain
<1>4. at \in 1..Len(Plan)
  BY <1>1, <1>2
<1>5. Plan[at] \in Launched(GridRows, GridCols)
  BY <1>3, <1>4
<1> QED
  BY <1>1, <1>5, GridOfCall DEF Running

\* The invariant holds initially.
LEMMA InitConvertInv == Init => ConvertInv
<1> SUFFICES ASSUME Init PROVE ConvertInv
  OBVIOUS
<1>1. LaunchInv
  BY InitLaunchInv
<1>2. /\ way = "there" /\ at = 0 /\ blocks = <<>> /\ data = [o \in Cells |-> o]
      /\ DOMAIN scratch = 0..(call.scratch - 1)
  BY DEF Init, Cells
<1>3. StatesInRange
  BY <1>2 DEF StatesInRange
<1>4. Stored
  <2>1. \A o \in Cells : Start(Content(o)) = o
    BY <1>2 DEF Start, Content
  <2> QED
    BY <1>2, <2>1 DEF Stored
<1>5. Held
  BY <1>2 DEF Held
<1> QED
  BY <1>1, <1>3, <1>4, <1>5 DEF ConvertInv

\* A launch that starts finds the storage as the one before it left it, or as the
\* conversion found it.
LEMMA LaunchConverts ==
  ASSUME ConvertInv, Launch
  PROVE  StatesInRange' /\ Stored' /\ Held'
<1> DEFINE m == GridRows
           n == GridCols
           k == Plan[at + 1]
<1>1. /\ LaunchInv /\ StatesInRange /\ Stored /\ Held /\ call \in Calls
      /\ at \in Nat
  BY DEF ConvertInv, LaunchInv
<1>2. LaunchInv'
  BY <1>1, NextLaunchInv DEF Next
<1>3. /\ UNCHANGED <<call, way, data, scratch>>
      /\ at' = at + 1 /\ at < Len(Plan)
      /\ blocks' = [b \in 0..(k.count - 1) |-> "ready"]
      /\ Quiet /\ way \in {"there", "back"}
  BY DEF Launch, Converting
<1>4. GridRows' = m /\ GridCols' = n /\ Plan' = Plan /\ Cells' = Cells
      /\ Plan[at]' = k
  BY <1>3 DEF GridRows, GridCols, Plan, Cells
<1>5. All(blocks', "ready")
  BY <1>3 DEF All
<1>6. StatesInRange'
  BY <1>1, <1>3 DEF StatesInRange
<1>7. at' # 0
  BY <1>1, <1>3
<1>8. \A o \in Cells : Running(k, blocks', o, m, n)
  <2>1. (LaunchInv /\ at # 0)'
    BY <1>2, <1>7
  <2>2. LaunchRuns'
    BY <2>1, RunningLaunch, PTL
  <2> QED
    BY <1>4, <2>2 DEF LaunchRuns
<1>9. PhasesInOrder /\ Len(Plan) \in Nat
  BY <1>1, PlanOfCall
<1>10. Chain(Plan, IF Gcd(m, n) > 1 THEN "pre" ELSE "row", "post", m, n)
  <2>1. Plan # <<>>
    BY <1>1, <1>3, <1>9
  <2> QED
    BY <1>9, <2>1 DEF PhasesInOrder
<1>11. ASSUME NEW o \in Cells
       PROVE  Left(k, blocks', o, m, n) = Content(o)
  <2>1. Running(k, blocks', o, m, n)
    BY <1>8
  <2>2. CASE at = 0
    <3>1. k.first = 0 /\ k.phase = IF Gcd(m, n) > 1 THEN "pre" ELSE "row"
      <4> HIDE DEF m, n
      <4>1. k = Plan[1]
        BY <2>2
      <4> QED
        BY <1>10, <4>1 DEF Chain
    <3> HIDE DEF m, n, k
    <3>2. Left(k, blocks', o, m, n) = o
      BY <1>5, <2>1, <3>1, LeftAtFirst
    <3> QED
      BY <2>2, <3>2 DEF Content
  <2>3. CASE at # 0
    <3> DEFINE l == Plan[at]
    <3>1. Running(l, blocks, o, m, n)
      BY <1>1, <2>3, RunningLaunch DEF LaunchRuns
    <3>2. Follows(l, k, m, n)
      <4> HIDE DEF m, n
      <4>1. at \in 1..(Len(Plan) - 1)
        BY <1>1, <1>3, <1>9, <2>3
      <4> QED
        BY <1>10, <4>1 DEF Chain
    <3>3. All(blocks, "done")
      BY <1>3 DEF Quiet, All
    <3> HIDE DEF m, n, k, l
    <3>4. Left(k, blocks', o, m, n) = Left(l, blocks, o, m, n)
      BY <1>5, <2>1, <3>1, <3>2, <3>3, LeftToNext
    <3> QED
      BY <2>3, <3>4 DEF Content, m, n, l
  <2> QED
    BY <2>2, <2>3
<1>12. Stored'
  <2>1. \A o \in Cells : Content(o)' = Content(o) /\ Start(o)' = Start(o)
    BY <1>3, <1>4, <1>7, <1>11 DEF Content, Start
  <2>2. \A o : Start(o)' = Start(o)
    BY <1>3 DEF Start
  <2>3. \A o \in Cells : Start(Content(o))' = Start(Content(o))
    BY <1>3, <2>1 DEF Start
  <2>4. data = [o \in Cells |-> Start(Content(o))]
    BY <1>1 DEF Stored
  <2> QED
    BY <1>3, <1>4, <2>3, <2>4 DEF Stored
<1>13. Held'
  BY <1>5 DEF Held, All
<1> QED
  BY <1>6, <1>12, <1>13

\* A block's element k is the one Pulls tells of, and an address is one element of
\* one line.
LEMMA CellOfLine ==
  ASSUME call \in Calls, NEW phase \in Phases, NEW o \in Cells
  PROVE  /\ Cell(phase, LineOf(phase, o, GridCols), IndexOf(phase, o, GridCols)) = o
         /\ Source(phase, LineOf(phase, o, GridCols), IndexOf(phase, o, GridCols))
              = Pulls(phase, o, GridRows, GridCols)
<1> DEFINE n == GridCols
           i == o \div n
           j == o % n
<1>1. Grid(GridRows, n) /\ InGrid(o, GridRows, n)
  BY GridOfCall
<1>2. i * n + j = o
  <2> HIDE DEF n
  <2> QED
    BY <1>1, AddressCell DEF Grid, InGrid
<1>3. /\ phase = "row" => LineOf(phase, o, n) = i /\ IndexOf(phase, o, n) = j
      /\ phase # "row" => LineOf(phase, o, n) = j /\ IndexOf(phase, o, n) = i
  BY DEF LineOf, IndexOf
<1> HIDE DEF i, j
<1>4. CASE phase = "row"
  BY <1>2, <1>3, <1>4 DEF Cell, Source, Pulls, i, j
<1>5. CASE phase = "pre"
  BY <1>2, <1>3, <1>5 DEF Cell, Source, Pulls, i, j
<1>6. CASE phase = "post"
  BY <1>2, <1>3, <1>6 DEF Cell, Source, Pulls, i, j
<1> QED
  BY <1>4, <1>5, <1>6 DEF Phases

\* The element a block has at k lies in its line, at k.
LEMMA LineOfCell ==
  ASSUME call \in Calls, NEW phase \in Phases,
         NEW line \in 0..(Lines(phase, GridRows, GridCols) - 1),
         NEW k \in 0..(Length(phase, GridRows, GridCols) - 1)
  PROVE  /\ LineOf(phase, Cell(phase, line, k), GridCols) = line
         /\ IndexOf(phase, Cell(phase, line, k), GridCols) = k
<1> DEFINE m == GridRows
           n == GridCols
<1>1. m \in Nat \ {0} /\ n \in Nat \ {0}
  BY GridOfCall DEF Grid
<1> HIDE DEF m, n
<1>2. CASE phase = "row"
  <2>1. line \in 0..(m - 1) /\ k \in 0..(n - 1)
    BY <1>2 DEF Lines, Length, m, n
  <2>2. (line * n + k) \div n = line /\ (line * n + k) % n = k
    BY <1>1, <2>1, CellAddress
  <2> QED
    BY <1>2, <2>2 DEF Cell, LineOf, IndexOf, n
<1>3. CASE phase # "row"
  <2>1. line \in 0..(n - 1) /\ k \in 0..(m - 1)
    BY <1>3 DEF Lines, Length, m, n
  <2>2. (k * n + line) \div n = k /\ (k * n + line) % n = line
    BY <1>1, <2>1, CellAddress
  <2> QED
    BY <1>3, <2>2 DEF Cell, LineOf, IndexOf, n
<1> QED
  BY <1>2, <1>3

\* The lines of a launch's blocks are lines of the grid, and the slices they use
\* are inside the scratch and apart.
BlockOf(b) ==
  LET l == Plan[at]
  IN  /\ l \in Launched(GridRows, GridCols)
      /\ b \in Nat
      /\ l.first + b \in 0..(Lines(l.phase, GridRows, GridCols) - 1)
      /\ Slice(b, l.length) \in Nat
      /\ Slice(b, l.length) + l.length <= call.scratch
      /\ call.scratch \in Nat
      /\ \A c \in DOMAIN blocks :
           b < c => Slice(b, l.length) + l.length <= Slice(c, l.length)

\* They are while the launch runs.
LEMMA BlocksOfLaunch ==
  ASSUME LaunchInv, NEW b \in DOMAIN blocks
  PROVE  at # 0 /\ BlockOf(b)
<1> DEFINE l == Plan[at]
<1>1. at # 0 /\ call \in Calls
  BY DEF LaunchInv
<1>2. call.scratch \in Nat /\ call.rows \in Nat \ {0} /\ call.cols \in Nat \ {0}
  BY <1>1, CallsAssumption
<1>3. 0 \in Cells
  <2>1. \A x, y \in Nat \ {0} : x * y \in Nat \ {0}
    BY SMT
  <2>2. call.rows * call.cols \in Nat \ {0}
    BY <1>2, <2>1
  <2> DEFINE z == call.rows * call.cols
  <2> HIDE DEF z
  <2>3. 0 \in 0..(z - 1)
    BY <2>2 DEF z
  <2> QED
    BY <2>3 DEF Cells, z
<1>4. Running(l, blocks, 0, GridRows, GridCols)
  BY <1>1, <1>3, RunningLaunch DEF LaunchRuns
<1>5. SlicesDisjoint
  BY LaunchInvSlices
<1> HIDE DEF l
<1>6. l \in Launched(GridRows, GridCols) /\ DOMAIN blocks = 0..(l.count - 1)
  BY <1>4 DEF Running
<1>7. /\ l.first \in Nat /\ l.count \in Nat \ {0} /\ l.length \in Nat \ {0}
      /\ l.first + l.count <= Lines(l.phase, GridRows, GridCols)
      /\ Lines(l.phase, GridRows, GridCols) \in Nat
  BY <1>1, <1>6, GridOfCall DEF Launched, Lines, Grid
<1> DEFINE lines == Lines(l.phase, GridRows, GridCols)
<1> HIDE DEF lines
<1>8. b \in Nat /\ l.first + b \in 0..(lines - 1)
  BY <1>6, <1>7 DEF lines
<1>9. Slice(b, l.length) \in Nat
  <2>1. \A x, y \in Nat : x * y \in Nat
    BY SMT
  <2> QED
    BY <1>7, <1>8, <2>1 DEF Slice
<1>10. /\ Slice(b, l.length) + l.length <= call.scratch
       /\ \A c \in DOMAIN blocks :
           b < c => Slice(b, l.length) + l.length <= Slice(c, l.length)
  BY <1>5 DEF SlicesDisjoint, l
<1> QED
  BY <1>1, <1>2, <1>6, <1>8, <1>9, <1>10 DEF BlockOf, l, lines

\* Where a block's slice has its element k: in the allocation, and in no slice of
\* another block.
LEMMA SliceAddress ==
  ASSUME NEW c \in DOMAIN blocks, NEW b \in DOMAIN blocks, LaunchInv,
         NEW k \in 0..(Plan[at].length - 1)
  PROVE  LET a == Slice(c, Plan[at].length) + k
         IN  /\ a \in 0..(call.scratch - 1)
             /\ a - Slice(c, Plan[at].length) = k
             /\ c # b => a - Slice(b, Plan[at].length) \notin 0..(Plan[at].length - 1)
<1> DEFINE n == Plan[at].length
           x == Slice(c, n)
           y == Slice(b, n)
<1>1. BlockOf(b) /\ BlockOf(c)
  BY BlocksOfLaunch
<1>2. /\ n \in Nat \ {0} /\ x \in Nat /\ y \in Nat /\ call.scratch \in Nat
      /\ x + n <= call.scratch /\ b \in Nat /\ c \in Nat
      /\ b < c => y + n <= x
      /\ c < b => x + n <= y
  BY <1>1 DEF BlockOf, Launched
<1> HIDE DEF n, x, y
<1>3. k \in 0..(n - 1)
  BY DEF n
<1>4. x + k \in 0..(call.scratch - 1) /\ (x + k) - x = k
  BY <1>2, <1>3
<1>5. ASSUME c # b PROVE (x + k) - y \notin 0..(n - 1)
  BY <1>2, <1>3, <1>5
<1> QED
  BY <1>4, <1>5 DEF x, y, n

\* A gathering block takes from its line, which the launch has not been over, what
\* the line is to become, into a slice of its own.
LEMMA GatherConverts ==
  ASSUME ConvertInv, NEW b \in DOMAIN blocks, Gather(b)
  PROVE  StatesInRange' /\ Stored' /\ Held'
<1> DEFINE m == GridRows
           n == GridCols
           l == Plan[at]
<1>1. /\ LaunchInv /\ StatesInRange /\ Stored /\ Held /\ call \in Calls
  BY DEF ConvertInv, LaunchInv
<1>2. /\ UNCHANGED <<call, way, at, data>>
      /\ blocks[b] = "ready"
      /\ blocks' = [blocks EXCEPT ![b] = "gathered"]
      /\ DOMAIN scratch' = DOMAIN scratch
      /\ \A a \in DOMAIN scratch :
           scratch'[a] = IF a - Slice(b, l.length) \in 0..(l.length - 1)
                         THEN data[Source(l.phase, l.first + b, a - Slice(b, l.length))]
                         ELSE scratch[a]
  BY DEF Gather
<1>3. GridRows' = m /\ GridCols' = n /\ Plan' = Plan /\ Cells' = Cells /\ Plan[at]' = l
  BY <1>2 DEF GridRows, GridCols, Plan, Cells
<1>4. at # 0 /\ BlockOf(b) /\ l.phase \in Phases
  BY <1>1, BlocksOfLaunch DEF BlockOf, Launched
<1>5. \A o \in Cells : Running(l, blocks, o, m, n)
  BY <1>1, <1>4, RunningLaunch DEF LaunchRuns
<1>6. StatesInRange'
  BY <1>1, <1>2 DEF StatesInRange
<1>7. \A o : Start(o)' = Start(o)
  BY <1>2 DEF Start
<1>8. \A o \in Cells : Content(o)' = Content(o)
  <2> TAKE o \in Cells
  <2>1. Left(l, blocks', o, m, n) = Left(l, blocks, o, m, n)
    <3> HIDE DEF l, m, n
    <3>1. Running(l, blocks, o, m, n) /\ blocks[b] # "done"
      BY <1>2, <1>5
    <3>2. Left(l, [blocks EXCEPT ![b] = "gathered"], o, m, n) = Left(l, blocks, o, m, n)
      BY <3>1, LeftToWrite
    <3> QED
      BY <1>2, <3>2
  <2> QED
    BY <1>2, <1>3, <1>4, <2>1 DEF Content
<1>9. Stored'
  <2>1. \A o \in Cells : Start(Content(o))' = Start(Content(o))
    BY <1>2, <1>8 DEF Start
  <2> QED
    BY <1>1, <1>2, <1>3, <2>1 DEF Stored
<1>10. ASSUME NEW c \in DOMAIN blocks, blocks'[c] = "gathered", NEW o \in Cells,
              LineOf(l.phase, o, n) = l.first + c
       PROVE  scratch'[Slice(c, l.length) + IndexOf(l.phase, o, n)]
                = Start(After(l.phase, o, m, n))
  <2> DEFINE k == IndexOf(l.phase, o, n)
             a == Slice(c, l.length) + k
  <2>1. k \in 0..(l.length - 1)
    <3>1. Grid(m, n) /\ InGrid(o, m, n) /\ l.length = Length(l.phase, m, n)
      BY <1>5 DEF Running, Launched
    <3> QED
      BY <1>4, <3>1, LinesNumbered
  <2>2. /\ a \in DOMAIN scratch
        /\ a - Slice(c, l.length) = k
        /\ c # b => a - Slice(b, l.length) \notin 0..(l.length - 1)
    <3> HIDE DEF k
    <3> QED
      BY <1>1, <2>1, SliceAddress DEF StatesInRange
  <2> HIDE DEF a
  <2>3. CASE c = b
    <3>1. scratch'[a] = data[Source(l.phase, l.first + b, k)]
      BY <1>2, <2>1, <2>2, <2>3
    <3>2. Source(l.phase, l.first + b, k) = Pulls(l.phase, o, m, n)
      BY <1>1, <1>4, <1>10, <2>3, CellOfLine
    <3> DEFINE u == Pulls(l.phase, o, m, n)
    <3>3. InGrid(u, m, n) /\ Left(l, blocks, u, m, n) = After(l.phase, o, m, n)
      <4> HIDE DEF l, m, n
      <4>1. Running(l, blocks, o, m, n) /\ LineOf(l.phase, o, n) = l.first + b
        BY <1>5, <1>10, <2>3
      <4> QED
        BY <1>2, <4>1, LeftToGather
    <3>4. u \in Cells
      BY <1>1, <3>3, GridOfCall
    <3> HIDE DEF u
    <3>5. data[u] = Start(Content(u))
      BY <1>1, <3>4 DEF Stored
    <3>6. Content(u) = After(l.phase, o, m, n)
      BY <1>4, <3>3 DEF Content
    <3> QED
      BY <3>1, <3>2, <3>5, <3>6 DEF u, a
  <2>4. CASE c # b
    <3>1. scratch'[a] = scratch[a]
      BY <1>2, <2>2, <2>4
    <3>2. blocks[c] = "gathered"
      BY <1>2, <1>10, <2>4
    <3>3. Gathered(c, o)
      BY <1>1, <1>10, <3>2 DEF Held
    <3> QED
      BY <3>1, <3>3 DEF Gathered, a
  <2> QED
    BY <2>3, <2>4
<1>11. Held'
  <2>1. DOMAIN blocks' = DOMAIN blocks
    BY <1>2
  <2>2. \A c \in DOMAIN blocks : blocks'[c] = "gathered" =>
          \A o \in Cells : LineOf(l.phase, o, n) = l.first + c => Gathered(c, o)'
    BY <1>2, <1>3, <1>7, <1>10 DEF Gathered
  <2> QED
    BY <1>3, <2>1, <2>2 DEF Held
<1> QED
  BY <1>6, <1>9, <1>11

\* A block that writes back leaves its line as it is to become, and only that.
LEMMA WriteBackConverts ==
  ASSUME ConvertInv, NEW b \in DOMAIN blocks, WriteBack(b)
  PROVE  StatesInRange' /\ Stored' /\ Held'
<1> DEFINE m == GridRows
           n == GridCols
           l == Plan[at]
           line == l.first + b
           OnLine(o) == \E k \in 0..(l.length - 1) : Cell(l.phase, line, k) = o
           Peek(k) == LET o == Slice(b, l.length) + k
                      IN  IF o \in DOMAIN scratch THEN scratch[o] ELSE Unset
           Written(o) == Peek(CHOOSE k \in 0..(l.length - 1) : Cell(l.phase, line, k) = o)
<1>1. /\ LaunchInv /\ StatesInRange /\ Stored /\ Held /\ call \in Calls
  BY DEF ConvertInv, LaunchInv
<1>2. /\ UNCHANGED <<call, way, at, scratch>>
      /\ blocks[b] = "gathered"
      /\ blocks' = [blocks EXCEPT ![b] = "done"]
      /\ data' = [o \in DOMAIN data |-> IF OnLine(o) THEN Written(o) ELSE data[o]]
  BY DEF WriteBack
<1>3. GridRows' = m /\ GridCols' = n /\ Plan' = Plan /\ Cells' = Cells /\ Plan[at]' = l
  BY <1>2 DEF GridRows, GridCols, Plan, Cells
<1>4. at # 0 /\ BlockOf(b) /\ l.phase \in Phases
  BY <1>1, BlocksOfLaunch DEF BlockOf, Launched
<1>5. \A o \in Cells : Running(l, blocks, o, m, n)
  BY <1>1, <1>4, RunningLaunch DEF LaunchRuns
<1>6. StatesInRange'
  BY <1>1, <1>2 DEF StatesInRange
<1>7. \A o : Start(o)' = Start(o)
  BY <1>2 DEF Start
<1>8. \A o \in Cells : Content(o)' = IF LineOf(l.phase, o, n) = line
                                     THEN After(l.phase, o, m, n) ELSE Content(o)
  <2> TAKE o \in Cells
  <2>1. Left(l, blocks', o, m, n) = IF LineOf(l.phase, o, n) = line
                                    THEN After(l.phase, o, m, n)
                                    ELSE Left(l, blocks, o, m, n)
    <3> HIDE DEF l, m, n
    <3>1. Running(l, blocks, o, m, n) /\ blocks[b] # "done"
      BY <1>2, <1>5
    <3>2. Left(l, [blocks EXCEPT ![b] = "done"], o, m, n) =
            IF LineOf(l.phase, o, n) = l.first + b
            THEN After(l.phase, o, m, n) ELSE Left(l, blocks, o, m, n)
      BY <3>1, LeftToWrite
    <3> QED
      BY <1>2, <3>2
  <2> QED
    BY <1>2, <1>3, <1>4, <2>1 DEF Content
<1>9. \A k \in 0..(l.length - 1) : /\ LineOf(l.phase, Cell(l.phase, line, k), n) = line
                                   /\ IndexOf(l.phase, Cell(l.phase, line, k), n) = k
  <2>1. line \in 0..(Lines(l.phase, m, n) - 1) /\ l.length = Length(l.phase, m, n)
    BY <1>4 DEF BlockOf, Launched
  <2> HIDE DEF l, line
  <2> QED
    BY <1>1, <1>4, <2>1, LineOfCell
<1>10. ASSUME NEW o \in Cells, LineOf(l.phase, o, n) = line
       PROVE  OnLine(o) /\ Written(o) = Start(After(l.phase, o, m, n))
  <2> DEFINE k == IndexOf(l.phase, o, n)
             a == Slice(b, l.length) + k
  <2>1. k \in 0..(l.length - 1)
    <3>1. Grid(m, n) /\ InGrid(o, m, n) /\ l.length = Length(l.phase, m, n)
      BY <1>5 DEF Running, Launched
    <3> QED
      BY <1>4, <3>1, LinesNumbered
  <2>2. Cell(l.phase, line, k) = o
    BY <1>1, <1>4, <1>10, CellOfLine
  <2>3. (CHOOSE h \in 0..(l.length - 1) : Cell(l.phase, line, h) = o) = k
    <3> HIDE DEF l, line, n
    <3>1. \A h \in 0..(l.length - 1) : Cell(l.phase, line, h) = o => h = k
      BY <1>9
    <3> HIDE DEF k
    <3> QED
      BY <2>1, <2>2, <3>1
  <2>4. a \in DOMAIN scratch
    <3> HIDE DEF k
    <3> QED
      BY <1>1, <2>1, SliceAddress DEF StatesInRange
  <2>5. Gathered(b, o)
    BY <1>1, <1>2, <1>10 DEF Held
  <2>6. Written(o) = scratch[a]
    BY <2>3, <2>4
  <2>7. scratch[a] = Start(After(l.phase, o, m, n))
    BY <2>5 DEF Gathered
  <2>8. OnLine(o)
    BY <2>1, <2>2
  <2> QED
    BY <2>6, <2>7, <2>8
<1>11. \A o \in Cells : LineOf(l.phase, o, n) # line => ~OnLine(o)
  <2> HIDE DEF l, line, n
  <2> QED
    BY <1>9
<1>12. Stored'
  <2>1. data = [o \in Cells |-> Start(Content(o))]
    BY <1>1 DEF Stored
  <2>2. \A o \in Cells : (IF OnLine(o) THEN Written(o) ELSE data[o]) = Start(Content(o))'
    <3> TAKE o \in Cells
    <3> HIDE DEF OnLine, Written, line
    <3>1. CASE LineOf(l.phase, o, n) = line
      <4>1. Content(o)' = After(l.phase, o, m, n)
        BY <1>8, <3>1
      <4>2. Start(Content(o))' = Start(After(l.phase, o, m, n))
        BY <1>2, <4>1 DEF Start
      <4> QED
        BY <1>10, <3>1, <4>2
    <3>2. CASE LineOf(l.phase, o, n) # line
      <4>1. Content(o)' = Content(o)
        BY <1>8, <3>2
      <4>2. Start(Content(o))' = Start(Content(o))
        BY <1>2, <4>1 DEF Start
      <4>3. data[o] = Start(Content(o))
        BY <2>1
      <4> QED
        BY <1>11, <3>2, <4>2, <4>3
    <3> QED
      BY <3>1, <3>2
  <2> HIDE DEF OnLine, Written
  <2>3. data' = [o \in Cells |-> Start(Content(o))']
    BY <1>2, <2>1, <2>2
  <2> QED
    BY <1>3, <2>3 DEF Stored
<1>13. Held'
  <2>1. /\ DOMAIN blocks' = DOMAIN blocks
        /\ \A c \in DOMAIN blocks : blocks'[c] = "gathered" => blocks[c] = "gathered"
    BY <1>2
  <2>2. \A c \in DOMAIN blocks, o \in Cells : Gathered(c, o) => Gathered(c, o)'
    BY <1>2, <1>3, <1>7 DEF Gathered
  <2> QED
    BY <1>1, <1>3, <2>1, <2>2 DEF Held
<1> QED
  BY <1>6, <1>12, <1>13

\* A conversion that is over has transposed the shard, or put it back.
LEMMA TurnConverts ==
  ASSUME ConvertInv, Turn
  PROVE  StatesInRange' /\ Stored' /\ Held'
<1> DEFINE m == GridRows
           n == GridCols
<1>1. /\ LaunchInv /\ StatesInRange /\ Stored /\ Held /\ call \in Calls
      /\ Grid(m, n) /\ at \in Nat
  BY GridOfCall DEF ConvertInv, LaunchInv
<1>2. /\ UNCHANGED <<call, data, scratch>>
      /\ way' = IF way = "there" THEN "back" ELSE "done"
      /\ at' = 0 /\ blocks' = <<>>
      /\ Quiet /\ way \in {"there", "back"} /\ at = Len(Plan)
  BY DEF Turn, Converted, Converting
<1>3. \A o \in Cells : Content(o) = Transposed(o, m, n)
  <2> TAKE o \in Cells
  <2>1. PhasesInOrder
    BY <1>1, PlanOfCall
  <2>2. InGrid(o, m, n)
    BY <1>1, GridOfCall
  <2>3. CASE m = 1 \/ n = 1
    <3>1. at = 0
      BY <1>2, <2>1, <2>3 DEF PhasesInOrder
    <3> HIDE DEF m, n
    <3>2. Transposed(o, m, n) = o
      BY <1>1, <2>2, <2>3, LineTransposed DEF Grid
    <3> QED
      BY <3>1, <3>2 DEF Content
  <2>4. CASE ~(m = 1 \/ n = 1)
    <3> DEFINE l == Plan[at]
    <3>1. Chain(Plan, IF Gcd(m, n) > 1 THEN "pre" ELSE "row", "post", m, n)
      BY <2>1, <2>4 DEF PhasesInOrder
    <3> HIDE DEF m, n
    <3>2. at # 0 /\ l.phase = "post" /\ Completes(l, m, n)
      BY <1>2, <3>1 DEF Chain
    <3>3. Running(l, blocks, o, m, n)
      BY <1>1, <3>2, RunningLaunch DEF LaunchRuns, m, n
    <3>4. All(blocks, "done")
      BY <1>2 DEF Quiet, All
    <3> HIDE DEF l
    <3>5. Left(l, blocks, o, m, n) = Transposed(o, m, n)
      BY <3>2, <3>3, <3>4, LeftAtLast
    <3> QED
      BY <3>2, <3>5 DEF Content, l, m, n
  <2> QED
    BY <2>3, <2>4
<1>4. \A o \in Cells : Start(Content(o)) = Start(o)'
  <2> TAKE o \in Cells
  <2>1. CASE way = "there"
    BY <1>2, <1>3, <2>1 DEF Start, GridRows, GridCols
  <2>2. CASE way = "back"
    <3>1. Content(o) = Transposed(o, call.cols, call.rows)
      BY <1>3, <2>2 DEF GridRows, GridCols
    <3>2. Transposed(Transposed(o, call.cols, call.rows), call.rows, call.cols) = o
      <4>1. InGrid(o, call.cols, call.rows)
        BY <1>1, <2>2, GridOfCall DEF GridRows, GridCols
      <4>2. call.rows \in Nat \ {0} /\ call.cols \in Nat \ {0}
        BY <1>1, CallsAssumption
      <4> QED
        BY <4>1, <4>2, TransposedBack
    <3> QED
      BY <1>2, <2>2, <3>1, <3>2 DEF Start
  <2> QED
    BY <1>2, <2>1, <2>2
<1>5. StatesInRange'
  BY <1>1, <1>2 DEF StatesInRange
<1>6. Stored'
  <2>1. data = [o \in Cells |-> Start(Content(o))] /\ Cells' = Cells
    BY <1>1, <1>2 DEF Stored, Cells
  <2>2. \A o : Content(o)' = o
    BY <1>2 DEF Content
  <2>3. \A o : Start(Content(o))' = Start(o)'
    BY <2>2 DEF Start
  <2> QED
    BY <1>2, <1>4, <2>1, <2>3 DEF Stored
<1>7. Held'
  BY <1>2 DEF Held
<1> QED
  BY <1>5, <1>6, <1>7

\* Every step preserves the invariant.
LEMMA NextConvertInv == ConvertInv /\ [Next]_vars => ConvertInv'
<1> SUFFICES ASSUME ConvertInv, [Next]_vars PROVE ConvertInv'
  OBVIOUS
<1>1. LaunchInv'
  BY NextLaunchInv DEF ConvertInv
<1>2. CASE UNCHANGED vars
  <2>1. UNCHANGED <<call, way, at, blocks, data, scratch>>
    BY <1>2 DEF vars
  <2>2. GridRows' = GridRows /\ GridCols' = GridCols /\ Plan' = Plan /\ Cells' = Cells
    BY <2>1 DEF GridRows, GridCols, Plan, Cells
  <2>3. \A o : Start(o)' = Start(o) /\ Content(o)' = Content(o)
    BY <2>1, <2>2 DEF Start, Content
  <2>4. Stored'
    <3>1. \A o : Start(Content(o))' = Start(Content(o))
      BY <2>1, <2>3 DEF Start
    <3> QED
      BY <2>1, <2>2, <3>1 DEF ConvertInv, Stored
  <2>5. Held'
    <3>1. \A b, o : Gathered(b, o)' <=> Gathered(b, o)
      BY <2>1, <2>2, <2>3 DEF Gathered
    <3> QED
      BY <2>1, <2>2, <3>1 DEF ConvertInv, Held
  <2> QED
    BY <1>1, <2>1, <2>4, <2>5 DEF ConvertInv, StatesInRange
<1>3. CASE Reject
  <2>1. /\ UNCHANGED <<call, at, blocks, data, scratch>>
        /\ way = "there" /\ way' = "rejected" /\ at = 0
    BY <1>3 DEF Reject
  <2>2. blocks = <<>> /\ Cells' = Cells
    BY <2>1 DEF ConvertInv, LaunchInv, Cells
  <2>3. Stored'
    <3>1. \A o : Start(Content(o))' = o /\ Start(Content(o)) = o
      BY <2>1 DEF Start, Content
    <3> QED
      BY <2>1, <2>2, <3>1 DEF ConvertInv, Stored
  <2>4. Held' /\ StatesInRange'
    BY <2>1, <2>2 DEF Held, ConvertInv, StatesInRange
  <2> QED
    BY <1>1, <2>3, <2>4 DEF ConvertInv
<1>4. CASE Launch
  BY <1>1, <1>4, LaunchConverts DEF ConvertInv
<1>5. CASE Turn
  BY <1>1, <1>5, TurnConverts DEF ConvertInv
<1>6. CASE Terminated
  BY <1>2, <1>6 DEF Terminated
<1>7. ASSUME NEW b \in DOMAIN blocks, Gather(b) PROVE ConvertInv'
  BY <1>1, <1>7, GatherConverts DEF ConvertInv
<1>8. ASSUME NEW b \in DOMAIN blocks, WriteBack(b) PROVE ConvertInv'
  BY <1>1, <1>8, WriteBackConverts DEF ConvertInv
<1> QED
  BY <1>2, <1>3, <1>4, <1>5, <1>6, <1>7, <1>8 DEF Next

\* The invariant of the conversions: while a launch runs, each cell holds what the
\* phases over its line make of the storage the conversion started from.
THEOREM ConversionInvariant == Spec => []ConvertInv
<1>1. ConvertInv /\ [Next]_vars => ConvertInv'
  BY NextConvertInv
<1> QED
  BY InitConvertInv, <1>1, PTL DEF Spec

\* An element found at an address comes from an address of the shard.
LEMMA LeftInGrid ==
  ASSUME NEW l, NEW bl, NEW o, NEW m, NEW n, Running(l, bl, o, m, n)
  PROVE  InGrid(Left(l, bl, o, m, n), m, n)
<1>1. Grid(m, n) /\ InGrid(o, m, n) /\ l.phase \in Phases
  BY DEF Running, Launched
<1>2. \A phase \in Phases : \A u : InGrid(u, m, n) => InGrid(Pulls(phase, u, m, n), m, n)
  BY <1>1, PullsInLine DEF PullsFrom
<1>3. "pre" \in Phases /\ "row" \in Phases
  BY DEF Phases
<1>4. \A u : InGrid(u, m, n) => InGrid(Before(l.phase, u, m, n), m, n)
  BY <1>2, <1>3 DEF Before
<1>5. InGrid(After(l.phase, o, m, n), m, n)
  BY <1>1, <1>2, <1>4 DEF After
<1> QED
  BY <1>1, <1>4, <1>5 DEF Left

\* Every variable of the conversions has its type: no source address, row or column
\* of any phase leaves the shard.
THEOREM TypeCorrect == Spec => []TypeOK
<1>1. ConvertInv => TypeOK
  <2> SUFFICES ASSUME ConvertInv PROVE TypeOK
    OBVIOUS
  <2>1. LaunchInv /\ StatesInRange /\ Stored /\ call \in Calls /\ at \in Nat
    BY DEF ConvertInv, LaunchInv
  <2>2. at \in 0..Len(Plan)
    <3>1. Len(Plan) \in Nat
      BY <2>1, PlanOfCall
    <3> QED
      BY <2>1, <3>1 DEF LaunchInv
  <2>3. \A o \in Cells : Start(Content(o)) \in Cells
    <3> TAKE o \in Cells
    <3>1. Content(o) \in Cells
      <4>1. CASE at = 0
        BY <4>1 DEF Content
      <4>2. CASE at # 0
        <5>1. Running(Plan[at], blocks, o, GridRows, GridCols)
          BY <2>1, <4>2, RunningLaunch DEF LaunchRuns
        <5>2. InGrid(Left(Plan[at], blocks, o, GridRows, GridCols), GridRows, GridCols)
          BY <5>1, LeftInGrid
        <5> QED
          BY <2>1, <4>2, <5>2, GridOfCall DEF Content
      <4> QED
        BY <4>1, <4>2
    <3>2. \A u \in Cells : Transposed(u, call.rows, call.cols) \in Cells
      BY <2>1, GridOfCall, TransposedBack DEF Grid, Cells, InGrid
    <3> QED
      BY <3>1, <3>2 DEF Start
  <2>4. data \in [Cells -> Cells]
    BY <2>1, <2>3 DEF Stored
  <2> QED
    BY <2>1, <2>2, <2>4 DEF TypeOK, StatesInRange, Cells
<1> QED
  BY <1>1, ConversionInvariant, PTL

\* After the conversion there every element is at its column-major address, for
\* shapes with and without a common factor and any batching: three phases of
\* permutations along the lines, in place, make a transposition.
THEOREM Transposes == Spec => []ColumnMajorThere
<1>1. ConvertInv => ColumnMajorThere
  <2> SUFFICES ASSUME ConvertInv, way = "back", at = 0, NEW o \in DOMAIN data
               PROVE  data[ColumnMajorAddress(o)] = o
    BY DEF ColumnMajorThere
  <2>1. data = [u \in Cells |-> Start(Content(u))] /\ call \in Calls
    BY DEF ConvertInv, LaunchInv, Stored
  <2>2. o \in Cells
    BY <2>1
  <2> DEFINE a == ColumnMajorAddress(o)
  <2>3. a = Transposed(o, call.cols, call.rows)
    BY DEF ColumnMajorAddress, Transposed
  <2>4. /\ call.rows \in Nat \ {0} /\ call.cols \in Nat \ {0}
        /\ InGrid(o, call.cols, call.rows)
        /\ \A u : u \in Cells <=> InGrid(u, call.cols, call.rows)
    BY <2>1, <2>2, CallsAssumption, GridOfCall DEF GridRows, GridCols
  <2>5. a \in Cells /\ Transposed(a, call.rows, call.cols) = o
    BY <2>3, <2>4, TransposedBack
  <2>6. Start(Content(a)) = Transposed(a, call.rows, call.cols)
    BY DEF Start, Content
  <2> HIDE DEF a
  <2> QED
    BY <2>1, <2>5, <2>6 DEF a
<1> QED
  BY <1>1, ConversionInvariant, PTL

\* After the conversion back every element is where the caller had it, and so it is
\* after a refusal.
THEOREM PutsBack == Spec => []RowMajorRestored
<1>1. ConvertInv => RowMajorRestored
  <2> SUFFICES ASSUME ConvertInv, way \in {"done", "rejected"}, NEW o \in DOMAIN data
               PROVE  data[o] = o
    BY DEF RowMajorRestored
  <2>1. data = [u \in Cells |-> Start(Content(u))] /\ at = 0
    BY DEF ConvertInv, Stored, StatesInRange
  <2>2. Start(Content(o)) = o
    BY <2>1 DEF Start, Content
  <2> QED
    BY <2>1, <2>2
<1> QED
  BY <1>1, ConversionInvariant, PTL
===============================================================================
