------------------------ MODULE TileKernels_proofs ------------------------
(***************************************************************************)
(* The kernels of TileKernels do their work for any matrix, process grid,  *)
(* tile, block size and cap on the blocks, in any order of the blocks.     *)
(*                                                                         *)
(* The invariant says that a rank's output is at every moment what one     *)
(* block would have made of the elements covered so far.  It needs three   *)
(* things: every element has a place of its own in the output, every       *)
(* element is some block's, and the elements are the cells the rank holds. *)
(***************************************************************************)
EXTENDS TileKernels, BlockCyclic_proofs

(***************************************************************************)
(* Shares and grids of elements.                                           *)
(***************************************************************************)
\* A process owns no less of a longer axis, and none owns more than process 0.
LEMMA ShareMonotone ==
  ASSUME NEW b \in Nat \ {0}, NEW count \in Nat \ {0}, NEW p \in 0..(count - 1),
         NEW n \in Nat, NEW k \in 0..n
  PROVE  /\ LocalNumroc(k, b, p, count) <= LocalNumroc(n, b, p, count)
         /\ LocalNumroc(n, b, p, count) <= LocalNumroc(n, b, 0, count)
<1> DEFINE L(m, q) == LocalNumroc(m, b, q, count)
           G(i, q) == GlobalIndex(i, b, count, q)
<1>0. 0 \in 0..(count - 1) /\ k \in Nat
  OBVIOUS
<1>1. /\ L(k, p) \in Nat /\ L(n, p) \in Nat /\ L(n, 0) \in Nat
      /\ \A i \in Nat : /\ i < L(k, p) <=> G(i, p) < k
                        /\ i < L(n, p) <=> G(i, p) < n
                        /\ i < L(n, 0) <=> G(i, 0) < n
  BY <1>0, LocalNumrocCounts
<1>2. \A i \in Nat : G(i, p) \in Nat /\ G(i, 0) \in Nat
  BY <1>0, IndexBack
<1>3. \A i \in Nat : G(i, 0) <= G(i, p)
  <2> SUFFICES ASSUME NEW i \in Nat
               PROVE  G(i, 0) <= G(i, p)
    OBVIOUS
  <2> DEFINE t == i \div b
             u == i % b
             c == t * count
  <2>1. t \in Nat /\ u \in Nat
    BY DivMod
  <2>2. c \in Nat
    BY <2>1
  <2>3. G(i, 0) = (c + 0) * b + u /\ G(i, p) = (c + p) * b + u
    BY DEF GlobalIndex
  <2> HIDE DEF c, u
  <2>4. p = 0 \/ (c + 0) * b + b <= (c + p) * b
    BY <2>2, Apart
  <2>5. (c + 0) * b \in Nat /\ (c + p) * b \in Nat
    BY <2>2
  <2> QED
    BY <2>1, <2>3, <2>4, <2>5
<1> HIDE DEF L, G
<1>4. L(k, p) <= L(n, p)
  <2>1. SUFFICES ASSUME L(n, p) < L(k, p)
                 PROVE  FALSE
    BY <1>1
  <2>2. G(L(n, p), p) < k
    BY <1>1, <2>1
  <2>3. G(L(n, p), p) < n
    BY <1>1, <1>2, <2>2
  <2>4. L(n, p) < L(n, p)
    BY <1>1, <2>3
  <2> QED
    BY <1>1, <2>4
<1>5. L(n, p) <= L(n, 0)
  <2>1. SUFFICES ASSUME L(n, 0) < L(n, p)
                 PROVE  FALSE
    BY <1>1
  <2>2. G(L(n, 0), p) < n
    BY <1>1, <2>1
  <2>3. G(L(n, 0), 0) < n
    BY <1>1, <1>2, <1>3, <2>2
  <2>4. L(n, 0) < L(n, 0)
    BY <1>1, <2>3
  <2> QED
    BY <1>1, <2>4
<1> QED
  BY <1>4, <1>5 DEF L

\* Row and column of element e of a column-major grid of h rows and w columns.
LEMMA GridCell ==
  ASSUME NEW h \in Nat, NEW w \in Nat, NEW e \in 0..(h * w - 1)
  PROVE  /\ h \in Nat \ {0}
         /\ e % h \in 0..(h - 1)
         /\ e \div h \in 0..(w - 1)
         /\ e = (e \div h) * h + (e % h)
<1>0. h * w \in Nat
  OBVIOUS
<1>1. h # 0
  BY <1>0
<1>2. e \in Nat /\ e < h * w
  BY <1>0
<1>3. /\ e \div h \in Nat
      /\ e % h \in 0..(h - 1)
      /\ e = (e \div h) * h + (e % h)
  BY <1>1, <1>2, DivMod
<1> DEFINE q == e \div h
           u == e % h
<1> HIDE DEF q, u
<1>4. q < w
  <2>1. SUFFICES ASSUME w <= q
                 PROVE  FALSE
    BY <1>3 DEF q
  <2>2. w = q \/ w * h + h <= q * h
    BY <1>1, <1>3, <2>1, Apart DEF q
  <2>3. w * h \in Nat /\ q * h \in Nat /\ w * h = h * w
    BY <1>3 DEF q
  <2> QED
    BY <1>2, <1>3, <2>2, <2>3 DEF q, u
<1> QED
  BY <1>1, <1>3, <1>4 DEF q

\* The place of row i and column j in a column-major grid.
LEMMA GridPlace ==
  ASSUME NEW h \in Nat, NEW w \in Nat, NEW i \in 0..(h - 1), NEW j \in 0..(w - 1)
  PROVE  /\ i + j * h \in 0..(h * w - 1)
         /\ (i + j * h) % h = i
         /\ (i + j * h) \div h = j
<1>1. h \in Nat \ {0} /\ i \in Nat /\ j \in Nat
  OBVIOUS
<1>2. j * h \in Nat /\ w * h \in Nat /\ w * h = h * w
  BY <1>1
<1>3. /\ (j * h + i) \div h = j
      /\ (j * h + i) % h = i
  BY <1>1, Parts
<1>4. i + j * h = j * h + i
  BY <1>1, <1>2
<1>5. j * h + h <= w * h
  BY <1>1, Apart
<1>6. i + j * h \in 0..(h * w - 1)
  BY <1>1, <1>2, <1>5
<1> QED
  BY <1>3, <1>4, <1>6

(***************************************************************************)
(* The share of a rank.                                                    *)
(***************************************************************************)
\* What a shape and a rank are.
LEMMA ShapeFacts ==
  ASSUME shape \in Shapes, NEW r \in Ranks
  PROVE  /\ shape.m \in Nat \ {0} /\ shape.n \in Nat \ {0} /\ shape.k \in Nat \ {0}
         /\ shape.tile \in Nat \ {0} /\ shape.rows \in Nat \ {0} /\ shape.cols \in Nat \ {0}
         /\ shape.pad \in Nat
         /\ shape.k \in 0..shape.m
         /\ r[1] \in 0..(shape.rows - 1) /\ r[2] \in 0..(shape.cols - 1)
         /\ r = <<r[1], r[2]>>
<1>1. /\ \A x \in {shape.m, shape.n, shape.k, shape.tile, shape.rows, shape.cols} :
           x \in Nat \ {0}
      /\ shape.m >= shape.k
      /\ shape.pad \in Nat
  BY ShapesAssumption
<1>2. r \in (0..(shape.rows - 1)) \X (0..(shape.cols - 1))
  BY DEF Ranks
<1> QED
  BY <1>1, <1>2

\* Rank r's rows and columns of a matrix with n of them are those whose global
\* index is below n.
Counted(n, r) ==
  /\ OwnedRows(n, r) \in Nat
  /\ OwnedCols(n, r) \in Nat
  /\ \A i \in Nat : /\ i < OwnedRows(n, r) <=> GlobalRow(i, r) < n
                    /\ i < OwnedCols(n, r) <=> GlobalCol(i, r) < n
                    /\ GlobalRow(i, r) \in Nat
                    /\ GlobalCol(i, r) \in Nat

\* They are, and the rank's buffer has room for them.
LEMMA ShareRoom ==
  ASSUME shape \in Shapes, NEW r \in Ranks, NEW n \in Nat
  PROVE  /\ Counted(n, r)
         /\ LeadingDimension(n) \in Nat
         /\ OwnedRows(n, r) <= LeadingDimension(n)
         /\ Columns \in Nat
         /\ OwnedCols(shape.n, r) <= Columns
         /\ \A k \in 0..n : OwnedRows(k, r) <= OwnedRows(n, r)
<1> DEFINE p == r[1]
           q == r[2]
<1>1. /\ shape.tile \in Nat \ {0} /\ shape.rows \in Nat \ {0} /\ shape.cols \in Nat \ {0}
      /\ p \in 0..(shape.rows - 1) /\ q \in 0..(shape.cols - 1)
      /\ shape.pad \in Nat /\ shape.n \in Nat
      /\ n \in 0..n
      /\ 0 \in 0..(shape.rows - 1) /\ 0 \in 0..(shape.cols - 1)
  BY ShapeFacts
<1> HIDE DEF p, q
<1>2. Counted(n, r)
  <2>1. /\ LocalNumroc(n, shape.tile, p, shape.rows) \in Nat
        /\ \A i \in Nat : i < LocalNumroc(n, shape.tile, p, shape.rows)
                            <=> GlobalIndex(i, shape.tile, shape.rows, p) < n
    BY <1>1, LocalNumrocCounts
  <2>2. /\ LocalNumroc(n, shape.tile, q, shape.cols) \in Nat
        /\ \A i \in Nat : i < LocalNumroc(n, shape.tile, q, shape.cols)
                            <=> GlobalIndex(i, shape.tile, shape.cols, q) < n
    BY <1>1, LocalNumrocCounts
  <2>3. \A i \in Nat : /\ GlobalIndex(i, shape.tile, shape.rows, p) \in Nat
                       /\ GlobalIndex(i, shape.tile, shape.cols, q) \in Nat
    BY <1>1, IndexBack
  <2> QED
    BY <2>1, <2>2, <2>3 DEF Counted, OwnedRows, OwnedCols, GlobalRow, GlobalCol, p, q
<1>3. /\ LocalNumroc(n, shape.tile, p, shape.rows) \in Nat
      /\ LocalNumroc(n, shape.tile, 0, shape.rows) \in Nat
      /\ LocalNumroc(n, shape.tile, p, shape.rows)
           <= LocalNumroc(n, shape.tile, 0, shape.rows)
  BY <1>1, LocalNumrocCounts, ShareMonotone
<1>4. /\ LocalNumroc(shape.n, shape.tile, q, shape.cols) \in Nat
      /\ LocalNumroc(shape.n, shape.tile, 0, shape.cols) \in Nat
      /\ LocalNumroc(shape.n, shape.tile, q, shape.cols)
           <= LocalNumroc(shape.n, shape.tile, 0, shape.cols)
  <2>1. shape.n \in 0..shape.n
    BY <1>1
  <2> QED
    BY <1>1, <2>1, LocalNumrocCounts, ShareMonotone
<1>5. \A k \in 0..n : LocalNumroc(k, shape.tile, p, shape.rows)
                        <= LocalNumroc(n, shape.tile, p, shape.rows)
  BY <1>1, ShareMonotone
<1>6. /\ LeadingDimension(n) = LocalNumroc(n, shape.tile, 0, shape.rows) + shape.pad
      /\ Columns = LocalNumroc(shape.n, shape.tile, 0, shape.cols) + shape.pad
  BY DEF LeadingDimension, Columns, OwnedRows, OwnedCols
<1>7. /\ OwnedRows(n, r) = LocalNumroc(n, shape.tile, p, shape.rows)
      /\ OwnedCols(shape.n, r) = LocalNumroc(shape.n, shape.tile, q, shape.cols)
      /\ \A k \in 0..n : OwnedRows(k, r) = LocalNumroc(k, shape.tile, p, shape.rows)
  BY DEF OwnedRows, OwnedCols, p, q
<1>8. LeadingDimension(n) \in Nat /\ OwnedRows(n, r) <= LeadingDimension(n)
  BY <1>1, <1>3, <1>6, <1>7
<1>9. Columns \in Nat /\ OwnedCols(shape.n, r) <= Columns
  BY <1>1, <1>4, <1>6, <1>7
<1> QED
  BY <1>2, <1>5, <1>7, <1>8, <1>9

\* Where a global index is kept is a local index whose global index it is.
LEMMA KeptAt ==
  ASSUME shape \in Shapes, NEW r \in Ranks, NEW g \in Nat
  PROVE  /\ LocalIndex(g, shape.tile, shape.rows) \in Nat
         /\ LocalIndex(g, shape.tile, shape.cols) \in Nat
         /\ Owner(g, shape.tile, shape.rows) \in 0..(shape.rows - 1)
         /\ Owner(g, shape.tile, shape.cols) \in 0..(shape.cols - 1)
         /\ Owner(g, shape.tile, shape.rows) = r[1] =>
              GlobalRow(LocalIndex(g, shape.tile, shape.rows), r) = g
         /\ Owner(g, shape.tile, shape.cols) = r[2] =>
              GlobalCol(LocalIndex(g, shape.tile, shape.cols), r) = g
<1>1. shape.tile \in Nat \ {0} /\ shape.rows \in Nat \ {0} /\ shape.cols \in Nat \ {0}
  BY ShapeFacts
<1>2. /\ Owner(g, shape.tile, shape.rows) \in 0..(shape.rows - 1)
      /\ LocalIndex(g, shape.tile, shape.rows) \in Nat
      /\ GlobalIndex(LocalIndex(g, shape.tile, shape.rows), shape.tile, shape.rows,
                     Owner(g, shape.tile, shape.rows)) = g
  BY <1>1, Placement
<1>3. /\ Owner(g, shape.tile, shape.cols) \in 0..(shape.cols - 1)
      /\ LocalIndex(g, shape.tile, shape.cols) \in Nat
      /\ GlobalIndex(LocalIndex(g, shape.tile, shape.cols), shape.tile, shape.cols,
                     Owner(g, shape.tile, shape.cols)) = g
  BY <1>1, Placement
<1> QED
  BY <1>2, <1>3 DEF GlobalRow, GlobalCol

\* The share holds the element of local row i and column j in its place.
LEMMA ShareHolds ==
  ASSUME shape \in Shapes, NEW r \in Ranks, NEW i \in 0..(OwnedRows(shape.m, r) - 1),
         NEW j \in 0..(OwnedCols(shape.n, r) - 1)
  PROVE  /\ i + j * LeadingDimension(shape.m) \in Offsets(shape.m)
         /\ Share(r)[i + j * LeadingDimension(shape.m)]
              = Element(GlobalRow(i, r), GlobalCol(j, r))
<1> DEFINE ld == LeadingDimension(shape.m)
           w == Columns
           h == OwnedRows(shape.m, r)
           v == OwnedCols(shape.n, r)
           o == i + j * ld
<1>1. shape.m \in Nat /\ shape.n \in Nat
  BY ShapeFacts
<1>2. /\ h \in Nat /\ v \in Nat /\ ld \in Nat /\ w \in Nat /\ h <= ld /\ v <= w
  BY <1>1, ShareRoom DEF Counted
<1> HIDE DEF ld, w, h, v
<1>3. i \in 0..(h - 1) /\ j \in 0..(v - 1)
  BY DEF h, v
<1>4. i \in 0..(ld - 1) /\ j \in 0..(w - 1)
  BY <1>2, <1>3
<1>5. /\ o \in 0..(ld * w - 1)
      /\ o % ld = i
      /\ o \div ld = j
  BY <1>2, <1>4, GridPlace
<1>6. o \in Offsets(shape.m)
  BY <1>5 DEF Offsets, ld, w
<1>7. Share(r)[o] =
        IF o % ld < h /\ o \div ld < v
        THEN Element((((o % ld) \div shape.tile) * shape.rows + r[1]) * shape.tile
                        + ((o % ld) % shape.tile),
                     (((o \div ld) \div shape.tile) * shape.cols + r[2]) * shape.tile
                        + ((o \div ld) % shape.tile))
        ELSE Padding
  BY <1>6, Zenon DEF Share, ld, h, v
<1> HIDE DEF o
<1>8. Share(r)[o] =
        Element(((i \div shape.tile) * shape.rows + r[1]) * shape.tile + (i % shape.tile),
                ((j \div shape.tile) * shape.cols + r[2]) * shape.tile + (j % shape.tile))
  <2>1. o % ld < h /\ o \div ld < v
    BY <1>2, <1>3, <1>5
  <2> QED
    BY <1>5, <1>7, <2>1, Zenon
<1>9. Share(r)[o] = Element(GlobalRow(i, r), GlobalCol(j, r))
  BY <1>8 DEF GlobalRow, GlobalCol, GlobalIndex
<1> QED
  BY <1>6, <1>9 DEF o, ld

(***************************************************************************)
(* What a launch writes, element by element.                               *)
(***************************************************************************)
\* A kernel is called on a matrix it is meant for.
Called ==
  /\ shape \in Shapes
  /\ kernel \in Kernels
  /\ kernel \in {"lower", "logdet", "pivots"} => shape.m = shape.n
  /\ kernel = "upper" => shape.m >= shape.n

\* The elements rank r's launch does something for.
Active(r) ==
  {e \in 0..(ElementCount(r) - 1) :
     /\ kernel = "lower" => StrictlyAbove(e, r)
     /\ kernel = "logdet" => OwnsDiagonal(r, e)}

\* The place of element e in the solution buffer, or in the work buffer.
SolutionAt(e, r, leading) ==
  (e % OwnedRows(shape.k, r)) + (e \div OwnedRows(shape.k, r)) * leading

\* Where their results go.
Target(r) ==
  [e \in Active(r) |->
     IF kernel = "lower" THEN At(e, r, LeadingDimension(shape.m))
     ELSE IF kernel = "upper" THEN At(e, r, LeadingDimension(shape.n))
     ELSE IF kernel = "solution" THEN SolutionAt(e, r, LeadingDimension(shape.k))
     ELSE IF kernel = "pivots" THEN GlobalCol(e, r)
     ELSE e]

\* What they are.
Result(r) ==
  [e \in Active(r) |->
     IF kernel = "lower" THEN Zero
     ELSE IF kernel = "upper"
          THEN IF GlobalRow(Row(e, r), r) <= GlobalCol(Col(e, r), r)
               THEN Share(r)[At(e, r, LeadingDimension(shape.m))]
               ELSE Zero
     ELSE IF kernel = "solution"
          THEN Share(r)[SolutionAt(e, r, LeadingDimension(shape.m))]
     ELSE IF kernel = "pivots" THEN GlobalCol(e, r)
     ELSE Nan]

\* The index set of the output.
Buffer == IF kernel = "pivots" THEN 0..(shape.n - 1) ELSE Offsets(OutputRows)

\* What the output holds when the launch starts.
Base(r) ==
  IF kernel \in {"lower", "fill"} THEN Share(r)
  ELSE [x \in Buffer |-> IF kernel = "upper" THEN Stale
                         ELSE IF kernel = "solution" THEN Zero ELSE -1]

\* No two elements of a set have one target.
OneToOne(target, elements) ==
  \A e, d \in elements : target[e] = target[d] => e = d

\* An output after the given elements have been written over a base.
WrittenOver(written, base, elements, target, result) ==
  /\ DOMAIN written = DOMAIN base
  /\ written = [x \in DOMAIN base |-> written[x]]
  /\ \A e \in elements : written[target[e]] = result[e]
  /\ \A x \in DOMAIN base : (\A e \in elements : target[e] # x) => written[x] = base[x]

\* What a block adds.
Writes(block, elements, target, result) ==
  /\ DOMAIN block = {target[e] : e \in elements}
  /\ \A e \in elements : block[target[e]] = result[e]

\* One block more.
LEMMA OverWrites ==
  ASSUME NEW there, NEW base, NEW target, NEW result, NEW block,
         NEW all, OneToOne(target, all), \A e \in all : target[e] \in DOMAIN base,
         NEW before \in SUBSET all, NEW more \in SUBSET all,
         WrittenOver(there, base, before, target, result),
         Writes(block, more, target, result)
  PROVE  WrittenOver(Over(block, there), base, before \cup more, target, result)
<1> DEFINE now == Over(block, there)
<1>1. /\ DOMAIN now = (DOMAIN block) \cup (DOMAIN there)
      /\ \A x \in DOMAIN block : now[x] = block[x]
      /\ \A x \in (DOMAIN there) \ (DOMAIN block) : now[x] = there[x]
  BY DEF Over
<1> HIDE DEF now
<1>2. DOMAIN there = DOMAIN base /\ DOMAIN block = {target[e] : e \in more}
  BY DEF WrittenOver, Writes
<1>3. DOMAIN now = DOMAIN base
  BY <1>1, <1>2
<1>4. \A e \in more : now[target[e]] = result[e]
  BY <1>1, <1>2 DEF Writes
<1>5. ASSUME NEW e \in before \ more
      PROVE  now[target[e]] = result[e]
  <2>1. target[e] \notin DOMAIN block
    BY <1>2 DEF OneToOne
  <2>2. there[target[e]] = result[e]
    BY DEF WrittenOver
  <2> QED
    BY <1>1, <1>2, <2>1, <2>2
<1>6. ASSUME NEW x \in DOMAIN base, \A e \in before \cup more : target[e] # x
      PROVE  now[x] = base[x]
  <2>1. x \notin DOMAIN block
    BY <1>2, <1>6
  <2>2. there[x] = base[x]
    BY <1>6 DEF WrittenOver
  <2> QED
    BY <1>1, <1>2, <2>1, <2>2
<1>7. now = [x \in DOMAIN base |-> now[x]]
  <2>1. now = [x \in DOMAIN now |-> now[x]]
    BY DEF now, Over
  <2> QED
    BY <1>3, <2>1
<1>8. WrittenOver(now, base, before \cup more, target, result)
  BY <1>3, <1>4, <1>5, <1>6, <1>7 DEF WrittenOver
<1> QED
  BY <1>8 DEF now

\* Element e of an h-row part of a rank's share, h no more than its rows: its row
\* and column, and its place in buffers with room for it.
LEMMA ElementAt ==
  ASSUME Called, NEW r \in Ranks, NEW a \in 1..shape.m,
         NEW e \in 0..(OwnedRows(a, r) * OwnedCols(shape.n, r) - 1)
  PROVE  /\ OwnedRows(a, r) \in Nat \ {0}
         /\ e % OwnedRows(a, r) \in 0..(OwnedRows(a, r) - 1)
         /\ e \div OwnedRows(a, r) \in 0..(OwnedCols(shape.n, r) - 1)
         /\ e = (e \div OwnedRows(a, r)) * OwnedRows(a, r) + (e % OwnedRows(a, r))
         /\ \A x \in {a, shape.m} :
              LET o == (e % OwnedRows(a, r))
                         + (e \div OwnedRows(a, r)) * LeadingDimension(x)
              IN  /\ o \in Offsets(x)
                  /\ o % LeadingDimension(x) = e % OwnedRows(a, r)
                  /\ o \div LeadingDimension(x) = e \div OwnedRows(a, r)
<1> DEFINE h == OwnedRows(a, r)
           w == OwnedCols(shape.n, r)
           i == e % h
           j == e \div h
<1>1. shape.m \in Nat /\ shape.n \in Nat /\ a \in Nat /\ a \in 0..shape.m
  BY ShapeFacts DEF Called
<1>2. shape \in Shapes
  BY DEF Called
<1>3. h \in Nat /\ w \in Nat /\ Columns \in Nat /\ w <= Columns
  BY <1>1, <1>2, ShareRoom DEF Counted
<1>4. \A x \in {a, shape.m} : LeadingDimension(x) \in Nat /\ h <= LeadingDimension(x)
  <2>1. LeadingDimension(a) \in Nat /\ h <= LeadingDimension(a)
    BY <1>1, <1>2, ShareRoom DEF Counted
  <2>2. /\ LeadingDimension(shape.m) \in Nat /\ OwnedRows(shape.m, r) \in Nat
        /\ OwnedRows(shape.m, r) <= LeadingDimension(shape.m)
        /\ h <= OwnedRows(shape.m, r)
    BY <1>1, <1>2, ShareRoom DEF Counted
  <2> QED
    BY <1>3, <2>1, <2>2
<1>5. e \in 0..(h * w - 1)
  OBVIOUS
<1> HIDE DEF h, w
<1>6. /\ h \in Nat \ {0}
      /\ i \in 0..(h - 1)
      /\ j \in 0..(w - 1)
      /\ e = j * h + i
  BY <1>3, <1>5, GridCell
<1> HIDE DEF i, j
<1>7. ASSUME NEW x \in {a, shape.m}
      PROVE  /\ i + j * LeadingDimension(x) \in Offsets(x)
             /\ (i + j * LeadingDimension(x)) % LeadingDimension(x) = i
             /\ (i + j * LeadingDimension(x)) \div LeadingDimension(x) = j
  <2> DEFINE ld == LeadingDimension(x)
             c == Columns
  <2>1. ld \in Nat /\ c \in Nat /\ i \in 0..(ld - 1) /\ j \in 0..(c - 1)
    BY <1>3, <1>4, <1>6
  <2> HIDE DEF ld, c
  <2>2. /\ i + j * ld \in 0..(ld * c - 1)
        /\ (i + j * ld) % ld = i
        /\ (i + j * ld) \div ld = j
    BY <2>1, GridPlace
  <2> QED
    BY <2>2 DEF ld, c, Offsets
<1> QED
  BY <1>6, <1>7 DEF h, w, i, j

\* How many elements a launch has, and which rows they are of.
LEMMA Elements ==
  ASSUME Called, NEW r \in Ranks
  PROVE  /\ kernel \in {"lower", "upper"} =>
              /\ ElementCount(r) = OwnedRows(shape.n, r) * OwnedCols(shape.n, r)
              /\ shape.n \in 1..shape.m
         /\ kernel = "solution" =>
              /\ ElementCount(r) = OwnedRows(shape.k, r) * OwnedCols(shape.n, r)
              /\ shape.k \in 1..shape.m
         /\ kernel = "pivots" => ElementCount(r) = OwnedCols(shape.n, r)
         /\ kernel = "logdet" => ElementCount(r) = shape.n
         /\ kernel = "fill" => /\ ElementCount(r) = LeadingDimension(shape.m) * Columns
                               /\ Offsets(shape.m) = 0..(ElementCount(r) - 1)
         /\ ElementCount(r) \in Nat
<1>1. /\ shape \in Shapes
      /\ shape.m \in Nat \ {0} /\ shape.n \in Nat \ {0} /\ shape.k \in 0..shape.m
      /\ shape.k \in Nat \ {0}
      /\ kernel \in Kernels
      /\ kernel \in {"lower", "upper"} => shape.n <= shape.m
  BY ShapeFacts DEF Called
<1>2. /\ OwnedRows(shape.n, r) \in Nat /\ OwnedCols(shape.n, r) \in Nat
      /\ OwnedRows(shape.k, r) \in Nat
      /\ LeadingDimension(shape.m) \in Nat /\ Columns \in Nat
  BY <1>1, ShareRoom DEF Counted
<1> DEFINE h == OwnedRows(shape.n, r)
           w == OwnedCols(shape.n, r)
           s == OwnedRows(shape.k, r)
           ld == LeadingDimension(shape.m)
           c == Columns
<1>3. Offsets(shape.m) = 0..(ld * c - 1)
  BY DEF Offsets
<1>4. kernel \in {"lower", "upper"} => ElementCount(r) = h * w
  BY DEF ElementCount
<1>5. kernel = "solution" => ElementCount(r) = s * w
  BY DEF ElementCount
<1>6. kernel = "pivots" => ElementCount(r) = w
  BY DEF ElementCount
<1>7. kernel = "logdet" => ElementCount(r) = shape.n
  BY DEF ElementCount
<1>8. kernel = "fill" => ElementCount(r) = Cardinality(Offsets(shape.m))
  BY DEF ElementCount
<1>9. h \in Nat /\ w \in Nat /\ s \in Nat /\ ld \in Nat /\ c \in Nat
  BY <1>2
<1> HIDE DEF h, w, s, ld, c
<1>10. h * w \in Nat /\ s * w \in Nat /\ ld * c \in Nat
  BY <1>9
<1>11. Cardinality(0..(ld * c - 1)) = ld * c
  BY <1>10, FS_Interval
<1>12. ElementCount(r) \in Nat
  BY <1>1, <1>3, <1>4, <1>5, <1>6, <1>7, <1>8, <1>9, <1>10, <1>11 DEF Kernels
<1>13. kernel = "fill" => /\ ElementCount(r) = ld * c
                          /\ Offsets(shape.m) = 0..(ElementCount(r) - 1)
  BY <1>3, <1>8, <1>11
<1> QED
  BY <1>1, <1>4, <1>5, <1>6, <1>7, <1>12, <1>13 DEF h, w, s, ld, c

\* The places of an a-row part of a share in a buffer with room for it are apart.
LEMMA PlacesApart ==
  ASSUME Called, NEW r \in Ranks, NEW a \in 1..shape.m, NEW x \in {a, shape.m},
         NEW e \in 0..(OwnedRows(a, r) * OwnedCols(shape.n, r) - 1),
         NEW d \in 0..(OwnedRows(a, r) * OwnedCols(shape.n, r) - 1),
         (e % OwnedRows(a, r)) + (e \div OwnedRows(a, r)) * LeadingDimension(x)
           = (d % OwnedRows(a, r)) + (d \div OwnedRows(a, r)) * LeadingDimension(x)
  PROVE  e = d
<1> DEFINE h == OwnedRows(a, r)
           ld == LeadingDimension(x)
           oe == (e % h) + (e \div h) * ld
           od == (d % h) + (d \div h) * ld
<1>1. oe % ld = e % h /\ oe \div ld = e \div h /\ e = (e \div h) * h + (e % h)
  BY ElementAt
<1>2. od % ld = d % h /\ od \div ld = d \div h /\ d = (d \div h) * h + (d % h)
  BY ElementAt
<1>3. oe = od
  OBVIOUS
<1>4. e % h = d % h /\ e \div h = d \div h
  <2> HIDE DEF oe, od
  <2> QED
    BY <1>1, <1>2, <1>3
<1> DEFINE qe == e \div h
           qd == d \div h
           re == e % h
           rd == d % h
<1>5. e = qe * h + re /\ d = qd * h + rd /\ qe = qd /\ re = rd
  BY <1>1, <1>2, <1>4
<1> HIDE DEF qe, qd, re, rd
<1> QED
  BY <1>5

\* Every element that does something has a place of its own in the output.
LEMMA Targets ==
  ASSUME Called, kernel # "logdet", NEW r \in Ranks
  PROVE  /\ OneToOne(Target(r), Active(r))
         /\ \A e \in Active(r) : Target(r)[e] \in Buffer
<1>1. Active(r) \subseteq 0..(ElementCount(r) - 1)
  BY DEF Active
<1>2. CASE kernel \in {"lower", "upper", "solution"}
  <2> DEFINE a == IF kernel = "solution" THEN shape.k ELSE shape.n
             x == IF kernel = "solution" THEN shape.k
                  ELSE IF kernel = "upper" THEN shape.n ELSE shape.m
             Place(e) == (e % OwnedRows(a, r)) + (e \div OwnedRows(a, r)) * LeadingDimension(x)
  <2>1. /\ ElementCount(r) = OwnedRows(a, r) * OwnedCols(shape.n, r)
        /\ a \in 1..shape.m
        /\ x \in {a, shape.m}
    BY <1>2, Elements
  <2>2. \A e \in Active(r) : Target(r)[e] = Place(e)
    BY <1>2 DEF Target, At, Row, Col, SolutionAt
  <2>3. Buffer = Offsets(x)
    BY <1>2 DEF Buffer, OutputRows, Called
  <2> HIDE DEF a, x
  <2>4. \A e \in Active(r) : Place(e) \in Offsets(x)
    BY <1>1, <2>1, ElementAt
  <2>5. ASSUME NEW e \in Active(r), NEW d \in Active(r), Place(e) = Place(d)
        PROVE  e = d
    BY <1>1, <2>1, <2>5, PlacesApart
  <2> HIDE DEF Place
  <2>6. OneToOne(Target(r), Active(r))
    BY <2>2, <2>5 DEF OneToOne
  <2> QED
    BY <2>2, <2>3, <2>4, <2>6
<1>3. CASE kernel = "pivots"
  <2>1. \A e \in Active(r) : Target(r)[e] = GlobalCol(e, r)
    BY <1>3 DEF Target
  <2>2. \A e \in Active(r) : e \in Nat /\ e < OwnedCols(shape.n, r)
    <3>1. ElementCount(r) = OwnedCols(shape.n, r) /\ ElementCount(r) \in Nat
      BY <1>3, Elements
    <3> QED
      BY <1>1, <3>1
  <2>3. \A e \in Active(r) : GlobalCol(e, r) \in 0..(shape.n - 1)
    <3>1. shape \in Shapes /\ shape.n \in Nat
      BY ShapeFacts DEF Called
    <3>2. Counted(shape.n, r)
      BY <3>1, ShareRoom
    <3> QED
      BY <2>2, <3>1, <3>2 DEF Counted
  <2>4. ASSUME NEW e \in Active(r), NEW d \in Active(r),
               GlobalCol(e, r) = GlobalCol(d, r)
        PROVE  e = d
    <3>1. /\ shape.tile \in Nat \ {0} /\ shape.cols \in Nat \ {0}
          /\ r[2] \in 0..(shape.cols - 1)
      BY ShapeFacts DEF Called
    <3>2. GlobalIndex(e, shape.tile, shape.cols, r[2])
            = GlobalIndex(d, shape.tile, shape.cols, r[2])
      BY <2>4 DEF GlobalCol
    <3>3. e \in Nat /\ d \in Nat
      BY <2>2
    <3> DEFINE q == r[2]
    <3>4. /\ q \in 0..(shape.cols - 1)
          /\ GlobalIndex(e, shape.tile, shape.cols, q)
               = GlobalIndex(d, shape.tile, shape.cols, q)
      BY <3>1, <3>2
    <3> HIDE DEF q
    <3> QED
      BY <3>1, <3>3, <3>4, NoElementTwice, SMTT(60)
  <2>5. OneToOne(Target(r), Active(r))
    BY <2>1, <2>4 DEF OneToOne
  <2> QED
    BY <1>3, <2>1, <2>3, <2>5 DEF Buffer
<1>4. CASE kernel = "fill"
  <2>1. \A e \in Active(r) : Target(r)[e] = e
    BY <1>4 DEF Target
  <2>2. Buffer = 0..(ElementCount(r) - 1)
    BY <1>4, Elements DEF Buffer, OutputRows
  <2>3. OneToOne(Target(r), Active(r))
    BY <2>1 DEF OneToOne
  <2> QED
    BY <1>1, <2>1, <2>2, <2>3
<1>5. kernel \in {"lower", "upper", "pivots", "solution", "fill"}
  BY DEF Called, Kernels
<1> QED
  BY <1>2, <1>3, <1>4, <1>5

(***************************************************************************)
(* Blocks of a launch.                                                     *)
(***************************************************************************)
\* A block writes the results of its active elements over what was there.
LEMMA BlockWrites ==
  ASSUME Called, kernel # "logdet", NEW r \in Ranks, NEW b
  PROVE  \E block : /\ AfterBlock(r, b) = Over(block, out[r])
                    /\ Writes(block, BlockElements(r, b) \cap Active(r), Target(r), Result(r))
<1> DEFINE S == BlockElements(r, b)
           D == S \cap Active(r)
           T == Target(r)
           V == Result(r)
<1>1. S \subseteq 0..(ElementCount(r) - 1)
  BY DEF BlockElements
<1>2. \A e, d \in D : T[e] = T[d] => e = d
  BY Targets DEF OneToOne
<1>3. CASE kernel = "lower"
  <2>1. D = {e \in S : StrictlyAbove(e, r)}
    BY <1>1, <1>3 DEF Active
  <2>2. \A e \in D : T[e] = At(e, r, LeadingDimension(shape.m)) /\ V[e] = Zero
    BY <1>3 DEF Target, Result
  <2> DEFINE g == ZeroStrictUpper(r, S)
  <2>3. g = [offset \in {At(e, r, LeadingDimension(shape.m)) : e \in D} |-> Zero]
    BY <2>1 DEF ZeroStrictUpper
  <2> HIDE DEF g, D, T, V
  <2>4. DOMAIN g = {T[e] : e \in D} /\ \A e \in D : g[T[e]] = V[e]
    BY <2>2, <2>3
  <2>5. AfterBlock(r, b) = Over(g, out[r])
    BY <1>3 DEF AfterBlock, g
  <2> QED
    BY <2>4, <2>5 DEF Writes, D, T, V
<1>4. CASE kernel = "upper"
  <2>1. D = S
    BY <1>1, <1>4 DEF Active
  <2> DEFINE Val(e) == IF GlobalRow(Row(e, r), r) <= GlobalCol(Col(e, r), r)
                       THEN Share(r)[At(e, r, LeadingDimension(shape.m))]
                       ELSE Zero
             place == [e \in S |-> At(e, r, LeadingDimension(shape.n))]
             g == ExtractR(r, S)
  <2>2. \A e \in D : T[e] = place[e] /\ V[e] = Val(e)
    BY <1>4, <2>1 DEF Target, Result
  <2>3. g = [offset \in {place[e] : e \in S} |-> Val(CHOOSE e \in S : place[e] = offset)]
    BY DEF ExtractR
  <2> HIDE DEF g, D, T, V, place, Val, S
  <2>4. ASSUME NEW e \in D
        PROVE  g[T[e]] = V[e]
    <3> DEFINE c == CHOOSE d \in S : place[d] = place[e]
    <3>1. c \in S /\ place[c] = place[e]
      BY <2>1
    <3>2. c = e
      BY <1>2, <2>1, <2>2, <3>1
    <3>3. g[place[e]] = Val(c)
      BY <2>1, <2>3
    <3> QED
      BY <2>2, <3>2, <3>3
  <2>5. DOMAIN g = {T[e] : e \in D}
    BY <2>1, <2>2, <2>3
  <2>6. AfterBlock(r, b) = Over(g, out[r])
    BY <1>4 DEF AfterBlock, g, S
  <2> QED
    BY <2>4, <2>5, <2>6 DEF Writes, D, T, V, S
<1>5. CASE kernel = "solution"
  <2>1. D = S
    BY <1>1, <1>5 DEF Active
  <2> DEFINE Offset(e, leading) ==
               (e % OwnedRows(shape.k, r)) + (e \div OwnedRows(shape.k, r)) * leading
             place == [e \in S |-> Offset(e, LeadingDimension(shape.k))]
             Val(e) == Share(r)[Offset(e, LeadingDimension(shape.m))]
             g == CopySolution(r, S)
  <2>2. \A e \in D : T[e] = place[e] /\ V[e] = Val(e)
    BY <1>5, <2>1 DEF Target, Result, SolutionAt
  <2>3. g = [offset \in {place[e] : e \in S} |-> Val(CHOOSE e \in S : place[e] = offset)]
    BY DEF CopySolution
  <2> HIDE DEF g, D, T, V, place, Val, S
  <2>4. ASSUME NEW e \in D
        PROVE  g[T[e]] = V[e]
    <3> DEFINE c == CHOOSE d \in S : place[d] = place[e]
    <3>1. c \in S /\ place[c] = place[e]
      BY <2>1
    <3>2. c = e
      BY <1>2, <2>1, <2>2, <3>1
    <3>3. g[place[e]] = Val(c)
      BY <2>1, <2>3
    <3> QED
      BY <2>2, <3>2, <3>3
  <2>5. DOMAIN g = {T[e] : e \in D}
    BY <2>1, <2>2, <2>3
  <2>6. AfterBlock(r, b) = Over(g, out[r])
    BY <1>5 DEF AfterBlock, g, S
  <2> QED
    BY <2>4, <2>5, <2>6 DEF Writes, D, T, V, S
<1>6. CASE kernel = "pivots"
  <2>1. D = S
    BY <1>1, <1>6 DEF Active
  <2> DEFINE mine == {l \in S : /\ Ipiv(r, l) >= kGetrfPivotIndexBase
                                /\ GlobalCol(l, r) < shape.n}
             Val(l) == Ipiv(r, l) - kGetrfPivotIndexBase
             g == GatherPivots(r, S)
  <2>2. \A e \in D : T[e] = GlobalCol(e, r) /\ V[e] = GlobalCol(e, r)
    BY <1>6 DEF Target, Result
  <2>3. \A e \in D : GlobalCol(e, r) \in 0..(shape.n - 1)
    BY <1>6, <2>2, Targets DEF Buffer
  <2>4. ASSUME NEW l \in S
        PROVE  Ipiv(r, l) = 1 + GlobalCol(l, r)
    <3> DEFINE A == ((l \div shape.tile) * shape.cols + r[2]) * shape.tile
               B == l % shape.tile
    <3>1. /\ shape.tile \in Nat \ {0} /\ shape.cols \in Nat /\ r[2] \in Nat
          /\ l \in Nat
      BY <1>1, ShapeFacts DEF Called
    <3>2. l \div shape.tile \in Nat /\ B \in Nat
      <4> DEFINE t == shape.tile
      <4>1. t \in Nat \ {0} /\ l \in Nat
        BY <3>1
      <4> HIDE DEF t
      <4>2. l \div t \in Nat /\ l % t \in Nat
        BY <4>1, SMT
      <4> QED
        BY <4>2 DEF t
    <3>3. A \in Nat
      BY <3>1, <3>2
    <3>4. Ipiv(r, l) = 1 + A + B /\ GlobalCol(l, r) = A + B
      BY DEF Ipiv, GlobalCol, GlobalIndex, kGetrfPivotIndexBase
    <3> HIDE DEF A, B
    <3> QED
      BY <3>2, <3>3, <3>4
  <2>5. shape.n \in Nat
    BY ShapeFacts DEF Called
  <2>6. mine = S
    BY <2>1, <2>3, <2>4, <2>5 DEF kGetrfPivotIndexBase
  <2>7. \A e \in D : Val(e) = V[e]
    BY <2>1, <2>2, <2>3, <2>4 DEF kGetrfPivotIndexBase
  <2>8. g = [column \in {GlobalCol(l, r) : l \in mine} |->
               Val(CHOOSE l \in mine : GlobalCol(l, r) = column)]
    BY DEF GatherPivots
  <2> HIDE DEF g, D, T, V, mine, Val, S
  <2>9. ASSUME NEW e \in D
        PROVE  g[T[e]] = V[e]
    <3> DEFINE c == CHOOSE l \in mine : GlobalCol(l, r) = GlobalCol(e, r)
    <3>1. c \in mine /\ GlobalCol(c, r) = GlobalCol(e, r)
      BY <2>1, <2>6
    <3>2. c = e
      BY <1>2, <2>1, <2>2, <2>6, <3>1
    <3>3. g[GlobalCol(e, r)] = Val(c)
      BY <2>1, <2>6, <2>8
    <3> QED
      BY <2>2, <2>7, <3>2, <3>3
  <2>10. DOMAIN g = {T[e] : e \in D}
    BY <2>1, <2>2, <2>6, <2>8
  <2>11. AfterBlock(r, b) = Over(g, out[r])
    BY <1>6 DEF AfterBlock, g, S
  <2> QED
    BY <2>9, <2>10, <2>11 DEF Writes, D, T, V, S
<1>7. CASE kernel = "fill"
  <2>1. D = S
    BY <1>1, <1>7 DEF Active
  <2>2. \A e \in D : T[e] = e /\ V[e] = Nan
    BY <1>7 DEF Target, Result
  <2> DEFINE g == Fill(S)
  <2>3. DOMAIN g = {T[e] : e \in D} /\ \A e \in D : g[T[e]] = V[e]
    BY <2>1, <2>2 DEF Fill
  <2>4. AfterBlock(r, b) = Over(g, out[r])
    BY <1>7 DEF AfterBlock
  <2> QED
    BY <2>3, <2>4 DEF Writes
<1>8. kernel \in {"lower", "upper", "pivots", "solution", "fill"}
  BY DEF Called, Kernels
<1> QED
  BY <1>3, <1>4, <1>5, <1>6, <1>7, <1>8

\* The block that takes element e.
BlockOf(e, r) ==
  IF kernel \in Strided THEN (e \div BlockSize) % BlockCount(r) ELSE e \div BlockSize

\* A block's elements are those it takes, and every element is some block's: the
\* cap on the blocks of a launch loses none.
LEMMA Blocks ==
  ASSUME Called, NEW r \in Ranks
  PROVE  /\ BlockCount(r) \in Nat
         /\ \A e \in 0..(ElementCount(r) - 1) : BlockOf(e, r) \in 0..(BlockCount(r) - 1)
         /\ \A b : BlockElements(r, b) = {e \in 0..(ElementCount(r) - 1) : BlockOf(e, r) = b}
<1> DEFINE c == ElementCount(r)
           blocks == (c + BlockSize - 1) \div BlockSize
<1>1. c \in Nat
  BY Elements
<1>2. BlockSize \in Nat \ {0} /\ MaxBlocks \in Nat \ {0}
  BY LaunchAssumption
<1>3. BlockCount(r) = IF kernel \in Strided /\ blocks > MaxBlocks THEN MaxBlocks ELSE blocks
  BY DEF BlockCount
<1> HIDE DEF c
<1>4. blocks = IF c % BlockSize = 0 THEN c \div BlockSize ELSE (c \div BlockSize) + 1
  BY <1>1, <1>2, TileCountOf DEF TileCount
<1>5. c \div BlockSize \in Nat /\ c = (c \div BlockSize) * BlockSize + (c % BlockSize)
  BY <1>1, <1>2, DivMod
<1>6. blocks \in Nat
  BY <1>4, <1>5
<1>7. BlockCount(r) \in Nat
  BY <1>2, <1>3, <1>6
<1>8. ASSUME NEW e \in 0..(c - 1)
      PROVE  e \div BlockSize \in 0..(blocks - 1)
  <2> DEFINE q == e \div BlockSize
             u == e % BlockSize
             qc == c \div BlockSize
             uc == c % BlockSize
  <2>0. e \in Nat
    BY <1>1
  <2>1. q \in Nat /\ u \in 0..(BlockSize - 1) /\ e = q * BlockSize + u
    <3> HIDE DEF blocks, qc, uc
    <3> QED
      BY <1>2, <2>0, DivMod
  <2>2. qc \in Nat /\ uc \in 0..(BlockSize - 1) /\ c = qc * BlockSize + uc
    <3> HIDE DEF blocks, q, u
    <3> QED
      BY <1>1, <1>2, DivMod
  <2>3. blocks = IF uc = 0 THEN qc ELSE qc + 1
    BY <1>4
  <2> HIDE DEF q, u, qc, uc, blocks
  <2>4. q * BlockSize \in Nat /\ qc * BlockSize \in Nat
    BY <1>2, <2>1, <2>2
  <2>5. q <= qc
    <3>1. SUFFICES ASSUME qc < q
                   PROVE  FALSE
      BY <2>1, <2>2
    <3>2. qc * BlockSize + BlockSize <= q * BlockSize
      BY <1>2, <2>1, <2>2, <3>1, Apart
    <3> QED
      BY <1>1, <1>2, <2>0, <2>1, <2>2, <2>4, <3>2
  <2>6. uc = 0 => q < qc
    <3>1. SUFFICES ASSUME uc = 0, q = qc
                   PROVE  FALSE
      BY <2>1, <2>2, <2>5
    <3> QED
      BY <1>1, <2>0, <2>1, <2>2, <2>4, <3>1
  <2>7. q \in 0..(blocks - 1)
    BY <2>1, <2>2, <2>3, <2>5, <2>6
  <2> QED
    BY <2>7 DEF q
<1> HIDE DEF blocks
<1>9. ASSUME NEW e \in 0..(c - 1)
      PROVE  BlockOf(e, r) \in 0..(BlockCount(r) - 1)
  <2>1. e \div BlockSize \in 0..(blocks - 1)
    BY <1>8
  <2>2. BlockCount(r) \in Nat \ {0}
    BY <1>2, <1>3, <1>6, <2>1
  <2>3. e \div BlockSize \in Nat
    BY <1>6, <2>1
  <2>4. (e \div BlockSize) % BlockCount(r) \in 0..(BlockCount(r) - 1)
    BY <2>2, <2>3, DivMod
  <2>5. kernel \notin Strided => BlockCount(r) = blocks
    BY <1>3
  <2> QED
    BY <2>1, <2>4, <2>5 DEF BlockOf
<1>10. \A b : BlockElements(r, b) = {e \in 0..(c - 1) : BlockOf(e, r) = b}
  BY DEF BlockElements, BlockOf, c
<1> QED
  BY <1>7, <1>9, <1>10 DEF c

(***************************************************************************)
(* The log determinant and the pivots.                                     *)
(***************************************************************************)
\* The bag of the given diagonal elements, each once.
Diagonal(S) == SetToBag({Element(d, d) : d \in S})

\* Diagonals add up.
LEMMA DiagonalsAdd ==
  ASSUME NEW A, NEW B, A \cap B = {}
  PROVE  Diagonal(A) (+) Diagonal(B) = Diagonal(A \cup B)
<1> DEFINE EA == {Element(d, d) : d \in A}
           EB == {Element(d, d) : d \in B}
           EU == {Element(d, d) : d \in A \cup B}
<1>1. EU = EA \cup EB
  OBVIOUS
<1>2. EA \cap EB = {}
  BY DEF Element
<1> HIDE DEF EA, EB, EU
<1>3. SetToBag(EA) (+) SetToBag(EB)
        = [e \in EA \cup EB |-> (IF e \in EA THEN SetToBag(EA)[e] ELSE 0)
                                  + (IF e \in EB THEN SetToBag(EB)[e] ELSE 0)]
  BY DEF (+), SetToBag
<1>4. \A e \in EA \cup EB : (IF e \in EA THEN SetToBag(EA)[e] ELSE 0)
                              + (IF e \in EB THEN SetToBag(EB)[e] ELSE 0) = 1
  BY <1>2 DEF SetToBag
<1>5. SetToBag(EU) = [e \in EA \cup EB |-> 1]
  BY <1>1 DEF SetToBag
<1> QED
  BY <1>3, <1>4, <1>5 DEF Diagonal, EA, EB, EU

\* A block reads the diagonal elements its rank owns, where they are kept.
LEMMA LogdetBlock ==
  ASSUME Called, kernel = "logdet", NEW r \in Ranks, NEW S \in SUBSET (0..(shape.n - 1))
  PROVE  LocalLogdet(r, S) = Diagonal({d \in S : OwnsDiagonal(r, d)})
<1> DEFINE ld == LeadingDimension(shape.m)
           Read(d) == Share(r)[LocalIndex(d, shape.tile, shape.rows)
                                 + LocalIndex(d, shape.tile, shape.cols) * ld]
           mine == {d \in S : OwnsDiagonal(r, d)}
<1>1. shape \in Shapes /\ shape.m = shape.n /\ shape.n \in Nat
  BY ShapeFacts DEF Called
<1>2. ASSUME NEW d \in mine
      PROVE  Read(d) = Element(d, d)
  <2> DEFINE i == LocalIndex(d, shape.tile, shape.rows)
             j == LocalIndex(d, shape.tile, shape.cols)
  <2>1. d \in Nat /\ d < shape.n
    BY <1>1
  <2>2. i \in Nat /\ j \in Nat /\ GlobalRow(i, r) = d /\ GlobalCol(j, r) = d
    BY <1>1, <2>1, KeptAt DEF OwnsDiagonal
  <2>3. Counted(shape.n, r)
    BY <1>1, ShareRoom
  <2> HIDE DEF i, j
  <2>4. /\ i \in 0..(OwnedRows(shape.n, r) - 1)
        /\ j \in 0..(OwnedCols(shape.n, r) - 1)
    BY <1>1, <2>1, <2>2, <2>3 DEF Counted
  <2>5. i \in 0..(OwnedRows(shape.m, r) - 1)
    BY <1>1, <2>4
  <2>6. Share(r)[i + j * ld] = Element(GlobalRow(i, r), GlobalCol(j, r))
    BY <1>1, <2>4, <2>5, ShareHolds
  <2> QED
    BY <2>2, <2>6 DEF i, j
<1>3. LocalLogdet(r, S)
        = [x \in {Read(d) : d \in mine} |-> Cardinality({d \in mine : Read(d) = x})]
  BY DEF LocalLogdet
<1> HIDE DEF Read, mine
<1>4. {Read(d) : d \in mine} = {Element(d, d) : d \in mine}
  BY <1>2
<1>5. ASSUME NEW x \in {Element(d, d) : d \in mine}
      PROVE  Cardinality({d \in mine : Read(d) = x}) = 1
  <2>1. PICK d \in mine : x = Element(d, d)
    OBVIOUS
  <2>2. {c \in mine : Read(c) = x} = {d}
    BY <1>2, <2>1 DEF Element
  <2> QED
    BY <2>2, FS_Singleton
<1>6. LocalLogdet(r, S) = [x \in {Element(d, d) : d \in mine} |-> 1]
  BY <1>3, <1>4, <1>5
<1> QED
  BY <1>6 DEF Diagonal, SetToBag, mine

\* The values of f are diagonals with no element in common.
Partition(f, part, S) ==
  /\ IsFiniteSet(S)
  /\ DOMAIN f = S
  /\ \A r \in S : f[r] = Diagonal(part[r])
  /\ \A r, q \in S : r # q => part[r] \cap part[q] = {}

\* Such diagonals add up in whatever order they are reduced.
LEMMA LogdetReduces ==
  ASSUME NEW S, NEW part, NEW f, Partition(f, part, S)
  PROVE  FoldFunction((+), EmptyBag, f) = Diagonal(UNION {part[r] : r \in S})
<1> DEFINE Cover(s) == UNION {part[r] : r \in s}
           pick == [s \in SUBSET S |-> CHOOSE x \in s : TRUE]
           Step(g) == [s \in SUBSET S |->
                         IF s = {} THEN EmptyBag
                         ELSE f[CHOOSE x \in s : TRUE] (+) g[s \ {CHOOSE x \in s : TRUE}]]
           sum == CHOOSE g : g = Step(g)
<1>0. /\ IsFiniteSet(S)
      /\ DOMAIN f = S
      /\ \A r \in S : f[r] = Diagonal(part[r])
      /\ \A r, q \in S : r # q => part[r] \cap part[q] = {}
  BY DEF Partition
<1>1. FoldFunction((+), EmptyBag, f) = sum[S]
  <2>1. DOMAIN f = S
    BY <1>0
  <2> QED
    BY <2>1, Zenon DEF FoldFunction, FoldFunctionOnSet, MapThenFoldSet
<1>2. ASSUME NEW s \in SUBSET S, s # {}
      PROVE  /\ pick[s] \in s
             /\ Cover(s) = part[pick[s]] \cup Cover(s \ {pick[s]})
             /\ part[pick[s]] \cap Cover(s \ {pick[s]}) = {}
  <2>1. pick[s] \in s
    BY <1>2
  <2> HIDE DEF pick
  <2> QED
    BY <1>0, <2>1
<1>3. Diagonal(Cover({})) = EmptyBag
  BY DEF Diagonal, EmptyBag
<1>4. \A s \in SUBSET S : s # {} =>
        f[pick[s]] (+) Diagonal(Cover(s \ {pick[s]})) = Diagonal(Cover(s))
  <2> SUFFICES ASSUME NEW s \in SUBSET S, s # {}
               PROVE  f[pick[s]] (+) Diagonal(Cover(s \ {pick[s]})) = Diagonal(Cover(s))
    OBVIOUS
  <2> HIDE DEF pick, Cover
  <2>1. f[pick[s]] = Diagonal(part[pick[s]])
    BY <1>0, <1>2
  <2> QED
    BY <1>2, <2>1, DiagonalsAdd
<1>5. \A s \in SUBSET S : pick[s] = CHOOSE x \in s : TRUE
  OBVIOUS
<1>6. PICK it : it = [s \in SUBSET S |-> Diagonal(Cover(s))]
  OBVIOUS
<1>7. sum = Step(sum)
  <2>1. ASSUME NEW s \in SUBSET S
        PROVE  it[s] = IF s = {} THEN EmptyBag
                       ELSE f[pick[s]] (+) it[s \ {pick[s]}]
    <3>1. it[s] = Diagonal(Cover(s)) /\ it[s \ {pick[s]}] = Diagonal(Cover(s \ {pick[s]}))
      BY <1>6
    <3> HIDE DEF pick, Cover
    <3> QED
      BY <1>3, <1>4, <3>1, Zenon
  <2>2. it = Step(it)
    <3>1. it = [s \in SUBSET S |-> it[s]]
      BY <1>6
    <3>2. it = [s \in SUBSET S |-> IF s = {} THEN EmptyBag
                                    ELSE f[pick[s]] (+) it[s \ {pick[s]}]]
      <4> HIDE DEF pick
      <4> QED
        BY <2>1, <3>1, Zenon
    <3> QED
      BY <1>5, <3>2, Zenon
  <2> HIDE DEF Step
  <2> QED
    BY <2>2
<1> HIDE DEF sum
<1>8. \A s \in SUBSET S : sum[s] = IF s = {} THEN EmptyBag
                                   ELSE f[pick[s]] (+) sum[s \ {pick[s]}]
  <2> SUFFICES ASSUME NEW s \in SUBSET S
               PROVE  sum[s] = IF s = {} THEN EmptyBag
                               ELSE f[pick[s]] (+) sum[s \ {pick[s]}]
    OBVIOUS
  <2>1. sum[s] = IF s = {} THEN EmptyBag
                 ELSE f[CHOOSE x \in s : TRUE] (+) sum[s \ {CHOOSE x \in s : TRUE}]
    BY <1>7, Zenon
  <2> HIDE DEF pick
  <2> QED
    BY <1>5, <2>1, Zenon
<1>9. \A s \in SUBSET S : IsFiniteSet(s) /\ Cardinality(s) \in Nat
  BY <1>0, FS_Subset, FS_CardinalityType
<1> DEFINE T == {n \in Nat : \A s \in SUBSET S :
                               Cardinality(s) = n => sum[s] = Diagonal(Cover(s))}
<1>10. 0 \in T
  <2>1. \A s \in SUBSET S : Cardinality(s) = 0 => s = {}
    BY <1>9, FS_EmptySet
  <2> HIDE DEF pick, Cover
  <2> QED
    BY <1>3, <1>8, <2>1
<1>11. ASSUME NEW n \in T
       PROVE  n + 1 \in T
  <2> SUFFICES ASSUME NEW s \in SUBSET S, Cardinality(s) = n + 1
               PROVE  sum[s] = Diagonal(Cover(s))
    OBVIOUS
  <2>0. n \in Nat
    BY <1>11
  <2>1. s # {}
    <3> HIDE DEF T, Cover, pick
    <3>1. Cardinality({}) = 0 /\ n + 1 # 0
      BY <2>0, FS_EmptySet
    <3> QED
      BY <3>1
  <2> DEFINE u == s \ {pick[s]}
  <2>2. pick[s] \in s
    BY <1>2, <2>1
  <2>3. u \in SUBSET S /\ Cardinality(u) = n
    <3> HIDE DEF pick
    <3>1. Cardinality(s \ {pick[s]}) = Cardinality(s) - 1
      BY <1>9, <2>2, OneLess
    <3> QED
      BY <3>1
  <2>4. sum[u] = Diagonal(Cover(u))
    BY <2>3
  <2> HIDE DEF pick, Cover, T
  <2> QED
    BY <1>4, <1>8, <2>1, <2>4, Zenon
<1>12. S \in SUBSET S /\ Cardinality(S) \in T
  <2>1. Nat \subseteq T
    <3> HIDE DEF T
    <3> QED
      BY <1>10, <1>11, SetInduction
  <2> HIDE DEF T
  <2> QED
    BY <1>9, <2>1
<1>13. sum[S] = Diagonal(Cover(S))
  <2> HIDE DEF Cover
  <2> QED
    BY <1>12
<1> QED
  BY <1>1, <1>13, Zenon

(***************************************************************************)
(* The invariant: a launch is as far as the elements its blocks covered.   *)
(***************************************************************************)
\* The active elements whose block has run.
Covered(r) == {e \in Active(r) : <<r, BlockOf(e, r)>> \notin pending}

\* The output of a launch under way, as if one block had written them all.
AsFar(r) ==
  IF kernel = "logdet" THEN out[r] = Diagonal(Covered(r))
  ELSE WrittenOver(out[r], Base(r), Covered(r), Target(r), Result(r))

\* A rank before its launch, and after it.
Progress(r) ==
  \/ /\ stage[r] = "called"
     /\ out[r] = Before(r)
     /\ \A b \in Nat : <<r, b>> \notin pending
  \/ /\ stage[r] = "launched"
     /\ AsFar(r)

\* What every rank has after the reduction.
Reduced ==
  IF kernel = "logdet" THEN Diagonal(0..(shape.n - 1))
  ELSE [column \in 0..(shape.n - 1) |-> column]

\* All ranks are under way, or all have reduced.
KernelInv ==
  /\ Called
  /\ DOMAIN out = Ranks
  /\ stage \in [Ranks -> {"called", "launched", "reduced"}]
  /\ pending \subseteq Ranks \X Nat
  /\ \/ \A r \in Ranks : Progress(r)
     \/ /\ kernel \in {"logdet", "pivots"}
        /\ pending = {}
        /\ \A r \in Ranks : stage[r] = "reduced" /\ out[r] = Reduced

\* What the shape and the kernel determine stays as it is.
LEMMA ShapeFrame ==
  ASSUME UNCHANGED <<shape, kernel>>
  PROVE  /\ \A n, r : OwnedRows(n, r)' = OwnedRows(n, r)
         /\ \A n, r : OwnedCols(n, r)' = OwnedCols(n, r)
         /\ \A n : LeadingDimension(n)' = LeadingDimension(n)
         /\ Columns' = Columns
         /\ Ranks' = Ranks
         /\ \A n : Offsets(n)' = Offsets(n)
         /\ \A i, r : GlobalRow(i, r)' = GlobalRow(i, r)
         /\ \A i, r : GlobalCol(i, r)' = GlobalCol(i, r)
<1> USE DEF OwnedRows, OwnedCols, LeadingDimension, Columns
<1>1. \A n, r : OwnedRows(n, r)' = OwnedRows(n, r) /\ OwnedCols(n, r)' = OwnedCols(n, r)
  OBVIOUS
<1>2. \A n : LeadingDimension(n)' = LeadingDimension(n)
  OBVIOUS
<1>3. Columns' = Columns
  OBVIOUS
<1>4. \A n : Offsets(n)' = Offsets(n)
  BY DEF Offsets
<1>5. \A i, r : GlobalRow(i, r)' = GlobalRow(i, r) /\ GlobalCol(i, r)' = GlobalCol(i, r)
  BY DEF GlobalRow, GlobalCol
<1> QED
  BY <1>1, <1>2, <1>3, <1>4, <1>5 DEF Ranks

\* So do the elements of a launch and the share.
LEMMA ElementFrame ==
  ASSUME UNCHANGED <<shape, kernel>>
  PROVE  /\ \A e, r : Row(e, r)' = Row(e, r)
         /\ \A e, r : Col(e, r)' = Col(e, r)
         /\ \A e, r, l : At(e, r, l)' = At(e, r, l)
         /\ \A e, r : StrictlyAbove(e, r)' = StrictlyAbove(e, r)
         /\ \A e, r : OwnsDiagonal(r, e)' = OwnsDiagonal(r, e)
         /\ \A r : ElementCount(r)' = ElementCount(r)
         /\ \A r : BlockCount(r)' = BlockCount(r)
         /\ \A e, r : BlockOf(e, r)' = BlockOf(e, r)
         /\ \A e, r, l : SolutionAt(e, r, l)' = SolutionAt(e, r, l)
         /\ \A r : Share(r)' = Share(r)
<1> USE DEF OwnedRows, OwnedCols, LeadingDimension, Columns, Offsets
<1>1. \A e, r : Row(e, r)' = Row(e, r) /\ Col(e, r)' = Col(e, r)
  BY DEF Row, Col
<1>2. \A e, r, l : At(e, r, l)' = At(e, r, l)
  BY DEF At, Row, Col
<1>3. \A e, r : StrictlyAbove(e, r)' = StrictlyAbove(e, r)
  BY DEF StrictlyAbove, GlobalRow, GlobalCol, Row, Col
<1>4. \A e, r : OwnsDiagonal(r, e)' = OwnsDiagonal(r, e)
  BY DEF OwnsDiagonal
<1>5. \A r : ElementCount(r)' = ElementCount(r)
  BY DEF ElementCount
<1>6. \A r : BlockCount(r)' = BlockCount(r)
  BY DEF BlockCount, ElementCount
<1>7. \A e, r : BlockOf(e, r)' = BlockOf(e, r)
  BY DEF BlockOf, BlockCount, ElementCount
<1>8. \A e, r, l : SolutionAt(e, r, l)' = SolutionAt(e, r, l)
  BY DEF SolutionAt
<1>9. \A r : Share(r)' = Share(r)
  BY DEF Share
<1> QED
  BY <1>1, <1>2, <1>3, <1>4, <1>5, <1>6, <1>7, <1>8, <1>9

\* So do targets, results and what the output holds first.
LEMMA LaunchFrame ==
  ASSUME UNCHANGED <<shape, kernel>>
  PROVE  /\ Called' = Called
         /\ \A r : Active(r)' = Active(r)
         /\ \A r : Target(r)' = Target(r)
         /\ \A r : Result(r)' = Result(r)
         /\ \A r : Base(r)' = Base(r)
         /\ \A r : Before(r)' = Before(r)
         /\ Reduced' = Reduced
<1>0. Called' = Called
  BY DEF Called
<1>1. \A r : Active(r)' = Active(r)
  <2> SUFFICES ASSUME NEW r
               PROVE  Active(r)' = Active(r)
    OBVIOUS
  <2> QED
    BY ElementFrame DEF Active
<1>2. \A r : Target(r)' = Target(r)
  <2> SUFFICES ASSUME NEW r
               PROVE  Target(r)' = Target(r)
    OBVIOUS
  <2> QED
    BY <1>1, ShapeFrame, ElementFrame DEF Target
<1>3. \A r : Result(r)' = Result(r)
  <2> SUFFICES ASSUME NEW r
               PROVE  Result(r)' = Result(r)
    OBVIOUS
  <2> QED
    BY <1>1, ShapeFrame, ElementFrame DEF Result
<1>4. OutputRows' = OutputRows /\ Buffer' = Buffer
  BY ShapeFrame DEF OutputRows, Buffer
<1>5. \A r : Base(r)' = Base(r)
  BY <1>4, ElementFrame DEF Base
<1>6. \A r : Before(r)' = Before(r)
  <2> SUFFICES ASSUME NEW r
               PROVE  Before(r)' = Before(r)
    OBVIOUS
  <2> DEFINE buffer == Offsets(OutputRows)
             columns == 0..(shape.n - 1)
  <2>1. Offsets(OutputRows)' = buffer /\ (0..(shape.n - 1))' = columns
    BY <1>4, ShapeFrame
  <2>2. Share(r)' = Share(r) /\ kernel' = kernel /\ shape' = shape
    BY ElementFrame
  <2> QED
    BY <2>1, <2>2 DEF Before
<1>7. Reduced' = Reduced
  BY DEF Reduced
<1> QED
  BY <1>0, <1>1, <1>2, <1>3, <1>5, <1>6, <1>7

\* A rank is as far as it was if nothing of it changes.
LEMMA ProgressFrame ==
  ASSUME UNCHANGED <<shape, kernel>>, NEW q, Progress(q),
         stage'[q] = stage[q], out'[q] = out[q],
         \A b : <<q, b>> \in pending' <=> <<q, b>> \in pending
  PROVE  Progress(q)'
<1>1. Covered(q)' = Covered(q)
  BY LaunchFrame, ElementFrame DEF Covered
<1>2. AsFar(q)' <=> AsFar(q)
  BY <1>1, LaunchFrame, Zenon DEF AsFar
<1>3. Before(q)' = Before(q)
  BY LaunchFrame
<1> QED
  BY <1>2, <1>3 DEF Progress

\* No rank has launched.
LEMMA InitKernelInv ==
  ASSUME Init
  PROVE  KernelInv
<1>1. Called
  BY DEF Init, Called
<1>2. /\ out = [r \in Ranks |-> Before(r)]
      /\ stage = [r \in Ranks |-> "called"]
      /\ pending = {}
  BY DEF Init
<1>3. \A r \in Ranks : Progress(r)
  BY <1>2 DEF Progress
<1>4. /\ DOMAIN out = Ranks
      /\ stage \in [Ranks -> {"called", "launched", "reduced"}]
      /\ pending \subseteq Ranks \X Nat
  BY <1>2
<1> QED
  BY <1>1, <1>3, <1>4 DEF KernelInv

\* A launch starts from its base and has covered nothing.
LEMMA LaunchStep ==
  ASSUME KernelInv, NEW r \in Ranks, Launch(r)
  PROVE  KernelInv'
<1>1. /\ Called /\ DOMAIN out = Ranks
      /\ stage \in [Ranks -> {"called", "launched", "reduced"}]
      /\ pending \subseteq Ranks \X Nat
      /\ \A q \in Ranks : Progress(q)
  BY DEF KernelInv, Launch
<1>2. /\ stage[r] = "called"
      /\ stage' = [stage EXCEPT ![r] = "launched"]
      /\ out' = [out EXCEPT ![r] = Cleared(r)]
      /\ pending' = pending \cup {<<r, b>> : b \in 0..(BlockCount(r) - 1)}
      /\ UNCHANGED <<shape, kernel>>
  BY DEF Launch
<1>3. Called' /\ Ranks' = Ranks
  BY <1>1, <1>2, LaunchFrame, ShapeFrame
<1>4. BlockCount(r) \in Nat
  BY <1>1, Blocks
<1>5. /\ DOMAIN out' = Ranks
      /\ stage' \in [Ranks -> {"called", "launched", "reduced"}]
      /\ pending' \subseteq Ranks \X Nat
  BY <1>1, <1>2, <1>4
<1>6. out'[r] = Cleared(r) /\ stage'[r] = "launched"
  BY <1>1, <1>2
<1>7. Covered(r)' = {}
  <2>1. \A e \in Active(r) : BlockOf(e, r) \in 0..(BlockCount(r) - 1)
    BY <1>1, Blocks DEF Active
  <2>2. \A e \in Active(r) : <<r, BlockOf(e, r)>> \in pending'
    BY <1>2, <2>1
  <2>3. Active(r)' = Active(r) /\ \A e : BlockOf(e, r)' = BlockOf(e, r)
    BY <1>2, LaunchFrame, ElementFrame
  <2> QED
    BY <2>2, <2>3 DEF Covered
<1>8. AsFar(r)'
  <2>1. CASE kernel = "logdet"
    <3>1. Cleared(r) = Diagonal({})
      BY <2>1 DEF Cleared, Diagonal, EmptyBag
    <3> QED
      BY <1>2, <1>6, <1>7, <2>1, <3>1 DEF AsFar
  <2>2. CASE kernel # "logdet"
    <3>1. out[r] = Before(r)
      BY <1>1, <1>2 DEF Progress
    <3>2. Cleared(r) = Base(r)
      BY <1>1, <2>2, <3>1 DEF Called, Kernels, Cleared, Before, Base, Buffer, OutputRows
    <3>3. out'[r] = Base(r)'
      BY <1>2, <1>6, <3>2, LaunchFrame
    <3>4. Base(r) = [x \in DOMAIN Base(r) |-> Base(r)[x]]
      BY DEF Base, Share
    <3>5. WrittenOver(out'[r], Base(r)', Covered(r)', Target(r)', Result(r)')
      <4>1. \A T, V : WrittenOver(Base(r), Base(r), {}, T, V)
        BY <3>4 DEF WrittenOver
      <4>2. Base(r)' = Base(r)
        BY <1>2, LaunchFrame
      <4> QED
        BY <1>7, <3>3, <4>1, <4>2, Zenon
    <3> QED
      BY <1>2, <2>2, <3>5 DEF AsFar
  <2> QED
    BY <2>1, <2>2
<1>9. ASSUME NEW q \in Ranks
      PROVE  Progress(q)'
  <2>1. CASE q = r
    BY <1>6, <1>8, <2>1 DEF Progress
  <2>2. CASE q # r
    <3>1. stage'[q] = stage[q] /\ out'[q] = out[q]
      BY <1>1, <1>2, <2>2
    <3>2. \A b : <<q, b>> \in pending' <=> <<q, b>> \in pending
      BY <1>2, <2>2
    <3> QED
      BY <1>1, <1>2, <3>1, <3>2, ProgressFrame
  <2> QED
    BY <2>1, <2>2
<1> QED
  BY <1>3, <1>5, <1>9 DEF KernelInv

\* A block that has run has covered its elements, and they were not covered
\* before.
LEMMA RunBlockStep ==
  ASSUME KernelInv, NEW block \in pending, RunBlock(block[1], block[2])
  PROVE  KernelInv'
<1> DEFINE r == block[1]
           b == block[2]
           more == BlockElements(r, b) \cap Active(r)
<1>1. /\ Called /\ DOMAIN out = Ranks
      /\ stage \in [Ranks -> {"called", "launched", "reduced"}]
      /\ pending \subseteq Ranks \X Nat
      /\ \A q \in Ranks : Progress(q)
  BY DEF KernelInv
<1>2. r \in Ranks /\ b \in Nat /\ <<r, b>> \in pending
  BY <1>1
<1>3. /\ pending' = pending \ {<<r, b>>}
      /\ out' = [out EXCEPT ![r] = AfterBlock(r, b)]
      /\ UNCHANGED <<shape, kernel, stage>>
  BY DEF RunBlock
<1> HIDE DEF r, b
<1>4. Called' /\ Ranks' = Ranks
  BY <1>1, <1>3, LaunchFrame, ShapeFrame
<1>5. /\ DOMAIN out' = Ranks
      /\ stage' \in [Ranks -> {"called", "launched", "reduced"}]
      /\ pending' \subseteq Ranks \X Nat
  BY <1>1, <1>3
<1>6. stage[r] = "launched" /\ AsFar(r)
  BY <1>1, <1>2 DEF Progress
<1>7. out'[r] = AfterBlock(r, b)
  BY <1>1, <1>2, <1>3
<1>8. more = {e \in Active(r) : BlockOf(e, r) = b}
  BY <1>1, <1>2, Blocks DEF Active
<1>9. /\ Covered(r)' = Covered(r) \cup more
      /\ Covered(r) \cap more = {}
      /\ Covered(r) \subseteq Active(r)
  <2>1. Active(r)' = Active(r) /\ \A e : BlockOf(e, r)' = BlockOf(e, r)
    BY <1>3, LaunchFrame, ElementFrame
  <2> HIDE DEF more
  <2>2. \A e \in Active(r) : <<r, BlockOf(e, r)>> \notin pending'
                               <=> \/ <<r, BlockOf(e, r)>> \notin pending
                                   \/ BlockOf(e, r) = b
    BY <1>2, <1>3
  <2> QED
    BY <1>2, <1>8, <2>1, <2>2 DEF Covered
<1>10. AsFar(r)'
  <2>1. CASE kernel = "logdet"
    <3>1. out[r] = Diagonal(Covered(r))
      BY <1>6, <2>1 DEF AsFar
    <3>2. BlockElements(r, b) \subseteq 0..(shape.n - 1)
      BY <1>1, <1>2, <2>1, Elements DEF BlockElements
    <3>3. LocalLogdet(r, BlockElements(r, b))
            = Diagonal({d \in BlockElements(r, b) : OwnsDiagonal(r, d)})
      BY <1>1, <1>2, <2>1, <3>2, LogdetBlock
    <3>4. {d \in BlockElements(r, b) : OwnsDiagonal(r, d)} = more
      BY <2>1 DEF Active, BlockElements
    <3>5. AfterBlock(r, b) = out[r] (+) LocalLogdet(r, BlockElements(r, b))
      BY <2>1 DEF AfterBlock
    <3> HIDE DEF more
    <3>6. out'[r] = Diagonal(Covered(r) \cup more)
      BY <1>7, <1>9, <3>1, <3>3, <3>4, <3>5, DiagonalsAdd
    <3> QED
      BY <1>3, <1>9, <2>1, <3>6 DEF AsFar
  <2>2. CASE kernel # "logdet"
    <3>1. WrittenOver(out[r], Base(r), Covered(r), Target(r), Result(r))
      BY <1>6, <2>2 DEF AsFar
    <3>2. PICK g : /\ AfterBlock(r, b) = Over(g, out[r])
                   /\ Writes(g, more, Target(r), Result(r))
      BY <1>1, <1>2, <2>2, BlockWrites
    <3>3. /\ OneToOne(Target(r), Active(r))
          /\ \A e \in Active(r) : Target(r)[e] \in Buffer
      BY <1>1, <1>2, <2>2, Targets
    <3>4. DOMAIN Base(r) = Buffer
      BY <1>1, <2>2 DEF Base, Buffer, Share, OutputRows, Called, Kernels
    <3>5. more \subseteq Active(r)
      OBVIOUS
    <3> HIDE DEF more
    <3>6. WrittenOver(Over(g, out[r]), Base(r), Covered(r) \cup more, Target(r), Result(r))
      BY <1>9, <3>1, <3>2, <3>3, <3>4, <3>5, OverWrites
    <3>7. out'[r] = Over(g, out[r])
      BY <1>7, <3>2
    <3>8. Base(r)' = Base(r) /\ Target(r)' = Target(r) /\ Result(r)' = Result(r)
      BY <1>3, LaunchFrame
    <3>9. WrittenOver(out'[r], Base(r)', Covered(r)', Target(r)', Result(r)')
      BY <1>9, <3>6, <3>7, <3>8, Zenon
    <3> QED
      BY <1>3, <2>2, <3>9 DEF AsFar
  <2> QED
    BY <2>1, <2>2
<1>11. ASSUME NEW q \in Ranks
       PROVE  Progress(q)'
  <2>1. CASE q = r
    BY <1>3, <1>6, <1>10, <2>1 DEF Progress
  <2>2. CASE q # r
    <3>1. stage'[q] = stage[q] /\ out'[q] = out[q]
      BY <1>1, <1>3, <2>2
    <3>2. \A c : <<q, c>> \in pending' <=> <<q, c>> \in pending
      BY <1>3, <2>2
    <3> QED
      BY <1>1, <1>3, <3>1, <3>2, ProgressFrame
  <2> QED
    BY <2>1, <2>2
<1> QED
  BY <1>4, <1>5, <1>11 DEF KernelInv

(***************************************************************************)
(* The reduction.                                                          *)
(***************************************************************************)
\* Once nothing is pending every active element has been covered.
LEMMA AllCovered ==
  ASSUME KernelInv, Drained, NEW r \in Ranks
  PROVE  AsFar(r) /\ Covered(r) = Active(r)
<1>1. stage[r] = "launched" /\ pending = {}
  BY DEF Drained
<1>2. Progress(r)
  BY <1>1 DEF KernelInv
<1> QED
  BY <1>1, <1>2 DEF Progress, Covered

\* The owners of the diagonal share it out.
LEMMA DiagonalShared ==
  ASSUME Called, kernel = "logdet"
  PROVE  /\ UNION {Active(r) : r \in Ranks} = 0..(shape.n - 1)
         /\ \A r, q \in Ranks : r # q => Active(r) \cap Active(q) = {}
<1>1. ASSUME NEW r \in Ranks
      PROVE  Active(r) = {d \in 0..(shape.n - 1) : OwnsDiagonal(r, d)}
  <2>1. ElementCount(r) = shape.n
    BY Elements
  <2> QED
    BY <2>1 DEF Active
<1>2. ASSUME NEW d \in 0..(shape.n - 1)
      PROVE  \E r \in Ranks : d \in Active(r)
  <2> DEFINE r == <<Owner(d, shape.tile, shape.rows), Owner(d, shape.tile, shape.cols)>>
  <2>1. /\ shape.rows \in Nat \ {0} /\ shape.cols \in Nat \ {0} /\ shape.tile \in Nat \ {0}
        /\ shape.n \in Nat
    <3>1. shape \in Shapes
      BY DEF Called
    <3> QED
      BY <3>1, ShapesAssumption
  <2>2. d \in Nat
    BY <2>1
  <2>3. /\ Owner(d, shape.tile, shape.rows) \in 0..(shape.rows - 1)
        /\ Owner(d, shape.tile, shape.cols) \in 0..(shape.cols - 1)
    BY <2>1, <2>2, Placement
  <2>4. r \in Ranks
    BY <2>3 DEF Ranks
  <2>5. OwnsDiagonal(r, d)
    BY DEF OwnsDiagonal
  <2> QED
    BY <1>1, <2>4, <2>5
<1>3. ASSUME NEW r \in Ranks, NEW q \in Ranks, NEW d \in Active(r) \cap Active(q)
      PROVE  r = q
  <2>1. OwnsDiagonal(r, d) /\ OwnsDiagonal(q, d)
    BY <1>1
  <2>2. r = <<r[1], r[2]>> /\ q = <<q[1], q[2]>>
    BY ShapeFacts DEF Called
  <2> QED
    BY <2>1, <2>2 DEF OwnsDiagonal
<1>4. \A r \in Ranks : Active(r) \subseteq 0..(shape.n - 1)
  BY <1>1
<1> QED
  BY <1>2, <1>3, <1>4

\* Column c of the pivots a rank has gathered is c or not its own, and the owner's
\* is c.
LEMMA PivotsGathered ==
  ASSUME Called, kernel = "pivots", NEW f,
         \A r \in Ranks : WrittenOver(f[r], Base(r), Active(r), Target(r), Result(r)),
         NEW c \in 0..(shape.n - 1)
  PROVE  Greatest({f[r][c] : r \in Ranks}) = c
<1>1. /\ shape \in Shapes
      /\ shape.rows \in Nat \ {0} /\ shape.cols \in Nat \ {0} /\ shape.tile \in Nat \ {0}
      /\ shape.n \in Nat
  <2>1. shape \in Shapes
    BY DEF Called
  <2> QED
    BY <2>1, ShapesAssumption
<1>2. c \in Nat
  BY <1>1
<1>3. \A r \in Ranks : \A e \in Active(r) :
        Target(r)[e] = GlobalCol(e, r) /\ Result(r)[e] = GlobalCol(e, r)
  BY DEF Target, Result
<1>4. \A r \in Ranks : Base(r) = [x \in 0..(shape.n - 1) |-> -1]
  BY DEF Base, Buffer
<1>5. ASSUME NEW r \in Ranks
      PROVE  f[r][c] \in {c, -1}
  <2>1. WrittenOver(f[r], Base(r), Active(r), Target(r), Result(r))
    OBVIOUS
  <2>2. CASE \E e \in Active(r) : GlobalCol(e, r) = c
    BY <1>3, <2>1, <2>2 DEF WrittenOver
  <2>3. CASE \A e \in Active(r) : GlobalCol(e, r) # c
    <3>1. f[r][c] = Base(r)[c]
      <4>1. c \in DOMAIN Base(r)
        BY <1>4
      <4>2. \A e \in Active(r) : Target(r)[e] # c
        BY <1>3, <2>3
      <4> QED
        BY <2>1, <4>1, <4>2 DEF WrittenOver
    <3> QED
      BY <1>4, <3>1
  <2> QED
    BY <2>2, <2>3
<1>6. \E r \in Ranks : f[r][c] = c
  <2> DEFINE r == <<0, Owner(c, shape.tile, shape.cols)>>
             e == LocalIndex(c, shape.tile, shape.cols)
  <2>1. Owner(c, shape.tile, shape.cols) \in 0..(shape.cols - 1)
    BY <1>1, <1>2, Placement
  <2>2. r \in Ranks
    BY <1>1, <2>1 DEF Ranks
  <2>3. e \in Nat /\ GlobalCol(e, r) = c
    BY <1>1, <1>2, <2>2, KeptAt
  <2> HIDE DEF r, e
  <2>4. Counted(shape.n, r)
    BY <1>1, <2>2, ShareRoom
  <2>5. OwnedCols(shape.n, r) \in Nat /\ e < OwnedCols(shape.n, r)
    BY <1>1, <2>3, <2>4 DEF Counted
  <2>6. e \in 0..(OwnedCols(shape.n, r) - 1)
    BY <2>3, <2>5
  <2>7. ElementCount(r) = OwnedCols(shape.n, r)
    BY <2>2, Elements
  <2>8. e \in Active(r)
    BY <2>6, <2>7 DEF Active
  <2>9. WrittenOver(f[r], Base(r), Active(r), Target(r), Result(r))
    BY <2>2
  <2>10. f[r][Target(r)[e]] = Result(r)[e]
    BY <2>8, <2>9 DEF WrittenOver
  <2> QED
    BY <1>3, <2>2, <2>3, <2>8, <2>10
<1> DEFINE S == {f[r][c] : r \in Ranks}
<1>7. c \in S /\ S \subseteq {c, -1}
  BY <1>5, <1>6
<1> HIDE DEF S
<1>8. c \in S /\ \A y \in S : y <= c
  BY <1>2, <1>7
<1>9. Greatest(S) \in S /\ \A y \in S : y <= Greatest(S)
  BY <1>8 DEF Greatest
<1>10. Greatest(S) = c
  <2> DEFINE g == Greatest(S)
  <2>1. g \in {c, -1} /\ c <= g
    BY <1>7, <1>9
  <2> HIDE DEF g
  <2>2. g = c
    BY <1>2, <2>1
  <2> QED
    BY <2>2 DEF g
<1> QED
  BY <1>10 DEF S

\* The ranks are finitely many, and there is one.
LEMMA RanksFinite ==
  ASSUME shape \in Shapes
  PROVE  IsFiniteSet(Ranks) /\ Ranks # {}
<1>1. shape.rows \in Nat \ {0} /\ shape.cols \in Nat \ {0}
  BY ShapesAssumption
<1>2. IsFiniteSet(0..(shape.rows - 1)) /\ IsFiniteSet(0..(shape.cols - 1))
  <2>1. 0 \in Int /\ shape.rows - 1 \in Int /\ shape.cols - 1 \in Int
    BY <1>1
  <2> QED
    BY <2>1, FS_Interval
<1>3. IsFiniteSet(Ranks)
  BY <1>2, FS_Product DEF Ranks
<1>4. <<0, 0>> \in Ranks
  BY <1>1 DEF Ranks
<1> QED
  BY <1>3, <1>4

\* The reduction gives every rank the whole.
LEMMA AllReduceStep ==
  ASSUME KernelInv, AllReduce
  PROVE  KernelInv'
<1>1. /\ Called /\ DOMAIN out = Ranks
      /\ pending = {}
      /\ Drained
      /\ kernel \in {"logdet", "pivots"}
      /\ UNCHANGED <<shape, kernel, pending>>
      /\ stage' = [r \in Ranks |-> "reduced"]
  BY DEF KernelInv, AllReduce, Drained
<1>2. \A r \in Ranks : AsFar(r) /\ Covered(r) = Active(r)
  BY <1>1, AllCovered
<1>3. Called' /\ Ranks' = Ranks /\ Reduced' = Reduced
  BY <1>1, LaunchFrame, ShapeFrame
<1>4. out' = [r \in Ranks |-> Reduced]
  <2>1. CASE kernel = "logdet"
    <3> DEFINE part == [r \in Ranks |-> Active(r)]
    <3>1. \A r \in Ranks : out[r] = Diagonal(part[r])
      BY <1>2, <2>1 DEF AsFar
    <3>2. /\ UNION {part[r] : r \in Ranks} = 0..(shape.n - 1)
          /\ \A r, q \in Ranks : r # q => part[r] \cap part[q] = {}
      BY <1>1, <2>1, DiagonalShared
    <3>3. IsFiniteSet(Ranks)
      BY <1>1, RanksFinite DEF Called
    <3> DEFINE total == FoldFunction((+), EmptyBag, out)
    <3> HIDE DEF part
    <3>4. total = Diagonal(UNION {part[r] : r \in Ranks})
      <4>1. Partition(out, part, Ranks)
        BY <1>1, <3>1, <3>2, <3>3 DEF Partition
      <4> QED
        BY <4>1, LogdetReduces, Zenon
    <3>5. out' = [r \in Ranks |-> total]
      BY <2>1, Zenon DEF AllReduce
    <3> HIDE DEF total
    <3>6. total = Reduced
      BY <2>1, <3>2, <3>4 DEF Reduced
    <3> QED
      BY <3>5, <3>6
  <2>2. CASE kernel = "pivots"
    <3>1. \A r \in Ranks :
            WrittenOver(out[r], Base(r), Active(r), Target(r), Result(r))
      BY <1>2, <2>2 DEF AsFar
    <3>2. \A c \in 0..(shape.n - 1) : Greatest({out[r][c] : r \in Ranks}) = c
      BY <1>1, <2>2, <3>1, PivotsGathered
    <3> DEFINE total == [column \in 0..(shape.n - 1) |->
                           Greatest({out[r][column] : r \in Ranks})]
    <3>3. out' = [r \in Ranks |-> total]
      BY <2>2, Zenon DEF AllReduce
    <3>4. total = Reduced
      BY <2>2, <3>2 DEF Reduced
    <3> HIDE DEF total
    <3> QED
      BY <3>3, <3>4
  <2> QED
    BY <1>1, <2>1, <2>2
<1>5. \A r \in Ranks : stage'[r] = "reduced" /\ out'[r] = Reduced'
  BY <1>1, <1>3, <1>4
<1>6. /\ DOMAIN out' = Ranks'
      /\ stage' \in [Ranks' -> {"called", "launched", "reduced"}]
      /\ pending' = {}
      /\ kernel' \in {"logdet", "pivots"}
  BY <1>1, <1>3, <1>4
<1> QED
  BY <1>3, <1>5, <1>6 DEF KernelInv

\* Every step keeps the invariant.
LEMMA KernelStep ==
  ASSUME KernelInv, [Next]_vars
  PROVE  KernelInv'
<1>1. CASE \E r \in Ranks : Launch(r)
  BY <1>1, LaunchStep
<1>2. CASE \E block \in pending : RunBlock(block[1], block[2])
  BY <1>2, RunBlockStep
<1>3. CASE AllReduce
  BY <1>3, AllReduceStep
<1>4. CASE UNCHANGED vars
  <2>1. UNCHANGED <<shape, kernel>> /\ out' = out /\ stage' = stage /\ pending' = pending
    BY <1>4 DEF vars
  <2>2. Called' /\ Ranks' = Ranks /\ Reduced' = Reduced
    BY <2>1, LaunchFrame, ShapeFrame DEF KernelInv
  <2>3. \A q \in Ranks : Progress(q) => Progress(q)'
    BY <2>1, ProgressFrame
  <2> QED
    BY <2>1, <2>2, <2>3 DEF KernelInv
<1> QED
  BY <1>1, <1>2, <1>3, <1>4 DEF Next, Terminated

\* At every moment a rank's output is what the elements covered so far make of it,
\* whatever the order of the blocks, and after a reduction the same everywhere.
THEOREM KernelsInvariant == Spec => []KernelInv
<1>1. Init => KernelInv
  BY InitKernelInv
<1>2. KernelInv /\ [Next]_vars => KernelInv'
  BY KernelStep
<1> QED
  BY <1>1, <1>2, PTL DEF Spec

(***************************************************************************)
(* What the launches leave.                                                *)
(***************************************************************************)
\* Every variable holds a value the program can give it, and no block writes outside
\* its rank's buffer, for any shapes, block size and cap on the blocks.
THEOREM TypeCorrect == Spec => []TypeOK
<1>1. KernelInv => TypeOK
  <2> SUFFICES ASSUME KernelInv
               PROVE  TypeOK
    OBVIOUS
  <2>1. /\ shape \in Shapes
        /\ kernel \in Kernels
        /\ stage \in [Ranks -> {"called", "launched", "reduced"}]
        /\ pending \subseteq Ranks \X Nat
    BY DEF KernelInv, Called
  <2>2. \A S : IsABag(SetToBag(S))
    BY DEF IsABag, SetToBag
  <2>3. ASSUME NEW r \in Ranks
        PROVE  /\ kernel \in {"lower", "upper", "solution", "fill"} =>
                    DOMAIN out[r] = Offsets(OutputRows)
               /\ kernel = "pivots" => DOMAIN out[r] = 0..(shape.n - 1)
               /\ kernel = "logdet" => IsABag(out[r])
    <3>1. CASE out[r] = Before(r)
      BY <2>1, <2>2, <3>1 DEF Before, Kernels, Share, OutputRows
    <3>2. CASE AsFar(r)
      <4>1. CASE kernel = "logdet"
        BY <2>2, <3>2, <4>1 DEF AsFar, Diagonal
      <4>2. CASE kernel # "logdet"
        <5>1. DOMAIN out[r] = DOMAIN Base(r)
          BY <3>2, <4>2 DEF AsFar, WrittenOver
        <5>2. DOMAIN Base(r) = Buffer
          BY <2>1, <4>2 DEF Base, Buffer, Share, OutputRows, Kernels
        <5> QED
          BY <4>2, <5>1, <5>2 DEF Buffer
      <4> QED
        BY <4>1, <4>2
    <3>3. CASE kernel \in {"logdet", "pivots"} /\ out[r] = Reduced
      BY <2>2, <3>3 DEF Reduced, Diagonal
    <3> QED
      BY <3>1, <3>2, <3>3 DEF KernelInv, Progress
  <2> QED
    BY <2>1, <2>3 DEF TypeOK
<1> QED
  BY <1>1, KernelsInvariant, PTL

\* A launch that has ended has written all its elements.
LEMMA LaunchEnded ==
  ASSUME KernelInv, Finished, kernel \notin {"logdet", "pivots"}, NEW r \in Ranks
  PROVE  Called /\ WrittenOver(out[r], Base(r), Active(r), Target(r), Result(r))
<1>1. Drained
  BY DEF Finished
<1>2. AsFar(r) /\ Covered(r) = Active(r)
  BY <1>1, AllCovered
<1> QED
  BY <1>2 DEF AsFar, KernelInv

\* The fill of a failed call covers the whole buffer, padding included, for any cap
\* on the blocks of a launch.
THEOREM FillsEverything == Spec => []FillCoversAll
<1>1. KernelInv => FillCoversAll
  <2> SUFFICES ASSUME KernelInv, Finished, kernel = "fill", NEW r \in Ranks
               PROVE  out[r] = [offset \in Offsets(shape.m) |-> Nan]
    BY DEF FillCoversAll
  <2>1. Called /\ WrittenOver(out[r], Base(r), Active(r), Target(r), Result(r))
    BY LaunchEnded
  <2>2. Active(r) = Offsets(shape.m)
    BY <2>1, Elements DEF Active
  <2>3. DOMAIN Base(r) = Offsets(shape.m)
    BY DEF Base, Share
  <2>4. \A e \in Active(r) : Target(r)[e] = e /\ Result(r)[e] = Nan
    BY DEF Target, Result
  <2>5. \A e \in Offsets(shape.m) : out[r][e] = Nan
    BY <2>1, <2>2, <2>4 DEF WrittenOver
  <2>6. out[r] = [x \in Offsets(shape.m) |-> out[r][x]]
    BY <2>1, <2>3 DEF WrittenOver
  <2> QED
    BY <2>5, <2>6
<1> QED
  BY <1>1, KernelsInvariant, PTL

\* The reduction ends with the same on every rank.
LEMMA ReductionEnded ==
  ASSUME KernelInv, Finished, kernel \in {"logdet", "pivots"}, NEW r \in Ranks
  PROVE  out[r] = Reduced
<1>1. stage[r] = "reduced"
  BY DEF Finished
<1>2. ~ Progress(r)
  BY <1>1 DEF Progress
<1> QED
  BY <1>2 DEF KernelInv

\* The reduced log determinant has every diagonal element once and nothing else,
\* for any grid, tile size and number of blocks, in any order.
THEOREM EachDiagonalOnce == Spec => []DiagonalCountedOnce
<1>1. KernelInv => DiagonalCountedOnce
  BY ReductionEnded DEF DiagonalCountedOnce, Reduced, Diagonal
<1> QED
  BY <1>1, KernelsInvariant, PTL

\* After the reduction every rank has the pivot of every column.
THEOREM PivotsEverywhere == Spec => []PivotsReplicated
<1>1. KernelInv => PivotsReplicated
  BY ReductionEnded DEF PivotsReplicated, Reduced
<1> QED
  BY <1>1, KernelsInvariant, PTL

\* Element e of an a-row part of rank r's share is row g and column h of the matrix:
\* its place in a buffer of any leading dimension is that of the cell.
IsCell(e, r, a, g, h) ==
  /\ \A l : Slot(g, h, l) = (e % OwnedRows(a, r)) + (e \div OwnedRows(a, r)) * l
  /\ GlobalRow(e % OwnedRows(a, r), r) = g
  /\ GlobalCol(e \div OwnedRows(a, r), r) = h

\* Slot and Holds find a cell by the local index and the owner of its row and column.
LEMMA SlotOf ==
  ASSUME NEW r, NEW g, NEW h, NEW l
  PROVE  /\ Slot(g, h, l) = LocalIndex(g, shape.tile, shape.rows)
                              + LocalIndex(h, shape.tile, shape.cols) * l
         /\ Holds(r, g, h) <=> /\ Owner(g, shape.tile, shape.rows) = r[1]
                               /\ Owner(h, shape.tile, shape.cols) = r[2]
  BY DEF Slot, Holds, LocalIndex, Owner

\* Every cell a rank holds is an element of its part of the matrix.
LEMMA CellIsElement ==
  ASSUME Called, NEW r \in Ranks, NEW a \in 1..shape.m,
         NEW g \in 0..(a - 1), NEW h \in 0..(shape.n - 1), Holds(r, g, h)
  PROVE  \E e \in 0..(OwnedRows(a, r) * OwnedCols(shape.n, r) - 1) : IsCell(e, r, a, g, h)
<1> DEFINE i == LocalIndex(g, shape.tile, shape.rows)
           j == LocalIndex(h, shape.tile, shape.cols)
           H == OwnedRows(a, r)
           W == OwnedCols(shape.n, r)
           e == i + j * H
<1>1. /\ shape \in Shapes /\ shape.n \in Nat /\ a \in Nat /\ shape.m \in Nat
      /\ g \in Nat /\ h \in Nat
  BY ShapeFacts DEF Called
<1>2. \A l : Slot(g, h, l) = i + j * l
  BY SlotOf
<1>3. i \in Nat /\ j \in Nat /\ GlobalRow(i, r) = g /\ GlobalCol(j, r) = h
  <2>1. /\ Owner(g, shape.tile, shape.rows) = r[1]
        /\ Owner(h, shape.tile, shape.cols) = r[2]
    BY SlotOf
  <2> QED
    BY <1>1, <2>1, KeptAt
<1>4. Counted(a, r) /\ Counted(shape.n, r)
  BY <1>1, ShareRoom
<1> HIDE DEF i, j
<1>5. H \in Nat /\ W \in Nat /\ i \in 0..(H - 1) /\ j \in 0..(W - 1)
  BY <1>1, <1>3, <1>4 DEF Counted
<1>6. e \in 0..(H * W - 1) /\ e % H = i /\ e \div H = j
  <2> HIDE DEF H, W
  <2> QED
    BY <1>5, GridPlace
<1>7. IsCell(e, r, a, g, h)
  <2> HIDE DEF e
  <2> QED
    BY <1>2, <1>3, <1>6 DEF IsCell
<1> QED
  BY <1>6, <1>7

\* And every element is one of the cells.
LEMMA ElementIsCell ==
  ASSUME Called, NEW r \in Ranks, NEW a \in 1..shape.m,
         NEW e \in 0..(OwnedRows(a, r) * OwnedCols(shape.n, r) - 1)
  PROVE  \E g \in 0..(a - 1), h \in 0..(shape.n - 1) :
           Holds(r, g, h) /\ IsCell(e, r, a, g, h)
<1> DEFINE i == e % OwnedRows(a, r)
           j == e \div OwnedRows(a, r)
           g == GlobalRow(i, r)
           h == GlobalCol(j, r)
<1>1. /\ shape \in Shapes /\ shape.n \in Nat /\ a \in Nat
      /\ shape.tile \in Nat \ {0} /\ shape.rows \in Nat \ {0} /\ shape.cols \in Nat \ {0}
      /\ r[1] \in 0..(shape.rows - 1) /\ r[2] \in 0..(shape.cols - 1)
  BY ShapeFacts DEF Called
<1>2. i \in 0..(OwnedRows(a, r) - 1) /\ j \in 0..(OwnedCols(shape.n, r) - 1)
  BY ElementAt
<1>3. Counted(a, r) /\ Counted(shape.n, r)
  BY <1>1, ShareRoom
<1> HIDE DEF i, j
<1>4. i \in Nat /\ j \in Nat /\ i < OwnedRows(a, r) /\ j < OwnedCols(shape.n, r)
  BY <1>2, <1>3 DEF Counted
<1>5. g \in 0..(a - 1) /\ h \in 0..(shape.n - 1)
  BY <1>1, <1>3, <1>4 DEF Counted
<1> HIDE DEF g, h
<1>6. Owner(g, shape.tile, shape.rows) = r[1] /\ LocalIndex(g, shape.tile, shape.rows) = i
  <2> DEFINE p == r[1]
  <2>1. p \in 0..(shape.rows - 1) /\ g = GlobalIndex(i, shape.tile, shape.rows, p)
    BY <1>1 DEF g, GlobalRow
  <2> HIDE DEF p
  <2> DEFINE t == shape.tile
             n == shape.rows
  <2>2. t \in Nat \ {0} /\ n \in Nat \ {0} /\ p \in 0..(n - 1) /\ i \in Nat
    BY <1>1, <1>4, <2>1
  <2>3. g = GlobalIndex(i, t, n, p)
    BY <2>1
  <2> HIDE DEF t, n
  <2>4. Owner(g, t, n) = p /\ LocalIndex(g, t, n) = i
    BY <2>2, <2>3, IndexBack
  <2> QED
    BY <2>4 DEF p, t, n
<1>7. Owner(h, shape.tile, shape.cols) = r[2] /\ LocalIndex(h, shape.tile, shape.cols) = j
  <2> DEFINE q == r[2]
  <2>1. q \in 0..(shape.cols - 1) /\ h = GlobalIndex(j, shape.tile, shape.cols, q)
    BY <1>1 DEF h, GlobalCol
  <2> HIDE DEF q
  <2> DEFINE t == shape.tile
             n == shape.cols
  <2>2. t \in Nat \ {0} /\ n \in Nat \ {0} /\ q \in 0..(n - 1) /\ j \in Nat
    BY <1>1, <1>4, <2>1
  <2>3. h = GlobalIndex(j, t, n, q)
    BY <2>1
  <2> HIDE DEF t, n
  <2>4. Owner(h, t, n) = q /\ LocalIndex(h, t, n) = j
    BY <2>2, <2>3, IndexBack
  <2> QED
    BY <2>4 DEF q, t, n
<1>8. Holds(r, g, h) /\ \A l : Slot(g, h, l) = i + j * l
  BY <1>6, <1>7, SlotOf
<1>9. IsCell(e, r, a, g, h)
  BY <1>8 DEF IsCell, i, j, g, h
<1> QED
  BY <1>5, <1>8, <1>9

\* The work buffer holds the element of a cell in the cell's slot.
LEMMA CellInShare ==
  ASSUME Called, NEW r \in Ranks, NEW a \in 1..shape.m, NEW g, NEW h,
         NEW e \in 0..(OwnedRows(a, r) * OwnedCols(shape.n, r) - 1), IsCell(e, r, a, g, h)
  PROVE  /\ Slot(g, h, LeadingDimension(shape.m)) \in Offsets(shape.m)
         /\ Share(r)[Slot(g, h, LeadingDimension(shape.m))] = Element(g, h)
<1> DEFINE i == e % OwnedRows(a, r)
           j == e \div OwnedRows(a, r)
<1>1. shape \in Shapes /\ shape.m \in Nat /\ a \in 0..shape.m
  BY ShapeFacts DEF Called
<1>2. OwnedRows(a, r) <= OwnedRows(shape.m, r) /\ OwnedRows(shape.m, r) \in Nat
  BY <1>1, ShareRoom DEF Counted
<1>3. /\ OwnedRows(a, r) \in Nat \ {0}
      /\ i \in 0..(OwnedRows(a, r) - 1) /\ j \in 0..(OwnedCols(shape.n, r) - 1)
  BY ElementAt
<1>4. /\ Slot(g, h, LeadingDimension(shape.m)) = i + j * LeadingDimension(shape.m)
      /\ GlobalRow(i, r) = g /\ GlobalCol(j, r) = h
  BY DEF IsCell
<1> HIDE DEF i, j
<1>5. i \in 0..(OwnedRows(shape.m, r) - 1)
  BY <1>2, <1>3
<1> QED
  BY <1>1, <1>3, <1>4, <1>5, ShareHolds

\* Clearing leaves the lower triangle of the whole matrix and extraction its upper
\* one, each cell on the rank that owns it, zeros on the other side, and what is no
\* part of the matrix as it was.
THEOREM TrianglesLeft == Spec => []TrianglesExtracted
<1>1. KernelInv => TrianglesExtracted
  <2> DEFINE Matrix == (0..(shape.n - 1)) \X (0..(shape.n - 1))
             Cells(r) == {c \in Matrix : Holds(r, c[1], c[2])}
             leading == LeadingDimension(shape.n)
             Slots(r) == {Slot(c[1], c[2], leading) : c \in Cells(r)}
             Kept(i, j) == IF kernel = "lower" THEN i >= j ELSE i <= j
             Size(r) == OwnedRows(shape.n, r) * OwnedCols(shape.n, r)
             i(e, r) == e % OwnedRows(shape.n, r)
             j(e, r) == e \div OwnedRows(shape.n, r)
  <2> SUFFICES ASSUME KernelInv, Finished, kernel \in {"lower", "upper"}, NEW r \in Ranks
               PROVE  /\ \A c \in Cells(r) :
                           out[r][Slot(c[1], c[2], leading)]
                             = IF Kept(c[1], c[2]) THEN Element(c[1], c[2]) ELSE Zero
                      /\ \A offset \in Offsets(shape.n) \ Slots(r) :
                           out[r][offset] = Before(r)[offset]
    BY DEF TrianglesExtracted
  <2>1. Called /\ WrittenOver(out[r], Base(r), Active(r), Target(r), Result(r))
    BY LaunchEnded
  <2>2. /\ ElementCount(r) = Size(r)
        /\ shape.n \in 1..shape.m
        /\ kernel = "lower" => shape.m = shape.n
        /\ shape.n \in Nat
    BY <2>1, Elements, ShapeFacts DEF Called
  <2>3. /\ Active(r) = {e \in 0..(Size(r) - 1) : kernel = "lower" => StrictlyAbove(e, r)}
        /\ \A e \in Active(r) :
             /\ Target(r)[e] = i(e, r) + j(e, r) * leading
             /\ kernel = "lower" => Result(r)[e] = Zero
             /\ kernel = "upper" =>
                  Result(r)[e] = IF GlobalRow(i(e, r), r) <= GlobalCol(j(e, r), r)
                                 THEN Share(r)[i(e, r) + j(e, r) * LeadingDimension(shape.m)]
                                 ELSE Zero
    BY <2>2 DEF Active, Target, Result, At, Row, Col
  <2>4. /\ DOMAIN Base(r) = Offsets(shape.n)
        /\ kernel = "lower" => Base(r) = Share(r)
        /\ Base(r) = Before(r)
    BY <2>2 DEF Base, Buffer, OutputRows, Share, Before
  <2>5. ASSUME NEW c \in Cells(r)
        PROVE  out[r][Slot(c[1], c[2], leading)]
                 = IF Kept(c[1], c[2]) THEN Element(c[1], c[2]) ELSE Zero
    <3> DEFINE g == c[1]
               h == c[2]
    <3>1. g \in 0..(shape.n - 1) /\ h \in 0..(shape.n - 1) /\ Holds(r, g, h)
      OBVIOUS
    <3> HIDE DEF g, h
    <3>2. PICK e \in 0..(Size(r) - 1) : IsCell(e, r, shape.n, g, h)
      BY <2>1, <2>2, <3>1, CellIsElement
    <3>3. /\ \A l : Slot(g, h, l) = i(e, r) + j(e, r) * l
          /\ GlobalRow(i(e, r), r) = g
          /\ GlobalCol(j(e, r), r) = h
      BY <3>2 DEF IsCell
    <3>4. /\ Slot(g, h, LeadingDimension(shape.m)) \in Offsets(shape.m)
          /\ Share(r)[Slot(g, h, LeadingDimension(shape.m))] = Element(g, h)
      BY <2>1, <2>2, <3>2, CellInShare
    <3>5. StrictlyAbove(e, r) <=> g < h
      BY <3>3 DEF StrictlyAbove, Row, Col
    <3>6. CASE e \in Active(r)
      <4>1. out[r][Target(r)[e]] = Result(r)[e]
        BY <2>1, <3>6 DEF WrittenOver
      <4>2. Target(r)[e] = Slot(g, h, leading)
        BY <2>3, <3>3, <3>6
      <4>3. CASE kernel = "lower"
        <5>1. g < h /\ Result(r)[e] = Zero
          BY <2>3, <3>5, <3>6, <4>3
        <5>2. ~ Kept(g, h)
          BY <3>1, <4>3, <5>1
        <5> QED
          BY <4>1, <4>2, <5>1, <5>2 DEF g, h
      <4>4. CASE kernel = "upper"
        <5>1. Kept(g, h) <=> g <= h
          BY <4>4
        <5>2. Result(r)[e] = IF g <= h THEN Element(g, h) ELSE Zero
          BY <2>3, <3>3, <3>4, <3>6, <4>4
        <5> HIDE DEF Kept
        <5>3. out[r][Slot(g, h, leading)] = IF Kept(g, h) THEN Element(g, h) ELSE Zero
          BY <4>1, <4>2, <5>1, <5>2
        <5> QED
          BY <5>3 DEF g, h, Kept
      <4> QED
        BY <4>3, <4>4
    <3>7. CASE e \notin Active(r)
      <4>1. kernel = "lower" /\ ~ (g < h) /\ shape.m = shape.n
        BY <2>2, <2>3, <3>5, <3>7
      <4>2. Kept(g, h)
        BY <3>1, <4>1
      <4>3. ASSUME NEW d \in Active(r)
            PROVE  Target(r)[d] # Slot(g, h, leading)
        <5>1. d \in 0..(Size(r) - 1)
          BY <2>3
        <5>2. SUFFICES ASSUME Target(r)[d] = Slot(g, h, leading)
                       PROVE  FALSE
          OBVIOUS
        <5>3. i(d, r) + j(d, r) * leading = i(e, r) + j(e, r) * leading
          BY <2>3, <3>3, <5>2
        <5>4. d = e
          BY <2>1, <2>2, <5>1, <5>3, PlacesApart
        <5> QED
          BY <3>7, <5>4
      <4>4. Slot(g, h, leading) \in DOMAIN Base(r)
        BY <2>4, <3>4, <4>1
      <4>5. out[r][Slot(g, h, leading)] = Base(r)[Slot(g, h, leading)]
        BY <2>1, <4>3, <4>4 DEF WrittenOver
      <4>6. Base(r)[Slot(g, h, leading)] = Element(g, h)
        BY <2>4, <3>4, <4>1
      <4> QED
        BY <4>2, <4>5, <4>6 DEF g, h
    <3> QED
      BY <3>6, <3>7
  <2>6. ASSUME NEW offset \in Offsets(shape.n) \ Slots(r)
        PROVE  out[r][offset] = Before(r)[offset]
    <3>1. ASSUME NEW d \in Active(r)
          PROVE  Target(r)[d] # offset
      <4>1. d \in 0..(Size(r) - 1)
        BY <2>3
      <4>2. PICK g \in 0..(shape.n - 1), h \in 0..(shape.n - 1) :
                   Holds(r, g, h) /\ IsCell(d, r, shape.n, g, h)
        BY <2>1, <2>2, <4>1, ElementIsCell
      <4>3. Target(r)[d] = Slot(g, h, leading)
        BY <2>3, <4>2 DEF IsCell
      <4>4. <<g, h>> \in Cells(r)
        BY <4>2
      <4>5. Slot(g, h, leading) \in Slots(r)
        BY <4>4
      <4> QED
        BY <4>3, <4>5
    <3>2. offset \in DOMAIN Base(r)
      BY <2>4
    <3>3. out[r][offset] = Base(r)[offset]
      BY <2>1, <3>1, <3>2 DEF WrittenOver
    <3> QED
      BY <2>4, <3>3
  <2> QED
    BY <2>5, <2>6
<1> QED
  BY <1>1, KernelsInvariant, PTL

\* Every rank's part of the solution is where the distribution of a matrix with the
\* solution's rows puts it, and the rest of its buffer is zero.
THEOREM SolutionLeft == Spec => []SolutionExtracted
<1>1. KernelInv => SolutionExtracted
  <2> DEFINE Solution == (0..(shape.k - 1)) \X (0..(shape.n - 1))
             Cells(r) == {c \in Solution : Holds(r, c[1], c[2])}
             leading == LeadingDimension(shape.k)
             Slots(r) == {Slot(c[1], c[2], leading) : c \in Cells(r)}
             Size(r) == OwnedRows(shape.k, r) * OwnedCols(shape.n, r)
  <2> SUFFICES ASSUME KernelInv, Finished, kernel = "solution", NEW r \in Ranks
               PROVE  /\ \A c \in Cells(r) :
                           out[r][Slot(c[1], c[2], leading)] = Element(c[1], c[2])
                      /\ \A offset \in Offsets(shape.k) \ Slots(r) : out[r][offset] = Zero
    BY DEF SolutionExtracted
  <2>1. Called /\ WrittenOver(out[r], Base(r), Active(r), Target(r), Result(r))
    BY LaunchEnded
  <2>2. ElementCount(r) = Size(r) /\ shape.k \in 1..shape.m
    BY <2>1, Elements
  <2>3. /\ Active(r) = 0..(Size(r) - 1)
        /\ \A e \in Active(r) :
             /\ Target(r)[e] = SolutionAt(e, r, leading)
             /\ Result(r)[e] = Share(r)[SolutionAt(e, r, LeadingDimension(shape.m))]
    BY <2>2 DEF Active, Target, Result
  <2>4. Base(r) = [offset \in Offsets(shape.k) |-> Zero]
    BY DEF Base, Buffer, OutputRows
  <2>5. ASSUME NEW e, NEW g, NEW h, IsCell(e, r, shape.k, g, h)
        PROVE  \A l : SolutionAt(e, r, l) = Slot(g, h, l)
    BY <2>5 DEF IsCell, SolutionAt
  <2>6. ASSUME NEW c \in Cells(r)
        PROVE  out[r][Slot(c[1], c[2], leading)] = Element(c[1], c[2])
    <3> DEFINE g == c[1]
               h == c[2]
    <3>1. g \in 0..(shape.k - 1) /\ h \in 0..(shape.n - 1) /\ Holds(r, g, h)
      OBVIOUS
    <3> HIDE DEF g, h
    <3>2. PICK e \in 0..(Size(r) - 1) : IsCell(e, r, shape.k, g, h)
      BY <2>1, <2>2, <3>1, CellIsElement
    <3>3. Share(r)[Slot(g, h, LeadingDimension(shape.m))] = Element(g, h)
      BY <2>1, <2>2, <3>2, CellInShare
    <3>4. \A l : SolutionAt(e, r, l) = Slot(g, h, l)
      BY <2>5, <3>2
    <3>5. e \in Active(r)
      BY <2>3
    <3>6. Target(r)[e] = Slot(g, h, leading) /\ Result(r)[e] = Element(g, h)
      BY <2>3, <3>3, <3>4, <3>5
    <3>7. out[r][Target(r)[e]] = Result(r)[e]
      BY <2>1, <3>5 DEF WrittenOver
    <3> QED
      BY <3>6, <3>7 DEF g, h
  <2>7. ASSUME NEW offset \in Offsets(shape.k) \ Slots(r)
        PROVE  out[r][offset] = Zero
    <3>1. ASSUME NEW d \in Active(r)
          PROVE  Target(r)[d] # offset
      <4>1. PICK g \in 0..(shape.k - 1), h \in 0..(shape.n - 1) :
                   Holds(r, g, h) /\ IsCell(d, r, shape.k, g, h)
        BY <2>1, <2>2, <2>3, ElementIsCell
      <4>2. Target(r)[d] = Slot(g, h, leading)
        BY <2>3, <2>5, <4>1
      <4>3. <<g, h>> \in Cells(r)
        BY <4>1
      <4>4. Slot(g, h, leading) \in Slots(r)
        BY <4>3
      <4> QED
        BY <4>2, <4>4
    <3>2. out[r][offset] = Base(r)[offset]
      BY <2>1, <2>4, <3>1 DEF WrittenOver
    <3> QED
      BY <2>4, <3>2
  <2> QED
    BY <2>6, <2>7
<1> QED
  BY <1>1, KernelsInvariant, PTL
=============================================================================
