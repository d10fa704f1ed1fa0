---------------------------- MODULE LayoutConvert ----------------------------
(***************************************************************************)
(* The in-place change of a local shard's storage order, row major to      *)
(* column major before the redistribution and back after it:               *)
(* memory_redist/layout_convert.cu.cc and its two callers in               *)
(* rectangle_pack.cc.                                                      *)
(*                                                                         *)
(* A conversion is a list of kernel launches on one stream.  A launch runs *)
(* one block per row (or column); the blocks of a launch run concurrently, *)
(* each gathering its line into a slice of the shared scratch and, past    *)
(* __syncthreads, writing the slice back over the line.                    *)
(*                                                                         *)
(* Storage is a flat array whose cells hold the row-major address the      *)
(* element had on entry.  Indices are unsigned machine words; only the row *)
(* shuffle multiplies enough to leave them.                                *)
(***************************************************************************)
EXTENDS Integers, Sequences, FiniteSets

CONSTANTS
  Calls,    \* records rows, cols (of the shard) and scratch (elements)
  Width,    \* how many values a word has: 2^64 in the code
  MaxGridX  \* blocks a launch may have: kMaxGridX, 2^31 - 1, in the code

ASSUME CallsAssumption ==
  \A c \in Calls : c.rows \in Nat \ {0} /\ c.cols \in Nat \ {0} /\ c.scratch \in Nat

\* No side of a shard reaches the square root of the width (2^32): the code does
\* not check it.
ASSUME WidthAssumption ==
  /\ Width \in Nat \ {0}
  /\ \A c \in Calls : \A side \in {c.rows, c.cols} : side * (side + 1) <= Width

ASSUME MaxGridXAssumption == MaxGridX \in Nat \ {0}

VARIABLES
  call,     \* the shard being converted
  way,      \* "there", "back", or how the pair of conversions ended
  at,       \* the launch that is running, 0 before the first
  blocks,   \* block of that launch -> "ready", "gathered" or "done"
  data,     \* the shard's storage
  scratch   \* the scratch allocation

vars == <<call, way, at, blocks, data, scratch>>

Lower(a, b) == IF a <= b THEN a ELSE b
Higher(a, b) == IF a >= b THEN a ELSE b

(***************************************************************************)
(* ExtendedGcd: Euclid's loop with the coefficients of both arguments.     *)
(***************************************************************************)
EuclidStep(s) ==
  IF s.b = 0 THEN s
  ELSE LET q == s.a \div s.b
       IN  [a |-> s.b, b |-> s.a % s.b, x |-> s.lastX - q * s.x, lastX |-> s.x]

\* Mutant: a negative coefficient is not brought into range.
ExtendedGcd_Negative(a, b) ==
  LET run[n \in 0..(b + 1)] ==
        IF n = 0 THEN [a |-> a, b |-> b, x |-> 0, lastX |-> 1]
        ELSE EuclidStep(run[n - 1])
      end == run[b + 1]
  IN  [gcd |-> end.a,
       inverse |-> IF end.a = 1 /\ end.lastX > 0 THEN end.lastX ELSE 0]

ExtendedGcd(a, b) ==
  LET run[n \in 0..(b + 1)] ==
        IF n = 0 THEN [a |-> a, b |-> b, x |-> 0, lastX |-> 1]
        ELSE EuclidStep(run[n - 1])
      end == run[b + 1]
  IN  [gcd |-> end.a,
       inverse |-> IF end.a # 1 THEN 0
                   ELSE IF end.lastX < 0 THEN end.lastX + b
                   ELSE end.lastX]

Gcd(rows, cols) == ExtendedGcd(rows, cols).gcd

\* Shapes that are not coprime use the inverse of the reduced dimensions.
ReducedInverse(rows, cols) ==
  LET g == Gcd(rows, cols)
  IN  ExtendedGcd(rows \div g, cols \div g).inverse

(***************************************************************************)
(* The source line position of each phase.                                 *)
(***************************************************************************)
Word(x) == x % Width

\* Mutant: the product is reduced only once it has been formed.
ShuffleColumn_ReducedLast(row, col, rows, cols) ==
  LET g == Gcd(rows, cols)
      b == cols \div g
      r == Word(col + row * (cols - 1)
                  + (IF row - (col % g) > rows - g THEN rows ELSE 0))
  IN  (Word(ReducedInverse(rows, cols) * (r \div g)) % b) + (r % g) * b

ShuffleColumn(row, col, rows, cols) ==
  LET g == Gcd(rows, cols)
      b == cols \div g
      r == Word(col + row * (cols - 1)
                  + (IF row - (col % g) > rows - g THEN rows ELSE 0))
  IN  (Word(ReducedInverse(rows, cols) * ((r \div g) % b)) % b) + (r % g) * b

PreShuffleRow(row, col, rows, cols) ==
  (row + (col \div (cols \div Gcd(rows, cols)))) % rows

PostShuffleRow(row, col, rows, cols) ==
  ((row * cols) + col - (row \div (rows \div Gcd(rows, cols)))) % rows

(***************************************************************************)
(* Launches: as many lines at a time as have a slice in the scratch and a  *)
(* block in a grid.                                                        *)
(***************************************************************************)
\* Mutant: one line too many.
LineBatch_OneMore(lines, length, size) ==
  Lower(MaxGridX, Lower(lines, (size \div length) + 1))

LineBatch(lines, length, size) ==
  Lower(MaxGridX, Higher(1, Lower(lines, size \div length)))

Pass(phase, lines, length, size) ==
  LET batch == LineBatch(lines, length, size)
  IN  [i \in 1..((lines + batch - 1) \div batch) |->
         [phase |-> phase, first |-> (i - 1) * batch,
          count |-> Lower(batch, lines - (i - 1) * batch), length |-> length]]

\* A single row or column is in both orders at once.
Launches(rows, cols, size) ==
  IF rows = 1 \/ cols = 1 THEN <<>>
  ELSE (IF Gcd(rows, cols) > 1 THEN Pass("pre", cols, rows, size) ELSE <<>>)
       \o Pass("row", rows, cols, size)
       \o Pass("post", cols, rows, size)

\* The way back runs the same launches with the dimensions swapped.
GridRows == IF way = "back" THEN call.cols ELSE call.rows
GridCols == IF way = "back" THEN call.rows ELSE call.cols
Plan == Launches(GridRows, GridCols, call.scratch)

\* Where the k-th element of the line of block b lies, and where it comes from.
Cell(phase, line, k) ==
  IF phase = "row" THEN line * GridCols + k ELSE k * GridCols + line
Source(phase, line, k) ==
  Cell(phase, line,
       CASE phase = "pre"  -> PreShuffleRow(k, line, GridRows, GridCols)
         [] phase = "row"  -> ShuffleColumn(line, k, GridRows, GridCols)
         [] phase = "post" -> PostShuffleRow(k, line, GridRows, GridCols))

\* Mutant: all blocks share one slice.
Slice_Shared(block, length) == 0

\* The scratch slice of a block of a launch.
Slice(block, length) == block * length

-----------------------------------------------------------------------------
Unset == -1

Init ==
  /\ call \in Calls
  /\ way = "there"
  /\ at = 0
  /\ blocks = <<>>
  /\ data = [o \in 0..(call.rows * call.cols - 1) |-> o]
  /\ scratch = [o \in 0..(call.scratch - 1) |-> Unset]

\* Both conversions refuse a scratch shorter than the longest line.
Reject ==
  /\ way = "there" /\ at = 0
  /\ call.scratch < Higher(call.rows, call.cols)
  /\ way' = "rejected"
  /\ UNCHANGED <<call, at, blocks, data, scratch>>

Converting == /\ way \in {"there", "back"}
              /\ call.scratch >= Higher(call.rows, call.cols)
Quiet == \A b \in DOMAIN blocks : blocks[b] = "done"

\* The next launch starts when the stream has finished the one before.
Launch ==
  /\ Converting
  /\ Quiet
  /\ at < Len(Plan)
  /\ at' = at + 1
  /\ blocks' = [b \in 0..(Plan[at + 1].count - 1) |-> "ready"]
  /\ UNCHANGED <<call, way, data, scratch>>

\* A block reads its line, permuted, into its slice.
Gather(b) ==
  /\ Converting
  /\ b \in DOMAIN blocks
  /\ blocks[b] = "ready"
  /\ LET l == Plan[at]
         k == [o \in DOMAIN scratch |-> o - Slice(b, l.length)]
     IN  scratch' = [o \in DOMAIN scratch |->
           IF k[o] \in 0..(l.length - 1)
           THEN data[Source(l.phase, l.first + b, k[o])] ELSE scratch[o]]
  /\ blocks' = [blocks EXCEPT ![b] = "gathered"]
  /\ UNCHANGED <<call, way, at, data>>

\* Past its barrier it writes the slice back over the line.
WriteBack(b) ==
  /\ Converting
  /\ b \in DOMAIN blocks
  /\ blocks[b] = "gathered"
  /\ LET l == Plan[at]
         Peek(k) == LET o == Slice(b, l.length) + k
                    IN  IF o \in DOMAIN scratch THEN scratch[o] ELSE Unset
     IN  data' = [o \in DOMAIN data |->
           IF \E k \in 0..(l.length - 1) : Cell(l.phase, l.first + b, k) = o
           THEN Peek(CHOOSE k \in 0..(l.length - 1) :
                       Cell(l.phase, l.first + b, k) = o)
           ELSE data[o]]
  /\ blocks' = [blocks EXCEPT ![b] = "done"]
  /\ UNCHANGED <<call, way, at, scratch>>

\* A conversion is over; the one back follows (what happens to the shard in
\* between leaves the real entries where they were).
Converted == Converting /\ Quiet /\ at = Len(Plan)

Turn ==
  /\ Converted
  /\ way' = IF way = "there" THEN "back" ELSE "done"
  /\ at' = 0
  /\ blocks' = <<>>
  /\ UNCHANGED <<call, data, scratch>>

Terminated == way \in {"done", "rejected"} /\ UNCHANGED vars

Next == \/ Reject \/ Launch \/ Turn \/ Terminated
        \/ \E b \in DOMAIN blocks : Gather(b) \/ WriteBack(b)

Spec == Init /\ [][Next]_vars

-----------------------------------------------------------------------------
\* The order the conversions go between.
ColumnMajorAddress(o) == (o % call.cols) * call.rows + (o \div call.cols)

\* Every variable holds a value the program can give it.
TypeOK ==
  /\ call \in Calls
  /\ way \in {"there", "back", "done", "rejected"}
  /\ at \in 0..Len(Plan)
  /\ \A b \in DOMAIN blocks : blocks[b] \in {"ready", "gathered", "done"}
  /\ data \in [0..(call.rows * call.cols - 1) -> 0..(call.rows * call.cols - 1)]
  /\ DOMAIN scratch = 0..(call.scratch - 1)

\* After the conversion there, every element is at its column-major address
\* (the layout the cuSOLVERMp descriptors declare), for any shape, coprime or
\* not, and any batching; this is the state the conversion back starts from.
ColumnMajorThere ==
  way = "back" /\ at = 0 =>
    \A o \in DOMAIN data : data[ColumnMajorAddress(o)] = o

\* After both, every element is where the caller had it; so it is after a
\* refusal.
RowMajorRestored ==
  way \in {"done", "rejected"} => \A o \in DOMAIN data : data[o] = o

\* Blocks of one launch work in slices of their own, inside the allocation:
\* no block's gather can fall into a slice another block has yet to write back.
SlicesDisjoint ==
  \A b \in DOMAIN blocks :
    LET l == Plan[at]
    IN  /\ Slice(b, l.length) + l.length <= call.scratch
        /\ \A c \in DOMAIN blocks :
             b < c => Slice(b, l.length) + l.length <= Slice(c, l.length)
=============================================================================
