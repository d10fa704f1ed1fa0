------------------------- MODULE BlockCyclic_proofs -------------------------
(***************************************************************************)
(* Local and global indices of a block-cyclic axis are one-to-one and a    *)
(* process owns as many as LocalNumroc says, for every tile size and       *)
(* number of processes.                                                    *)
(*                                                                         *)
(* LocalNumroc adds up tiles with a fold, and the facts about folds are    *)
(* proved by induction over the natural numbers, in the form that speaks   *)
(* of a set.  They serve the other modules of proofs too.                  *)
(***************************************************************************)
EXTENDS BlockCyclic, FiniteSetTheorems, TLAPS

(***************************************************************************)
(* Induction and folds.                                                    *)
(***************************************************************************)

\* A set of numbers with zero and, with each number, the next one, has them all.
LEMMA SetInduction ==
  ASSUME NEW T, 0 \in T, \A n \in Nat : n \in T => n + 1 \in T
  PROVE  Nat \subseteq T
  <1> DEFINE R == {p \in Nat \X Nat : p[1] < p[2]}
             U == Nat \ T
  <1> SUFFICES ASSUME U # {} PROVE FALSE
    OBVIOUS
  <1>1. IsWellFoundedOn(R, Nat)
    BY NatLessThanWellFounded DEF OpToRel
  <1>2. PICK m \in U : \A k \in U : <<k, m>> \notin R
    <2> HIDE DEF R
    <2>1. U \subseteq Nat
      OBVIOUS
    <2> HIDE DEF U
    <2> QED
      BY <1>1, <2>1, WFMin
  <1>3. m - 1 \in Nat /\ m - 1 \in T
    <2>1. m - 1 \in Nat
      OBVIOUS
    <2>2. <<m - 1, m>> \in R
      BY <2>1
    <2> QED
      BY <1>2, <2>1, <2>2
  <1> QED
    BY <1>3

\* What a fold over the subsets of a finite set S is made of: a function F of an
\* element and a value, the value of the empty set, the element to start from.
FoldOver(S, V, base, F, pick) ==
  /\ IsFiniteSet(S)
  /\ base \in V
  /\ F \in [S \X V -> V]
  /\ \A s \in SUBSET S : s # {} => pick[s] \in s

\* it is that fold.
IsFold(it, S, V, base, F, pick) ==
  /\ it \in [SUBSET S -> V]
  /\ \A s \in SUBSET S :
       it[s] = IF s = {} THEN base ELSE F[<<pick[s], it[s \ {pick[s]}]>>]

\* g satisfies its recursion wherever its values are defined.
Recurs(g, S, V, base, F, pick) ==
  /\ g[{}] = base
  /\ \A s \in SUBSET S : s # {} /\ g[s \ {pick[s]}] \in V =>
       g[s] = F[<<pick[s], g[s \ {pick[s]}]>>]

\* The order of the elements makes no difference.
Commutes(S, V, F) ==
  \A x, y \in S, v \in V : F[<<x, F[<<y, v>>]>>] = F[<<y, F[<<x, v>>]>>]

\* Any element can be taken first.
AnyFirst(it, S, F) ==
  \A s \in SUBSET S : \A y \in s : it[s] = F[<<y, it[s \ {y}]>>]

\* A finite set has one element less without one of its elements.
LEMMA OneLess ==
  ASSUME NEW s, IsFiniteSet(s), NEW x \in s
  PROVE  /\ IsFiniteSet(s \ {x})
         /\ Cardinality(s) \in Nat \ {0}
         /\ Cardinality(s \ {x}) = Cardinality(s) - 1
  BY FS_CardinalityType, FS_EmptySet, FS_RemoveElement

\* There is a function that satisfies the recursion of a fold: one that does for
\* sets up to a size can be extended to sets of the next.
LEMMA FoldExists ==
  ASSUME NEW S, NEW V, NEW base, NEW F, NEW pick, FoldOver(S, V, base, F, pick)
  PROVE  \E it : IsFold(it, S, V, base, F, pick)
  <1> USE DEF FoldOver
  <1> DEFINE D(n) == {s \in SUBSET S : Cardinality(s) <= n}
             Rec(it, s) == IF s = {} THEN base ELSE F[<<pick[s], it[s \ {pick[s]}]>>]
             T == {n \in Nat : \E it \in [D(n) -> V] : \A s \in D(n) : it[s] = Rec(it, s)}
  <1>1. \A s \in SUBSET S : IsFiniteSet(s) /\ Cardinality(s) \in Nat
    BY FS_Subset, FS_CardinalityType
  <1>2. 0 \in T
    <2>1. \A s \in D(0) : s = {}
      BY <1>1, FS_EmptySet
    <2> DEFINE it == [s \in D(0) |-> base]
    <2>2. it \in [D(0) -> V] /\ \A s \in D(0) : it[s] = Rec(it, s)
      BY <2>1
    <2> QED
      BY <2>2
  <1>3. ASSUME NEW n \in Nat, n \in T
        PROVE  n + 1 \in T
    <2>1. PICK it \in [D(n) -> V] : \A s \in D(n) : it[s] = Rec(it, s)
      BY <1>3
    <2> DEFINE next == [s \in D(n + 1) |-> Rec(it, s)]
    <2>2. ASSUME NEW s \in D(n + 1), s # {}
          PROVE  /\ s \ {pick[s]} \in D(n)
                 /\ s \ {pick[s]} \in D(n + 1)
                 /\ pick[s] \in S
      <3>1. s \in SUBSET S /\ IsFiniteSet(s) /\ Cardinality(s) <= n + 1
        BY <1>1
      <3>2. pick[s] \in s
        BY <2>2, <3>1
      <3>3. Cardinality(s \ {pick[s]}) = Cardinality(s) - 1 /\ Cardinality(s) \in Nat
        BY <3>1, <3>2, OneLess
      <3>4. s \ {pick[s]} \in SUBSET S
        BY <3>1
      <3> QED
        BY <3>1, <3>2, <3>3, <3>4
    <2>3. next \in [D(n + 1) -> V]
      BY <2>1, <2>2
    <2>4. \A s \in D(n) : s \in D(n + 1) /\ next[s] = it[s]
      <3>1. \A s \in D(n) : s \in D(n + 1)
        BY <1>1
      <3> QED
        BY <3>1, <2>1
    <2>5. \A s \in D(n + 1) : next[s] = Rec(next, s)
      BY <2>2, <2>4
    <2> HIDE DEF next
    <2>6. \E f \in [D(n + 1) -> V] : \A s \in D(n + 1) : f[s] = Rec(f, s)
      BY <2>3, <2>5
    <2>7. n + 1 \in Nat
      OBVIOUS
    <2> QED
      BY <2>6, <2>7, Zenon
  <1>4. Cardinality(S) \in T
    <2> HIDE DEF T
    <2>1. Nat \subseteq T
      BY <1>2, <1>3, SetInduction
    <2> QED
      BY <2>1, FS_CardinalityType
  <1>5. D(Cardinality(S)) = SUBSET S
    BY FS_Subset
  <1> QED
    BY <1>4, <1>5 DEF IsFold

\* Nothing else satisfies the recursion of a fold.
LEMMA FoldUnique ==
  ASSUME NEW S, NEW V, NEW base, NEW F, NEW pick, FoldOver(S, V, base, F, pick),
         NEW it, IsFold(it, S, V, base, F, pick),
         NEW g, Recurs(g, S, V, base, F, pick)
  PROVE  \A s \in SUBSET S : g[s] = it[s]
  <1> USE DEF FoldOver, Recurs
  <1> DEFINE T == {n \in Nat : \A s \in SUBSET S : Cardinality(s) = n => g[s] = it[s]}
  <1>1. \A s \in SUBSET S : IsFiniteSet(s) /\ Cardinality(s) \in Nat
    BY FS_Subset, FS_CardinalityType
  <1>2. 0 \in T
    BY <1>1, FS_EmptySet DEF IsFold
  <1>3. ASSUME NEW n \in Nat, n \in T
        PROVE  n + 1 \in T
    <2> SUFFICES ASSUME NEW s \in SUBSET S, Cardinality(s) = n + 1
                 PROVE  g[s] = it[s]
      OBVIOUS
    <2>1. s # {} /\ pick[s] \in s
      <3>1. Cardinality({}) = 0
        BY FS_EmptySet
      <3>2. Cardinality(s) # 0
        OBVIOUS
      <3>3. s # {}
        BY <3>1, <3>2, Zenon
      <3> QED
        BY <3>3
    <2>2. Cardinality(s \ {pick[s]}) = n /\ s \ {pick[s]} \in SUBSET S
      <3>1. Cardinality(s \ {pick[s]}) = Cardinality(s) - 1
        BY <1>1, <2>1, OneLess
      <3> QED
        BY <3>1
    <2>3. g[s \ {pick[s]}] = it[s \ {pick[s]}]
      BY <1>3, <2>2
    <2> QED
      BY <2>1, <2>2, <2>3 DEF IsFold
  <1>4. Nat \subseteq T
    <2> HIDE DEF T
    <2> QED
      BY <1>2, <1>3, SetInduction
  <1> QED
    BY <1>1, <1>4

\* Where the order makes no difference, any element can be taken first.
LEMMA FoldAnyElement ==
  ASSUME NEW S, NEW V, NEW base, NEW F, NEW pick, FoldOver(S, V, base, F, pick),
         Commutes(S, V, F),
         NEW it, IsFold(it, S, V, base, F, pick)
  PROVE  AnyFirst(it, S, F)
  <1> USE DEF FoldOver, Commutes
  <1> DEFINE Good(s) == \A y \in s : it[s] = F[<<y, it[s \ {y}]>>]
             T == {n \in Nat : \A s \in SUBSET S : Cardinality(s) = n => Good(s)}
  <1>1. \A s \in SUBSET S : IsFiniteSet(s) /\ Cardinality(s) \in Nat
    BY FS_Subset, FS_CardinalityType
  <1>2. 0 \in T
    BY <1>1, FS_EmptySet
  <1>3. ASSUME NEW n \in Nat, n \in T
        PROVE  n + 1 \in T
    <2> SUFFICES ASSUME NEW s \in SUBSET S, Cardinality(s) = n + 1, NEW y \in s
                 PROVE  it[s] = F[<<y, it[s \ {y}]>>]
      OBVIOUS
    <2> DEFINE c == pick[s]
    <2>1. c \in s /\ it[s] = F[<<c, it[s \ {c}]>>]
      BY DEF IsFold
    <2> HIDE DEF c
    <2>2. CASE c = y
      BY <2>1, <2>2
    <2>3. CASE c # y
      <3>1. ASSUME NEW z \in s
            PROVE  s \ {z} \in SUBSET S /\ Cardinality(s \ {z}) = n
        <4>1. Cardinality(s \ {z}) = Cardinality(s) - 1
          BY <1>1, OneLess
        <4> QED
          BY <4>1
      <3>2. \A z \in s : Good(s \ {z})
        BY <1>3, <3>1
      <3>3. it[s \ {c}] = F[<<y, it[(s \ {c}) \ {y}]>>]
        BY <2>1, <2>3, <3>2
      <3>4. it[s \ {y}] = F[<<c, it[(s \ {y}) \ {c}]>>]
        BY <2>1, <2>3, <3>2
      <3>5. (s \ {c}) \ {y} = (s \ {y}) \ {c}
        OBVIOUS
      <3>6. it[(s \ {y}) \ {c}] \in V /\ c \in S /\ y \in S
        BY <2>1 DEF IsFold
      <3> DEFINE v == it[(s \ {y}) \ {c}]
      <3>7. it[s \ {c}] = F[<<y, v>>] /\ it[s \ {y}] = F[<<c, v>>]
        BY <3>3, <3>4, <3>5
      <3>8. F[<<c, F[<<y, v>>]>>] = F[<<y, F[<<c, v>>]>>]
        <4> HIDE DEF v
        <4> QED
          BY <3>6 DEF v
      <3> QED
        BY <2>1, <3>7, <3>8
    <2> QED
      BY <2>2, <2>3
  <1>4. Nat \subseteq T
    <2> HIDE DEF T
    <2> QED
      BY <1>2, <1>3, SetInduction
  <1> QED
    BY <1>1, <1>4 DEF AnyFirst

\* The sums over subsets of D.
IsSum(it, D, f) ==
  /\ it \in [SUBSET D -> Nat]
  /\ it[{}] = 0
  /\ \A s \in SUBSET D : \A y \in s : it[s] = f[y] + it[s \ {y}]

\* FoldFunction with + sums up.
LEMMA SumFold ==
  ASSUME NEW D, IsFiniteSet(D), NEW f \in [D -> Nat]
  PROVE  \E it : IsSum(it, D, f) /\ FoldFunction(+, 0, f) = it[D]
  <1> DEFINE F == [p \in D \X Nat |-> f[p[1]] + p[2]]
             pick == [s \in SUBSET D |-> CHOOSE x \in s : TRUE]
             sum == CHOOSE g : g = [s \in SUBSET D |->
                      IF s = {} THEN 0
                      ELSE f[CHOOSE x \in s : TRUE] + g[s \ {CHOOSE x \in s : TRUE}]]
  <1>1. FoldFunction(+, 0, f) = sum[D]
    <2>1. DOMAIN f = D
      OBVIOUS
    <2> QED
      BY <2>1 DEF FoldFunction, FoldFunctionOnSet, MapThenFoldSet
  <1>2. F \in [D \X Nat -> Nat] /\ \A x \in D, v \in Nat : F[<<x, v>>] = f[x] + v
    OBVIOUS
  <1>3. \A s \in SUBSET D : s # {} => pick[s] \in s
    OBVIOUS
  <1>4. FoldOver(D, Nat, 0, F, pick)
    <2> HIDE DEF F, pick
    <2> QED
      BY <1>2, <1>3 DEF FoldOver
  <1>5. PICK it : IsFold(it, D, Nat, 0, F, pick)
    <2> HIDE DEF F, pick
    <2> QED
      BY <1>4, FoldExists
  <1>6. it \in [SUBSET D -> Nat] /\ it[{}] = 0
    BY <1>5 DEF IsFold
  <1>7. sum = [s \in SUBSET D |->
               IF s = {} THEN 0
               ELSE f[CHOOSE x \in s : TRUE] + sum[s \ {CHOOSE x \in s : TRUE}]]
    <2>1. \A s \in SUBSET D : s # {} => it[s] = f[pick[s]] + it[s \ {pick[s]}]
      <3> HIDE DEF F, pick
      <3> SUFFICES ASSUME NEW s \in SUBSET D, s # {}
                   PROVE  it[s] = f[pick[s]] + it[s \ {pick[s]}]
        OBVIOUS
      <3>1. pick[s] \in D /\ s \ {pick[s]} \in SUBSET D
        BY <1>3
      <3>2. it[s \ {pick[s]}] \in Nat
        BY <1>6, <3>1
      <3> QED
        BY <1>2, <1>5, <3>1, <3>2 DEF IsFold
    <2>2. it = [s \in SUBSET D |->
               IF s = {} THEN 0
               ELSE f[CHOOSE x \in s : TRUE] + it[s \ {CHOOSE x \in s : TRUE}]]
      BY <1>6, <2>1
    <2> QED
      BY <2>2
  <1>8. sum[D] = it[D]
    <2> HIDE DEF F
    <2>1. sum[{}] = 0
      BY <1>7
    <2>2. ASSUME NEW s \in SUBSET D, s # {}, sum[s \ {pick[s]}] \in Nat
          PROVE  sum[s] = F[<<pick[s], sum[s \ {pick[s]}]>>]
      <3>1. sum[s] = f[pick[s]] + sum[s \ {pick[s]}]
        BY <1>7, <2>2
      <3>2. pick[s] \in D
        BY <1>3, <2>2
      <3> HIDE DEF sum, pick
      <3> QED
        BY <1>2, <2>2, <3>1, <3>2
    <2> HIDE DEF sum, pick
    <2>3. Recurs(sum, D, Nat, 0, F, pick)
      BY <2>1, <2>2 DEF Recurs
    <2>4. \A s \in SUBSET D : sum[s] = it[s]
      BY <1>4, <1>5, <2>3, FoldUnique
    <2> QED
      BY <2>4
  <1>9. \A s \in SUBSET D : \A y \in s : it[s] = f[y] + it[s \ {y}]
    <2> HIDE DEF F, pick
    <2>1. Commutes(D, Nat, F)
      <3> SUFFICES ASSUME NEW x \in D, NEW y \in D, NEW v \in Nat
                   PROVE  F[<<x, F[<<y, v>>]>>] = F[<<y, F[<<x, v>>]>>]
        BY DEF Commutes
      <3>1. f[x] \in Nat /\ f[y] \in Nat
        OBVIOUS
      <3>2. F[<<x, v>>] = f[x] + v /\ F[<<y, v>>] = f[y] + v
        BY <1>2
      <3>3. f[x] + v \in Nat /\ f[y] + v \in Nat
        BY <3>1
      <3>4. /\ F[<<x, f[y] + v>>] = f[x] + (f[y] + v)
            /\ F[<<y, f[x] + v>>] = f[y] + (f[x] + v)
        BY <1>2, <3>3
      <3> QED
        BY <3>1, <3>2, <3>4
    <2>2. \A s \in SUBSET D : \A y \in s : it[s] = F[<<y, it[s \ {y}]>>]
      BY <1>4, <1>5, <2>1, FoldAnyElement DEF AnyFirst
    <2> SUFFICES ASSUME NEW s \in SUBSET D, NEW y \in s
                 PROVE  it[s] = f[y] + it[s \ {y}]
      OBVIOUS
    <2>3. s \ {y} \in SUBSET D /\ y \in D
      OBVIOUS
    <2>4. it[s \ {y}] \in Nat
      BY <1>6, <2>3
    <2> QED
      BY <1>2, <2>2, <2>3, <2>4
  <1> QED
    <2> HIDE DEF F, pick, sum
    <2> QED
      BY <1>1, <1>6, <1>8, <1>9 DEF IsSum

\* A sum of equal terms.
LEMMA SumConstant ==
  ASSUME NEW D, IsFiniteSet(D), NEW f, NEW it, IsSum(it, D, f),
         NEW b \in Nat, NEW s \in SUBSET D, \A x \in s : f[x] = b
  PROVE  it[s] = Cardinality(s) * b
  <1> DEFINE T == {n \in Nat : \A u \in SUBSET s : Cardinality(u) = n => it[u] = n * b}
  <1>1. \A u \in SUBSET s : IsFiniteSet(u) /\ Cardinality(u) \in Nat /\ u \in SUBSET D
    BY FS_Subset, FS_CardinalityType
  <1>2. 0 \in T
    <2>1. \A u \in SUBSET s : Cardinality(u) = 0 => u = {}
      BY <1>1, FS_EmptySet
    <2>2. it[{}] = 0 * b
      BY DEF IsSum
    <2> QED
      BY <2>1, <2>2
  <1>3. ASSUME NEW n \in Nat, n \in T
        PROVE  n + 1 \in T
    <2> SUFFICES ASSUME NEW u \in SUBSET s, Cardinality(u) = n + 1
                 PROVE  it[u] = (n + 1) * b
      OBVIOUS
    <2>1. PICK y \in u : TRUE
      BY FS_EmptySet
    <2>2. Cardinality(u \ {y}) = n
      <3>1. Cardinality(u \ {y}) = Cardinality(u) - 1
        BY <1>1, OneLess
      <3> QED
        BY <3>1
    <2>3. it[u \ {y}] = n * b
      BY <1>3, <2>2
    <2>4. it[u] = b + n * b
      BY <1>1, <2>3 DEF IsSum
    <2>5. (n + 1) * b = b + n * b
      BY SMT
    <2> QED
      BY <2>4, <2>5
  <1>4. Nat \subseteq T
    <2> HIDE DEF T
    <2> QED
      BY <1>2, <1>3, SetInduction
  <1> QED
    BY <1>1, <1>4

(***************************************************************************)
(* Quotients and remainders, local and global indices.                     *)
(***************************************************************************)
\* Quotient and remainder rebuild a number.
LEMMA DivMod ==
  ASSUME NEW a \in Nat, NEW b \in Nat \ {0}
  PROVE  /\ a \div b \in Nat
         /\ a % b \in 0..(b - 1)
         /\ a = (a \div b) * b + (a % b)
  BY SMT

\* Multiples of b that differ are at least b apart.
LEMMA Apart ==
  ASSUME NEW b \in Nat \ {0}, NEW q \in Int, NEW p \in Int, q < p
  PROVE  q * b + b <= p * b
  <1>1. PICK k \in Nat : p = q + 1 + k
    <2>1. p - q - 1 \in Nat /\ p = q + 1 + (p - q - 1) OBVIOUS
    <2> QED BY <2>1
  <1>2. p * b = q * b + b + k * b BY <1>1, SMT
  <1>3. k * b >= 0 BY SMT
  <1>4. k * b \in Int /\ q * b \in Int OBVIOUS
  <1> QED BY <1>2, <1>3, <1>4

\* And only they do.
LEMMA Unique ==
  ASSUME NEW b \in Nat \ {0}, NEW q \in Int, NEW p \in Int,
         NEW r \in 0..(b - 1), NEW s \in 0..(b - 1), q * b + r = p * b + s
  PROVE  q = p /\ r = s
  <1>1. q * b \in Int /\ p * b \in Int OBVIOUS
  <1>2. ~(q < p)
    <2> SUFFICES ASSUME q < p PROVE FALSE OBVIOUS
    <2>1. q * b + b <= p * b BY Apart
    <2> QED BY <1>1, <2>1
  <1>3. ~(p < q)
    <2> SUFFICES ASSUME p < q PROVE FALSE OBVIOUS
    <2>1. p * b + b <= q * b BY Apart
    <2> QED BY <1>1, <2>1
  <1>4. q = p BY <1>2, <1>3
  <1> QED BY <1>1, <1>4

\* Quotient and remainder of what is written as a multiple and a rest.
LEMMA Parts ==
  ASSUME NEW b \in Nat \ {0}, NEW q \in Nat, NEW r \in 0..(b - 1)
  PROVE  /\ q * b + r \in Nat
         /\ (q * b + r) \div b = q
         /\ (q * b + r) % b = r
  <1> DEFINE a == q * b + r
  <1>0. a = q * b + r OBVIOUS
  <1>1. a \in Nat
    <2>1. q * b \in Nat BY SMT
    <2> QED BY <2>1
  <1> HIDE DEF a
  <1> DEFINE d == a \div b
             m == a % b
  <1>2. d \in Nat /\ m \in 0..(b - 1) /\ a = d * b + m BY <1>1, DivMod
  <1> HIDE DEF d, m
  <1>3. d * b + m = q * b + r BY <1>0, <1>2
  <1>4. d = q /\ m = r BY <1>2, <1>3, Unique
  <1> QED BY <1>1, <1>4 DEF a, d, m

\* Owner and local index of a global index lead back to it: what the
\* log-determinant kernel reads on the rank it takes for the owner is the
\* element GlobalIndex places there.
THEOREM Placement ==
  ASSUME NEW g \in Nat, NEW block \in Nat \ {0}, NEW count \in Nat \ {0}
  PROVE  /\ Owner(g, block, count) \in 0..(count - 1)
         /\ LocalIndex(g, block, count) \in Nat
         /\ GlobalIndex(LocalIndex(g, block, count), block, count,
                        Owner(g, block, count)) = g
  <1> DEFINE tile == g \div block
             rest == g % block
             turn == tile \div count
             who  == tile % count
  <1>1. tile \in Nat /\ rest \in 0..(block - 1) /\ g = tile * block + rest BY DivMod
  <1> HIDE DEF tile, rest
  <1>2. turn \in Nat /\ who \in 0..(count - 1) /\ tile = turn * count + who
    BY <1>1, DivMod
  <1> HIDE DEF turn, who
  <1>3. /\ turn * block + rest \in Nat
        /\ (turn * block + rest) \div block = turn
        /\ (turn * block + rest) % block = rest
    BY <1>1, <1>2, Parts
  <1>4. GlobalIndex(turn * block + rest, block, count, who) = tile * block + rest
    BY <1>2, <1>3 DEF GlobalIndex
  <1> QED BY <1>1, <1>2, <1>3, <1>4 DEF Owner, LocalIndex, tile, rest, turn, who

\* No two local elements, of one process or of two, stand for the same global
\* index: kernels of different ranks never contribute one element twice, and
\* the blocks of one launch never write one cell.
THEOREM NoElementTwice ==
  ASSUME NEW block \in Nat \ {0}, NEW count \in Nat \ {0},
         NEW p \in 0..(count - 1), NEW q \in 0..(count - 1),
         NEW i \in Nat, NEW j \in Nat,
         GlobalIndex(i, block, count, p) = GlobalIndex(j, block, count, q)
  PROVE  p = q /\ i = j
  <1> DEFINE ti == i \div block
             ri == i % block
             tj == j \div block
             rj == j % block
  <1>1. ti \in Nat /\ ri \in 0..(block - 1) /\ i = ti * block + ri BY DivMod
  <1>2. tj \in Nat /\ rj \in 0..(block - 1) /\ j = tj * block + rj BY DivMod
  <1>3. (ti * count + p) * block + ri = (tj * count + q) * block + rj BY DEF GlobalIndex
  <1> HIDE DEF ti, ri, tj, rj
  <1>4. ti * count + p \in Int /\ tj * count + q \in Int BY <1>1, <1>2
  <1>5. ti * count + p = tj * count + q /\ ri = rj BY <1>1, <1>2, <1>3, <1>4, Unique
  <1>6. ti = tj /\ p = q BY <1>1, <1>2, <1>5, Unique
  <1> QED BY <1>1, <1>2, <1>5, <1>6

\* Local indices are kept in the order of the global ones, so that the rows of
\* a smaller matrix on the same process (R beside Q, the solution of gels
\* beside its right-hand side) are the first rows of the larger one.
THEOREM OrderKept ==
  ASSUME NEW block \in Nat \ {0}, NEW count \in Nat \ {0}, NEW p \in 0..(count - 1),
         NEW i \in Nat, NEW j \in Nat, i < j
  PROVE  GlobalIndex(i, block, count, p) < GlobalIndex(j, block, count, p)
  <1> DEFINE ti == i \div block
             ri == i % block
             tj == j \div block
             rj == j % block
             gi == ti * count + p
             gj == tj * count + p
  <1>1. ti \in Nat /\ ri \in 0..(block - 1) /\ i = ti * block + ri BY DivMod
  <1>2. tj \in Nat /\ rj \in 0..(block - 1) /\ j = tj * block + rj BY DivMod
  <1>3. /\ GlobalIndex(i, block, count, p) = gi * block + ri
        /\ GlobalIndex(j, block, count, p) = gj * block + rj
    BY DEF GlobalIndex
  <1> HIDE DEF ti, ri, tj, rj
  <1>4. ti * count \in Int /\ tj * count \in Int BY <1>1, <1>2
  <1>5. ti <= tj
    <2> SUFFICES ASSUME tj < ti PROVE FALSE BY <1>1, <1>2
    <2>1. tj * block + block <= ti * block BY <1>1, <1>2, Apart
    <2>2. tj * block \in Int /\ ti * block \in Int BY <1>1, <1>2
    <2> QED BY <1>1, <1>2, <2>1, <2>2
  <1>6. CASE ti = tj
    <2>1. gi * block \in Int /\ gi = gj BY <1>1, <1>6
    <2>2. ti * block \in Int BY <1>1
    <2>3. ri < rj BY <1>1, <1>2, <1>6, <2>2
    <2> HIDE DEF gi, gj
    <2> QED BY <1>1, <1>2, <1>3, <2>1, <2>3
  <1>7. CASE ti < tj
    <2>1. ti * count + count <= tj * count BY <1>1, <1>2, <1>7, Apart
    <2>2. gi \in Int /\ gj \in Int /\ gi < gj BY <1>4, <2>1
    <2> HIDE DEF gi, gj
    <2>3. gi * block + block <= gj * block BY <2>2, Apart
    <2>4. gi * block \in Int /\ gj * block \in Int BY <2>2
    <2> QED BY <1>1, <1>2, <1>3, <2>3, <2>4
  <1> QED BY <1>1, <1>2, <1>5, <1>6, <1>7

(***************************************************************************)
(* What a process owns.                                                    *)
(***************************************************************************)
\* The tiles before tile t that are dealt to process p.
TilesBefore(t, p, count) == {s \in 0..(t - 1) : s % count = p}

\* A last tile that is not full counts as one.
LEMMA TileCountOf ==
  ASSUME NEW n \in Nat, NEW b \in Nat \ {0}
  PROVE  TileCount(n, b) = IF n % b = 0 THEN n \div b ELSE (n \div b) + 1
  <1> DEFINE t == n \div b
             r == n % b
  <1>1. t \in Nat /\ r \in 0..(b - 1) /\ n = t * b + r
    BY DivMod
  <1> HIDE DEF t, r
  <1>2. t * b \in Nat /\ (t + 1) * b = t * b + b
    BY <1>1, SMT
  <1>3. CASE r = 0
    <2>1. n + b - 1 = t * b + (b - 1) /\ b - 1 \in 0..(b - 1)
      BY <1>1, <1>2, <1>3
    <2>2. (t * b + (b - 1)) \div b = t
      BY <1>1, <2>1, Parts
    <2> QED
      BY <1>3, <2>1, <2>2 DEF TileCount, t, r
  <1>4. CASE r # 0
    <2>1. n + b - 1 = (t + 1) * b + (r - 1) /\ r - 1 \in 0..(b - 1) /\ t + 1 \in Nat
      BY <1>1, <1>2, <1>4
    <2>2. ((t + 1) * b + (r - 1)) \div b = t + 1
      BY <2>1, Parts
    <2> QED
      BY <1>4, <2>1, <2>2 DEF TileCount, t, r
  <1> QED
    BY <1>3, <1>4

\* They can be counted one by one.
LEMMA TilesBeforeStep ==
  ASSUME NEW t \in Nat, NEW p, NEW count \in Nat \ {0}
  PROVE  /\ IsFiniteSet(TilesBefore(t, p, count))
         /\ Cardinality(TilesBefore(t, p, count)) \in Nat
         /\ TilesBefore(0, p, count) = {}
         /\ Cardinality(TilesBefore(t + 1, p, count))
              = Cardinality(TilesBefore(t, p, count)) + (IF t % count = p THEN 1 ELSE 0)
  <1>1. IsFiniteSet(0..(t - 1))
    BY FS_Interval
  <1>2. TilesBefore(t, p, count) \in SUBSET (0..(t - 1))
    BY DEF TilesBefore
  <1>3. IsFiniteSet(TilesBefore(t, p, count)) /\ Cardinality(TilesBefore(t, p, count)) \in Nat
    BY <1>1, <1>2, FS_Subset, FS_CardinalityType
  <1>4. TilesBefore(0, p, count) = {}
    BY DEF TilesBefore
  <1>5. t \notin TilesBefore(t, p, count)
    BY DEF TilesBefore
  <1>6. CASE t % count = p
    <2>1. TilesBefore(t + 1, p, count) = TilesBefore(t, p, count) \cup {t}
      BY <1>6 DEF TilesBefore
    <2> QED
      BY <1>3, <1>4, <1>5, <1>6, <2>1, FS_AddElement
  <1>7. CASE t % count # p
    <2>1. TilesBefore(t + 1, p, count) = TilesBefore(t, p, count)
      BY <1>7 DEF TilesBefore
    <2> QED
      BY <1>3, <1>4, <1>7, <2>1
  <1> QED
    BY <1>6, <1>7

\* LocalNumroc adds up the whole tiles of a process and, if it is dealt to it, the
\* rest of the axis.
LEMMA LocalNumrocOf ==
  ASSUME NEW n \in Nat, NEW b \in Nat \ {0}, NEW p, NEW count \in Nat \ {0}
  PROVE  LocalNumroc(n, b, p, count)
           = Cardinality(TilesBefore(n \div b, p, count)) * b
             + (IF (n \div b) % count = p THEN n % b ELSE 0)
  <1> DEFINE t == n \div b
             r == n % b
             mine == {s \in 0..(TileCount(n, b) - 1) : s % count = p}
             f == [s \in mine |-> IF (s + 1) * b <= n THEN b ELSE n - s * b]
             whole == TilesBefore(t, p, count)
  <1>0. t \in Nat /\ r \in 0..(b - 1) /\ n = t * b + r
    BY DivMod
  <1>1. t \in Nat /\ r \in 0..(b - 1) /\ n = t * b + r /\ t * b \in Nat
    <2> HIDE DEF t, r
    <2> QED
      BY <1>0, SMT
  <1>2. TileCount(n, b) = IF r = 0 THEN t ELSE t + 1
    BY TileCountOf
  <1>3. LocalNumroc(n, b, p, count) = FoldFunction(+, 0, f)
    BY DEF LocalNumroc
  <1> HIDE DEF t, r
  <1>4. whole \subseteq mine /\ mine \ {t} = whole
    BY <1>1, <1>2 DEF TilesBefore
  <1>5. t \in mine <=> r # 0 /\ t % count = p
    BY <1>1, <1>2
  <1>6. \A s \in whole : f[s] = b
    <2> SUFFICES ASSUME NEW s \in whole
                 PROVE  f[s] = b
      OBVIOUS
    <2>1. s \in 0..(t - 1) /\ s \in mine
      BY <1>4 DEF TilesBefore
    <2>2. s * b + b <= t * b /\ (s + 1) * b = s * b + b
      <3>1. s \in Int /\ t \in Int /\ s < t
        BY <1>1, <2>1
      <3>2. s * b + b <= t * b
        BY <3>1, Apart
      <3>3. (s + 1) * b = s * b + b
        BY <3>1, SMT
      <3> QED
        BY <3>2, <3>3
    <2>3. s * b \in Int
      BY <2>1
    <2>4. (s + 1) * b <= n
      BY <1>1, <2>2, <2>3
    <2> QED
      BY <2>1, <2>4
  <1>7. t \in mine => f[t] = r
    <2>1. (t + 1) * b = t * b + b
      BY <1>1, SMT
    <2>2. ~((t + 1) * b <= n) /\ n - t * b = r
      BY <1>1, <2>1
    <2> QED
      BY <2>2
  <1>8. IsFiniteSet(mine)
    <2>0. TileCount(n, b) - 1 \in Int
      BY <1>1, <1>2
    <2>1. IsFiniteSet(0..(TileCount(n, b) - 1))
      BY <2>0, FS_Interval
    <2> QED
      BY <2>1, FS_Subset
  <1>9. f \in [mine -> Nat]
    <2>1. \A s \in mine : s \in whole \/ s = t
      BY <1>4
    <2>2. \A s \in mine : f[s] \in Nat
      <3> HIDE DEF f, mine, whole
      <3> QED
        BY <1>1, <1>6, <1>7, <2>1
    <2>3. DOMAIN f = mine /\ f = [s \in mine |-> f[s]]
      OBVIOUS
    <2> HIDE DEF f
    <2> QED
      BY <2>2, <2>3
  <1>10. PICK it : IsSum(it, mine, f) /\ FoldFunction(+, 0, f) = it[mine]
    <2> HIDE DEF f, mine
    <2> QED
      BY <1>8, <1>9, SumFold
  <1>15. IsSum(it, mine, f) /\ LocalNumroc(n, b, p, count) = it[mine]
    BY <1>3, <1>10, Zenon
  <1>11. it[whole] = Cardinality(whole) * b
    <2>1. whole \in SUBSET mine /\ b \in Nat
      BY <1>4
    <2> HIDE DEF f, mine, whole
    <2> QED
      BY <1>6, <1>8, <1>15, <2>1, SumConstant
  <1>12. Cardinality(whole) * b \in Nat
    BY <1>1, TilesBeforeStep
  <1>13. CASE t \in mine
    <2> HIDE DEF f, mine, whole
    <2>1. it[mine] = f[t] + it[mine \ {t}]
      BY <1>15, <1>13 DEF IsSum
    <2>2. it[mine] = r + Cardinality(whole) * b
      BY <1>4, <1>7, <1>11, <1>13, <2>1
    <2>3. LocalNumroc(n, b, p, count)
            = Cardinality(whole) * b + (IF t % count = p THEN r ELSE 0)
      <3> DEFINE k == Cardinality(whole) * b
      <3>1. k \in Nat /\ it[mine] = r + k
        BY <1>12, <2>2
      <3> HIDE DEF k
      <3>2. LocalNumroc(n, b, p, count) = k + r
        BY <1>1, <1>15, <3>1
      <3> QED
        BY <1>5, <1>13, <3>2 DEF k
    <2> QED
      BY <2>3 DEF t, r, whole
  <1>14. CASE t \notin mine
    <2> HIDE DEF f, mine
    <2>1. mine = whole
      BY <1>4, <1>14
    <2>2. it[mine] = Cardinality(whole) * b
      BY <1>11, <2>1
    <2>3. t % count = p => r = 0
      BY <1>5, <1>14
    <2>4. LocalNumroc(n, b, p, count)
            = Cardinality(whole) * b + (IF t % count = p THEN r ELSE 0)
      <3> DEFINE k == Cardinality(whole) * b
      <3>1. k \in Nat /\ it[mine] = k
        BY <1>12, <2>2
      <3> HIDE DEF k
      <3> QED
        BY <1>15, <2>3, <3>1 DEF k
    <2> QED
      BY <2>4 DEF t, r, whole
  <1> QED
    BY <1>13, <1>14

\* Global indices lead back to the process and the local index they come from.
LEMMA IndexBack ==
  ASSUME NEW b \in Nat \ {0}, NEW count \in Nat \ {0}, NEW p \in 0..(count - 1),
         NEW i \in Nat
  PROVE  /\ GlobalIndex(i, b, count, p) \in Nat
         /\ Owner(GlobalIndex(i, b, count, p), b, count) = p
         /\ LocalIndex(GlobalIndex(i, b, count, p), b, count) = i
  <1> DEFINE t == i \div b
             r == i % b
  <1>1. t \in Nat /\ r \in 0..(b - 1) /\ i = t * b + r
    BY DivMod
  <1>2. GlobalIndex(i, b, count, p) = (t * count + p) * b + r
    BY DEF GlobalIndex
  <1> HIDE DEF t, r
  <1>3. /\ t * count + p \in Nat
        /\ (t * count + p) \div count = t
        /\ (t * count + p) % count = p
    BY <1>1, Parts
  <1> DEFINE u == t * count + p
  <1>4. u \in Nat /\ u \div count = t /\ u % count = p
    BY <1>3
  <1>5. GlobalIndex(i, b, count, p) = u * b + r
    BY <1>2
  <1> HIDE DEF u
  <1>6. u * b + r \in Nat /\ (u * b + r) \div b = u /\ (u * b + r) % b = r
    BY <1>1, <1>4, Parts
  <1> QED
    BY <1>1, <1>4, <1>5, <1>6 DEF Owner, LocalIndex

\* One more row: the share of its owner, and no other, grows by one.
LEMMA LocalNumrocStep ==
  ASSUME NEW n \in Nat, NEW b \in Nat \ {0}, NEW p, NEW count \in Nat \ {0}
  PROVE  /\ LocalNumroc(n, b, p, count) \in Nat
         /\ LocalNumroc(0, b, p, count) = 0
         /\ LocalNumroc(n + 1, b, p, count)
              = LocalNumroc(n, b, p, count) + (IF Owner(n, b, count) = p THEN 1 ELSE 0)
  <1> DEFINE t == n \div b
             r == n % b
             K(s) == Cardinality(TilesBefore(s, p, count))
             Rest(s, q) == IF s % count = p THEN q ELSE 0
  <1>1. t \in Nat /\ r \in 0..(b - 1) /\ n = t * b + r
    BY DivMod
  <1>2. LocalNumroc(n, b, p, count) = K(t) * b + Rest(t, r)
    BY LocalNumrocOf
  <1>3. LocalNumroc(0, b, p, count) = 0
    <2>1. 0 \div b = 0 /\ 0 % b = 0
      <3>1. 0 * b + 0 = 0
        OBVIOUS
      <3>2. (0 * b + 0) \div b = 0 /\ (0 * b + 0) % b = 0
        BY Parts
      <3> QED
        BY <3>1, <3>2
    <2>2. K(0) = 0
      BY TilesBeforeStep, FS_EmptySet
    <2>3. LocalNumroc(0, b, p, count) = K(0 \div b) * b + Rest(0 \div b, 0 % b)
      BY LocalNumrocOf
    <2> HIDE DEF K
    <2>4. LocalNumroc(0, b, p, count) = K(0) * b + Rest(0, 0)
      BY <2>1, <2>3
    <2> QED
      BY <2>2, <2>4
  <1>4. LocalNumroc(n + 1, b, p, count)
          = K((n + 1) \div b) * b + Rest((n + 1) \div b, (n + 1) % b)
    BY LocalNumrocOf
  <1>5. Owner(n, b, count) = t % count
    BY DEF Owner
  <1> HIDE DEF t, r
  <1>6. /\ K(t) \in Nat
        /\ K(t + 1) = K(t) + (IF t % count = p THEN 1 ELSE 0)
    BY <1>1, TilesBeforeStep
  <1> HIDE DEF K
  <1>7. K(t) * b \in Nat /\ (K(t) + 1) * b = K(t) * b + b
    BY <1>6, SMTT(60)
  <1>8. CASE r + 1 < b
    <2>1. n + 1 = t * b + (r + 1) /\ r + 1 \in 0..(b - 1)
      <3>1. t * b \in Nat
        BY <1>1, SMT
      <3> QED
        BY <1>1, <1>8, <3>1
    <2>2. (n + 1) \div b = t /\ (n + 1) % b = r + 1
      BY <1>1, <2>1, Parts
    <2>3. LocalNumroc(n + 1, b, p, count) = K(t) * b + Rest(t, r + 1)
      BY <1>4, <2>2
    <2> QED
      BY <1>1, <1>2, <1>3, <1>5, <1>7, <2>3
  <1>9. CASE ~(r + 1 < b)
    <2>1. n + 1 = (t + 1) * b + 0 /\ 0 \in 0..(b - 1) /\ t + 1 \in Nat /\ r + 1 = b
      <3>1. t * b \in Nat /\ (t + 1) * b = t * b + b
        BY <1>1, SMT
      <3> QED
        BY <1>1, <1>9, <3>1
    <2>2. (n + 1) \div b = t + 1 /\ (n + 1) % b = 0
      <3>1. ((t + 1) * b + 0) \div b = t + 1 /\ ((t + 1) * b + 0) % b = 0
        BY <2>1, Parts, ZenonT(60)
      <3> QED
        BY <2>1, <3>1
    <2>3. LocalNumroc(n + 1, b, p, count) = K(t + 1) * b + Rest(t + 1, 0)
      BY <1>4, <2>2
    <2>4. LocalNumroc(n + 1, b, p, count) = K(t) * b + Rest(t, b)
      BY <1>6, <1>7, <2>3
    <2> QED
      BY <1>1, <1>2, <1>3, <1>5, <1>7, <2>1, <2>4
  <1> QED
    BY <1>8, <1>9

\* LocalNumroc counts what is dealt to a process: the local indices below it are
\* those whose global index is an index of the matrix.
THEOREM LocalNumrocCounts ==
  ASSUME NEW n \in Nat, NEW b \in Nat \ {0}, NEW count \in Nat \ {0},
         NEW p \in 0..(count - 1)
  PROVE  /\ LocalNumroc(n, b, p, count) \in Nat
         /\ \A i \in Nat : i < LocalNumroc(n, b, p, count)
                             <=> GlobalIndex(i, b, count, p) < n
  <1> DEFINE L(m) == LocalNumroc(m, b, p, count)
             G(i) == GlobalIndex(i, b, count, p)
             T == {m \in Nat : \A i \in Nat : i < L(m) <=> G(i) < m}
  <1>1. \A m \in Nat : /\ L(m) \in Nat
                       /\ L(m + 1) = L(m) + (IF Owner(m, b, count) = p THEN 1 ELSE 0)
    BY LocalNumrocStep
  <1>2. L(0) = 0
    BY LocalNumrocStep
  <1>3. \A i \in Nat : G(i) \in Nat
    BY IndexBack
  <1>4. \A i, j \in Nat : i < j => G(i) < G(j)
    BY OrderKept
  <1> HIDE DEF L, G
  <1>5. 0 \in T
    BY <1>2, <1>3
  <1>6. ASSUME NEW m \in Nat, m \in T
        PROVE  m + 1 \in T
    <2> SUFFICES ASSUME NEW i \in Nat
                 PROVE  i < L(m + 1) <=> G(i) < m + 1
      OBVIOUS
    <2>1. \A j \in Nat : j < L(m) <=> G(j) < m
      BY <1>6
    <2>2. CASE Owner(m, b, count) # p
      <3>1. G(i) # m
        <4> SUFFICES ASSUME G(i) = m PROVE FALSE
          OBVIOUS
        <4>1. Owner(GlobalIndex(i, b, count, p), b, count) = p
          BY IndexBack
        <4> QED
          BY <2>2, <4>1 DEF G
      <3>2. L(m + 1) = L(m)
        BY <1>1, <2>2
      <3>3. G(i) < m + 1 <=> G(i) < m
        BY <1>3, <3>1
      <3> QED
        BY <2>1, <3>2, <3>3
    <2>3. CASE Owner(m, b, count) = p
      <3> DEFINE l == LocalIndex(m, b, count)
      <3>1. l \in Nat /\ G(l) = m
        BY <2>3, Placement DEF G
      <3> HIDE DEF l
      <3>2. L(m) = l
        <4>1. ~(l < L(m))
          BY <1>3, <2>1, <3>1
        <4>2. ~(L(m) < l)
          <5> SUFFICES ASSUME L(m) < l PROVE FALSE
            OBVIOUS
          <5>1. L(m) \in Nat /\ G(L(m)) < m
            BY <1>1, <1>4, <3>1
          <5> QED
            BY <1>1, <2>1, <5>1
        <4> QED
          BY <1>1, <3>1, <4>1, <4>2
      <3>3. L(m + 1) = l + 1
        BY <1>1, <2>3, <3>2
      <3>4. CASE i <= l
        <4>1. G(i) <= m
          BY <1>3, <1>4, <3>1, <3>4
        <4> QED
          BY <1>3, <3>1, <3>3, <3>4, <4>1
      <3>5. CASE l < i
        <4>1. m < G(i)
          BY <1>4, <3>1, <3>5
        <4> QED
          BY <1>3, <3>1, <3>3, <3>5, <4>1
      <3> QED
        BY <3>1, <3>4, <3>5
    <2> QED
      BY <2>2, <2>3
  <1>7. Nat \subseteq T
    <2> HIDE DEF T
    <2> QED
      BY <1>5, <1>6, SetInduction
  <1> QED
    BY <1>1, <1>7 DEF L, G

\* A padded shard is a whole number of tiles and no shorter than the shard.
LEMMA PaddedShard ==
  ASSUME NEW q \in Nat, NEW tile \in Nat \ {0}
  PROVE  \E c \in Nat : q + CalculateAxisPadding(q, tile) = c * tile /\ q <= c * tile
  <1> DEFINE d == (-q) \div tile
             m == (-q) % tile
  <1>1. d \in Int /\ m \in 0..(tile - 1) /\ -q = d * tile + m
    BY SMT
  <1> HIDE DEF d, m
  <1>2. q + m = (-d) * tile
    <2>1. (-d) * tile = -(d * tile) /\ d * tile \in Int
      BY <1>1, SMT
    <2> QED BY <1>1, <2>1
  <1>3. -d \in Nat
    <2> SUFFICES ASSUME -d < 0 PROVE FALSE
      BY <1>1
    <2>1. (-d) * tile + tile <= 0 * tile
      BY <1>1, Apart
    <2>2. (-d) * tile \in Int
      BY <1>1
    <2> QED BY <1>1, <1>2, <2>1, <2>2
  <1>4. q <= (-d) * tile
    BY <1>1, <1>2
  <1> QED BY <1>2, <1>3, <1>4 DEF CalculateAxisPadding, m

\* Uneven block-cyclic ownership fits evenly padded shards: wherever the
\* distribution puts an element of the axis, its place in the owner's storage is
\* inside the shard JAX pads to the tile, for every axis that divides among the
\* processes and every tile size.
THEOREM ShareFits ==
  ASSUME NEW count \in Nat \ {0}, NEW block \in Nat \ {0}, NEW n \in Nat,
         n % count = 0, NEW g \in 0..(n - 1)
  PROVE  LocalIndex(g, block, count) < PaddedAxis(n, count, block)
  <1>0. g \in Nat /\ g < n
    OBVIOUS
  <1> DEFINE q == n \div count
  <1>1. q \in Nat /\ n = q * count
    BY DivMod
  <1> HIDE DEF q
  <1>2. PICK c \in Nat : q + CalculateAxisPadding(q, block) = c * block /\ q <= c * block
    BY <1>1, PaddedShard
  <1> DEFINE tile == g \div block
             rest == g % block
             turn == tile \div count
             who  == tile % count
  <1>3. tile \in Nat /\ rest \in 0..(block - 1) /\ g = tile * block + rest
    BY <1>0, DivMod
  <1> HIDE DEF tile, rest
  <1>4. turn \in Nat /\ who \in 0..(count - 1) /\ tile = turn * count + who
    BY <1>3, DivMod
  <1> HIDE DEF turn, who
  <1>5. turn < c
    <2> SUFFICES ASSUME c <= turn PROVE FALSE
      BY <1>4
    <2>1. c * count <= turn * count
      BY <1>4, SMT
    <2>2. c * count \in Nat /\ turn * count \in Nat
      BY <1>4, SMT
    <2>3. c * count <= tile
      BY <1>4, <2>1, <2>2
    <2>4. (c * count) * block <= tile * block
      BY <1>3, <2>2, <2>3, SMT
    <2>5. (c * count) * block = (c * block) * count
      BY SMT
    <2>6. q * count <= (c * block) * count
      BY <1>1, <1>2, SMT
    <2>7. tile * block \in Nat /\ (c * block) * count \in Nat /\ q * count \in Nat
      BY <1>1, <1>3, SMT
    <2>8. n <= g
      BY <1>1, <1>3, <2>2, <2>4, <2>5, <2>6, <2>7
    <2> QED BY <1>0, <2>8
  <1>6. turn * block + block <= c * block
    BY <1>4, <1>5, Apart
  <1>7. turn * block \in Int /\ c * block \in Int
    BY <1>4
  <1>8. LocalIndex(g, block, count) = turn * block + rest
    BY DEF LocalIndex, tile, rest, turn
  <1>9. PaddedAxis(n, count, block) = c * block
    BY <1>2 DEF PaddedAxis, q
  <1> QED BY <1>3, <1>6, <1>7, <1>8, <1>9

\* The same of everything a process owns: there is room for LocalNumroc rows of a
\* matrix in the shards of one as tall, or taller, that divides evenly.
THEOREM OwnedFits ==
  ASSUME NEW count \in Nat \ {0}, NEW block \in Nat \ {0}, NEW held \in Nat,
         held % count = 0, NEW n \in 0..held, NEW p \in 0..(count - 1)
  PROVE  LocalNumroc(n, block, p, count) <= PaddedAxis(held, count, block)
  <1> DEFINE L == LocalNumroc(n, block, p, count)
  <1>1. L \in Nat /\ \A i \in Nat : i < L => GlobalIndex(i, block, count, p) < n
    BY LocalNumrocCounts
  <1>2. PaddedAxis(held, count, block) \in Nat
    <2> DEFINE q == held \div count
    <2>1. q \in Nat
      BY DivMod
    <2> HIDE DEF q
    <2>2. PICK c \in Nat : q + CalculateAxisPadding(q, block) = c * block
      BY <2>1, PaddedShard
    <2>3. c * block \in Nat
      BY SMT
    <2> QED
      BY <2>2, <2>3 DEF PaddedAxis, q
  <1>3. CASE L = 0
    BY <1>2, <1>3
  <1>4. CASE L # 0
    <2> DEFINE g == GlobalIndex(L - 1, block, count, p)
    <2>1. L - 1 \in Nat
      BY <1>1, <1>4
    <2>2. g \in Nat /\ LocalIndex(g, block, count) = L - 1
      BY <2>1, IndexBack
    <2>3. g < n
      BY <1>1, <2>1
    <2> HIDE DEF g
    <2>4. g \in 0..(held - 1)
      BY <2>2, <2>3
    <2>5. LocalIndex(g, block, count) < PaddedAxis(held, count, block)
      BY <2>4, ShareFits
    <2> QED
      BY <1>1, <1>2, <2>2, <2>5
  <1> QED
    BY <1>3, <1>4

\* The global indices of a process's local ones are those dealt to it.
ExactlyDealt(n, b, p, count) ==
  {GlobalIndex(i, b, count, p) : i \in 0..(LocalNumroc(n, b, p, count) - 1)}
    = {g \in 0..(n - 1) : Owner(g, b, count) = p}

\* So they are, for every extent, tile size and number of processes.
THEOREM OwnedAreDealt ==
  ASSUME NEW n \in Nat, NEW b \in Nat \ {0}, NEW count \in Nat \ {0},
         NEW p \in 0..(count - 1)
  PROVE  ExactlyDealt(n, b, p, count)
  <1> DEFINE L == LocalNumroc(n, b, p, count)
             G(i) == GlobalIndex(i, b, count, p)
  <1>1. L \in Nat /\ \A i \in Nat : i < L <=> G(i) < n
    BY LocalNumrocCounts
  <1>2. \A i \in Nat : G(i) \in Nat /\ Owner(G(i), b, count) = p
    BY IndexBack
  <1>3. \A g \in Nat : Owner(g, b, count) = p =>
          LocalIndex(g, b, count) \in Nat /\ G(LocalIndex(g, b, count)) = g
    BY Placement
  <1> HIDE DEF L, G
  <1>4. ASSUME NEW i \in 0..(L - 1)
        PROVE  G(i) \in 0..(n - 1) /\ Owner(G(i), b, count) = p
    BY <1>1, <1>2
  <1>5. ASSUME NEW g \in 0..(n - 1), Owner(g, b, count) = p
        PROVE  \E i \in 0..(L - 1) : G(i) = g
    <2>1. g \in Nat /\ g < n
      OBVIOUS
    <2>2. LocalIndex(g, b, count) \in Nat /\ G(LocalIndex(g, b, count)) = g
      BY <1>3, <1>5, <2>1
    <2>3. LocalIndex(g, b, count) \in 0..(L - 1)
      BY <1>1, <2>1, <2>2
    <2> QED
      BY <2>2, <2>3
  <1>6. {G(i) : i \in 0..(L - 1)} = {g \in 0..(n - 1) : Owner(g, b, count) = p}
    BY <1>4, <1>5
  <1> QED
    BY <1>6 DEF L, G, ExactlyDealt

\* A process owns something of an axis with a tile for everyone.
THEOREM EveryoneOwns ==
  ASSUME NEW n \in Nat \ {0}, NEW b \in Nat \ {0}, NEW count \in Nat \ {0},
         NEW p \in 0..(count - 1), TileCount(n, b) >= count
  PROVE  LocalNumroc(n, b, p, count) > 0
  <1> DEFINE t == TileCount(n, b)
             d == (n + b - 1) \div b
             m == (n + b - 1) % b
  <1>1. n + b - 1 \in Nat
    OBVIOUS
  <1>2. d \in Nat /\ m \in 0..(b - 1) /\ n + b - 1 = d * b + m
    BY <1>1, DivMod
  <1>3. d >= count
    BY DEF TileCount
  <1> HIDE DEF d, m
  <1>4. p * b + b <= d * b
    BY <1>2, <1>3, Apart
  <1>5. p * b \in Nat /\ d * b \in Nat
    BY <1>2, SMT
  <1>6. p * b < n
    BY <1>2, <1>4, <1>5
  <1>7. GlobalIndex(0, b, count, p) = p * b
    <2>1. 0 * b + 0 = 0 /\ 0 * count + p = p
      OBVIOUS
    <2>2. (0 * b + 0) \div b = 0 /\ (0 * b + 0) % b = 0
      BY Parts
    <2>3. 0 \div b = 0 /\ 0 % b = 0
      BY <2>1, <2>2
    <2> QED
      BY <1>5, <2>1, <2>3 DEF GlobalIndex
  <1> QED
    BY <1>6, <1>7, LocalNumrocCounts
=============================================================================
