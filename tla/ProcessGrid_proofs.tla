-------------------------- MODULE ProcessGrid_proofs --------------------------
(***************************************************************************)
(* Proofs about the process grid, for every mesh, sharding, order of       *)
(* devices, tile and matrix size a call may have. The arguments run from   *)
(* arithmetic to the program: products and sums over the axes of a mesh    *)
(* are folds, so induction over the axes gives that partition p is at one  *)
(* mesh position and that its coordinates are those of the shard JAX puts  *)
(* there; slots and partitions are therefore in bijection, and a grid      *)
(* mapping is supported exactly when it puts every rank at its shard.      *)
(* With what BlockCyclic_proofs says of a process's share, that settles    *)
(* every stage of a call: StagesInv is the invariant, and each safety      *)
(* property follows from it.                                               *)
(***************************************************************************)
EXTENDS ProcessGrid, BlockCyclic_proofs, SequenceTheorems

(***************************************************************************)
(* Products and sums over the axes.  FoldLeft takes the last element of    *)
(* an interval first, so that its fold runs through the prefixes of the    *)
(* sequence.                                                               *)
(***************************************************************************)
\* A number of a non-empty set that is no smaller than any other, where there is a bound.
LEMMA Largest ==
  ASSUME NEW n \in Nat, NEW s \in SUBSET (0..n), s # {}
  PROVE  \E x \in s : \A y \in s : x >= y
  <1> DEFINE T == {m \in Nat : m <= n => \A u \in SUBSET (0..m) : u # {} =>
                                 \E x \in u : \A y \in u : x >= y}
  <1>1. 0 \in T
    <2> SUFFICES ASSUME NEW u \in SUBSET (0..0), u # {}
                 PROVE  \E x \in u : \A y \in u : x >= y
      OBVIOUS
    <2>1. PICK x \in u : TRUE
      OBVIOUS
    <2>2. \A y \in u : x >= y
      OBVIOUS
    <2> QED
      BY <2>2
  <1>2. ASSUME NEW m \in Nat, m \in T
        PROVE  m + 1 \in T
    <2> SUFFICES ASSUME m + 1 <= n, NEW u \in SUBSET (0..(m + 1)), u # {}
                 PROVE  \E x \in u : \A y \in u : x >= y
      OBVIOUS
    <2>1. CASE m + 1 \in u
      BY <2>1
    <2>2. CASE m + 1 \notin u
      <3>1. u \in SUBSET (0..m)
        BY <2>2
      <3> QED
        BY <1>2, <3>1
    <2> QED
      BY <2>1, <2>2
  <1>3. Nat \subseteq T
    <2> HIDE DEF T
    <2> QED
      BY <1>1, <1>2, SetInduction
  <1> QED
    BY <1>3

\* A fold that always takes the last element of 1..n first runs through the prefixes.
LEMMA PrefixFold ==
  ASSUME NEW n \in Nat, NEW V, NEW base, NEW F, NEW pick,
         FoldOver(1..n, V, base, F, pick),
         \A s \in SUBSET (1..n) : s # {} => \A y \in s : pick[s] >= y,
         NEW h, Recurs(h, 1..n, V, base, F, pick)
  PROVE  \E g : /\ g \in [0..n -> V]
                /\ g[0] = base
                /\ \A j \in 1..n : g[j] = F[<<j, g[j - 1]>>]
                /\ h[1..n] = g[n]
  <1> DEFINE D == 1..n
  <1>1. /\ FoldOver(D, V, base, F, pick)
        /\ Recurs(h, D, V, base, F, pick)
        /\ \A s \in SUBSET D : s # {} => \A y \in s : pick[s] >= y
    OBVIOUS
  <1> HIDE DEF D
  <1>2. PICK it : IsFold(it, D, V, base, F, pick)
    BY <1>1, FoldExists
  <1>3. \A s \in SUBSET D : h[s] = it[s]
    BY <1>1, <1>2, FoldUnique
  <1>4. /\ it \in [SUBSET D -> V]
        /\ it[{}] = base
        /\ \A s \in SUBSET D : s # {} => it[s] = F[<<pick[s], it[s \ {pick[s]}]>>]
    BY <1>2 DEF IsFold
  <1> DEFINE g == [j \in 0..n |-> it[1..j]]
  <1>5. \A j \in 0..n : 1..j \in SUBSET D
    BY DEF D
  <1>6. g \in [0..n -> V]
    <2>1. \A j \in 0..n : it[1..j] \in V
      BY <1>5, <1>4
    <2> QED
      BY <2>1
  <1>7. g[0] = base
    <2>1. 1..0 = {}
      OBVIOUS
    <2> QED
      BY <1>4, <2>1
  <1>8. ASSUME NEW j \in 1..n
        PROVE  g[j] = F[<<j, g[j - 1]>>]
    <2>1. 1..j \in SUBSET D /\ j \in 1..j /\ 1..j # {}
      <3>1. 1..j \in SUBSET D /\ j \in 1..j
        BY DEF D
      <3> QED
        BY <3>1
    <2>2. pick[1..j] \in 1..j /\ pick[1..j] >= j
      <3>1. pick[1..j] \in 1..j
        BY <1>1, <2>1 DEF FoldOver
      <3> QED
        BY <1>1, <2>1, <3>1
    <2>3. pick[1..j] = j /\ (1..j) \ {j} = 1..(j - 1)
      BY <2>2
    <2>4. it[1..j] = F[<<j, it[1..(j - 1)]>>]
      BY <1>4, <2>1, <2>3
    <2>5. j \in 0..n /\ j - 1 \in 0..n
      OBVIOUS
    <2> QED
      BY <2>4, <2>5
  <1>9. h[1..n] = g[n]
    BY <1>3 DEF D
  <1> HIDE DEF g
  <1> QED
    BY <1>6, <1>7, <1>8, <1>9

\* FoldLeft takes the last element first.
LEMMA LastElement ==
  ASSUME NEW n \in Nat, NEW s \in SUBSET (1..n), s # {}
  PROVE  /\ (CHOOSE x \in s : \A y \in s : x >= y) \in s
         /\ \A y \in s : (CHOOSE x \in s : \A y_1 \in s : x >= y_1) >= y
  <1>1. s \in SUBSET (0..n)
    OBVIOUS
  <1>2. \E x \in s : \A y \in s : x >= y
    BY <1>1, Largest
  <1> QED
    BY <1>2

\* The factors of a product, with their fold.
MultiplyBy(f, n) == [p \in (1..n) \X (Nat \ {0}) |-> p[2] * f[p[1]]]
TakeLast(n) == [s \in SUBSET (1..n) |-> CHOOSE x \in s : \A y \in s : x >= y]

\* Multiplying by them is a fold, and the order of the factors does not matter.
LEMMA MultiplyFold ==
  ASSUME NEW f \in Seq(Nat \ {0})
  PROVE  /\ FoldOver(1..Len(f), Nat \ {0}, 1, MultiplyBy(f, Len(f)), TakeLast(Len(f)))
         /\ Commutes(1..Len(f), Nat \ {0}, MultiplyBy(f, Len(f)))
  <1> DEFINE D == 1..Len(f)
             V == Nat \ {0}
             F == MultiplyBy(f, Len(f))
             pick == TakeLast(Len(f))
  <1>1. Len(f) \in Nat /\ \A x \in D : f[x] \in V
    OBVIOUS
  <1>2. \A x \in D, v \in V : F[<<x, v>>] = v * f[x]
    BY DEF MultiplyBy
  <1>3. \A x \in D, v \in V : v * f[x] \in V
    BY <1>1, SMT
  <1>4. F \in [D \X V -> V]
    <2>1. \A p \in D \X V : p[2] * f[p[1]] \in V
      BY <1>3
    <2> QED
      BY <2>1 DEF MultiplyBy
  <1>5. IsFiniteSet(D)
    BY <1>1, FS_Interval
  <1>6. \A s \in SUBSET D : s # {} => pick[s] \in s
    BY <1>1, LastElement DEF TakeLast
  <1>7. FoldOver(D, V, 1, F, pick)
    <2> HIDE DEF D, F, pick
    <2> QED
      BY <1>4, <1>5, <1>6 DEF FoldOver
  <1>8. Commutes(D, V, F)
    <2> SUFFICES ASSUME NEW x \in D, NEW y \in D, NEW v \in V
                 PROVE  F[<<x, F[<<y, v>>]>>] = F[<<y, F[<<x, v>>]>>]
      BY DEF Commutes
    <2>1. v * f[y] \in V /\ v * f[x] \in V
      BY <1>3
    <2>2. F[<<y, v>>] = v * f[y] /\ F[<<x, v>>] = v * f[x]
      BY <1>2
    <2>3. F[<<x, v * f[y]>>] = (v * f[y]) * f[x] /\ F[<<y, v * f[x]>>] = (v * f[x]) * f[y]
      BY <1>2, <2>1
    <2>4. (v * f[y]) * f[x] = (v * f[x]) * f[y]
      <3>1. f[x] \in Nat /\ f[y] \in Nat
        BY <1>1
      <3> QED
        BY <3>1, SMT
    <2> QED
      BY <2>2, <2>3, <2>4
  <1> QED
    BY <1>7, <1>8

\* Product(f) is what that fold comes to.
LEMMA ProductIsFold ==
  ASSUME NEW f \in Seq(Nat \ {0})
  PROVE  \E h : /\ Recurs(h, 1..Len(f), Nat \ {0}, 1, MultiplyBy(f, Len(f)),
                          TakeLast(Len(f)))
                /\ Product(f) = h[1..Len(f)]
  <1> DEFINE D == 1..Len(f)
             V == Nat \ {0}
             F == MultiplyBy(f, Len(f))
             pick == TakeLast(Len(f))
             Rec(g, s) == IF s = {} THEN 1
                          ELSE g[s \ {CHOOSE x \in s : \A y \in s : x >= y}]
                                 * f[CHOOSE x \in s : \A y \in s : x >= y]
             h == CHOOSE g : g = [s \in SUBSET D |-> Rec(g, s)]
  <1>1. Product(f) = h[D]
    <2>1. DOMAIN f = D
      OBVIOUS
    <2> QED
      BY <2>1, Zenon DEF Product, FoldLeft, MapThenFoldSet, Max
  <1>2. Len(f) \in Nat
    OBVIOUS
  <1>3. FoldOver(D, V, 1, F, pick)
    BY MultiplyFold
  <1>4. PICK it : IsFold(it, D, V, 1, F, pick)
    <2> HIDE DEF D, V, F, pick
    <2> QED
      BY <1>3, FoldExists
  <1>5. \A x \in D, v \in V : F[<<x, v>>] = v * f[x]
    BY DEF MultiplyBy
  <1>6. \A s \in SUBSET D : pick[s] = CHOOSE x \in s : \A y \in s : x >= y
    BY DEF TakeLast
  <1>7. \A s \in SUBSET D : s # {} => pick[s] \in D /\ s \ {pick[s]} \in SUBSET D
    <2> HIDE DEF D, V, F, pick
    <2> QED
      BY <1>3 DEF FoldOver
  <1>8. h = [s \in SUBSET D |-> Rec(h, s)]
    <2>1. it \in [SUBSET D -> V] /\ \A s \in SUBSET D : it[s] = Rec(it, s)
      <3> HIDE DEF D, V, F, pick
      <3>1. it \in [SUBSET D -> V] /\ it[{}] = 1
        BY <1>4 DEF IsFold
      <3>2. \A s \in SUBSET D : s # {} => it[s] = F[<<pick[s], it[s \ {pick[s]}]>>]
        BY <1>4 DEF IsFold
      <3>3. \A s \in SUBSET D : s # {} => it[s] = it[s \ {pick[s]}] * f[pick[s]]
        BY <1>5, <1>7, <3>1, <3>2
      <3> QED
        BY <1>6, <3>1, <3>3
    <2> HIDE DEF D, V, F, pick
    <2>2. it = [s \in SUBSET D |-> Rec(it, s)]
      BY <2>1
    <2> QED
      BY <2>2
  <1>9. Recurs(h, D, V, 1, F, pick)
    <2>1. h[{}] = 1
      BY <1>8
    <2>2. ASSUME NEW s \in SUBSET D, s # {}, h[s \ {pick[s]}] \in V
          PROVE  h[s] = F[<<pick[s], h[s \ {pick[s]}]>>]
      <3>1. h[s] = h[s \ {pick[s]}] * f[pick[s]]
        <4> HIDE DEF pick, F
        <4> QED
          BY <1>6, <1>8, <2>2
      <3> HIDE DEF D, V, F, pick, h
      <3> QED
        BY <1>5, <1>7, <2>2, <3>1
    <2> HIDE DEF D, V, F, pick, h
    <2> QED
      BY <2>1, <2>2 DEF Recurs
  <1> HIDE DEF h
  <1> QED
    BY <1>1, <1>9

\* The products of the first numbers of a sequence.
IsProduct(g, f) ==
  /\ g \in [0..Len(f) -> Nat \ {0}]
  /\ g[0] = 1
  /\ \A j \in 1..Len(f) : g[j] = g[j - 1] * f[j]

\* The last of them is the product of the sequence.
LEMMA ProductPrefixes ==
  ASSUME NEW f \in Seq(Nat \ {0})
  PROVE  \E g : IsProduct(g, f) /\ Product(f) = g[Len(f)]
  <1> DEFINE n == Len(f)
             V == Nat \ {0}
             F == MultiplyBy(f, n)
             pick == TakeLast(n)
  <1>1. n \in Nat
    OBVIOUS
  <1>2. FoldOver(1..n, V, 1, F, pick)
    BY MultiplyFold
  <1>3. PICK h : Recurs(h, 1..n, V, 1, F, pick) /\ Product(f) = h[1..n]
    BY ProductIsFold
  <1>4. \A s \in SUBSET (1..n) : s # {} => \A y \in s : pick[s] >= y
    <2> SUFFICES ASSUME NEW s \in SUBSET (1..n), s # {}, NEW y \in s
                 PROVE  pick[s] >= y
      OBVIOUS
    <2>1. pick[s] = CHOOSE x \in s : \A z \in s : x >= z
      BY DEF TakeLast
    <2> QED
      BY <1>1, <2>1, LastElement, Zenon
  <1>5. \A x \in 1..n, v \in V : F[<<x, v>>] = v * f[x]
    BY DEF MultiplyBy
  <1>6. PICK g : /\ g \in [0..n -> V]
                 /\ g[0] = 1
                 /\ \A j \in 1..n : g[j] = F[<<j, g[j - 1]>>]
                 /\ h[1..n] = g[n]
    <2> HIDE DEF n, V, F, pick
    <2> QED
      BY <1>1, <1>2, <1>3, <1>4, PrefixFold
  <1>7. \A j \in 1..n : g[j] = g[j - 1] * f[j]
    <2> SUFFICES ASSUME NEW j \in 1..n
                 PROVE  g[j] = g[j - 1] * f[j]
      OBVIOUS
    <2> HIDE DEF F
    <2>1. j - 1 \in 0..n
      BY <1>1
    <2>2. g[j - 1] \in V
      BY <1>6, <2>1
    <2> QED
      BY <1>5, <1>6, <2>2
  <1> QED
    <2> HIDE DEF F, pick
    <2> QED
      BY <1>3, <1>6, <1>7 DEF IsProduct

\* The product of the numbers at each set of positions: in whatever order.
LEMMA ProductAnyOrder ==
  ASSUME NEW f \in Seq(Nat \ {0})
  PROVE  \E it : /\ it \in [SUBSET (1..Len(f)) -> Nat \ {0}]
                 /\ it[{}] = 1
                 /\ \A s \in SUBSET (1..Len(f)) : \A y \in s : it[s] = it[s \ {y}] * f[y]
                 /\ Product(f) = it[1..Len(f)]
  <1> DEFINE D == 1..Len(f)
             V == Nat \ {0}
             F == MultiplyBy(f, Len(f))
             pick == TakeLast(Len(f))
  <1>1. FoldOver(D, V, 1, F, pick) /\ Commutes(D, V, F)
    BY MultiplyFold
  <1>2. PICK h : Recurs(h, D, V, 1, F, pick) /\ Product(f) = h[D]
    BY ProductIsFold
  <1>3. \A x \in D, v \in V : F[<<x, v>>] = v * f[x]
    BY DEF MultiplyBy
  <1> HIDE DEF D, V, F, pick
  <1>4. PICK it : IsFold(it, D, V, 1, F, pick)
    BY <1>1, FoldExists
  <1>5. \A s \in SUBSET D : h[s] = it[s]
    BY <1>1, <1>2, <1>4, FoldUnique
  <1>6. \A s \in SUBSET D : \A y \in s : it[s] = F[<<y, it[s \ {y}]>>]
    <2>1. AnyFirst(it, D, F)
      BY <1>1, <1>4, FoldAnyElement
    <2> QED
      BY <2>1 DEF AnyFirst
  <1>7. it \in [SUBSET D -> V] /\ it[{}] = 1
    BY <1>4 DEF IsFold
  <1>8. \A s \in SUBSET D : \A y \in s : it[s] = it[s \ {y}] * f[y]
    <2> SUFFICES ASSUME NEW s \in SUBSET D, NEW y \in s
                 PROVE  it[s] = it[s \ {y}] * f[y]
      OBVIOUS
    <2>1. y \in D /\ s \ {y} \in SUBSET D
      OBVIOUS
    <2>2. it[s \ {y}] \in V
      BY <1>7, <2>1
    <2> QED
      BY <1>3, <1>6, <2>1, <2>2
  <1>9. Product(f) = it[D]
    BY <1>2, <1>5
  <1> QED
    BY <1>7, <1>8, <1>9 DEF D, V

\* A product in which some factors make up all of it: each of the others is one.
LEMMA OthersAreOne ==
  ASSUME NEW f \in Seq(Nat \ {0}), NEW s \in SUBSET (1..Len(f)),
         \/ \E x \in s : s = {x} /\ Product(f) = f[x]
         \/ \E x, y \in s : x # y /\ s = {x, y} /\ Product(f) = f[x] * f[y],
         NEW k \in (1..Len(f)) \ s
  PROVE  f[k] = 1
  <1> DEFINE D == 1..Len(f)
  <1>1. PICK it : /\ it \in [SUBSET D -> Nat \ {0}]
                  /\ it[{}] = 1
                  /\ \A u \in SUBSET D : \A y \in u : it[u] = it[u \ {y}] * f[y]
                  /\ Product(f) = it[D]
    BY ProductAnyOrder
  <1>2. \A x \in D : f[x] \in Nat \ {0}
    OBVIOUS
  <1> HIDE DEF D
  <1>3. \A a, b \in Nat \ {0} : a * b = b => a = 1
    BY SMT
  <1>4. it[D \ s] = 1
    <2>1. ASSUME NEW x \in s, s = {x}, Product(f) = f[x]
          PROVE  it[D \ s] = 1
      <3>1. x \in D /\ D \ {x} \in SUBSET D
        BY DEF D
      <3>2. it[D] = it[D \ {x}] * f[x]
        BY <1>1, <3>1
      <3>3. it[D \ {x}] \in Nat \ {0} /\ f[x] \in Nat \ {0}
        BY <1>1, <1>2, <3>1
      <3> QED
        BY <1>1, <1>3, <2>1, <3>2, <3>3
    <2>2. ASSUME NEW x \in s, NEW y \in s, x # y, s = {x, y}, Product(f) = f[x] * f[y]
          PROVE  it[D \ s] = 1
      <3>1. x \in D /\ y \in D \ {x} /\ D \ {x} \in SUBSET D /\ D \ s \in SUBSET D
        BY <2>2 DEF D
      <3>2. (D \ {x}) \ {y} = D \ s
        BY <2>2
      <3>3. it[D] = it[D \ {x}] * f[x] /\ it[D \ {x}] = it[D \ s] * f[y]
        BY <1>1, <3>1, <3>2
      <3>4. it[D \ s] \in Nat \ {0} /\ f[x] \in Nat \ {0} /\ f[y] \in Nat \ {0}
        BY <1>1, <1>2, <3>1
      <3>5. (it[D \ s] * f[y]) * f[x] = it[D \ s] * (f[x] * f[y])
        <4>1. \A a, b, c \in Nat \ {0} : (a * b) * c = a * (c * b)
          BY SMT
        <4> QED
          BY <3>4, <4>1, SMTT(60)
      <3>6. f[x] * f[y] \in Nat \ {0}
        <4>1. \A a, b \in Nat \ {0} : a * b \in Nat \ {0}
          BY SMT
        <4> QED
          BY <3>4, <4>1
      <3>7. it[D \ s] * (f[x] * f[y]) = f[x] * f[y]
        BY <1>1, <2>2, <3>3, <3>5
      <3> QED
        BY <1>3, <3>4, <3>6, <3>7
    <2> QED
      BY <2>1, <2>2
  <1>5. it[D \ s] = it[(D \ s) \ {k}] * f[k]
    BY <1>1 DEF D
  <1>6. it[(D \ s) \ {k}] \in Nat \ {0} /\ f[k] \in Nat \ {0}
    BY <1>1, <1>2 DEF D
  <1>7. \A a, b \in Nat \ {0} : a * b = 1 => b = 1
    BY SMT
  <1> QED
    BY <1>4, <1>5, <1>6, <1>7

\* The sums of the first numbers of a sequence, and all of it.
IsTotal(g, f, n) ==
  /\ g \in [0..n -> Nat]
  /\ g[0] = 0
  /\ \A j \in 1..n : g[j] = g[j - 1] + f[j]
Total(f) == FoldLeft(LAMBDA a, b : a + b, 0, f)

\* The last of the sums is the total.
LEMMA TotalPrefixes ==
  ASSUME NEW n \in Nat, NEW f \in [1..n -> Nat]
  PROVE  \E g : IsTotal(g, f, n) /\ Total(f) = g[n]
  <1> DEFINE D == 1..n
             F == [p \in D \X Nat |-> p[2] + f[p[1]]]
             pick == TakeLast(n)
             Rec(g, s) == IF s = {} THEN 0
                          ELSE g[s \ {CHOOSE x \in s : \A y \in s : x >= y}]
                                 + f[CHOOSE x \in s : \A y \in s : x >= y]
             h == CHOOSE g : g = [s \in SUBSET D |-> Rec(g, s)]
  <1>1. Total(f) = h[D]
    <2>1. DOMAIN f = D
      OBVIOUS
    <2> QED
      BY <2>1, Zenon DEF Total, FoldLeft, MapThenFoldSet, Max
  <1>2. F \in [D \X Nat -> Nat] /\ \A x \in D, v \in Nat : F[<<x, v>>] = v + f[x]
    BY SMTT(60)
  <1>3. FoldOver(D, Nat, 0, F, pick)
    <2>1. IsFiniteSet(D)
      BY FS_Interval
    <2>2. \A s \in SUBSET D : s # {} => pick[s] \in s
      BY LastElement DEF TakeLast
    <2> HIDE DEF D, F, pick
    <2> QED
      BY <1>2, <2>1, <2>2 DEF FoldOver
  <1>4. PICK it : IsFold(it, D, Nat, 0, F, pick)
    <2> HIDE DEF D, F, pick
    <2> QED
      BY <1>3, FoldExists
  <1>5. \A s \in SUBSET D : pick[s] = CHOOSE x \in s : \A y \in s : x >= y
    BY DEF TakeLast
  <1>6. \A s \in SUBSET D : s # {} => pick[s] \in D /\ s \ {pick[s]} \in SUBSET D
    <2> HIDE DEF D, F, pick
    <2> QED
      BY <1>3 DEF FoldOver
  <1>7. h = [s \in SUBSET D |-> Rec(h, s)]
    <2>1. it \in [SUBSET D -> Nat] /\ \A s \in SUBSET D : it[s] = Rec(it, s)
      <3> HIDE DEF D, F, pick
      <3>1. it \in [SUBSET D -> Nat] /\ it[{}] = 0
        BY <1>4 DEF IsFold
      <3>2. \A s \in SUBSET D : s # {} => it[s] = F[<<pick[s], it[s \ {pick[s]}]>>]
        BY <1>4 DEF IsFold
      <3>3. \A s \in SUBSET D : s # {} => it[s] = it[s \ {pick[s]}] + f[pick[s]]
        BY <1>2, <1>6, <3>1, <3>2
      <3> QED
        BY <1>5, <3>1, <3>3
    <2> HIDE DEF D, F, pick
    <2>2. it = [s \in SUBSET D |-> Rec(it, s)]
      BY <2>1
    <2> QED
      BY <2>2
  <1>8. Recurs(h, D, Nat, 0, F, pick)
    <2>1. h[{}] = 0
      BY <1>7
    <2>2. ASSUME NEW s \in SUBSET D, s # {}, h[s \ {pick[s]}] \in Nat
          PROVE  h[s] = F[<<pick[s], h[s \ {pick[s]}]>>]
      <3>1. h[s] = h[s \ {pick[s]}] + f[pick[s]]
        <4> HIDE DEF pick, F
        <4> QED
          BY <1>5, <1>7, <2>2
      <3> HIDE DEF D, F, pick, h
      <3> QED
        BY <1>2, <1>6, <2>2, <3>1
    <2> HIDE DEF D, F, pick, h
    <2> QED
      BY <2>1, <2>2 DEF Recurs
  <1>9. \A s \in SUBSET (1..n) : s # {} => \A y \in s : pick[s] >= y
    <2> SUFFICES ASSUME NEW s \in SUBSET (1..n), s # {}, NEW y \in s
                 PROVE  pick[s] >= y
      OBVIOUS
    <2>1. pick[s] = CHOOSE x \in s : \A z \in s : x >= z
      BY DEF TakeLast
    <2> QED
      BY <2>1, LastElement, Zenon
  <1>10. PICK g : /\ g \in [0..n -> Nat]
                  /\ g[0] = 0
                  /\ \A j \in 1..n : g[j] = F[<<j, g[j - 1]>>]
                  /\ h[1..n] = g[n]
    <2>1. FoldOver(1..n, Nat, 0, F, pick) /\ Recurs(h, 1..n, Nat, 0, F, pick)
      BY <1>3, <1>8
    <2> HIDE DEF D, F, pick, h
    <2> QED
      BY <1>9, <2>1, PrefixFold, SMTT(60)
  <1>11. \A j \in 1..n : g[j] = g[j - 1] + f[j]
    <2> SUFFICES ASSUME NEW j \in 1..n
                 PROVE  g[j] = g[j - 1] + f[j]
      OBVIOUS
    <2>1. j - 1 \in 0..n
      OBVIOUS
    <2>2. g[j - 1] \in Nat /\ j \in D
      BY <1>10, <2>1
    <2> HIDE DEF D, F
    <2> QED
      BY <1>2, <1>10, <2>2
  <1> HIDE DEF F, pick, h
  <1> QED
    BY <1>1, <1>10, <1>11 DEF IsTotal

(***************************************************************************)
(* The positions of a mesh.  The coordinates of a partition are the        *)
(* digits of its number in the mixed base the sizes of the axes make.      *)
(***************************************************************************)
\* A product is its first factor times the product of the others.
LEMMA ProductShift ==
  ASSUME NEW f \in Seq(Nat \ {0}), NEW k \in 1..Len(f)
  PROVE  /\ Product(SubSeq(f, k, Len(f))) \in Nat \ {0}
         /\ Product(SubSeq(f, k + 1, Len(f))) \in Nat \ {0}
         /\ Product(SubSeq(f, k, Len(f))) = f[k] * Product(SubSeq(f, k + 1, Len(f)))
  <1> DEFINE n == Len(f)
             u == SubSeq(f, k, n)
             v == SubSeq(f, k + 1, n)
  <1>1. n \in Nat /\ k \in 1..n /\ \A i \in 1..n : f[i] \in Nat \ {0}
    OBVIOUS
  <1>2. /\ u \in Seq(Nat \ {0}) /\ Len(u) = n - k + 1
        /\ \A i \in 1..(n - k + 1) : u[i] = f[k + i - 1]
    <2>1. \A i \in k..n : f[i] \in Nat \ {0}
      BY <1>1
    <2> QED
      BY <1>1, <2>1, SubSeqProperties
  <1>3. v \in Seq(Nat \ {0}) /\ Len(v) = n - k /\ \A i \in 1..(n - k) : v[i] = f[k + i]
    <2>1. \A i \in (k + 1)..n : f[i] \in Nat \ {0}
      BY <1>1
    <2>2. k + 1 \in Int /\ n \in Int
      BY <1>1
    <2>3. /\ v \in Seq(Nat \ {0})
          /\ Len(v) = IF k + 1 <= n THEN n - (k + 1) + 1 ELSE 0
          /\ \A i \in 1..(n - (k + 1) + 1) : v[i] = f[(k + 1) + i - 1]
      BY <2>1, <2>2, SubSeqProperties
    <2> QED
      BY <1>1, <2>3
  <1> HIDE DEF n, u, v
  <1>4. PICK gu : IsProduct(gu, u) /\ Product(u) = gu[Len(u)]
    BY <1>2, ProductPrefixes
  <1>5. PICK gv : IsProduct(gv, v) /\ Product(v) = gv[Len(v)]
    BY <1>3, ProductPrefixes
  <1>6. /\ gu \in [0..(n - k + 1) -> Nat \ {0}]
        /\ gu[0] = 1
        /\ \A j \in 1..(n - k + 1) : gu[j] = gu[j - 1] * f[k + j - 1]
    BY <1>2, <1>4 DEF IsProduct
  <1>7. /\ gv \in [0..(n - k) -> Nat \ {0}]
        /\ gv[0] = 1
        /\ \A j \in 1..(n - k) : gv[j] = gv[j - 1] * f[k + j]
    BY <1>3, <1>5 DEF IsProduct
  <1> DEFINE T == {j \in Nat : j <= n - k => gu[j + 1] = f[k] * gv[j]}
  <1>8. 0 \in T
    <2>1. gu[0 + 1] = f[k]
      <3>1. 1 \in 1..(n - k + 1)
        BY <1>1
      <3>2. gu[1] = gu[1 - 1] * f[k + 1 - 1]
        BY <1>6, <3>1
      <3>3. k + 1 - 1 = k /\ 1 - 1 = 0 /\ 0 + 1 = 1
        BY <1>1
      <3>4. gu[1] = gu[0] * f[k]
        BY <3>2, <3>3
      <3>5. f[k] \in Nat
        BY <1>1
      <3> QED
        BY <1>6, <3>3, <3>4, <3>5
    <2>2. f[k] \in Nat
      BY <1>1
    <2> QED
      BY <1>7, <2>1, <2>2
  <1>9. ASSUME NEW j \in Nat, j \in T
        PROVE  j + 1 \in T
    <2> SUFFICES ASSUME j + 1 <= n - k
                 PROVE  gu[(j + 1) + 1] = f[k] * gv[j + 1]
      OBVIOUS
    <2>1. gu[j + 1] = f[k] * gv[j]
      BY <1>1, <1>9
    <2>2. gu[(j + 1) + 1] = gu[j + 1] * f[k + j + 1]
      <3>1. (j + 1) + 1 \in 1..(n - k + 1)
        BY <1>1
      <3>2. gu[(j + 1) + 1] = gu[((j + 1) + 1) - 1] * f[k + ((j + 1) + 1) - 1]
        BY <1>6, <3>1
      <3>3. ((j + 1) + 1) - 1 = j + 1 /\ k + ((j + 1) + 1) - 1 = k + j + 1
        BY <1>1
      <3> QED
        BY <3>2, <3>3
    <2>3. gv[j + 1] = gv[j] * f[k + j + 1]
      <3>1. j + 1 \in 1..(n - k)
        BY <1>1
      <3>2. gv[j + 1] = gv[(j + 1) - 1] * f[k + (j + 1)]
        BY <1>7, <3>1
      <3>3. (j + 1) - 1 = j /\ k + (j + 1) = k + j + 1
        BY <1>1
      <3> QED
        BY <3>2, <3>3
    <2>4. gv[j] \in Nat /\ f[k] \in Nat /\ f[k + j + 1] \in Nat
      <3>1. j \in 0..(n - k) /\ k + j + 1 \in 1..n
        BY <1>1
      <3> QED
        BY <1>1, <1>7, <3>1
    <2>5. \A a, b, c \in Nat : (a * b) * c = a * (b * c)
      BY SMT
    <2> QED
      BY <2>1, <2>2, <2>3, <2>4, <2>5, SMTT(60)
  <1>10. n - k \in T
    <2> HIDE DEF T
    <2>1. Nat \subseteq T
      BY <1>8, <1>9, SetInduction
    <2> QED
      BY <1>1, <2>1
  <1>11. Product(u) = f[k] * Product(v)
    <2>1. gu[(n - k) + 1] = f[k] * gv[n - k]
      BY <1>1, <1>10
    <2> QED
      BY <1>1, <1>2, <1>3, <1>4, <1>5, <2>1
  <1>12. Product(u) \in Nat \ {0} /\ Product(v) \in Nat \ {0}
    <2>1. n - k \in 0..(n - k) /\ n - k + 1 \in 0..(n - k + 1)
      BY <1>1
    <2> QED
      BY <1>2, <1>3, <1>4, <1>5, <1>6, <1>7, <2>1
  <1> QED
    BY <1>11, <1>12 DEF n, u, v

\* The strides of a mesh: one at the last axis, the number of devices before the first.
LEMMA Strides ==
  ASSUME NEW c, c.sizes \in Seq(Nat \ {0})
  PROVE  /\ Len(c.sizes) \in Nat
         /\ Stride(c, Len(c.sizes)) = 1
         /\ Stride(c, 0) = Product(c.sizes)
         /\ \A k \in 0..Len(c.sizes) : Stride(c, k) \in Nat \ {0}
         /\ \A k \in 1..Len(c.sizes) : Stride(c, k - 1) = c.sizes[k] * Stride(c, k)
  <1> DEFINE f == c.sizes
             n == Len(f)
  <1>1. f \in Seq(Nat \ {0}) /\ n \in Nat
    OBVIOUS
  <1>2. Stride(c, n) = 1
    <2>1. SubSeq(f, n + 1, n) = <<>>
      BY <1>1, SubSeqEmpty
    <2> DEFINE e == SubSeq(f, n + 1, n)
    <2>2. e \in Seq(Nat \ {0}) /\ Len(e) = 0
      BY <2>1
    <2>3. Stride(c, n) = Product(e)
      BY DEF Stride
    <2> HIDE DEF e
    <2>4. PICK g : IsProduct(g, e) /\ Product(e) = g[Len(e)]
      BY <2>2, ProductPrefixes
    <2> QED
      BY <2>2, <2>3, <2>4 DEF IsProduct
  <1>3. Stride(c, 0) = Product(f)
    <2>1. SubSeq(f, 0 + 1, n) = f
      BY <1>1, SubSeqFull
    <2> QED
      BY <2>1 DEF Stride
  <1>4. ASSUME NEW k \in 1..n
        PROVE  /\ Stride(c, k - 1) \in Nat \ {0}
               /\ Stride(c, k - 1) = f[k] * Stride(c, k)
    <2> HIDE DEF f
    <2>1. (k - 1) + 1 = k
      OBVIOUS
    <2>2. Product(SubSeq(f, k, Len(f))) = Stride(c, k - 1)
      BY <2>1 DEF Stride, f
    <2>3. Product(SubSeq(f, k + 1, Len(f))) = Stride(c, k)
      BY DEF Stride, f
    <2> QED
      BY <1>1, <2>2, <2>3, ProductShift
  <1>5. \A k \in 0..n : Stride(c, k) \in Nat \ {0}
    <2> SUFFICES ASSUME NEW k \in 0..n
                 PROVE  Stride(c, k) \in Nat \ {0}
      OBVIOUS
    <2>1. CASE k = n
      BY <1>2, <2>1
    <2>2. CASE k # n
      <3>1. k + 1 \in 1..n /\ (k + 1) - 1 = k
        BY <1>1, <2>2
      <3> QED
        BY <1>4, <3>1
    <2> QED
      BY <2>1, <2>2
  <1> QED
    BY <1>1, <1>2, <1>3, <1>4, <1>5

\* Dividing by a product is dividing by one factor after the other.
LEMMA DivDiv ==
  ASSUME NEW a \in Nat, NEW b \in Nat \ {0}, NEW c \in Nat \ {0}
  PROVE  a \div (c * b) = (a \div b) \div c
  <1> DEFINE q == a \div b
             r == a % b
             t == q \div c
             s == q % c
  <1>1. q \in Nat /\ r \in 0..(b - 1) /\ a = q * b + r
    BY DivMod
  <1> HIDE DEF q, r
  <1>2. t \in Nat /\ s \in 0..(c - 1) /\ q = t * c + s
    BY <1>1, DivMod
  <1> HIDE DEF t, s
  <1>3. c * b \in Nat \ {0} /\ s * b \in Nat
    <2>1. \A x, y \in Nat \ {0} : x * y \in Nat \ {0}
      BY SMT
    <2>2. \A x, y \in Nat : x * y \in Nat
      BY SMT
    <2> QED
      BY <1>2, <2>1, <2>2
  <1>4. s * b + b <= c * b
    BY <1>2, Apart
  <1> DEFINE w == c * b
  <1>5. s * b + r \in 0..(w - 1)
    BY <1>1, <1>3, <1>4
  <1>6. a = t * w + (s * b + r)
    <2>1. \A x, y, z \in Nat : (x * y + z) * b = x * (y * b) + z * b
      BY SMT
    <2>2. a = t * w + s * b + r
      BY <1>1, <1>2, <2>1
    <2>3. t * w \in Nat
      <3>1. \A x, y \in Nat : x * y \in Nat
        BY SMT
      <3> HIDE DEF w
      <3> QED
        BY <1>2, <1>3, <3>1 DEF w
    <2> HIDE DEF w
    <2> QED
      BY <1>1, <1>3, <2>2, <2>3
  <1>7. w \in Nat \ {0}
    BY <1>3
  <1> HIDE DEF w
  <1>8. (t * w + (s * b + r)) \div w = t
    BY <1>2, <1>5, <1>7, Parts
  <1> QED
    BY <1>6, <1>8 DEF w, t, q

\* The coordinates of a mesh position are digits: what p leaves when it is divided by
\* the stride of an axis is made of what it leaves at the axis before, and the
\* coordinate.
LEMMA Digits ==
  ASSUME NEW c, c.sizes \in Seq(Nat \ {0}), NEW p \in Nat, NEW k \in 1..Len(c.sizes)
  PROVE  /\ p \div Stride(c, k - 1) \in Nat
         /\ p \div Stride(c, k) \in Nat
         /\ UnravelIndex(c, p, k) \in 0..(c.sizes[k] - 1)
         /\ p \div Stride(c, k)
              = (p \div Stride(c, k - 1)) * c.sizes[k] + UnravelIndex(c, p, k)
  <1> DEFINE b == Stride(c, k)
             z == c.sizes[k]
             q == p \div b
             u == q % z
  <1>1. b \in Nat \ {0} /\ Stride(c, k - 1) = z * b
    <2>1. k \in 0..Len(c.sizes)
      OBVIOUS
    <2> QED
      BY <2>1, Strides
  <1>2. z \in Nat \ {0}
    OBVIOUS
  <1>3. UnravelIndex(c, p, k) = u
    BY DEF UnravelIndex
  <1> HIDE DEF b, z
  <1>4. p \div (z * b) = q \div z
    BY <1>1, <1>2, DivDiv
  <1>5. q \in Nat
    BY <1>1, DivMod
  <1> HIDE DEF q
  <1>6. q \div z \in Nat /\ u \in 0..(z - 1) /\ q = (q \div z) * z + u
    BY <1>2, <1>5, DivMod
  <1> HIDE DEF u
  <1>7. p \div Stride(c, k - 1) = q \div z
    BY <1>1, <1>4
  <1> QED
    BY <1>3, <1>5, <1>6, <1>7 DEF q, b, z

\* No axis is longer than the mesh has devices.
LEMMA AxisFits ==
  ASSUME NEW f \in Seq(Nat \ {0}), NEW k \in 1..Len(f)
  PROVE  Product(f) \in Nat \ {0} /\ f[k] <= Product(f)
  <1> DEFINE D == 1..Len(f)
  <1>1. PICK it : /\ it \in [SUBSET D -> Nat \ {0}]
                  /\ \A s \in SUBSET D : \A y \in s : it[s] = it[s \ {y}] * f[y]
                  /\ Product(f) = it[D]
    BY ProductAnyOrder
  <1>2. f[k] \in Nat \ {0}
    OBVIOUS
  <1> HIDE DEF D
  <1>3. it[D] = it[D \ {k}] * f[k] /\ it[D \ {k}] \in Nat \ {0}
    BY <1>1 DEF D
  <1>4. \A a, b \in Nat \ {0} : a * b \in Nat \ {0} /\ b <= a * b
    BY SMT
  <1> QED
    BY <1>1, <1>2, <1>3, <1>4

\* The digits of a mesh position, each times the stride of its axis.
Weighted(c, m) == [k \in DOMAIN m |-> m[k] * Stride(c, k)]

\* The number of a mesh position is their sum, axis after axis.
LEMMA NumberPrefixes ==
  ASSUME NEW c, c.sizes \in Seq(Nat \ {0}), NEW m \in [1..Len(c.sizes) -> Nat]
  PROVE  \E g : /\ g \in [0..Len(c.sizes) -> Nat]
                /\ g[0] = 0
                /\ \A k \in 1..Len(c.sizes) : g[k] = g[k - 1] + m[k] * Stride(c, k)
                /\ Number(c, m) = g[Len(c.sizes)]
  <1> DEFINE n == Len(c.sizes)
             f == Weighted(c, m)
  <1>1. n \in Nat /\ \A k \in 1..n : Stride(c, k) \in Nat
    BY Strides
  <1>2. f = [k \in 1..n |-> m[k] * Stride(c, k)]
    BY DEF Weighted
  <1>3. f \in [1..n -> Nat]
    <2>1. \A a, b \in Nat : a * b \in Nat
      BY SMT
    <2>2. \A k \in 1..n : m[k] * Stride(c, k) \in Nat
      BY <1>1, <2>1
    <2> QED
      BY <1>2, <2>2
  <1>4. Number(c, m) = Total(f)
    BY Zenon DEF Number, Total, Weighted
  <1> HIDE DEF f
  <1>5. PICK g : IsTotal(g, f, n) /\ Total(f) = g[n]
    BY <1>1, <1>3, TotalPrefixes
  <1> QED
    BY <1>2, <1>4, <1>5 DEF IsTotal

\* The coordinates of partition p are a mesh position, the one whose number is p.
LEMMA PositionOf ==
  ASSUME NEW c, c.sizes \in Seq(Nat \ {0}), NEW p \in Partitions(c)
  PROVE  LET m == [k \in 1..Len(c.sizes) |-> UnravelIndex(c, p, k)]
         IN  m \in Positions(c) /\ Number(c, m) = p
  <1> DEFINE n == Len(c.sizes)
             m == [k \in 1..n |-> UnravelIndex(c, p, k)]
             q(j) == p \div Stride(c, j)
  <1>1. /\ n \in Nat
        /\ \A j \in 0..n : Stride(c, j) \in Nat \ {0}
        /\ Stride(c, n) = 1
        /\ Stride(c, 0) = Product(c.sizes)
        /\ \A j \in 1..n : Stride(c, j - 1) = c.sizes[j] * Stride(c, j)
    BY Strides
  <1>2. p \in Nat /\ Product(c.sizes) \in Nat \ {0} /\ p < Product(c.sizes)
    <2>1. Stride(c, 0) \in Nat \ {0}
      BY <1>1
    <2> QED
      BY <1>1, <2>1 DEF Partitions
  <1>3. \A k \in 1..n : c.sizes[k] \in Nat \ {0} /\ c.sizes[k] <= Product(c.sizes)
    BY AxisFits
  <1>4. \A k \in 1..n : /\ q(k - 1) \in Nat /\ q(k) \in Nat
                        /\ m[k] \in 0..(c.sizes[k] - 1)
                        /\ q(k) = q(k - 1) * c.sizes[k] + m[k]
    BY <1>2, Digits
  <1>5. \A k \in 1..n : m[k] \in 0..(c.sizes[k] - 1)
    <2> HIDE DEF m, n
    <2> QED
      BY <1>4
  <1>6. DOMAIN m = 1..n /\ m = [k \in 1..n |-> m[k]]
    OBVIOUS
  <1>7. m \in Positions(c)
    <2>1. DOMAIN c.sizes = 1..n
      OBVIOUS
    <2>2. \A k \in 1..n : m[k] \in 0..(Product(c.sizes) - 1) /\ m[k] < c.sizes[k]
      <3> HIDE DEF m, n
      <3> QED
        BY <1>2, <1>3, <1>5
    <2>3. m \in [DOMAIN c.sizes -> 0..(Product(c.sizes) - 1)] /\ DOMAIN m = 1..n
      BY <2>1, <2>2
    <2> HIDE DEF m
    <2> QED
      BY <2>2, <2>3 DEF Positions
  <1>8. m \in [1..n -> Nat]
    <2> HIDE DEF m, n
    <2>1. \A k \in 1..n : m[k] \in Nat
      BY <1>3, <1>5
    <2> QED
      BY <1>6, <2>1
  <1>9. PICK g : /\ g \in [0..n -> Nat]
                 /\ g[0] = 0
                 /\ \A k \in 1..n : g[k] = g[k - 1] + m[k] * Stride(c, k)
                 /\ Number(c, m) = g[n]
    <2> HIDE DEF m
    <2> QED
      BY <1>8, NumberPrefixes
  <1> DEFINE T == {j \in Nat : j <= n => g[j] = q(j) * Stride(c, j)}
  <1> HIDE DEF m, n
  <1>10. 0 \in T
    <2>1. p = 0 * Product(c.sizes) + p /\ p \in 0..(Product(c.sizes) - 1)
      BY <1>2
    <2>2. (0 * Product(c.sizes) + p) \div Product(c.sizes) = 0
      BY <1>2, <2>1, Parts
    <2>3. q(0) = 0
      BY <1>1, <2>1, <2>2
    <2>4. q(0) * Stride(c, 0) = 0
      BY <1>1, <1>2, <2>3
    <2> QED
      BY <1>9, <2>4
  <1>11. ASSUME NEW j \in Nat, j \in T
        PROVE  j + 1 \in T
    <2> SUFFICES ASSUME j + 1 <= n
                 PROVE  g[j + 1] = q(j + 1) * Stride(c, j + 1)
      OBVIOUS
    <2>1. j + 1 \in 1..n /\ (j + 1) - 1 = j /\ j <= n /\ j + 1 \in 0..n
      BY <1>1
    <2> DEFINE s == Stride(c, j + 1)
               z == c.sizes[j + 1]
               a == q(j)
    <2>2. g[j] = a * Stride(c, j)
      BY <1>11, <2>1
    <2>3. Stride(c, j) = z * s /\ s \in Nat \ {0}
      BY <1>1, <2>1
    <2>4. /\ a \in Nat
          /\ z \in Nat
          /\ m[j + 1] \in Nat
          /\ q(j + 1) = a * z + m[j + 1]
      <3>1. /\ q((j + 1) - 1) \in Nat
            /\ m[j + 1] \in 0..(c.sizes[j + 1] - 1)
            /\ q(j + 1) = q((j + 1) - 1) * c.sizes[j + 1] + m[j + 1]
        BY <1>4, <2>1
      <3>2. z \in Nat
        BY <1>3, <2>1
      <3> QED
        BY <2>1, <3>1, <3>2
    <2>5. g[j + 1] = g[j] + m[j + 1] * s
      BY <1>9, <2>1
    <2> HIDE DEF s, z, a
    <2>6. \A x, y, d, w \in Nat : x * (y * w) + d * w = (x * y + d) * w
      BY SMT
    <2>7. g[j + 1] = (a * z + m[j + 1]) * s
      BY <2>2, <2>3, <2>4, <2>5, <2>6
    <2> QED
      BY <2>4, <2>7 DEF s
  <1>12. n \in T
    <2> HIDE DEF T
    <2> QED
      BY <1>1, <1>10, <1>11, SetInduction
  <1>13. q(n) = p
    <2>1. p = p * 1 + 0 /\ 0 \in 0..(1 - 1)
      BY <1>2
    <2>2. (p * 1 + 0) \div 1 = p
      BY <1>2, <2>1, Parts
    <2> QED
      BY <1>1, <2>1, <2>2
  <1>14. Number(c, m) = p
    <2>1. g[n] = q(n) * Stride(c, n)
      BY <1>1, <1>12
    <2> QED
      BY <1>1, <1>2, <1>9, <1>13, <2>1
  <1> QED
    BY <1>7, <1>14 DEF m, n

\* There is no other position with that number.
LEMMA PositionUnique ==
  ASSUME NEW c, c.sizes \in Seq(Nat \ {0}), NEW p \in Partitions(c),
         NEW m \in Positions(c), Number(c, m) = p
  PROVE  \A k \in 1..Len(c.sizes) : m[k] = UnravelIndex(c, p, k)
  <1> DEFINE n == Len(c.sizes)
             S(j) == Stride(c, j)
             q(j) == p \div S(j)
  <1>1. /\ n \in Nat
        /\ \A j \in 0..n : S(j) \in Nat \ {0}
        /\ S(n) = 1
        /\ S(0) = Product(c.sizes)
        /\ \A j \in 1..n : S(j - 1) = c.sizes[j] * S(j)
    BY Strides
  <1>2. p \in Nat
    <2>1. Stride(c, 0) \in Nat \ {0}
      BY <1>1
    <2> QED
      BY <1>1, <2>1 DEF Partitions
  <1>3. \A k \in 1..n : c.sizes[k] \in Nat \ {0} /\ c.sizes[k] <= Product(c.sizes)
    BY AxisFits
  <1>4. /\ m \in [1..n -> Nat]
        /\ \A k \in 1..n : m[k] < c.sizes[k]
    <2>1. DOMAIN c.sizes = 1..n
      OBVIOUS
    <2> HIDE DEF n
    <2>2. m \in [1..n -> 0..(Product(c.sizes) - 1)] /\ \A k \in DOMAIN m : m[k] < c.sizes[k]
      BY <2>1 DEF Positions
    <2> QED
      BY <2>2
  <1>5. PICK g : /\ g \in [0..n -> Nat]
                 /\ g[0] = 0
                 /\ \A k \in 1..n : g[k] = g[k - 1] + m[k] * S(k)
                 /\ Number(c, m) = g[n]
    BY <1>4, NumberPrefixes
  <1> HIDE DEF n, S
  <1>6. \A j \in 1..n : /\ j - 1 \in 0..n /\ j \in 0..n
                        /\ g[j] \in Nat /\ g[j - 1] \in Nat /\ m[j] \in Nat
                        /\ S(j) \in Nat \ {0} /\ S(j - 1) \in Nat \ {0}
                        /\ c.sizes[j] \in Nat \ {0} /\ m[j] < c.sizes[j]
                        /\ S(j - 1) = c.sizes[j] * S(j)
                        /\ g[j] = g[j - 1] + m[j] * S(j)
    <2> SUFFICES ASSUME NEW j \in 1..n
                 PROVE  /\ j - 1 \in 0..n /\ j \in 0..n
                        /\ g[j] \in Nat /\ g[j - 1] \in Nat /\ m[j] \in Nat
                        /\ S(j) \in Nat \ {0} /\ S(j - 1) \in Nat \ {0}
                        /\ c.sizes[j] \in Nat \ {0} /\ m[j] < c.sizes[j]
                        /\ S(j - 1) = c.sizes[j] * S(j)
                        /\ g[j] = g[j - 1] + m[j] * S(j)
      OBVIOUS
    <2>1. j - 1 \in 0..n /\ j \in 0..n
      BY <1>1
    <2> QED
      BY <1>1, <1>3, <1>4, <1>5, <2>1
  \* What stands before an axis is a multiple of its stride ...
  <1> DEFINE T == {j \in Nat : j <= n => \E a \in Nat : g[j] = a * S(j)}
  <1>7. 0 \in T
    <2>1. g[0] = 0 * S(0)
      <3>1. S(0) \in Nat
        BY <1>1
      <3> QED
        BY <1>5, <3>1
    <2> QED
      BY <2>1
  <1>8. ASSUME NEW j \in Nat, j \in T
        PROVE  j + 1 \in T
    <2> SUFFICES ASSUME j + 1 <= n
                 PROVE  \E a \in Nat : g[j + 1] = a * S(j + 1)
      OBVIOUS
    <2>1. j + 1 \in 1..n /\ (j + 1) - 1 = j /\ j <= n
      BY <1>1
    <2>2. PICK a \in Nat : g[j] = a * S(j)
      BY <1>8, <2>1
    <2> DEFINE s == S(j + 1)
               z == c.sizes[j + 1]
               d == m[j + 1]
    <2>3. s \in Nat /\ z \in Nat /\ d \in Nat /\ S(j) = z * s /\ g[j + 1] = g[j] + d * s
      BY <1>6, <2>1
    <2> HIDE DEF s, z, d
    <2>4. \A x, y, v, w \in Nat : /\ x * (y * w) + v * w = (x * y + v) * w
                                  /\ x * y + v \in Nat
      BY SMT
    <2>5. g[j + 1] = a * (z * s) + d * s
      BY <2>2, <2>3
    <2>6. g[j + 1] = (a * z + d) * s /\ a * z + d \in Nat
      <3>1. /\ a * (z * s) + d * s = (a * z + d) * s
            /\ a * z + d \in Nat
        BY <2>3, <2>4
      <3> QED
        BY <2>5, <3>1
    <2> QED
      BY <2>6 DEF s
  <1>9. \A j \in 0..n : \E a \in Nat : g[j] = a * S(j)
    <2> HIDE DEF T
    <2>1. Nat \subseteq T
      BY <1>7, <1>8, SetInduction
    <2> QED
      BY <1>1, <2>1 DEF T
  \* ... and what follows is less than it.
  <1> DEFINE U == {i \in Nat : i <= n => g[n - i] <= p /\ p - g[n - i] < S(n - i)}
  <1>10. 0 \in U
    <2>1. n - 0 = n
      BY <1>1
    <2> QED
      BY <1>1, <1>2, <1>5, <2>1
  <1>11. ASSUME NEW i \in Nat, i \in U
         PROVE  i + 1 \in U
    <2> SUFFICES ASSUME i + 1 <= n
                 PROVE  g[n - (i + 1)] <= p /\ p - g[n - (i + 1)] < S(n - (i + 1))
      OBVIOUS
    <2> DEFINE j == n - i
    <2>1. j \in 1..n /\ n - (i + 1) = j - 1
      BY <1>1
    <2>2. g[j] <= p /\ p - g[j] < S(j)
      BY <1>1, <1>11
    <2> HIDE DEF j
    <2> DEFINE s == S(j)
               z == c.sizes[j]
               d == m[j]
               w == d * s
               t == z * s
    <2>3. /\ s \in Nat \ {0} /\ z \in Nat /\ d \in Nat /\ d < z
          /\ S(j - 1) = t
          /\ g[j] = g[j - 1] + w /\ g[j] \in Nat /\ g[j - 1] \in Nat
      BY <1>6, <2>1
    <2>4. w + s <= t
      <3> HIDE DEF s, z, d
      <3> QED
        BY <2>3, Apart
    <2>5. w \in Nat /\ t \in Nat
      <3>1. \A x, y \in Nat : x * y \in Nat
        BY SMT
      <3> HIDE DEF s, z, d
      <3> QED
        BY <2>3, <3>1
    <2>6. p - g[j] < s
      BY <2>2
    <2> HIDE DEF s, z, d, w, t
    <2>7. g[j - 1] <= p /\ p - g[j - 1] < t
      BY <1>2, <2>2, <2>3, <2>4, <2>5, <2>6
    <2> QED
      BY <2>1, <2>3, <2>7
  <1>12. \A j \in 0..n : g[j] <= p /\ p - g[j] < S(j)
    <2> HIDE DEF U
    <2>1. Nat \subseteq U
      BY <1>10, <1>11, SetInduction
    <2> SUFFICES ASSUME NEW j \in 0..n
                 PROVE  g[j] <= p /\ p - g[j] < S(j)
      OBVIOUS
    <2>2. n - j \in Nat /\ n - (n - j) = j /\ n - j <= n
      BY <1>1
    <2>3. n - j \in U
      BY <2>1, <2>2
    <2> QED
      BY <2>2, <2>3 DEF U
  <1>13. \A j \in 0..n : g[j] = q(j) * S(j) /\ q(j) \in Nat
    <2> SUFFICES ASSUME NEW j \in 0..n
                 PROVE  g[j] = q(j) * S(j) /\ q(j) \in Nat
      OBVIOUS
    <2>1. PICK a \in Nat : g[j] = a * S(j)
      BY <1>9
    <2> DEFINE s == S(j)
               r == p - g[j]
    <2>2. s \in Nat \ {0} /\ g[j] \in Nat /\ g[j] <= p /\ p - g[j] < s
      BY <1>1, <1>5, <1>12
    <2> HIDE DEF s
    <2>3. r \in 0..(s - 1) /\ p = g[j] + r
      BY <1>2, <2>2
    <2> HIDE DEF r
    <2>4. p = a * s + r
      BY <2>1, <2>3 DEF s
    <2>5. (a * s + r) \div s = a
      BY <2>2, <2>3, Parts
    <2> QED
      BY <2>1, <2>4, <2>5 DEF s
  <1> SUFFICES ASSUME NEW k \in 1..n
               PROVE  m[k] = UnravelIndex(c, p, k)
    BY DEF n
  <1> DEFINE s == S(k)
             z == c.sizes[k]
             d == m[k]
             u == UnravelIndex(c, p, k)
             a == q(k - 1)
  <1>14. /\ s \in Nat \ {0} /\ z \in Nat /\ d \in Nat
         /\ S(k - 1) = z * s
         /\ g[k] = g[k - 1] + d * s
         /\ k \in 0..n /\ k - 1 \in 0..n
    BY <1>6
  <1>15. u \in Nat /\ q(k) = a * z + u
    <2>1. u \in 0..(c.sizes[k] - 1) /\ q(k) = a * c.sizes[k] + u
      BY <1>2, Digits DEF n, S
    <2> QED
      BY <2>1
  <1>16. g[k - 1] = a * (z * s) /\ a \in Nat /\ g[k] = (a * z + u) * s
    BY <1>13, <1>14, <1>15
  <1> HIDE DEF s, z, d, u, a
  <1>17. \A w, x, y, v \in Nat : (w * x + v) * y = w * (x * y) + v * y
    BY SMT
  <1>18. \A x, y \in Nat : x * y \in Nat
    BY SMT
  <1>19. a * (z * s) + d * s = a * (z * s) + u * s
    <2>1. (a * z + u) * s = a * (z * s) + u * s
      BY <1>14, <1>15, <1>16, <1>17
    <2>2. g[k] = a * (z * s) + d * s
      BY <1>14, <1>16
    <2> QED
      BY <1>16, <2>1, <2>2
  <1>20. d * s = u * s
    <2>1. a * (z * s) \in Nat /\ d * s \in Nat /\ u * s \in Nat
      BY <1>14, <1>15, <1>16, <1>18
    <2> QED
      BY <1>19, <2>1
  <1>21. d * s + 0 = u * s + 0 /\ 0 \in 0..(s - 1)
    BY <1>14, <1>20
  <1>22. d = u
    BY <1>14, <1>15, <1>21, Unique
  <1> QED
    BY <1>22 DEF d, u

(***************************************************************************)
(* The grid of a call: the sizes of its axes, the coordinates of a         *)
(* partition, its slot and its rank.                                       *)
(***************************************************************************)
\* What JAX grants of a call.
LEMMA CallFacts ==
  ASSUME NEW c \in Calls
  PROVE  /\ c.sizes \in Seq(Nat \ {0})
         /\ DOMAIN c.axes = 1..Len(c.sizes)
         /\ c.routine \in {"potrf", "potrs", "gels", "qr", "polar", "gesvd"}
         /\ c.rows \in Nat \ {0} /\ c.cols \in Nat \ {0}
         /\ c.nrhs \in Nat \ {0} /\ c.tile \in Nat \ {0}
  <1>1. /\ c.routine \in DOMAIN Results
        /\ c.sizes \in Seq(Nat \ {0}) /\ DOMAIN c.axes = DOMAIN c.sizes
        /\ \A n \in {c.rows, c.cols, c.nrhs, c.tile} : n \in Nat \ {0}
    BY CallsAssumption, Zenon
  <1>2. DOMAIN Results = {"potrf", "potrs", "gels", "qr", "polar", "gesvd"}
    BY DEF Results
  <1>3. DOMAIN c.sizes = 1..Len(c.sizes)
    BY <1>1
  <1> QED
    BY <1>1, <1>2, <1>3

\* The size of an axis of the mesh.
LEMMA AxisSize ==
  ASSUME NEW c \in Calls, NEW axis \in Range(c.axes), axis # NoAxis
  PROVE  /\ AxisAt(c, axis) \in 1..Len(c.sizes)
         /\ c.axes[AxisAt(c, axis)] = axis
         /\ MeshAxisSize(c, axis) = c.sizes[AxisAt(c, axis)]
         /\ MeshAxisSize(c, axis) \in Nat \ {0}
  <1>1. \E k \in DOMAIN c.axes : c.axes[k] = axis
    BY DEF Range
  <1>2. AxisAt(c, axis) \in DOMAIN c.axes /\ c.axes[AxisAt(c, axis)] = axis
    BY <1>1 DEF AxisAt
  <1>3. AxisAt(c, axis) \in 1..Len(c.sizes) /\ c.sizes \in Seq(Nat \ {0})
    BY <1>2, CallFacts
  <1>4. MeshAxisSize(c, axis) = c.sizes[AxisAt(c, axis)]
    BY DEF MeshAxisSize
  <1> HIDE DEF AxisAt
  <1>5. c.sizes[AxisAt(c, axis)] \in Nat \ {0}
    BY <1>3
  <1> QED
    BY <1>2, <1>3, <1>4, <1>5

\* The grid an accepted matrix is put on: a partition for each of its slots, and one
\* device along every axis the matrix does not use.
LEMMA GridOf ==
  ASSUME NEW c \in Calls, MeshAccepted(c)
  PROVE  /\ ProcessRows(c) \in Nat \ {0} /\ ProcessCols(c) \in Nat \ {0}
         /\ ProcessRows(c) * ProcessCols(c) \in Nat \ {0}
         /\ Partitions(c) = 0..(ProcessRows(c) * ProcessCols(c) - 1)
         /\ \A k \in 1..Len(c.sizes) :
              \/ c.rowAxis # NoAxis /\ k = AxisAt(c, c.rowAxis)
              \/ c.colAxis # NoAxis /\ k = AxisAt(c, c.colAxis)
              \/ c.sizes[k] = 1
  <1>1. /\ c.rowAxis # NoAxis \/ c.colAxis # NoAxis
        /\ c.rowAxis # NoAxis => c.rowAxis \in Range(c.axes)
        /\ c.colAxis # NoAxis => c.colAxis \in Range(c.axes)
        /\ c.rowAxis # c.colAxis
        /\ Product(c.sizes) = ProcessRows(c) * ProcessCols(c)
    BY DEF MeshAccepted
  <1>2. c.sizes \in Seq(Nat \ {0})
    BY CallFacts
  <1> DEFINE r == AxisAt(c, c.rowAxis)
             k == AxisAt(c, c.colAxis)
  <1>3. c.rowAxis # NoAxis => /\ r \in 1..Len(c.sizes)
                              /\ c.axes[r] = c.rowAxis
                              /\ ProcessRows(c) = c.sizes[r]
                              /\ ProcessRows(c) \in Nat \ {0}
    BY <1>1, AxisSize DEF ProcessRows
  <1>4. c.colAxis # NoAxis => /\ k \in 1..Len(c.sizes)
                              /\ c.axes[k] = c.colAxis
                              /\ ProcessCols(c) = c.sizes[k]
                              /\ ProcessCols(c) \in Nat \ {0}
    BY <1>1, AxisSize DEF ProcessCols
  <1>5. c.rowAxis = NoAxis => ProcessRows(c) = 1
    BY DEF ProcessRows, MeshAxisSize
  <1>6. c.colAxis = NoAxis => ProcessCols(c) = 1
    BY DEF ProcessCols, MeshAxisSize
  <1>7. ProcessRows(c) \in Nat \ {0} /\ ProcessCols(c) \in Nat \ {0}
    BY <1>3, <1>4, <1>5, <1>6
  <1> HIDE DEF r, k
  <1>8. ASSUME NEW j \in 1..Len(c.sizes),
               ~(c.rowAxis # NoAxis /\ j = r), ~(c.colAxis # NoAxis /\ j = k)
        PROVE  c.sizes[j] = 1
    <2>1. CASE c.rowAxis = NoAxis
      <3>1. Product(c.sizes) = c.sizes[k] /\ j \in (1..Len(c.sizes)) \ {k}
        BY <1>1, <1>4, <1>5, <1>7, <1>8, <2>1
      <3>2. {k} \in SUBSET (1..Len(c.sizes))
        BY <1>1, <1>4, <2>1
      <3> QED
        BY <1>2, <3>1, <3>2, OthersAreOne
    <2>2. CASE c.colAxis = NoAxis
      <3>1. Product(c.sizes) = c.sizes[r] /\ j \in (1..Len(c.sizes)) \ {r}
        BY <1>1, <1>3, <1>6, <1>7, <1>8, <2>2
      <3>2. {r} \in SUBSET (1..Len(c.sizes))
        BY <1>1, <1>3, <2>2
      <3> QED
        BY <1>2, <3>1, <3>2, OthersAreOne
    <2>3. CASE c.rowAxis # NoAxis /\ c.colAxis # NoAxis
      <3>1. /\ Product(c.sizes) = c.sizes[r] * c.sizes[k]
            /\ j \in (1..Len(c.sizes)) \ {r, k}
            /\ r # k
        BY <1>1, <1>3, <1>4, <1>8, <2>3
      <3>2. {r, k} \in SUBSET (1..Len(c.sizes))
        BY <1>3, <1>4, <2>3
      <3> QED
        BY <1>2, <3>1, <3>2, OthersAreOne
    <2> QED
      BY <2>1, <2>2, <2>3
  <1>9. ProcessRows(c) * ProcessCols(c) \in Nat \ {0}
    BY <1>1, <1>2, <1>3, <1>4, AxisFits
  <1>10. Partitions(c) = 0..(ProcessRows(c) * ProcessCols(c) - 1)
    BY <1>1 DEF Partitions
  <1> QED
    BY <1>7, <1>8, <1>9, <1>10 DEF r, k

\* The grid coordinates Python reads off a mesh position are those of the shard JAX
\* puts there.
LEMMA CoordOf ==
  ASSUME NEW c \in Calls, MeshAccepted(c), NEW p \in Partitions(c)
  PROVE  /\ Coord(c, p, c.rowAxis) \in 0..(ProcessRows(c) - 1)
         /\ Coord(c, p, c.colAxis) \in 0..(ProcessCols(c) - 1)
         /\ ShardOf(c, p) = <<Coord(c, p, c.rowAxis), Coord(c, p, c.colAxis)>>
  <1>1. c.sizes \in Seq(Nat \ {0}) /\ p \in Nat
    BY CallFacts, GridOf
  <1> DEFINE m == CHOOSE m \in Positions(c) : Number(c, m) = p
             Along(axis) == IF axis = NoAxis THEN 0 ELSE m[AxisAt(c, axis)]
  <1>2. ShardOf(c, p) = <<Along(c.rowAxis), Along(c.colAxis)>>
    BY DEF ShardOf
  <1>3. m \in Positions(c) /\ Number(c, m) = p
    <2>1. \E x \in Positions(c) : Number(c, x) = p
      BY <1>1, PositionOf
    <2> QED
      BY <2>1
  <1> HIDE DEF m
  <1>4. \A k \in 1..Len(c.sizes) : m[k] = UnravelIndex(c, p, k)
    BY <1>1, <1>3, PositionUnique
  <1>5. \A k \in 1..Len(c.sizes) : UnravelIndex(c, p, k) \in 0..(c.sizes[k] - 1)
    BY <1>1, Digits
  <1>6. /\ c.rowAxis # NoAxis => c.rowAxis \in Range(c.axes)
        /\ c.colAxis # NoAxis => c.colAxis \in Range(c.axes)
    BY DEF MeshAccepted
  <1>7. ASSUME NEW axis, axis # NoAxis => axis \in Range(c.axes)
        PROVE  /\ Coord(c, p, axis) \in 0..(MeshAxisSize(c, axis) - 1)
               /\ Along(axis) = Coord(c, p, axis)
    <2>1. CASE axis = NoAxis
      BY <2>1 DEF Coord, MeshAxisSize
    <2>2. CASE axis # NoAxis
      <3>1. /\ AxisAt(c, axis) \in 1..Len(c.sizes)
            /\ MeshAxisSize(c, axis) = c.sizes[AxisAt(c, axis)]
        BY <1>7, <2>2, AxisSize
      <3>2. Coord(c, p, axis) = UnravelIndex(c, p, AxisAt(c, axis))
        BY <2>2 DEF Coord
      <3>3. Along(axis) = m[AxisAt(c, axis)]
        BY <2>2
      <3> QED
        BY <1>4, <1>5, <3>1, <3>2, <3>3
    <2> QED
      BY <2>1, <2>2
  <1> QED
    BY <1>2, <1>6, <1>7 DEF ProcessRows, ProcessCols

\* Two partitions do not have the same ones.
LEMMA CoordApart ==
  ASSUME NEW c \in Calls, MeshAccepted(c),
         NEW p \in Partitions(c), NEW o \in Partitions(c),
         Coord(c, p, c.rowAxis) = Coord(c, o, c.rowAxis),
         Coord(c, p, c.colAxis) = Coord(c, o, c.colAxis)
  PROVE  p = o
  <1> DEFINE n == Len(c.sizes)
             At(x) == [k \in 1..n |-> UnravelIndex(c, x, k)]
  <1>1. c.sizes \in Seq(Nat \ {0}) /\ p \in Nat /\ o \in Nat
    BY CallFacts, GridOf
  <1>2. ASSUME NEW k \in 1..n
        PROVE  UnravelIndex(c, p, k) = UnravelIndex(c, o, k)
    <2>1. CASE c.rowAxis # NoAxis /\ k = AxisAt(c, c.rowAxis)
      BY <2>1 DEF Coord
    <2>2. CASE c.colAxis # NoAxis /\ k = AxisAt(c, c.colAxis)
      BY <2>2 DEF Coord
    <2>3. CASE c.sizes[k] = 1
      <3>1. UnravelIndex(c, p, k) \in 0..(1 - 1) /\ UnravelIndex(c, o, k) \in 0..(1 - 1)
        BY <1>1, <2>3, Digits
      <3> QED
        BY <3>1
    <2> QED
      BY <2>1, <2>2, <2>3, GridOf
  <1>3. At(p) = At(o)
    BY <1>2
  <1>4. Number(c, At(p)) = p /\ Number(c, At(o)) = o
    BY <1>1, PositionOf
  <1> QED
    BY <1>3, <1>4

\* Python numbers the slots row major, one for each partition.
LEMMA SlotsOf ==
  ASSUME NEW c \in Calls, MeshAccepted(c)
  PROVE  /\ PartitionSlotsFromMesh(c) \in [Partitions(c) -> Partitions(c)]
         /\ \A p \in Partitions(c) :
              PartitionSlotsFromMesh(c)[p]
                = Coord(c, p, c.rowAxis) * ProcessCols(c) + Coord(c, p, c.colAxis)
         /\ \A p, o \in Partitions(c) :
              PartitionSlotsFromMesh(c)[p] = PartitionSlotsFromMesh(c)[o] => p = o
         /\ \A slot \in Partitions(c) :
              \E p \in Partitions(c) : PartitionSlotsFromMesh(c)[p] = slot
  <1> DEFINE R == ProcessRows(c)
             C == ProcessCols(c)
             P == Partitions(c)
             f == PartitionSlotsFromMesh(c)
             row(p) == Coord(c, p, c.rowAxis)
             col(p) == Coord(c, p, c.colAxis)
  <1>1. R \in Nat \ {0} /\ C \in Nat \ {0} /\ R * C \in Nat \ {0} /\ P = 0..(R * C - 1)
    BY GridOf
  <1>2. f = [p \in P |-> row(p) * C + col(p)]
    BY DEF PartitionSlotsFromMesh
  <1>3. \A p \in P : row(p) \in 0..(R - 1) /\ col(p) \in 0..(C - 1)
    BY CoordOf
  <1>4. \A p, o \in P : row(p) = row(o) /\ col(p) = col(o) => p = o
    BY CoordApart
  <1> HIDE DEF R, C, P, f, row, col
  <1>5. \A p \in P : f[p] = row(p) * C + col(p)
    BY <1>2
  <1>6. ASSUME NEW p \in P
        PROVE  row(p) * C + col(p) \in P
    <2>1. row(p) \in Nat /\ row(p) < R /\ col(p) \in Nat /\ col(p) < C
      BY <1>1, <1>3
    <2> DEFINE x == row(p) * C
               y == R * C
    <2>2. x + C <= y
      <3> HIDE DEF x, y
      <3>1. row(p) * C + C <= R * C
        BY <1>1, <2>1, Apart
      <3> QED
        BY <3>1 DEF x, y
    <2>3. x \in Nat
      <3>1. \A a, b \in Nat : a * b \in Nat
        BY SMT
      <3> QED
        BY <1>1, <2>1, <3>1
    <2>4. P = 0..(y - 1) /\ y \in Nat
      BY <1>1
    <2> HIDE DEF x, y
    <2>5. x + col(p) \in P
      BY <1>1, <2>1, <2>2, <2>3, <2>4
    <2> QED
      BY <2>5 DEF x
  <1>7. f \in [P -> P]
    BY <1>2, <1>6
  <1>8. ASSUME NEW p \in P, NEW o \in P, f[p] = f[o]
        PROVE  p = o
    <2>1. /\ row(p) \in Int /\ row(o) \in Int
          /\ col(p) \in 0..(C - 1) /\ col(o) \in 0..(C - 1)
      BY <1>3
    <2>2. row(p) * C + col(p) = row(o) * C + col(o)
      BY <1>5, <1>8
    <2>3. row(p) = row(o) /\ col(p) = col(o)
      <3> DEFINE a == row(p)
                 b == row(o)
                 x == col(p)
                 y == col(o)
      <3>1. /\ a \in Int /\ b \in Int /\ x \in 0..(C - 1) /\ y \in 0..(C - 1)
            /\ a * C + x = b * C + y
        BY <2>1, <2>2
      <3> HIDE DEF a, b, x, y
      <3>2. a = b /\ x = y
        BY <1>1, <3>1, Unique
      <3> QED
        BY <3>2 DEF a, b, x, y
    <2> QED
      BY <1>4, <2>3
  <1>9. \A slot \in P : \E p \in P : f[p] = slot
    <2>1. IsFiniteSet(P)
      BY <1>1, FS_Interval
    <2>2. f \in Injection(P, P)
      BY <1>7, <1>8 DEF Injection, IsInjective
    <2>3. f \in Surjection(P, P)
      BY <2>1, <2>2, FS_Injection
    <2> QED
      BY <2>3 DEF Surjection
  <1> QED
    BY <1>5, <1>7, <1>8, <1>9 DEF R, C, P, f, row, col

\* The communicator ranks are numbered from zero without gaps beyond their number.
LEMMA CliqueRankType ==
  ASSUME NEW c \in Calls, MeshAccepted(c), NEW p \in Partitions(c)
  PROVE  CliqueRank(c, p) \in Partitions(c)
  <1> DEFINE P == Partitions(c)
             below == {q \in P : Device(c, q) < Device(c, p)}
             n == ProcessRows(c) * ProcessCols(c)
  <1>1. n \in Nat \ {0} /\ P = 0..(n - 1)
    BY GridOf
  <1> HIDE DEF n
  <1>2. IsFiniteSet(P) /\ Cardinality(P) = n
    BY <1>1, FS_Interval
  <1>3. ~(Device(c, p) < Device(c, p))
    <2>1. c.devices \in [1..Product(c.sizes) -> Nat]
      BY CallsAssumption
    <2>2. p + 1 \in 1..Product(c.sizes)
      <3>1. c.sizes \in Seq(Nat \ {0})
        BY CallFacts
      <3>2. Stride(c, 0) = Product(c.sizes) /\ Stride(c, 0) \in Nat \ {0}
        BY <3>1, Strides
      <3> QED
        BY <3>2 DEF Partitions
    <2>3. Device(c, p) \in Nat
      BY <2>1, <2>2 DEF Device
    <2> QED
      BY <2>3
  <1>4. below \in SUBSET (P \ {p})
    BY <1>3
  <1>5. IsFiniteSet(P \ {p}) /\ Cardinality(P \ {p}) = n - 1
    BY <1>2, FS_RemoveElement
  <1>6. IsFiniteSet(below) /\ Cardinality(below) <= n - 1
    BY <1>4, <1>5, FS_Subset
  <1>7. Cardinality(below) \in Nat
    BY <1>6, FS_CardinalityType
  <1>8. Cardinality(below) \in 0..(n - 1)
    BY <1>1, <1>6, <1>7
  <1> QED
    BY <1>1, <1>8 DEF CliqueRank

(***************************************************************************)
(* The shapes of the matrices: common multiples for the solution buffer    *)
(* of gels, the widened right-hand side and the padded shards.             *)
(***************************************************************************)
\* A number of a set that is smaller than the others.
LEMMA Smallest ==
  ASSUME NEW s \in SUBSET Nat, s # {}
  PROVE  /\ Least(s) \in s
         /\ \A y \in s : Least(s) <= y
  <1> DEFINE R == {p \in Nat \X Nat : p[1] < p[2]}
  <1>1. IsWellFoundedOn(R, Nat)
    BY NatLessThanWellFounded DEF OpToRel
  <1>2. PICK x \in s : \A y \in s : <<y, x>> \notin R
    <2> HIDE DEF R
    <2> QED
      BY <1>1, WFMin
  <1>3. \A y \in s : x <= y
    <2> SUFFICES ASSUME NEW y \in s, y < x PROVE FALSE
      OBVIOUS
    <2>1. <<y, x>> \in R
      OBVIOUS
    <2> QED
      BY <1>2, <2>1
  <1>4. \E z \in s : \A y \in s : z <= y
    BY <1>3
  <1>5. Least(s) = CHOOSE z \in s : \A y \in s : z <= y
    BY DEF Least
  <1> QED
    BY <1>4, <1>5

\* Multiples, and what leaves no rest.
LEMMA Multiple ==
  ASSUME NEW a \in Nat, NEW b \in Nat \ {0}
  PROVE  /\ a % b = 0 => a = (a \div b) * b /\ a \div b \in Nat
         /\ \A k \in Int : a = k * b => a % b = 0
  <1> DEFINE q == a \div b
             r == a % b
  <1>1. q \in Nat /\ r \in 0..(b - 1) /\ a = q * b + r
    BY DivMod
  <1> HIDE DEF q, r
  <1>2. q * b \in Nat
    BY <1>1, SMT
  <1>3. r = 0 => a = q * b
    BY <1>1, <1>2
  <1>4. ASSUME NEW k \in Int, a = k * b
        PROVE  r = 0
    <2>1. k * b \in Int
      BY <1>4
    <2>2. k * b + 0 = q * b + r /\ 0 \in 0..(b - 1)
      BY <1>1, <1>4, <2>1
    <2> QED
      BY <1>1, <2>2, Unique
  <1> QED
    BY <1>1, <1>3, <1>4 DEF q, r

\* The least common multiple divides every common multiple.
LEMMA CommonMultiple ==
  ASSUME NEW a \in Nat \ {0}, NEW b \in Nat \ {0},
         NEW m, m = Least({k \in 1..(a * b) : k % a = 0 /\ k % b = 0})
  PROVE  /\ m \in Nat \ {0} /\ m % a = 0 /\ m % b = 0
         /\ \A n \in Nat : n % a = 0 /\ n % b = 0 => n % m = 0
  <1> DEFINE S == {k \in 1..(a * b) : k % a = 0 /\ k % b = 0}
             w == a * b
  <1>1. w \in Nat \ {0}
    <2>1. \A x, y \in Nat \ {0} : x * y \in Nat \ {0}
      BY SMT
    <2> QED
      BY <2>1
  <1>2. w % a = 0 /\ w % b = 0
    <2>1. w = b * a /\ w = a * b
      BY SMT
    <2> HIDE DEF w
    <2> QED
      BY <1>1, <2>1, Multiple
  <1>3. m = Least(S)
    OBVIOUS
  <1>4. S = {k \in 1..w : k % a = 0 /\ k % b = 0}
    OBVIOUS
  <1> HIDE DEF S, w
  <1>5. w \in S /\ S \in SUBSET Nat
    BY <1>1, <1>2, <1>4
  <1>6. m \in S /\ \A y \in S : m <= y
    <2>1. Least(S) \in S /\ \A y \in S : Least(S) <= y
      BY <1>5, Smallest
    <2> QED
      BY <1>3, <2>1
  <1>7. m \in Nat \ {0} /\ m <= w /\ m % a = 0 /\ m % b = 0
    BY <1>1, <1>4, <1>6
  <1>8. ASSUME NEW n \in Nat, n % a = 0, n % b = 0
        PROVE  n % m = 0
    <2> DEFINE q == n \div m
               r == n % m
    <2>1. q \in Nat /\ r \in 0..(m - 1) /\ n = q * m + r
      BY <1>7, DivMod
    <2> HIDE DEF q, r
    <2>2. ASSUME NEW d \in Nat \ {0}, n % d = 0, m % d = 0
          PROVE  r % d = 0
      <3>1. PICK x \in Nat : n = x * d
        BY <2>2, Multiple
      <3>2. PICK y \in Nat : m = y * d
        BY <1>7, <2>2, Multiple, ZenonT(60)
      <3>3. q * m = (q * y) * d
        <4>1. \A u, v, z \in Nat : u * (v * z) = (u * v) * z
          BY SMT
        <4> QED
          BY <2>1, <3>2, <4>1
      <3>4. q * y \in Nat
        BY <2>1, SMT
      <3> DEFINE t == q * y
      <3>5. x * d - t * d = (x - t) * d
        <4> HIDE DEF t
        <4> QED
          BY <3>4, SMT DEF t
      <3>6. r = (x - t) * d
        <4>1. n = t * d + r /\ t \in Nat
          BY <2>1, <3>3, <3>4
        <4> HIDE DEF t
        <4>2. t * d \in Nat /\ x * d \in Nat
          BY <4>1, SMT
        <4>3. r = x * d - t * d
          BY <2>1, <3>1, <4>1, <4>2
        <4> QED
          BY <3>5, <4>3 DEF t
      <3>7. x - t \in Int /\ r \in Nat
        BY <2>1, <3>4
      <3> HIDE DEF t
      <3> QED
        BY <3>6, <3>7, Multiple
    <2>3. r % a = 0 /\ r % b = 0
      BY <1>7, <1>8, <2>2
    <2>4. r = 0
      <3> SUFFICES ASSUME r # 0 PROVE FALSE
        OBVIOUS
      <3>1. r \in S
        BY <1>1, <1>4, <1>7, <2>1, <2>3
      <3> QED
        BY <1>6, <1>7, <2>1, <3>1
    <2> QED
      BY <2>4 DEF r
  <1> QED
    BY <1>7, <1>8

\* The rows of B are sharded into a positive number of pieces.
LEMMA RhsShards ==
  ASSUME NEW c \in Calls
  PROVE  RhsRowShards(c) \in Nat \ {0}
  <1> DEFINE A == c.rhsAxes
             V == Nat \ {0}
             F == [p \in A \X V |-> p[2] * MeshAxisSize(c, p[1])]
             pick == [s \in SUBSET A |-> CHOOSE x \in s : TRUE]
             Rec(g, s) == IF s = {} THEN 1
                          ELSE g[s \ {CHOOSE x \in s : TRUE}]
                                 * MeshAxisSize(c, CHOOSE x \in s : TRUE)
             h == CHOOSE g : g = [s \in SUBSET A |-> Rec(g, s)]
  <1>1. RhsRowShards(c) = h[A]
    BY Zenon DEF RhsRowShards, FoldSet, MapThenFoldSet
  <1>2. A \subseteq Range(c.axes)
    BY CallsAssumption, Zenon
  <1>3. IsFiniteSet(A)
    <2>1. c.sizes \in Seq(Nat \ {0}) /\ DOMAIN c.axes = 1..Len(c.sizes)
      BY CallFacts
    <2>2. IsFiniteSet(DOMAIN c.axes)
      BY <2>1, FS_Interval
    <2> DEFINE f == [k \in DOMAIN c.axes |-> c.axes[k]]
    <2>3. f \in Surjection(DOMAIN c.axes, {c.axes[k] : k \in DOMAIN c.axes})
      BY DEF Surjection
    <2>4. IsFiniteSet({c.axes[k] : k \in DOMAIN c.axes})
      BY <2>2, <2>3, FS_Surjection
    <2> QED
      BY <1>2, <2>4, FS_Subset DEF Range
  <1>4. \A x \in A : MeshAxisSize(c, x) \in V
    BY <1>2, AxisSize DEF MeshAxisSize
  <1>5. \A x, y \in V : x * y \in V
    BY SMT
  <1>6. F \in [A \X V -> V] /\ \A x \in A, v \in V : F[<<x, v>>] = v * MeshAxisSize(c, x)
    <2> HIDE DEF A, V
    <2> QED
      BY <1>4, <1>5
  <1>7. \A s \in SUBSET A : s # {} => pick[s] \in s
    OBVIOUS
  <1>8. FoldOver(A, V, 1, F, pick)
    <2>1. 1 \in V
      OBVIOUS
    <2> HIDE DEF A, V, F, pick
    <2> QED
      BY <1>3, <1>6, <1>7, <2>1 DEF FoldOver
  <1>9. PICK it : IsFold(it, A, V, 1, F, pick)
    <2> HIDE DEF A, V, F, pick
    <2> QED
      BY <1>8, FoldExists
  <1>10. it \in [SUBSET A -> V] /\ \A s \in SUBSET A : it[s] = Rec(it, s)
    <2>1. \A s \in SUBSET A : pick[s] = CHOOSE x \in s : TRUE
      OBVIOUS
    <2> HIDE DEF A, V, F, pick
    <2>2. it \in [SUBSET A -> V] /\ it[{}] = 1
      BY <1>9 DEF IsFold
    <2>3. \A s \in SUBSET A : s # {} => it[s] = F[<<pick[s], it[s \ {pick[s]}]>>]
      BY <1>9 DEF IsFold
    <2>4. \A s \in SUBSET A : s # {} => pick[s] \in A /\ s \ {pick[s]} \in SUBSET A
      BY <1>7
    <2>5. \A s \in SUBSET A : s # {} =>
            it[s] = it[s \ {pick[s]}] * MeshAxisSize(c, pick[s])
      BY <1>6, <2>2, <2>3, <2>4
    <2> QED
      BY <2>1, <2>2, <2>5
  <1>11. h = [s \in SUBSET A |-> Rec(h, s)]
    <2> HIDE DEF A, V, F, pick
    <2>1. it = [s \in SUBSET A |-> Rec(it, s)]
      BY <1>10
    <2> QED
      BY <2>1
  <1>12. Recurs(h, A, V, 1, F, pick)
    <2>1. h[{}] = 1
      BY <1>11
    <2>2. \A s \in SUBSET A : pick[s] = CHOOSE x \in s : TRUE
      OBVIOUS
    <2> HIDE DEF A, V, F, pick, h
    <2>3. ASSUME NEW s \in SUBSET A, s # {}, h[s \ {pick[s]}] \in V
          PROVE  h[s] = F[<<pick[s], h[s \ {pick[s]}]>>]
      <3>1. h[s] = h[s \ {pick[s]}] * MeshAxisSize(c, pick[s])
        BY <1>11, <2>2, <2>3
      <3>2. pick[s] \in A
        BY <1>7, <2>3
      <3> QED
        BY <1>6, <2>3, <3>1, <3>2
    <2> QED
      BY <2>1, <2>3 DEF Recurs
  <1>13. h[A] = it[A]
    <2> HIDE DEF A, V, F, pick, h
    <2>1. \A s \in SUBSET A : h[s] = it[s]
      BY <1>8, <1>9, <1>12, FoldUnique
    <2> QED
      BY <2>1
  <1> HIDE DEF A, V, F, h
  <1>14. it[A] \in V
    BY <1>10
  <1> QED
    BY <1>1, <1>13, <1>14 DEF V

\* The rows of the gels solution buffer: a multiple of the process rows, no fewer
\* than the solution has and no more than the right-hand side.
LEMMA XRows ==
  ASSUME NEW c \in Calls, MeshAccepted(c), Tall(c), c.rows % ProcessRows(c) = 0
  PROVE  XDistributionRows(c) \in c.cols..c.rows
  <1> DEFINE a == ProcessRows(c)
             b == RhsRowShards(c)
             m == Least({k \in 1..(a * b) : k % a = 0 /\ k % b = 0})
  <1>1. a \in Nat \ {0} /\ b \in Nat \ {0} /\ c.rows \in Nat \ {0} /\ c.cols \in Nat \ {0}
    BY GridOf, RhsShards, CallFacts
  <1>2. c.rows % a = 0 /\ c.rows % b = 0
    BY CallsAssumption, Zenon
  <1>3. XDistributionRows(c) = ((c.cols + m - 1) \div m) * m
    BY DEF XDistributionRows
  <1> HIDE DEF a, b
  <1>4. m = Least({k \in 1..(a * b) : k % a = 0 /\ k % b = 0})
    OBVIOUS
  <1> HIDE DEF m
  <1>5. m \in Nat \ {0} /\ c.rows % m = 0
    BY <1>1, <1>2, <1>4, CommonMultiple
  <1>6. PICK k \in Nat : c.rows = k * m
    BY <1>1, <1>5, Multiple
  <1> DEFINE d == (c.cols + m - 1) \div m
             r == (c.cols + m - 1) % m
  <1>7. d \in Nat /\ r \in 0..(m - 1) /\ c.cols + m - 1 = d * m + r
    <2>1. c.cols + m - 1 \in Nat
      BY <1>1, <1>5
    <2> QED
      BY <1>5, <2>1, DivMod
  <1>8. XDistributionRows(c) = d * m
    BY <1>3
  <1> HIDE DEF d, r
  <1>9. d * m \in Nat /\ k * m \in Nat
    BY <1>5, <1>6, <1>7, SMT
  <1>10. c.cols <= d * m
    BY <1>1, <1>5, <1>7, <1>9
  <1>11. d <= k
    <2> SUFFICES ASSUME k < d PROVE FALSE
      BY <1>6, <1>7
    <2>1. k * m + m <= d * m
      BY <1>5, <1>6, <1>7, Apart
    <2>2. c.cols <= k * m
      BY <1>1, <1>6 DEF Tall
    <2> QED
      BY <1>1, <1>5, <1>7, <1>9, <2>1, <2>2
  <1>12. d * m <= c.rows
    <2>1. CASE d = k
      BY <1>6, <1>9, <2>1
    <2>2. CASE d # k
      <3>1. d * m + m <= k * m
        BY <1>5, <1>6, <1>7, <1>11, <2>2, Apart
      <3> QED
        BY <1>5, <1>6, <1>9, <3>1
    <2> QED
      BY <2>1, <2>2
  <1> QED
    BY <1>1, <1>8, <1>9, <1>10, <1>12

\* The columns Python widens B to.
LEMMA BWidth ==
  ASSUME NEW c \in Calls, MeshAccepted(c)
  PROVE  /\ BColumns(c) \in Nat /\ c.nrhs <= BColumns(c)
         /\ BColumns(c) % ProcessCols(c) = 0
  <1> DEFINE n == c.nrhs
             k == ProcessCols(c)
             q == n \div k
             r == n % k
  <1>1. n \in Nat \ {0} /\ k \in Nat \ {0}
    BY GridOf, CallFacts
  <1>2. BColumns(c) = IF r = 0 THEN n ELSE n + (k - r)
    BY DEF BColumns, RhsDistributionColumns
  <1> HIDE DEF k
  <1>3. q \in Nat /\ r \in 0..(k - 1) /\ n = q * k + r
    BY <1>1, DivMod
  <1>4. CASE r = 0
    BY <1>1, <1>2, <1>4 DEF k
  <1>5. CASE r # 0
    <2> HIDE DEF q, r
    <2>1. BColumns(c) \in Nat /\ n <= BColumns(c)
      BY <1>1, <1>2, <1>3, <1>5
    <2>2. BColumns(c) = (q + 1) * k
      <3>1. (q + 1) * k = q * k + k /\ q * k \in Nat
        BY <1>1, <1>3, SMT
      <3> QED
        BY <1>1, <1>2, <1>3, <1>5, <3>1
    <2>3. q + 1 \in Int
      BY <1>3
    <2>4. BColumns(c) % k = 0
      BY <1>1, <2>1, <2>2, <2>3, Multiple
    <2> QED
      BY <2>1, <2>4 DEF k
  <1> QED
    BY <1>4, <1>5

\* The padding Python computes is the one the edge planner expects, and what is padded
\* is a whole number of tiles, at least one.
LEMMA Padded ==
  ASSUME NEW n \in Nat \ {0}, NEW procs \in Nat \ {0}, NEW tile \in Nat \ {0},
         n % procs = 0
  PROVE  /\ PaddedAxis(n, procs, tile) \in Nat \ {0}
         /\ PaddedAxis(n, procs, tile) % tile = 0
         /\ PaddedAxis(n, procs, tile)
              = (n \div procs) + AxisPadding(n \div procs, tile)
  <1> DEFINE q == n \div procs
             x == PaddedAxis(n, procs, tile)
             r == q % tile
             d == q \div tile
  <1>1. q \in Nat /\ n = q * procs
    BY Multiple
  <1>2. q # 0
    BY <1>1
  <1>3. x = q + CalculateAxisPadding(q, tile)
    BY DEF PaddedAxis
  <1> HIDE DEF q
  <1>4. PICK k \in Nat : q + CalculateAxisPadding(q, tile) = k * tile /\ q <= k * tile
    BY <1>1, PaddedShard
  <1>5. k * tile \in Nat
    BY SMT
  <1>6. x = k * tile
    BY <1>3, <1>4
  <1>7. x \in Nat \ {0}
    BY <1>1, <1>2, <1>4, <1>5, <1>6
  <1>8. x % tile = 0
    <2> HIDE DEF x
    <2> QED
      BY <1>6, <1>7, Multiple
  <1>9. d \in Nat /\ r \in 0..(tile - 1) /\ q = d * tile + r
    BY <1>1, DivMod
  <1>10. CalculateAxisPadding(q, tile) = AxisPadding(q, tile)
    <2> DEFINE e == CalculateAxisPadding(q, tile)
    <2>1. e \in 0..(tile - 1)
      BY <1>1, SMT DEF CalculateAxisPadding
    <2>2. q + e = k * tile
      BY <1>4
    <2>3. AxisPadding(q, tile) = IF r = 0 THEN 0 ELSE tile - r
      BY DEF AxisPadding
    <2> HIDE DEF e, d, r
    <2>4. d * tile \in Nat
      BY <1>9, SMT
    <2>5. CASE r = 0
      <3>1. d * tile + e = k * tile + 0 /\ 0 \in 0..(tile - 1)
        BY <1>5, <1>9, <2>1, <2>2, <2>4, <2>5
      <3>2. e = 0
        BY <1>9, <2>1, <3>1, Unique
      <3> QED
        BY <2>3, <2>5, <3>2 DEF e
    <2>6. CASE r # 0
      <3>1. (d + 1) * tile = d * tile + tile
        BY <1>9, SMT
      <3> DEFINE s == e - (tile - r)
      <3>2. CASE s >= 0
        <4>1. /\ (d + 1) * tile + s = k * tile + 0
              /\ 0 \in 0..(tile - 1) /\ s \in 0..(tile - 1)
          BY <1>5, <1>9, <2>1, <2>2, <2>4, <2>6, <3>1, <3>2
        <4> HIDE DEF s
        <4>2. s = 0
          BY <1>9, <4>1, Unique
        <4> QED
          BY <1>9, <2>1, <2>3, <2>6, <4>2 DEF e, s
      <3>3. CASE s < 0
        <4>1. /\ d * tile + (r + e) = k * tile + 0
              /\ 0 \in 0..(tile - 1) /\ r + e \in 0..(tile - 1)
          BY <1>5, <1>9, <2>1, <2>2, <2>4, <3>3
        <4> DEFINE t == r + e
        <4>2. t = 0
          <5>1. d * tile + t = k * tile + 0 /\ t \in 0..(tile - 1)
            BY <4>1
          <5> HIDE DEF t
          <5> QED
            <6>1. d \in Int /\ k \in Int /\ 0 \in 0..(tile - 1)
              BY <1>9, <4>1
            <6> QED
              BY <5>1, <6>1, Unique
        <4> QED
          BY <1>9, <2>1, <2>6, <4>2
      <3> QED
        BY <1>9, <2>1, <3>2, <3>3
    <2> QED
      BY <2>5, <2>6 DEF e
  <1> QED
    BY <1>3, <1>7, <1>8, <1>10 DEF q

\* The larger of two numbers.
LEMMA LargerOf ==
  ASSUME NEW a \in Nat, NEW b \in Nat
  PROVE  Larger(a, b) \in Nat /\ a <= Larger(a, b) /\ b <= Larger(a, b)
  BY DEF Larger

\* What an accepted call says of the shapes of each of its matrices: the one the
\* library is told of is no larger than the one JAX holds, which divides evenly;
\* and of all but the right-hand side and the solution there is a tile for everyone.
LEMMA Shapes ==
  ASSUME NEW c \in Calls, Accepted(c), NEW x \in Matrices(c)
  PROVE  /\ Held(c, x)[1] \in Nat \ {0} /\ Held(c, x)[2] \in Nat \ {0}
         /\ Held(c, x)[1] % ProcessRows(c) = 0 /\ Held(c, x)[2] % ProcessCols(c) = 0
         /\ Described(c, x)[1] \in 1..Held(c, x)[1]
         /\ Described(c, x)[2] \in 1..Held(c, x)[2]
         /\ x \notin {"B", "X"} =>
              /\ TileCount(Described(c, x)[1], c.tile) >= ProcessRows(c)
              /\ TileCount(Described(c, x)[2], c.tile) >= ProcessCols(c)
  <1>1. MeshAccepted(c) /\ LayoutAccepted(c, Held(c, "A"))
    BY DEF Accepted, AAccepted
  <1>2. /\ c.rows \in Nat \ {0} /\ c.cols \in Nat \ {0} /\ c.nrhs \in Nat \ {0}
        /\ c.routine \in {"potrf", "potrs", "gels", "qr", "polar", "gesvd"}
        /\ c.results \in Results[c.routine]
    BY CallFacts, CallsAssumption, Zenon
  <1>3. x = "A" \/ x \in c.results
    BY DEF Matrices
  <1>4. x \in {"A", "B", "X", "R", "H", "U", "Vh"}
    BY <1>2, <1>3 DEF Results
  <1>5. "X" \in c.results => c.routine = "gels"
    BY <1>2 DEF Results
  <1>6. Held(c, "A") = <<c.rows, c.cols>> /\ Described(c, "A") = <<c.rows, c.cols>>
    BY DEF Held, Described
  <1>7. c.rows % ProcessRows(c) = 0
    BY <1>1, <1>6 DEF LayoutAccepted, PaddingAccepted
  <1>8. BColumns(c) \in Nat /\ c.nrhs <= BColumns(c) /\ BColumns(c) % ProcessCols(c) = 0
    BY <1>1, BWidth
  <1>9. CASE x = "B"
    <2>1. Held(c, x) = <<c.rows, BColumns(c)>> /\ Described(c, x) = <<c.rows, c.nrhs>>
      BY <1>9 DEF Held, Described
    <2> QED
      BY <1>2, <1>7, <1>8, <1>9, <2>1
  <1>10. CASE x = "X"
    <2>1. /\ Held(c, x) = <<XDistributionRows(c), BColumns(c)>>
          /\ Described(c, x) = <<c.cols, c.nrhs>>
      BY <1>10 DEF Held, Described
    <2>2. Tall(c) /\ XAccepted(c)
      BY <1>3, <1>5, <1>10 DEF Accepted, AAccepted
    <2>3. XDistributionRows(c) \in c.cols..c.rows
      BY <1>1, <1>7, <2>2, XRows
    <2>4. XDistributionRows(c) % ProcessRows(c) = 0
      BY <2>2 DEF XAccepted, PaddingAccepted
    <2> QED
      BY <1>2, <1>8, <1>10, <2>1, <2>3, <2>4
  <1>11. CASE x \notin {"B", "X"}
    <2>1. Held(c, x) = Described(c, x)
      BY <1>11 DEF Held
    <2>2. LayoutAccepted(c, Held(c, x))
      BY <1>1, <1>3, <1>11 DEF Accepted, FactorsAccepted
    <2>3. Described(c, x)[1] \in Nat \ {0} /\ Described(c, x)[2] \in Nat \ {0}
      <3>1. CASE x = "A"
        BY <1>2, <1>6, <3>1
      <3>2. CASE x \in {"R", "H"}
        <4>1. Described(c, x) = <<c.cols, c.cols>>
          BY <3>2 DEF Described
        <4> QED
          BY <1>2, <4>1
      <3>3. CASE x = "U"
        <4>1. Described(c, x)
                = <<c.rows, IF c.full THEN c.rows ELSE Smaller(c.rows, c.cols)>>
          BY <3>3 DEF Described
        <4> QED
          BY <1>2, <4>1 DEF Smaller
      <3>4. CASE x = "Vh"
        <4>1. Described(c, x)
                = <<IF c.full THEN c.cols ELSE Smaller(c.rows, c.cols), c.cols>>
          BY <3>4 DEF Described
        <4> QED
          BY <1>2, <4>1 DEF Smaller
      <3> QED
        BY <1>4, <1>11, <3>1, <3>2, <3>3, <3>4
    <2> QED
      BY <2>1, <2>2, <2>3 DEF LayoutAccepted, PaddingAccepted, EveryProcessOwnsTiles
  <1> QED
    BY <1>9, <1>10, <1>11

(***************************************************************************)
(* Ranks and grid mappings.                                                *)
(***************************************************************************)
\* The rank of each slot, as the native side resolves it.
RankMapOf(c) ==
  [slot \in Partitions(c) |->
     CliqueRank(c, CHOOSE p \in Partitions(c) : PartitionSlotsFromMesh(c)[p] = slot)]

\* A slot gets the rank of the partition Python numbered it for.
LEMMA RankAtSlot ==
  ASSUME NEW c \in Calls, MeshAccepted(c)
  PROVE  /\ RankMapOf(c) \in [Partitions(c) -> Partitions(c)]
         /\ \A p \in Partitions(c) :
              RankMapOf(c)[PartitionSlotsFromMesh(c)[p]] = CliqueRank(c, p)
  <1> DEFINE P == Partitions(c)
             f == PartitionSlotsFromMesh(c)
             At(slot) == CHOOSE p \in P : f[p] = slot
  <1>1. /\ f \in [P -> P]
        /\ \A p, o \in P : f[p] = f[o] => p = o
        /\ \A slot \in P : \E p \in P : f[p] = slot
    BY SlotsOf
  <1>2. \A p \in P : CliqueRank(c, p) \in P
    BY CliqueRankType
  <1>3. RankMapOf(c) = [slot \in P |-> CliqueRank(c, At(slot))]
    BY DEF RankMapOf
  <1> HIDE DEF P, f
  <1>4. \A slot \in P : At(slot) \in P /\ f[At(slot)] = slot
    BY <1>1
  <1>5. \A p \in P : f[p] \in P /\ At(f[p]) = p
    BY <1>1, <1>4
  <1> HIDE DEF At
  <1>6. RankMapOf(c) \in [P -> P]
    BY <1>2, <1>3, <1>4
  <1>7. \A p \in P : RankMapOf(c)[f[p]] = CliqueRank(c, p)
    BY <1>3, <1>5
  <1> QED
    BY <1>6, <1>7 DEF P, f

\* Each of the library's orders puts a rank at the grid coordinates of a slot when,
\* and only when, the rank is the one that order has at the slot.
LEMMA OrderAtSlot ==
  ASSUME NEW R \in Nat \ {0}, NEW C \in Nat \ {0}, NEW row \in 0..(R - 1),
         NEW col \in 0..(C - 1), NEW rank \in Nat, NEW order \in {RowMajor, ColMajor}
  PROVE  ProcessCoordFromRank(rank, R, C, order) = <<row, col>>
           <=> rank = IF order = RowMajor THEN row * C + col
                      ELSE ((row * C + col) % C) * R + ((row * C + col) \div C)
  <1>1. (row * C + col) \div C = row /\ (row * C + col) % C = col
    BY Parts
  <1>2. (col * R + row) \div R = col /\ (col * R + row) % R = row
    BY Parts
  <1> DEFINE slot == row * C + col
             twin == col * R + row
             q == rank \div C
             r == rank % C
             s == rank % R
             t == rank \div R
  <1>3. rank = q * C + r
    BY DivMod
  <1>4. rank = t * R + s
    BY DivMod
  <1>5. (slot % C) * R + (slot \div C) = twin
    BY <1>1, Zenon
  <1>6. /\ rank = slot => q = row /\ r = col
        /\ rank = twin => t = col /\ s = row
    BY <1>1, <1>2, Zenon
  <1>7. /\ q = row /\ r = col => rank = slot
        /\ t = col /\ s = row => rank = twin
    <2> HIDE DEF q, r, s, t
    <2> QED
      BY <1>3, <1>4, Zenon
  <1>8. /\ order = RowMajor => ProcessCoordFromRank(rank, R, C, order) = <<q, r>>
        /\ order # RowMajor => ProcessCoordFromRank(rank, R, C, order) = <<s, t>>
    BY Zenon DEF ProcessCoordFromRank
  <1> HIDE DEF slot, twin, q, r, s, t
  <1>9. ProcessCoordFromRank(rank, R, C, order) = <<row, col>>
          <=> rank = IF order = RowMajor THEN slot ELSE (slot % C) * R + (slot \div C)
    <2>1. CASE order = RowMajor
      BY <1>6, <1>7, <1>8, <2>1
    <2>2. CASE order # RowMajor
      <3>1. ProcessCoordFromRank(rank, R, C, order) = <<row, col>> <=> s = row /\ t = col
        BY <1>8, <2>2
      <3>2. rank = twin <=> s = row /\ t = col
        BY <1>6, <1>7
      <3> QED
        BY <1>5, <2>2, <3>1, <3>2, Zenon
    <2> QED
      BY <2>1, <2>2
  <1> QED
    BY <1>9, Zenon DEF slot

\* A mapping is supported when it puts every rank at its shard, and only then.
LEMMA MappingPlaces ==
  ASSUME NEW c \in Calls, MeshAccepted(c), NEW m \in {RowMajor, ColMajor}
  PROVE  m \in SupportedMappings(RankMapOf(c), ProcessRows(c), ProcessCols(c))
           <=> \A p \in Partitions(c) :
                 ProcessCoordFromRank(CliqueRank(c, p), ProcessRows(c), ProcessCols(c), m)
                   = ShardOf(c, p)
  <1> DEFINE R == ProcessRows(c)
             C == ProcessCols(c)
             P == Partitions(c)
             f == PartitionSlotsFromMesh(c)
             row(p) == Coord(c, p, c.rowAxis)
             col(p) == Coord(c, p, c.colAxis)
             Should(slot) == IF m = RowMajor THEN slot ELSE (slot % C) * R + (slot \div C)
             Placed(p) == ProcessCoordFromRank(CliqueRank(c, p), R, C, m) = ShardOf(c, p)
  <1>1. R \in Nat \ {0} /\ C \in Nat \ {0} /\ P \subseteq Nat
    BY GridOf
  <1>2. RankMapOf(c) \in [P -> P] /\ \A p \in P : RankMapOf(c)[f[p]] = CliqueRank(c, p)
    BY RankAtSlot
  <1>3. f \in [P -> P] /\ \A slot \in P : \E p \in P : f[p] = slot
    BY SlotsOf
  <1>4. \A p \in P : f[p] = row(p) * C + col(p)
    BY SlotsOf
  <1>5. \A p \in P : /\ row(p) \in 0..(R - 1) /\ col(p) \in 0..(C - 1)
                     /\ ShardOf(c, p) = <<row(p), col(p)>>
    BY CoordOf
  <1>6. \A p \in P : CliqueRank(c, p) \in Nat
    BY <1>1, CliqueRankType
  <1>7. m \in SupportedMappings(RankMapOf(c), R, C)
          <=> \A slot \in P : RankMapOf(c)[slot] = Should(slot)
    <2>1. DOMAIN RankMapOf(c) = P
      BY <1>2
    <2> HIDE DEF P, R, C
    <2> QED
      BY <2>1, Zenon DEF SupportedMappings, Follows
  <1> HIDE DEF R, C, P, f, row, col
  <1>8. ASSUME NEW p \in P
        PROVE  Placed(p) <=> RankMapOf(c)[f[p]] = Should(f[p])
    <2> DEFINE y == row(p)
               z == col(p)
               k == CliqueRank(c, p)
    <2>1. y \in 0..(R - 1) /\ z \in 0..(C - 1) /\ k \in Nat /\ ShardOf(c, p) = <<y, z>>
      BY <1>5, <1>6
    <2>2. f[p] = y * C + z /\ RankMapOf(c)[f[p]] = k
      BY <1>2, <1>4
    <2> HIDE DEF y, z, k
    <2>3. ProcessCoordFromRank(k, R, C, m) = <<y, z>>
            <=> k = IF m = RowMajor THEN y * C + z
                    ELSE ((y * C + z) % C) * R + ((y * C + z) \div C)
      BY <1>1, <2>1, OrderAtSlot
    <2>4. Placed(p) <=> ProcessCoordFromRank(k, R, C, m) = <<y, z>>
      BY <2>1, Zenon DEF k
    <2> QED
      BY <2>2, <2>3, <2>4, Zenon
  <1>9. (\A slot \in P : RankMapOf(c)[slot] = Should(slot)) <=> \A p \in P : Placed(p)
    <2>1. ASSUME \A slot \in P : RankMapOf(c)[slot] = Should(slot), NEW p \in P
          PROVE  Placed(p)
      <3>1. f[p] \in P
        BY <1>3
      <3> QED
        BY <1>8, <2>1, <3>1, Zenon
    <2>2. ASSUME \A p \in P : Placed(p), NEW slot \in P
          PROVE  RankMapOf(c)[slot] = Should(slot)
      <3>1. PICK p \in P : f[p] = slot
        BY <1>3
      <3>2. Placed(p)
        BY <2>2, Zenon
      <3>3. RankMapOf(c)[f[p]] = Should(f[p])
        BY <1>8, <3>2, Zenon
      <3> QED
        BY <3>1, <3>3, Zenon
    <2> QED
      BY <2>1, <2>2, Zenon
  <1>10. m \in SupportedMappings(RankMapOf(c), R, C) <=> \A p \in P : Placed(p)
    BY <1>7, <1>9, Zenon
  <1> QED
    BY <1>10, Zenon DEF R, C, P

(***************************************************************************)
(* What an accepted call establishes.                                      *)
(***************************************************************************)
\* The dimensions handed over agree.
LEMMA DimensionsHold ==
  ASSUME NEW c \in Calls, Accepted(c)
  PROVE  /\ "B" \in c.results => /\ BColumns(c) >= c.nrhs
                                 /\ Shard(c, "A")[1] = Shard(c, "B")[1]
         /\ "X" \in c.results => /\ Tall(c)
                                 /\ XDistributionRows(c) \in c.cols..c.rows
  <1>1. MeshAccepted(c) /\ LayoutAccepted(c, Held(c, "A"))
    BY DEF Accepted, AAccepted
  <1>2. c.rows % ProcessRows(c) = 0
    BY <1>1 DEF LayoutAccepted, PaddingAccepted, Held, Described
  <1>3. BColumns(c) >= c.nrhs
    <2>1. BColumns(c) \in Nat /\ c.nrhs <= BColumns(c) /\ c.nrhs \in Nat
      BY <1>1, BWidth, CallFacts
    <2> QED
      BY <2>1
  <1>4. Shard(c, "A")[1] = Shard(c, "B")[1]
    BY DEF Shard, Held, Described
  <1>5. ASSUME "X" \in c.results
        PROVE  Tall(c) /\ XDistributionRows(c) \in c.cols..c.rows
    <2>1. c.routine = "gels"
      <3>1. c.routine \in DOMAIN Results /\ c.results \in Results[c.routine]
        BY CallsAssumption, Zenon
      <3> QED
        BY <1>5, <3>1 DEF Results
    <2>2. Tall(c)
      BY <2>1 DEF Accepted, AAccepted
    <2> QED
      BY <1>1, <1>2, <2>2, XRows
  <1> QED
    BY <1>3, <1>4, <1>5

\* What a rank at grid coordinates at is told to own of matrix x.
Share(c, x, at) ==
  <<LocalNumroc(Described(c, x)[1], c.tile, at[1], ProcessRows(c)),
    LocalNumroc(Described(c, x)[2], c.tile, at[2], ProcessCols(c))>>

\* There is room for it, and it is what is dealt to those coordinates.
LEMMA ShareOf ==
  ASSUME NEW c \in Calls, Accepted(c), NEW x \in Matrices(c),
         NEW at, at[1] \in 0..(ProcessRows(c) - 1), at[2] \in 0..(ProcessCols(c) - 1)
  PROVE  /\ Fits(Share(c, x, at), Shard(c, x))
         /\ {GlobalIndex(i, c.tile, ProcessRows(c), at[1]) :
               i \in 0..(Share(c, x, at)[1] - 1)}
              = Dealt(Described(c, x)[1], c.tile, at[1], ProcessRows(c))
         /\ {GlobalIndex(i, c.tile, ProcessCols(c), at[2]) :
               i \in 0..(Share(c, x, at)[2] - 1)}
              = Dealt(Described(c, x)[2], c.tile, at[2], ProcessCols(c))
         /\ x \notin {"B", "X"} => Share(c, x, at)[1] > 0 /\ Share(c, x, at)[2] > 0
  <1> DEFINE R == ProcessRows(c)
             C == ProcessCols(c)
             H == Held(c, x)
             D == Described(c, x)
             S == Share(c, x, at)
  <1>1. MeshAccepted(c)
    BY DEF Accepted, AAccepted
  <1>2. R \in Nat \ {0} /\ C \in Nat \ {0} /\ c.tile \in Nat \ {0}
    BY <1>1, GridOf, CallFacts
  <1>3. /\ H[1] \in Nat \ {0} /\ H[2] \in Nat \ {0}
        /\ H[1] % R = 0 /\ H[2] % C = 0
        /\ D[1] \in 1..H[1] /\ D[2] \in 1..H[2]
        /\ x \notin {"B", "X"} => TileCount(D[1], c.tile) >= R /\ TileCount(D[2], c.tile) >= C
    BY Shapes
  <1>4. /\ S[1] = LocalNumroc(D[1], c.tile, at[1], R)
        /\ S[2] = LocalNumroc(D[2], c.tile, at[2], C)
    BY DEF Share
  <1>5. /\ Shard(c, x)[1] = PaddedAxis(H[1], R, c.tile)
        /\ Shard(c, x)[2] = PaddedAxis(H[2], C, c.tile)
    BY DEF Shard
  <1>6. at[1] \in 0..(R - 1) /\ at[2] \in 0..(C - 1)
    OBVIOUS
  <1>7. /\ D[1] \in 0..H[1] /\ D[1] \in Nat \ {0} /\ H[1] \in Nat
        /\ D[2] \in 0..H[2] /\ D[2] \in Nat \ {0} /\ H[2] \in Nat
    BY <1>3
  <1> HIDE DEF R, C, H, D, S
  <1>8. Fits(S, Shard(c, x))
    <2>1. LocalNumroc(D[1], c.tile, at[1], R) <= PaddedAxis(H[1], R, c.tile)
      BY <1>2, <1>3, <1>6, <1>7, OwnedFits
    <2>2. LocalNumroc(D[2], c.tile, at[2], C) <= PaddedAxis(H[2], C, c.tile)
      BY <1>2, <1>3, <1>6, <1>7, OwnedFits
    <2> QED
      BY <1>4, <1>5, <2>1, <2>2 DEF Fits
  <1>9. {GlobalIndex(i, c.tile, R, at[1]) : i \in 0..(S[1] - 1)}
          = Dealt(D[1], c.tile, at[1], R)
    <2> DEFINE n == D[1]
               a == at[1]
               b == c.tile
    <2>1. n \in Nat /\ b \in Nat \ {0} /\ R \in Nat \ {0} /\ a \in 0..(R - 1)
      BY <1>2, <1>6, <1>7
    <2>2. S[1] = LocalNumroc(n, b, a, R)
      BY <1>4
    <2> HIDE DEF n, a, b
    <2>3. ExactlyDealt(n, b, a, R)
      BY <2>1, OwnedAreDealt
    <2> QED
      BY <2>2, <2>3, Zenon DEF ExactlyDealt, Dealt, Owner, n, a, b
  <1>10. {GlobalIndex(i, c.tile, C, at[2]) : i \in 0..(S[2] - 1)}
          = Dealt(D[2], c.tile, at[2], C)
    <2> DEFINE n == D[2]
               a == at[2]
               b == c.tile
    <2>1. n \in Nat /\ b \in Nat \ {0} /\ C \in Nat \ {0} /\ a \in 0..(C - 1)
      BY <1>2, <1>6, <1>7
    <2>2. S[2] = LocalNumroc(n, b, a, C)
      BY <1>4
    <2> HIDE DEF n, a, b
    <2>3. ExactlyDealt(n, b, a, C)
      BY <2>1, OwnedAreDealt
    <2> QED
      BY <2>2, <2>3, Zenon DEF ExactlyDealt, Dealt, Owner, n, a, b
  <1>11. x \notin {"B", "X"} => S[1] > 0 /\ S[2] > 0
    BY <1>2, <1>3, <1>4, <1>6, <1>7, EveryoneOwns
  <1> QED
    BY <1>8, <1>9, <1>10, <1>11 DEF R, C, D, S

(***************************************************************************)
(* The invariant: what the stages have established of the call.            *)
(***************************************************************************)
Prepared ==
  /\ Accepted(call)
  /\ grid = [slots |-> PartitionSlotsFromMesh(call),
             rows |-> ProcessRows(call), cols |-> ProcessCols(call)]

DescribedAll ==
  /\ coord = [p \in Partitions(call) |->
                ProcessCoordFromRank(CliqueRank(call, p), ProcessRows(call),
                                     ProcessCols(call), mapping)]
  /\ owned = [p \in Partitions(call) |->
                [x \in Matrices(call) |-> Share(call, x, coord[p])]]
  /\ status = [p \in Partitions(call) |->
                 IF \A x \in Matrices(call) \ {"X"} : Fits(owned[p][x], Shard(call, x))
                 THEN kStatusOk ELSE kOutputShapeMismatch]

StagesInv ==
  /\ call \in Calls
  /\ stage \in {"given", "refused", "prepared", "resolved", "unsupported", "described"}
  /\ stage = "refused" => ~Accepted(call)
  /\ stage \in {"prepared", "resolved", "unsupported", "described"} => Prepared
  /\ stage \in {"resolved", "unsupported", "described"} => rankMap = RankMapOf(call)
  /\ stage = "unsupported" =>
       SupportedMappings(RankMapOf(call), ProcessRows(call), ProcessCols(call)) = {}
  /\ stage \in {"resolved", "described"} =>
       mapping \in SupportedMappings(RankMapOf(call), ProcessRows(call), ProcessCols(call))
  /\ stage = "described" => DescribedAll

\* In a prepared call the slots are the partitions and the native side resolves the
\* ranks of its slots.
LEMMA ResolvedIs ==
  ASSUME call \in Calls, Prepared
  PROVE  Slots = Partitions(call) /\ ResolvedRankMap = RankMapOf(call)
  <1>1. /\ grid.slots = PartitionSlotsFromMesh(call)
        /\ grid.rows = ProcessRows(call) /\ grid.cols = ProcessCols(call)
    BY DEF Prepared
  <1>2. Slots = Partitions(call)
    <2>1. MeshAccepted(call)
      BY DEF Prepared, Accepted, AAccepted
    <2>2. Partitions(call) = 0..(ProcessRows(call) * ProcessCols(call) - 1)
      BY <2>1, GridOf
    <2> QED
      BY <1>1, <2>2 DEF Slots
  <1>3. ResolvedRankMap = RankMapOf(call)
    <2> DEFINE From(slots, S) ==
                 [slot \in S |->
                    CliqueRank(call, CHOOSE p \in Partitions(call) : slots[p] = slot)]
    <2>1. ResolvedRankMap = From(grid.slots, Slots)
      BY Zenon DEF ResolvedRankMap
    <2>2. RankMapOf(call) = From(PartitionSlotsFromMesh(call), Partitions(call))
      BY Zenon DEF RankMapOf
    <2> HIDE DEF From
    <2> QED
      BY <1>1, <1>2, <2>1, <2>2
  <1> QED
    BY <1>2, <1>3

\* Every stage establishes its part of the invariant, whatever the call: a refused one is
\* not accepted, and an accepted one passes the checks of the native dispatch.
THEOREM StagesInvariant == Spec => []StagesInv
  <1>1. Init => StagesInv
    BY DEF Init, StagesInv
  <1>2. StagesInv /\ [Next]_vars => StagesInv'
    <2> SUFFICES ASSUME StagesInv, [Next]_vars
                 PROVE  StagesInv'
      OBVIOUS
    <2>1. CASE Prepare
      BY <2>1 DEF Prepare, StagesInv, Prepared
    <2>2. CASE Refuse
      BY <2>2 DEF Refuse, StagesInv
    <2>3. CASE ResolveProcessGrid
      <3>1. call \in Calls /\ Prepared /\ stage = "prepared"
        BY <2>3 DEF ResolveProcessGrid, StagesInv
      <3>2. call' = call /\ grid' = grid /\ rankMap' = RankMapOf(call)
        BY <2>3, <3>1, ResolvedIs DEF ResolveProcessGrid
      <3>3. Prepared'
        BY <3>1, <3>2 DEF Prepared
      <3> DEFINE ms == SupportedMappings(RankMapOf(call), ProcessRows(call), ProcessCols(call))
      <3>4. ms = SupportedMappings(ResolvedRankMap, grid.rows, grid.cols)
        BY <3>1, ResolvedIs DEF Prepared
      <3>5. \/ ms = {} /\ stage' = "unsupported"
            \/ ms # {} /\ stage' = "resolved" /\ mapping' \in ms
        <4>1. ms \subseteq {RowMajor, ColMajor}
          BY DEF SupportedMappings
        <4> HIDE DEF ms
        <4> QED
          BY <2>3, <3>4, <4>1 DEF ResolveProcessGrid
      <3> QED
        BY <3>1, <3>2, <3>3, <3>5 DEF StagesInv
    <2>4. CASE Describe
      <3>1. /\ call \in Calls /\ Prepared /\ stage = "resolved"
            /\ rankMap = RankMapOf(call)
            /\ mapping \in SupportedMappings(RankMapOf(call), ProcessRows(call),
                                            ProcessCols(call))
        BY <2>4 DEF Describe, StagesInv
      <3>2. DimensionsAgree
        BY <3>1, DimensionsHold DEF DimensionsAgree, Prepared
      <3>3. /\ call' = call /\ grid' = grid /\ rankMap' = rankMap /\ mapping' = mapping
            /\ stage' = "described"
            /\ coord' = [p \in Partitions(call) |->
                 ProcessCoordFromRank(CliqueRank(call, p), grid.rows, grid.cols, mapping)]
            /\ owned' = [p \in Partitions(call) |->
                 [x \in Matrices(call) |-> LocalShape(x, coord'[p])]]
            /\ status' = [p \in Partitions(call) |->
                 IF \A x \in Matrices(call) \ {"X"} : Fits(owned'[p][x], Shard(call, x))
                 THEN kStatusOk ELSE kOutputShapeMismatch]
        BY <2>4, <3>2, Zenon DEF Describe
      <3>4. grid.rows = ProcessRows(call) /\ grid.cols = ProcessCols(call)
        BY <3>1 DEF Prepared
      <3>5. \A x, at : LocalShape(x, at) = Share(call, x, at)
        BY <3>4 DEF LocalShape, Share
      <3>6. DescribedAll'
        <4>1. coord' = [p \in Partitions(call') |->
                ProcessCoordFromRank(CliqueRank(call', p), ProcessRows(call'),
                                     ProcessCols(call'), mapping')]
          BY <3>3, <3>4
        <4>2. owned' = [p \in Partitions(call') |->
                [x \in Matrices(call') |-> Share(call', x, coord'[p])]]
          BY <3>3, <3>5
        <4>3. status' = [p \in Partitions(call') |->
                 IF \A x \in Matrices(call') \ {"X"} : Fits(owned'[p][x], Shard(call', x))
                 THEN kStatusOk ELSE kOutputShapeMismatch]
          BY <3>3, Zenon
        <4> QED
          BY <4>1, <4>2, <4>3, Zenon DEF DescribedAll
      <3>7. Prepared'
        BY <3>1, <3>3 DEF Prepared
      <3> QED
        BY <3>1, <3>3, <3>6, <3>7 DEF StagesInv
    <2>5. CASE UNCHANGED vars
      BY <2>5, Zenon DEF vars, StagesInv, Prepared, DescribedAll
    <2> QED
      BY <2>1, <2>2, <2>3, <2>4, <2>5 DEF Next, Finished
  <1> QED
    BY <1>1, <1>2, PTL DEF Spec

(***************************************************************************)
(* The safety properties of the process grid.                              *)
(***************************************************************************)
\* Where the library puts partition p of a described call: at the shard JAX put there,
\* and that is a place of the grid.
LEMMA PlacedAt ==
  ASSUME StagesInv, stage = "described", NEW p \in Partitions(call)
  PROVE  /\ coord[p] = ShardOf(call, p)
         /\ coord[p] = <<Coord(call, p, call.rowAxis), Coord(call, p, call.colAxis)>>
         /\ coord[p][1] \in 0..(ProcessRows(call) - 1)
         /\ coord[p][2] \in 0..(ProcessCols(call) - 1)
  <1>1. /\ call \in Calls /\ MeshAccepted(call) /\ DescribedAll
        /\ mapping \in SupportedMappings(RankMapOf(call), ProcessRows(call), ProcessCols(call))
    BY DEF StagesInv, Prepared, Accepted, AAccepted
  <1>2. coord[p] = ProcessCoordFromRank(CliqueRank(call, p), ProcessRows(call),
                                        ProcessCols(call), mapping)
    BY <1>1 DEF DescribedAll
  <1>3. mapping \in {RowMajor, ColMajor}
    BY <1>1 DEF SupportedMappings
  <1>4. coord[p] = ShardOf(call, p)
    BY <1>1, <1>2, <1>3, MappingPlaces
  <1> QED
    BY <1>1, <1>4, CoordOf

\* A partition is told to own its share.
LEMMA OwnedShare ==
  ASSUME StagesInv, stage = "described", NEW p \in Partitions(call),
         NEW x \in Matrices(call)
  PROVE  owned[p][x] = Share(call, x, coord[p])
  BY DEF StagesInv, DescribedAll

\* The stages and the values of the other variables are those of the type invariant.
THEOREM TypeCorrect == Spec => []TypeOK
  <1>1. StagesInv => TypeOK
    <2> SUFFICES ASSUME StagesInv
                 PROVE  TypeOK
      OBVIOUS
    <2>1. call \in Calls
      BY DEF StagesInv
    <2>2. ASSUME stage \notin {"given", "refused"}
          PROVE  Prepared /\ MeshAccepted(call)
      BY <2>2 DEF StagesInv, Prepared, Accepted, AAccepted
    <2>3. ASSUME stage \notin {"given", "refused"}
          PROVE  grid.slots \in [Partitions(call) -> Partitions(call)]
      BY <2>1, <2>2, <2>3, SlotsOf DEF Prepared
    <2>4. ASSUME stage \notin {"given", "refused", "prepared"}
          PROVE  rankMap \in [Slots -> Partitions(call)]
      <3>1. rankMap = RankMapOf(call)
        BY <2>4 DEF StagesInv
      <3>2. Slots = Partitions(call)
        BY <2>1, <2>2, <2>4, ResolvedIs
      <3> QED
        BY <2>1, <2>2, <2>4, <3>1, <3>2, RankAtSlot
    <2>5. ASSUME stage \in {"resolved", "described"}
          PROVE  mapping \in {RowMajor, ColMajor}
      BY <2>5 DEF StagesInv, SupportedMappings
    <2>6. ASSUME stage = "described"
          PROVE  status \in [Partitions(call) -> {kStatusOk, kOutputShapeMismatch}]
      <3>1. DescribedAll
        BY <2>6 DEF StagesInv
      <3>2. \A b \in BOOLEAN : (IF b THEN kStatusOk ELSE kOutputShapeMismatch)
                                 \in {kStatusOk, kOutputShapeMismatch}
        OBVIOUS
      <3> QED
        BY <3>1, <3>2 DEF DescribedAll
    <2>7. stage \in {"given", "refused", "prepared", "resolved", "unsupported",
                     "invalid", "described"}
      BY DEF StagesInv
    <2> QED
      BY <2>1, <2>3, <2>4, <2>5, <2>6, <2>7 DEF TypeOK
  <1> QED
    BY <1>1, StagesInvariant, PTL

\* For every accepted order of devices and axes, the coordinate of a rank, its slot and
\* the shard on its device are one and the same place.
THEOREM RanksAtTheirShards == Spec => []ShardsPlaced
  <1>1. StagesInv => ShardsPlaced
    <2> SUFFICES ASSUME StagesInv, stage = "described", NEW p \in Partitions(call)
                 PROVE  /\ coord[p] = ShardOf(call, p)
                        /\ rankMap[coord[p][1] * grid.cols + coord[p][2]]
                             = CliqueRank(call, p)
      BY DEF ShardsPlaced
    <2>1. /\ call \in Calls /\ MeshAccepted(call) /\ rankMap = RankMapOf(call)
          /\ grid.cols = ProcessCols(call)
      BY DEF StagesInv, Prepared, Accepted, AAccepted
    <2>2. coord[p] = <<Coord(call, p, call.rowAxis), Coord(call, p, call.colAxis)>>
      BY PlacedAt
    <2>3. PartitionSlotsFromMesh(call)[p] = coord[p][1] * grid.cols + coord[p][2]
      BY <2>1, <2>2, SlotsOf
    <2>4. rankMap[coord[p][1] * grid.cols + coord[p][2]] = CliqueRank(call, p)
      BY <2>1, <2>3, RankAtSlot
    <2> QED
      BY <2>4, PlacedAt
  <1> QED
    BY <1>1, StagesInvariant, PTL

\* A mesh the native side turns away is one that neither order of the library serves.
THEOREM OnlyHopelessMeshes == Spec => []UnsupportedIsUnavoidable
  <1>1. StagesInv => UnsupportedIsUnavoidable
    <2> SUFFICES ASSUME StagesInv, stage = "unsupported", NEW m \in {RowMajor, ColMajor}
                 PROVE  \E p \in Partitions(call) :
                          ProcessCoordFromRank(CliqueRank(call, p), grid.rows, grid.cols, m)
                            # ShardOf(call, p)
      BY DEF UnsupportedIsUnavoidable
    <2>1. /\ call \in Calls /\ MeshAccepted(call)
          /\ grid.rows = ProcessRows(call) /\ grid.cols = ProcessCols(call)
      BY DEF StagesInv, Prepared, Accepted, AAccepted
    <2>2. m \notin SupportedMappings(RankMapOf(call), ProcessRows(call), ProcessCols(call))
      BY DEF StagesInv
    <2> QED
      BY <2>1, <2>2, MappingPlaces
  <1> QED
    BY <1>1, StagesInvariant, PTL

\* No accepted call fails in the native dispatch, and what a rank owns of any matrix,
\* the unchecked solution included, fits its padded shard.
THEOREM RoomForAll == Spec => []CapacitySuffices
  <1>1. StagesInv => CapacitySuffices
    <2> SUFFICES ASSUME StagesInv
                 PROVE  CapacitySuffices
      OBVIOUS
    <2>1. stage # "invalid"
      BY DEF StagesInv
    <2>2. ASSUME stage = "described", NEW p \in Partitions(call)
          PROVE  /\ status[p] = kStatusOk
                 /\ \A x \in Matrices(call) : Fits(owned[p][x], Shard(call, x))
      <3>1. call \in Calls /\ Accepted(call) /\ DescribedAll
        BY <2>2 DEF StagesInv, Prepared
      <3>2. /\ coord[p][1] \in 0..(ProcessRows(call) - 1)
            /\ coord[p][2] \in 0..(ProcessCols(call) - 1)
        BY <2>2, PlacedAt
      <3>3. \A x \in Matrices(call) : Fits(owned[p][x], Shard(call, x))
        <4> SUFFICES ASSUME NEW x \in Matrices(call)
                     PROVE  Fits(owned[p][x], Shard(call, x))
          OBVIOUS
        <4>1. owned[p][x] = Share(call, x, coord[p])
          BY <2>2, OwnedShare
        <4>2. Fits(Share(call, x, coord[p]), Shard(call, x))
          BY <3>1, <3>2, ShareOf
        <4> QED
          BY <4>1, <4>2
      <3>4. status[p] = IF \A x \in Matrices(call) \ {"X"} :
                             Fits(owned[p][x], Shard(call, x))
                        THEN kStatusOk ELSE kOutputShapeMismatch
        BY <2>2, <3>1, Zenon DEF DescribedAll
      <3> QED
        BY <3>3, <3>4, Zenon
    <2> QED
      BY <2>1, <2>2 DEF CapacitySuffices
  <1> QED
    BY <1>1, StagesInvariant, PTL

\* What a rank is told to own is exactly what is dealt to its coordinate, of every
\* matrix, and of A and the factors it is not empty.
THEOREM RanksOwnWhatIsDealt == Spec => []OwnedIsDealt
  <1>1. StagesInv => OwnedIsDealt
    <2> SUFFICES ASSUME StagesInv, stage = "described",
                        NEW p \in Partitions(call), NEW x \in Matrices(call)
                 PROVE  /\ {GlobalIndex(i, call.tile, grid.rows, coord[p][1]) :
                              i \in 0..(owned[p][x][1] - 1)}
                             = Dealt(Described(call, x)[1], call.tile, coord[p][1], grid.rows)
                        /\ {GlobalIndex(i, call.tile, grid.cols, coord[p][2]) :
                              i \in 0..(owned[p][x][2] - 1)}
                             = Dealt(Described(call, x)[2], call.tile, coord[p][2], grid.cols)
                        /\ x \notin {"B", "X"} => owned[p][x][1] > 0 /\ owned[p][x][2] > 0
      BY Zenon DEF OwnedIsDealt
    <2>1. /\ call \in Calls /\ Accepted(call)
          /\ grid.rows = ProcessRows(call) /\ grid.cols = ProcessCols(call)
      BY DEF StagesInv, Prepared
    <2>2. /\ coord[p][1] \in 0..(ProcessRows(call) - 1)
          /\ coord[p][2] \in 0..(ProcessCols(call) - 1)
      BY PlacedAt
    <2>3. owned[p][x] = Share(call, x, coord[p])
      BY OwnedShare
    <2> DEFINE at == coord[p]
    <2>4. /\ {GlobalIndex(i, call.tile, ProcessRows(call), at[1]) :
                i \in 0..(Share(call, x, at)[1] - 1)}
               = Dealt(Described(call, x)[1], call.tile, at[1], ProcessRows(call))
          /\ {GlobalIndex(i, call.tile, ProcessCols(call), at[2]) :
                i \in 0..(Share(call, x, at)[2] - 1)}
               = Dealt(Described(call, x)[2], call.tile, at[2], ProcessCols(call))
          /\ x \notin {"B", "X"} =>
               Share(call, x, at)[1] > 0 /\ Share(call, x, at)[2] > 0
      <3>1. at[1] \in 0..(ProcessRows(call) - 1) /\ at[2] \in 0..(ProcessCols(call) - 1)
        BY <2>2
      <3> HIDE DEF at
      <3> QED
        BY <2>1, <3>1, ShareOf, Zenon
    <2> QED
      BY <2>1, <2>3, <2>4, Zenon
  <1> QED
    BY <1>1, StagesInvariant, PTL

\* The redistribution planners accept what Python and the resolution hand them, with
\* the scratch they ask for.
THEOREM PlannersAccept == Spec => []GeometryAccepted
  <1>1. StagesInv => GeometryAccepted
    <2> SUFFICES ASSUME StagesInv, stage \in {"resolved", "described"},
                        NEW x \in Matrices(call), NEW g, g = Geometry(call, x, rankMap)
                 PROVE  /\ ValidStandardGridRankMap(g)
                        /\ SlabArgumentsOK(g)
                        /\ EdgeArgumentsOK(g, RequiredPadded2DNativePlanScratchElements(g))
                        /\ RequiredPadded2DNativePlanScratchElements(g)
                             >= Larger(g.rows, g.cols)
      BY DEF GeometryAccepted
    <2> DEFINE R == ProcessRows(call)
               C == ProcessCols(call)
               H == Held(call, x)
               b == call.tile
               h == Shard(call, x)[1]
               w == Shard(call, x)[2]
    <2>1. /\ call \in Calls /\ Accepted(call) /\ MeshAccepted(call)
          /\ rankMap = RankMapOf(call)
          /\ mapping \in SupportedMappings(RankMapOf(call), R, C)
      BY DEF StagesInv, Prepared, Accepted, AAccepted
    <2>2. R \in Nat \ {0} /\ C \in Nat \ {0} /\ b \in Nat \ {0}
      BY <2>1, GridOf, CallFacts
    <2>3. /\ g.prows = R /\ g.pcols = C /\ g.trows = b /\ g.tcols = b
          /\ g.rows = h /\ g.cols = w /\ g.lrows = H[1] /\ g.lcols = H[2]
          /\ g.rankMap = RankMapOf(call)
      BY <2>1 DEF Geometry
    <2>4. /\ H[1] \in Nat \ {0} /\ H[1] % R = 0
          /\ H[2] \in Nat \ {0} /\ H[2] % C = 0
      BY <2>1, Shapes
    <2>5. h = PaddedAxis(H[1], R, b) /\ w = PaddedAxis(H[2], C, b)
      BY DEF Shard
    <2>6. ValidStandardGridRankMap(g)
      <3>1. mapping \in {RowMajor, ColMajor} /\ Follows(RankMapOf(call), R, C, mapping)
        BY <2>1 DEF SupportedMappings
      <3>2. DOMAIN RankMapOf(call) = 0..(R * C - 1)
        BY <2>1, GridOf DEF RankMapOf
      <3>3. CASE mapping = RowMajor
        BY <2>3, <3>1, <3>2, <3>3 DEF Follows, ValidStandardGridRankMap
      <3>4. CASE mapping # RowMajor
        BY <2>3, <3>1, <3>2, <3>4 DEF Follows, ValidStandardGridRankMap
      <3> QED
        BY <3>3, <3>4
    <2> HIDE DEF R, C, H, b, h, w
    <2>7. /\ h \in Nat \ {0} /\ h % b = 0 /\ h = (H[1] \div R) + AxisPadding(H[1] \div R, b)
          /\ w \in Nat \ {0} /\ w % b = 0 /\ w = (H[2] \div C) + AxisPadding(H[2] \div C, b)
      <3> DEFINE m == H[1]
                 n == H[2]
      <3>1. m \in Nat \ {0} /\ m % R = 0 /\ n \in Nat \ {0} /\ n % C = 0
        BY <2>4
      <3>2. h = PaddedAxis(m, R, b) /\ w = PaddedAxis(n, C, b)
        BY <2>5
      <3> HIDE DEF m, n
      <3>3. h \in Nat \ {0} /\ h % b = 0 /\ h = (m \div R) + AxisPadding(m \div R, b)
        BY <2>2, <3>1, <3>2, Padded
      <3>4. w \in Nat \ {0} /\ w % b = 0 /\ w = (n \div C) + AxisPadding(n \div C, b)
        BY <2>2, <3>1, <3>2, Padded
      <3> QED
        BY <3>3, <3>4 DEF m, n
    <2>8. SlabArgumentsOK(g)
      BY <2>2, <2>3, <2>7 DEF SlabArgumentsOK
    <2>9. /\ RequiredPadded2DNativePlanScratchElements(g) \in Nat
          /\ RequiredPadded2DNativePlanScratchElements(g) >= h
          /\ RequiredPadded2DNativePlanScratchElements(g) >= w
      <3> DEFINE u == b * h
                 v == b * w
      <3>1. \A t \in Nat \ {0}, n \in Nat : t * n \in Nat /\ n <= t * n
        <4> TAKE t \in Nat \ {0}, n \in Nat
        <4>1. t - 1 \in Nat /\ t = (t - 1) + 1
          OBVIOUS
        <4>2. (t - 1) * n \in Nat /\ t * n = (t - 1) * n + n
          BY <4>1
        <4> QED
          BY <4>2
      <3>2. u \in Nat /\ h <= u /\ v \in Nat /\ w <= v
        BY <2>2, <2>7, <3>1
      <3>3. RequiredPadded2DNativePlanScratchElements(g) = 3 * Larger(u, v)
        BY <2>3 DEF RequiredPadded2DNativePlanScratchElements, RequiredCyclicSlotElements
      <3> HIDE DEF u, v
      <3>4. Larger(u, v) \in Nat /\ u <= Larger(u, v) /\ v <= Larger(u, v)
        BY <3>2, LargerOf
      <3> QED
        BY <2>7, <3>2, <3>3, <3>4
    <2>10. EdgeArgumentsOK(g, RequiredPadded2DNativePlanScratchElements(g))
      BY <2>3, <2>4, <2>7, <2>9 DEF EdgeArgumentsOK, LocalLogicalRows, LocalLogicalCols
    <2>11. RequiredPadded2DNativePlanScratchElements(g) >= Larger(g.rows, g.cols)
      BY <2>3, <2>7, <2>9 DEF Larger
    <2> QED
      BY <2>6, <2>8, <2>10, <2>11
  <1> QED
    BY <1>1, StagesInvariant, PTL

\* With padding allowed, potrs is refused for its A only.
THEOREM NarrowRhsAccepted == Spec => []RhsNeverRefused
  <1>1. StagesInv => RhsNeverRefused
    <2> SUFFICES ASSUME StagesInv, stage = "refused", call.pad, call.routine = "potrs",
                        AAccepted(call)
                 PROVE  FALSE
      BY DEF RhsNeverRefused
    <2>1. call \in Calls /\ ~Accepted(call)
      BY DEF StagesInv
    <2>2. call.results = {"B"}
      <3>1. call.results \in Results[call.routine]
        BY <2>1, CallsAssumption, Zenon
      <3> QED
        BY <3>1 DEF Results
    <2>3. MeshAccepted(call) /\ LayoutAccepted(call, Held(call, "A"))
      BY DEF AAccepted
    <2>4. call.rows % ProcessRows(call) = 0
      BY <2>3 DEF LayoutAccepted, PaddingAccepted, Held, Described
    <2>5. BColumns(call) % ProcessCols(call) = 0
      BY <2>1, <2>3, BWidth
    <2>6. BAccepted(call)
      BY <2>4, <2>5 DEF BAccepted, PaddingAccepted
    <2>7. FactorsAccepted(call)
      BY <2>2 DEF FactorsAccepted
    <2> QED
      BY <2>1, <2>2, <2>6, <2>7 DEF Accepted
  <1> QED
    BY <1>1, StagesInvariant, PTL
==============================================================================
