---------------------------- MODULE MCProcessGrid ----------------------------
(***************************************************************************)
(* Meshes of three to six devices for ProcessGrid, in both axis orders and *)
(* with devices in every order (four devices) or a chosen one; every       *)
(* routine with each choice of results; matrices that divide into tiles    *)
(* and that do not.                                                        *)
(***************************************************************************)
EXTENDS ProcessGrid

Call(routine, sizes, devices, rowAxis, colAxis, rhsAxes, m, n, k, tile, pad) ==
  [routine |-> routine, axes |-> SubSeq(<<"x", "y", "z">>, 1, Len(sizes)),
   sizes |-> sizes, devices |-> devices, rowAxis |-> rowAxis, colAxis |-> colAxis,
   rhsAxes |-> rhsAxes, rows |-> m, cols |-> n, nrhs |-> k, tile |-> tile,
   pad |-> pad, results |-> UNION Results[routine], full |-> FALSE]

Factorization(routine, results, full, sizes, devices, m, n, tile, pad) ==
  [Call(routine, sizes, devices, "x", IF Len(sizes) = 1 THEN NoAxis ELSE "y", {},
        m, n, 1, tile, pad) EXCEPT !.results = results, !.full = full]

\* Every order of four devices with gaps in their ids, on a 2 x 2 mesh.
Orders == {s \in [1..4 -> {1, 2, 5, 7}] : \A i, j \in 1..4 : s[i] = s[j] => i = j}
Squares ==
  {Call("potrs", <<2, 2>>, s, a, IF a = "x" THEN "y" ELSE "x", {}, 4, 4, 1, 1, TRUE) :
     s \in Orders, a \in {"x", "y"}}

\* One axis, sharding rows or columns, many shapes.
Lines ==
  {Call("potrs", <<3>>, <<0, 1, 2>>, axes[1], axes[2], {}, m, n, k, tile, pad) :
     axes \in {<<"x", NoAxis>>, <<NoAxis, "x">>}, m \in {3, 6, 7, 9},
     n \in {3, 6, 7, 9}, k \in {1, 3, 4}, tile \in 1..3, pad \in BOOLEAN}
TallLines ==
  {Call("gels", <<3>>, <<0, 1, 2>>, axes[1], axes[2], rhs, m, n, k, tile, pad) :
     axes \in {<<"x", NoAxis>>, <<NoAxis, "x">>}, rhs \in {{}, {"x"}},
     m \in {9, 12}, n \in {3, 5, 9, 12}, k \in {1, 4, 6}, tile \in {1, 2},
     pad \in BOOLEAN}

\* Rectangular grids in both orders, devices in row- and column-major order;
\* B replicated, or sharded over either axis or both.
Rectangles == UNION {
  {Call("potrs", <<2, 3>>, d, "x", "y", {}, 12, 12, k, tile, TRUE),
   Call("gels", <<2, 3>>, d, "x", "y", rhs, 12, 6, k, tile, TRUE),
   Call("gels", <<3, 2>>, d, "y", "x", rhs, 12, 9, k, tile, TRUE),
   Call("gels", <<3, 2>>, d, "x", "y", rhs, 18, 10, k, tile, TRUE)} :
     d \in {<<0, 1, 2, 3, 4, 5>>, <<0, 3, 1, 4, 2, 5>>, <<0, 2, 4, 1, 3, 5>>},
     rhs \in SUBSET {"x", "y"}, k \in {1, 5}, tile \in {1, 2, 4}}

\* Two shardings of rows that are not coprime.
Evens == {Call("gels", <<2, 2>>, <<0, 1, 2, 3>>, "x", "y", rhs, 6, n, 4, 1, TRUE) :
            rhs \in {{}, {"x"}, {"y"}}, n \in 4..6}

\* The routines without a right-hand side, with each choice of results.
Modes == UNION { {r} \X Results[r] \X (IF r = "gesvd" THEN BOOLEAN ELSE {FALSE}) :
                   r \in {"potrf", "qr", "polar", "gesvd"} }
Factorizations ==
  {Factorization(mode[1], mode[2], mode[3], <<3>>, <<0, 1, 2>>, m, n, tile, pad) :
     mode \in Modes, m \in {6, 9}, n \in {6, 9},
     tile \in {1, 2}, pad \in BOOLEAN}
  \cup
  {Factorization(mode[1], mode[2], mode[3], <<2, 3>>, d, m, n, tile, TRUE) :
     mode \in Modes, m \in {6, 12}, n \in {6, 9, 12}, tile \in {1, 2, 4},
     d \in {<<0, 1, 2, 3, 4, 5>>}}

\* Meshes the matrix does not cover, and a third axis of size one.
Others == {
  Call("potrs", <<2, 2>>, <<0, 1, 2, 3>>, "x", NoAxis, {}, 4, 4, 1, 1, TRUE),
  Call("potrs", <<2, 2>>, <<0, 1, 2, 3>>, "x", "x", {}, 4, 4, 1, 1, TRUE),
  Call("potrs", <<2, 2>>, <<0, 1, 2, 3>>, NoAxis, NoAxis, {}, 4, 4, 1, 1, TRUE),
  Call("potrs", <<2, 1, 2>>, <<0, 1, 2, 3>>, "x", "z", {}, 6, 6, 2, 2, TRUE),
  Call("potrs", <<2, 1, 2>>, <<0, 2, 1, 3>>, "x", "z", {}, 6, 6, 2, 2, TRUE) }

MCCalls ==
  Squares \cup Lines \cup TallLines \cup Rectangles \cup Evens \cup Factorizations
    \cup Others
=============================================================================
