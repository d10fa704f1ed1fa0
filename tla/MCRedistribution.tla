-------------------------- MODULE MCRedistribution --------------------------
(***************************************************************************)
(* Small geometries for Redistribution: both axes and both rank orders,    *)
(* with and without padding, whole and chunked edge moves.                 *)
(***************************************************************************)
EXTENDS Redistribution

Padded(n, t) == n + AxisPadding(n, t)

\* The geometry of a P x Q grid, tiles tr x tc, per-rank logical shape m x n.
\* The shard is padded as the Python side pads it; scratch gets `spare` more
\* elements than required (a fused call shares the largest matrix's scratch).
Geometry(P, Q, tr, tc, m, n, rowMajor, spare) ==
  LET rows == Padded(m, tr)
      cols == Padded(n, tc)
      slot == Larger(tc * rows, tr * cols)
  IN  [prows |-> P, pcols |-> Q, trows |-> tr, tcols |-> tc,
       rows |-> rows, cols |-> cols, lrows |-> P * m, lcols |-> Q * n,
       rankMap |-> [p \in 0..(P * Q - 1) |->
                      IF rowMajor THEN p ELSE (p % Q) * P + (p \div Q)],
       scratch |-> 3 * slot + spare]

MCGeometries == {
  Geometry(1, 2, 1, 2, 1, 3, TRUE, 0),
  Geometry(2, 1, 2, 1, 3, 2, FALSE, 0),
  Geometry(1, 2, 1, 1, 1, 4, TRUE, 0),
  Geometry(1, 3, 1, 2, 1, 3, TRUE, 2),
  Geometry(1, 2, 1, 2, 4, 9, TRUE, 0),
  Geometry(2, 2, 2, 2, 3, 3, FALSE, 0),
  Geometry(2, 2, 1, 2, 2, 4, TRUE, 0) }

\* Fewer and smaller, for the properties that are expensive to evaluate.
SmallGeometries == {
  Geometry(1, 2, 1, 2, 1, 3, TRUE, 0),
  Geometry(2, 1, 2, 1, 3, 1, FALSE, 0),
  Geometry(1, 2, 1, 1, 1, 4, TRUE, 0),
  Geometry(1, 3, 1, 2, 1, 3, TRUE, 0),
  Geometry(2, 2, 1, 1, 2, 1, FALSE, 0) }

MCBufferDepths == {0, 1}
=============================================================================
