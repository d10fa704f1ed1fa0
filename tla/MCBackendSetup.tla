--------------------------- MODULE MCBackendSetup ---------------------------
(***************************************************************************)
(* Three threads race through a set-up of three targets, with a failure    *)
(* possible at every step that may raise and any number of retries.        *)
(***************************************************************************)
EXTENDS BackendSetup, TLC

CONSTANTS t1, t2, t3
MCThreads == {t1, t2, t3}
Interchangeable == Permutations(MCThreads)
=============================================================================
