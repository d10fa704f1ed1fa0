--------------------------- MODULE MCStreamOrder ---------------------------
(***************************************************************************)
(* One rank with and without a communication stream.  Two batches on the   *)
(* way in, so that the second meets what the first left on the streams.    *)
(***************************************************************************)
EXTENDS StreamOrder

EitherStream == BOOLEAN
=============================================================================
