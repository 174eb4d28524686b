--------------------------- MODULE MCEmailPipeline ---------------------------
(***************************************************************************)
(* A small instance of EmailPipeline: two decisions, two email workers, of *)
(* which one dies once while it holds a row.                               *)
(***************************************************************************)
EXTENDS EmailPipeline
=============================================================================
