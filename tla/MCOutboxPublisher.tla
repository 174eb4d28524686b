------------------------- MODULE MCOutboxPublisher -------------------------
(***************************************************************************)
(* Small instances of OutboxPublisher: batches of up to three events, of   *)
(* three publishers, that overlap in part.                                 *)
(***************************************************************************)
EXTENDS OutboxPublisher
=============================================================================
