----------------------------- MODULE MCJwksCache -----------------------------
(***************************************************************************)
(* A small instance of JwksCache.                                          *)
(***************************************************************************)
EXTENDS JwksCache
=============================================================================
