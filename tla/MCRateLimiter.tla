---------------------------- MODULE MCRateLimiter ----------------------------
(***************************************************************************)
(* A small instance of RateLimiter: windows of three seconds in halves, so   *)
(* that both the cut and the rounded second differ from the time left.     *)
(***************************************************************************)
EXTENDS RateLimiter
=============================================================================
