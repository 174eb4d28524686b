-------------------------- MODULE MCDeliveryWorker --------------------------
(***************************************************************************)
(* Small instances of DeliveryWorker.  With a stall longer than the lease  *)
(* a claim may take effect with a lease that has already run out; with a   *)
(* lease of three ticks the timely workers have time to stall.             *)
(***************************************************************************)
EXTENDS DeliveryWorker, TLC

Symmetry == Permutations(Workers)
=============================================================================
