-------------------------- MODULE MCOfferWorkflow --------------------------
(***************************************************************************)
(* Small instances of OfferWorkflow.  Two hiring managers, so that two     *)
(* people may answer the first step, and one tenant admin, who answers the *)
(* second and moves candidates.                                            *)
(***************************************************************************)
EXTENDS OfferWorkflow, TLC

CONSTANTS hm1, hm2, ta

MCRoleOf == (hm1 :> "hiring_manager") @@ (hm2 :> "hiring_manager")
            @@ (ta :> "tenant_admin")

(* A case is moved at most seven times, so it never reaches version 9 *)
MCVersions == 1 .. 8

Symmetry == Permutations(Requests) \cup Permutations({hm1, hm2})
=============================================================================
