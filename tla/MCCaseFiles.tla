----------------------------- MODULE MCCaseFiles -----------------------------
(***************************************************************************)
(* Small instances of CaseFiles: two tenants with one case each.           *)
(***************************************************************************)
EXTENDS CaseFiles, TLC

CONSTANTS f1, w, a

MCTenantOf == [c \in Cases |-> c]
MCCaseOf == [f \in Files |-> 1]
=============================================================================
