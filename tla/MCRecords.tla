------------------------------ MODULE MCRecords ------------------------------
(***************************************************************************)
(* Two tenants, a and b, and one that may be created, c.  iv interviews in *)
(* both; ad is the admin of both.  a has a requisition, a case with an     *)
(* interview and a calendar subscription, b has a requisition and a case.  *)
(***************************************************************************)
EXTENDS Records, TLC

CONSTANTS a, b, c, ad, iv, nu, pat, kim, none

MCMember ==
    [t \in Tenants |-> [u \in Users |->
        IF t = c \/ u = nu THEN none
        ELSE IF u = ad THEN "tenant_admin" ELSE "interviewer"]]

MCSeed ==
    [tenants |-> {[id |-> t, admin |-> ad, insertsUser |-> FALSE] : t \in {a, b}},
     requisitions |-> {[id |-> 1, tenant |-> a], [id |-> 2, tenant |-> b]},
     cases |-> {[id |-> 2, tenant |-> a, requisition |-> 1, email |-> pat,
                 stage |-> "applied"],
                [id |-> 3, tenant |-> b, requisition |-> 2, email |-> pat,
                 stage |-> "applied"]},
     interviews |-> {[id |-> 1, tenant |-> a, case |-> 2, interviewer |-> iv]},
     feedback |-> {},
     subscriptions |-> {[id |-> 1, tenant |-> a, interviewer |-> iv,
                         revoked |-> FALSE, expired |-> FALSE]}]

Symmetry == Permutations(Requests)
=============================================================================
