----------------------------- MODULE Permissions -----------------------------
(***************************************************************************)
(* The roles of a tenant's members and what each may do.                   *)
(***************************************************************************)
Roles == {"tenant_admin", "recruiter", "auditor", "hiring_manager",
          "interviewer"}

Managing == {"requisition:create", "candidate:create", "candidate:transition",
             "candidate:attachment", "calendar:manage", "interview:manage",
             "audit:read", "report:read", "tenant:read", "retention:manage",
             "retention:purge"}

RolePermissions ==
    [role \in Roles |->
        CASE role \in {"tenant_admin", "recruiter"} -> Managing
          [] role = "auditor" -> {"audit:read", "tenant:read"}
          [] role = "hiring_manager" -> {"tenant:read"}
          [] role = "interviewer" -> {"feedback:submit"}]

(* A user that is no member of the tenant, or not in the right role, gets   *)
(* 403; anything else goes to the handler.                                  *)
Permitted(role, permission) ==
    role \in Roles /\ permission \in RolePermissions[role]
=============================================================================
