---------------------------- MODULE MCHttpSurface ----------------------------
(***************************************************************************)
(* A caller of each kind, the roles chosen for what they must not reach.   *)
(***************************************************************************)
EXTENDS HttpSurface

Staff(role) == [type |-> "PLATFORM_STAFF", role |-> role, listed |-> FALSE]
TenantUser(role) == [type |-> "TENANT_USER", role |-> role, listed |-> FALSE]
MCCallers ==
    {NoRequest.caller} \union
    {[Staff("platform-owner") EXCEPT !.listed = b] : b \in BOOLEAN} \union
    {Staff(r) : r \in {"security-auditor", "read-only-analyst"}} \union
    {TenantUser(r) : r \in {"org-admin", "employee", "customer-contact", "remote-engineer",
                         "field-engineer"}} \union
    {[type |-> "API_KEY", role |-> "platform-admin", listed |-> FALSE]}
=============================================================================
