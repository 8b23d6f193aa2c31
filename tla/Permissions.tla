----------------------------- MODULE Permissions -----------------------------
(***************************************************************************)
(* The permission catalogs and the roles that are made of them:            *)
(* src/src/shared/permissions/catalog.ts, tenant-catalog.ts and tenant-    *)
(* sync.ts, and the platform roles of src/prisma/seed.ts.                  *)
(***************************************************************************)
EXTENDS Sequences, Naturals, TLC

\* A code is the sequence of its segments, "admin.staff.read" <<"admin", "staff", "read">>.
Codes(prefix, actions) == {Append(prefix, a) : a \in actions}
EndsWith(code, actions) == code[Len(code)] \in actions
StartsWith(code, resources) == code[1] \in resources

\* The permissions of the platform, which authorize knows.
AccessPermissions ==
    UNION {Codes(<<"admin", "dashboard">>, {"read"}),
           Codes(<<"admin", "tenants">>, {"read", "create", "update", "suspend",
                   "provision", "impersonate"}),
           Codes(<<"admin", "tenants", "domains">>, {"read", "manage"}),
           Codes(<<"admin", "staff">>, {"read", "manage", "privileged"}),
           Codes(<<"admin", "roles">>, {"read", "manage"}),
           Codes(<<"admin", "permissions">>, {"read"}),
           Codes(<<"admin", "access-policies">>, {"read", "manage"}),
           Codes(<<"admin", "approvals">>, {"read", "manage", "act"})}

ConfigurationPermissions ==
    UNION {Codes(<<"admin", "service-management">>, {"read", "manage"}),
           Codes(<<"admin", "sla-management">>, {"read", "manage"}),
           Codes(<<"admin", "workflow-management">>, {"read", "manage"}),
           Codes(<<"admin", "itsm-configuration">>, {"read", "manage"}),
           Codes(<<"admin", "knowledge-management">>, {"read", "manage"}),
           Codes(<<"admin", "cmdb-assets">>, {"read", "manage"}),
           Codes(<<"admin", "email-notifications">>, {"read", "manage", "test"}),
           Codes(<<"admin", "integrations">>, {"read", "manage"}),
           Codes(<<"admin", "api-keys">>, {"read", "manage"}),
           Codes(<<"admin", "webhooks">>, {"read", "manage"})}

OperationPermissions ==
    UNION {Codes(<<"admin", "support">>, {"read", "manage"}),
           Codes(<<"admin", "reports">>, {"read", "run", "export"}),
           Codes(<<"admin", "audit">>, {"read", "export"}),
           Codes(<<"admin", "system-administration">>, {"read", "manage"}),
           Codes(<<"admin", "settings">>, {"read", "manage"})}

ALL_PERMISSION_CODES == AccessPermissions \union ConfigurationPermissions \union OperationPermissions

\* The permissions of an organization, which requireTenantPermission knows.
OrganizationCodes ==
    UNION {Codes(<<"dashboard">>, {"read"}), Codes(<<"organization">>, {"read", "update"}),
           Codes(<<"organization", "branding">>, {"manage"}),
           Codes(<<"organization", "localization">>, {"manage"}),
           Codes(<<"organization", "business_hours">>, {"manage"}),
           Codes(<<"organization", "custom_fields">>, {"manage"}),
           Codes(<<"customers">>, {"read", "manage", "export"}),
           Codes(<<"customers", "contacts">>, {"manage"}),
           Codes(<<"customers", "sites">>, {"manage"}),
           Codes(<<"customers", "portal">>, {"manage"}),
           Codes(<<"users">>, {"read", "invite", "update", "activate", "suspend",
                   "deactivate", "reset_password", "revoke_sessions", "import"}),
           Codes(<<"users", "roles">>, {"manage"})}

StructureCodes ==
    UNION {Codes(<<"departments">>, {"read", "manage"}),
           Codes(<<"locations">>, {"read", "manage"}),
           Codes(<<"cost_centers">>, {"read", "manage"}),
           Codes(<<"organization_structure">>, {"read", "manage"}),
           Codes(<<"access_reviews">>, {"read", "manage"}),
           Codes(<<"roles">>, {"read", "create", "update", "delete"}),
           Codes(<<"roles", "permissions">>, {"manage"}),
           Codes(<<"roles", "members">>, {"manage"}), Codes(<<"permissions">>, {"read"}),
           Codes(<<"access_policies">>, {"read", "manage"}),
           Codes(<<"delegations">>, {"read", "manage"})}

DeskCodes ==
    UNION {Codes(<<"teams">>, {"read", "manage"}),
           Codes(<<"teams", "members">>, {"manage"}),
           Codes(<<"teams", "queues">>, {"manage"}),
           Codes(<<"service_desk">>, {"read", "manage"}),
           Codes(<<"service_desk", "routing">>, {"manage"}),
           Codes(<<"field_jobs">>, {"read_assigned", "update_assigned", "check_in",
                   "check_out", "complete", "reschedule_request"}),
           Codes(<<"incidents">>, {"read", "read_assigned", "create", "update",
                   "update_assigned", "assign", "escalate", "resolve", "reopen"}),
           Codes(<<"incident_configuration">>, {"read", "manage"}),
           Codes(<<"major_incidents">>, {"read", "manage"})}

PracticeCodes ==
    UNION {Codes(<<"problems">>, {"read", "create", "update", "resolve"}),
           Codes(<<"known_errors">>, {"read", "manage"}),
           Codes(<<"problem_configuration">>, {"read", "manage"}),
           Codes(<<"changes">>, {"read", "create", "update", "approve", "implement"}),
           Codes(<<"change_configuration">>, {"read", "manage"}),
           Codes(<<"change_calendar">>, {"read", "manage"}),
           Codes(<<"requests">>, {"read", "read_assigned", "create", "update",
                   "update_assigned", "approve", "fulfill"})}

ServiceCodes ==
    UNION {Codes(<<"catalog">>, {"read", "manage", "publish"}),
           Codes(<<"knowledge">>, {"read", "create", "review", "publish"}),
           Codes(<<"knowledge", "settings">>, {"manage"}),
           Codes(<<"sla">>, {"read", "manage"}), Codes(<<"workflows">>, {"read", "manage"}),
           Codes(<<"automation">>, {"read", "manage"})}

AssetCodes ==
    UNION {Codes(<<"cmdb">>, {"read", "manage", "read_related"}),
           Codes(<<"assets">>, {"read", "manage", "read_assigned_site"}),
           Codes(<<"asset_configuration">>, {"read", "manage"}),
           Codes(<<"discovery">>, {"read", "manage"}),
           Codes(<<"on_call">>, {"read", "manage"}),
           Codes(<<"releases">>, {"read", "manage"})}

ConnectionCodes ==
    UNION {Codes(<<"notifications">>, {"read", "manage"}),
           Codes(<<"announcements">>, {"read", "manage"}),
           Codes(<<"integrations">>, {"read", "manage"}),
           Codes(<<"api_keys">>, {"read", "manage"}),
           Codes(<<"webhooks">>, {"read", "manage"}),
           Codes(<<"vendors">>, {"read", "manage"})}

ReportingCodes ==
    UNION {Codes(<<"reports">>, {"read", "run", "export"}),
           Codes(<<"audit">>, {"read", "export"}),
           Codes(<<"security">>, {"read", "manage"}),
           Codes(<<"security", "sessions">>, {"revoke"}),
           Codes(<<"imports">>, {"read", "manage"}),
           Codes(<<"exports">>, {"read", "manage"}),
           Codes(<<"attachments">>, {"read", "upload", "delete"}),
           Codes(<<"evidence">>, {"create"}), Codes(<<"portal">>, {"read", "manage"}),
           Codes(<<"portal", "tickets">>, {"create"}),
           Codes(<<"support">>, {"read", "manage"}),
           Codes(<<"approvals">>, {"read", "manage", "decide"}),
           Codes(<<"settings">>, {"read", "manage"})}

ALL_TENANT_PERMISSION_CODES ==
    UNION {OrganizationCodes, StructureCodes, DeskCodes, PracticeCodes, ServiceCodes, AssetCodes,
           ConnectionCodes, ReportingCodes}

\* The permissions the roles of the platform are seeded with.
PlatformRoles ==
    "platform-owner" :> ALL_PERMISSION_CODES @@
    "platform-admin" :> ALL_PERMISSION_CODES \ {<<"admin", "staff", "privileged">>} @@
    "security-auditor" :>
        UNION {Codes(<<"admin", "audit">>, {"read", "export"}), Codes(<<"admin", "dashboard">>, {"read"}),
               Codes(<<"admin", "staff">>, {"read"}), Codes(<<"admin", "roles">>, {"read"}),
               Codes(<<"admin", "permissions">>, {"read"}), Codes(<<"admin", "access-policies">>, {"read"}),
               Codes(<<"admin", "settings">>, {"read"}), Codes(<<"admin", "system-administration">>, {"read"}),
               Codes(<<"admin", "reports">>, {"read", "run", "export"})} @@
    "support-manager" :>
        UNION {Codes(<<"admin", "dashboard">>, {"read"}), Codes(<<"admin", "support">>, {"read", "manage"}),
               Codes(<<"admin", "tenants">>, {"read", "impersonate"}),
               Codes(<<"admin", "reports">>, {"read", "run"})} @@
    "read-only-analyst" :> {c \in ALL_PERMISSION_CODES : EndsWith(c, {"read", "run"})}

readCodes == {c \in ALL_TENANT_PERMISSION_CODES : EndsWith(c, {"read"})}
operationalManageCodes ==
    {c \in ALL_TENANT_PERMISSION_CODES \ readCodes :
        StartsWith(c, {"incidents", "problems", "changes", "requests", "catalog", "knowledge", "sla",
                       "workflows", "automation", "cmdb", "assets", "discovery", "on_call", "releases",
                       "teams", "service_desk"})}
agentCodes ==
    {c \in ALL_TENANT_PERMISSION_CODES :
        StartsWith(c, {"incidents", "problems", "requests", "service_desk", "knowledge"})}
fieldJobCodes ==
    Codes(<<"field_jobs">>, {"read_assigned", "update_assigned", "check_in", "check_out", "complete",
                             "reschedule_request"})

\* The roles every organization has; what they name and the catalog does not have is not granted.
TenantRoleTemplates ==
    "org-admin" :> ALL_TENANT_PERMISSION_CODES @@
    "itsm-admin" :>
        {c \in ALL_TENANT_PERMISSION_CODES :
            /\ ~ StartsWith(c, {"roles", "permissions", "security", "integrations", "api_keys", "webhooks",
                                "settings"})
            /\ ~ (c[1] = "users" /\ c[2] = "roles")} @@
    "itsm-manager" :>
        UNION {readCodes, operationalManageCodes, Codes(<<"approvals">>, {"read", "decide"}),
               Codes(<<"reports">>, {"run"}), Codes(<<"dashboard">>, {"read"}), Codes(<<"users">>, {"read"}),
               Codes(<<"teams">>, {"read"})} @@
    "itsm-agent" :>
        UNION {agentCodes, Codes(<<"dashboard">>, {"read"}), Codes(<<"teams">>, {"read"}),
               Codes(<<"knowledge">>, {"create"})} @@
    "remote-engineer" :>
        UNION {Codes(<<"incidents">>, {"read_assigned", "update_assigned"}),
               Codes(<<"requests">>, {"read_assigned", "update_assigned"}),
               Codes(<<"attachments">>, {"upload"}), Codes(<<"escalations">>, {"create"}),
               Codes(<<"field_service">>, {"request"}), Codes(<<"knowledge">>, {"read"}),
               Codes(<<"dashboard">>, {"read"})} @@
    "field-engineer" :>
        UNION {fieldJobCodes, Codes(<<"work_logs">>, {"create"}), Codes(<<"evidence">>, {"create"}),
               Codes(<<"attachments">>, {"create"}), Codes(<<"assets">>, {"read_assigned_site"}),
               Codes(<<"cmdb">>, {"read_related"}), Codes(<<"knowledge">>, {"read"}),
               Codes(<<"escalations">>, {"create"}), Codes(<<"dashboard">>, {"read"})} @@
    "employee" :>
        UNION {Codes(<<"dashboard">>, {"read"}), Codes(<<"requests">>, {"read", "create"}),
               Codes(<<"knowledge">>, {"read"}), Codes(<<"portal">>, {"read"}),
               Codes(<<"announcements">>, {"read"})} @@
    "customer-contact" :>
        UNION {Codes(<<"portal">>, {"read"}), Codes(<<"portal", "tickets">>, {"create"}),
               Codes(<<"requests">>, {"read", "create"})} @@
    "escalations" :> Codes(<<"escalations">>, {"create"}) @@
    "field-service" :> Codes(<<"field_service">>, {"request"}) @@
    "field-jobs" :> fieldJobCodes @@
    "cmdb-related" :> Codes(<<"cmdb">>, {"read_related"}) @@
    "assets-assigned" :> Codes(<<"assets">>, {"read_assigned_site"})

\* What ensureTenantSystemRoles grants a role of an organization, and the seed one of the platform.
TenantGrants(role) == TenantRoleTemplates[role] \intersect ALL_TENANT_PERMISSION_CODES
PlatformGrantsWildcard(role) ==   \* a mutation: "*" is stored as it stands
    IF role = "platform-owner" THEN {<<"*">>} ELSE PlatformRoles[role]
PlatformGrants(role) == PlatformRoles[role] \intersect ALL_PERMISSION_CODES
=============================================================================
