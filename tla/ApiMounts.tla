------------------------------ MODULE ApiMounts ------------------------------
(***************************************************************************)
(* The mounts of src/src/routes/index.ts, in their order: routers under    *)
(* their base paths, with the middleware that runs before them.  And what  *)
(* of the way of a request does not change: the places in the routers, the *)
(* path a route is asked for with, who holds which code and what a route   *)
(* asks for (api/middleware, shared/permissions).                          *)
(***************************************************************************)
EXTENDS PlatformRoutes, OrganizationRoutes, Permissions, FiniteSets

AuthMounts ==
    << Public(<<"health">>, healthRouter), Public(<<"auth">>, authRouter),
       Public(<<"auth">>, passwordRouter), Mount(<<"auth", "sessions">>, sessionRouter),
       Public(<<"auth", "mfa">>, mfaRouter) >>

AdminMounts ==
    << Mount(<<"admin", "dashboard">>, dashboardAdminRouter),
       Mount(<<"admin", "tenants">>, tenantsAdminRouter),
       Mount(<<"admin", "staff">>, staffAdminRouter), Mount(<<"admin", "roles">>, rolesAdminRouter),
       Mount(<<"admin", "permissions">>, permissionsAdminRouter),
       Mount(<<"admin", "access-policies">>, accessPoliciesAdminRouter),
       Mount(<<"admin", "approvals">>, approvalsAdminRouter),
       Mount(<<"admin", "service-management">>, serviceManagementAdminRouter),
       Mount(<<"admin", "sla-management">>, slaManagementAdminRouter),
       Mount(<<"admin", "workflow-management">>, workflowManagementAdminRouter),
       Mount(<<"admin", "itsm-configuration">>, itsmConfigurationAdminRouter),
       Mount(<<"admin", "knowledge-management">>, knowledgeManagementAdminRouter),
       Mount(<<"admin", "cmdb-assets">>, cmdbAssetsAdminRouter) >>

AdminOperationMounts ==
    << Mount(<<"admin", "email-notifications">>, emailNotificationsAdminRouter),
       Mount(<<"admin", "integrations">>, integrationsAdminRouter),
       Mount(<<"admin", "api-keys">>, apiKeysAdminRouter),
       Mount(<<"admin", "webhooks">>, webhooksAdminRouter),
       Mount(<<"admin", "support">>, supportAdminRouter),
       Mount(<<"admin", "reports">>, reportsAdminRouter),
       Mount(<<"admin", "audit">>, auditAdminRouter),
       Mount(<<"admin", "system-administration">>, systemAdministrationAdminRouter),
       Mount(<<"admin", "platform-settings">>, platformSettingsAdminRouter),
       Mount(<<"admin", "my-account">>, myAccountAdminRouter) >>

OrganizationMounts ==
    << Member(<<"tenant-admin", "organization">>, organizationTenantRouter),
       Member(<<"tenant-admin", "organization-structure">>, organizationStructureTenantRouter),
       Member(<<"tenant-admin", "roles">>, rolesTenantRouter),
       Member(<<"tenant-admin", "permissions">>, permissionsTenantRouter),
       Member(<<"tenant-admin", "users">>, usersTenantRouter),
       Member(<<"tenant-admin", "departments">>, departmentsTenantRouter),
       Member(<<"tenant-admin", "locations">>, locationsTenantRouter),
       Member(<<"tenant-admin", "cost-centers">>, costCentersTenantRouter),
       Member(<<"tenant-admin", "teams">>, teamsTenantRouter),
       Member(<<"tenant-admin", "customers">>, customersTenantRouter),
       Member(<<"tenant-admin", "my-account">>, myAccountTenantRouter) >>

PracticeMounts ==
    << Member(<<"itsm", "incidents">>, incidentsItsmRouter),
       Member(<<"itsm", "problems">>, problemsItsmRouter),
       Member(<<"itsm", "changes">>, changesItsmRouter),
       Member(<<"itsm", "requests">>, requestsItsmRouter),
       Member(<<"itsm", "catalog">>, catalogItsmRouter),
       Member(<<"itsm", "knowledge">>, knowledgeItsmRouter),
       Member(<<"itsm", "cmdb">>, cmdbItsmRouter), Member(<<"itsm", "assets">>, assetsItsmRouter),
       Member(<<"itsm", "discovery">>, discoveryItsmRouter),
       Member(<<"itsm", "on-call">>, onCallItsmRouter),
       Member(<<"itsm", "releases">>, releasesItsmRouter),
       Member(<<"itsm", "known-errors">>, knownErrorsItsmRouter),
       Member(<<"itsm", "major-incidents">>, majorIncidentsItsmRouter) >>

AutomationMounts ==
    << Member(<<"itsm", "vendors">>, vendorsItsmRouter),
       Member(<<"itsm", "announcements">>, announcementsItsmRouter),
       Member(<<"itsm", "approvals">>, approvalsItsmRouter),
       Member(<<"itsm", "sla">>, slaItsmRouter),
       Member(<<"itsm", "sla", "engine">>, slaEngineRouter),
       Member(<<"itsm", "workflows">>, workflowsItsmRouter),
       Member(<<"itsm", "automation">>, automationItsmRouter),
       Member(<<"itsm", "notifications">>, notificationsItsmRouter),
       Member(<<"itsm", "service-desk">>, serviceDeskItsmRouter),
       Member(<<"itsm", "integrations">>, integrationsItsmRouter),
       Member(<<"itsm", "api-keys">>, apiKeysItsmRouter) >>

ConfigurationMounts ==
    << Member(<<"itsm", "webhooks">>, webhooksItsmRouter),
       Member(<<"itsm", "attachments">>, attachmentsItsmRouter),
       Member(<<"itsm", "dashboard">>, dashboardItsmRouter),
       Member(<<"itsm", "incident-config">>, incidentConfigItsmRouter),
       Member(<<"itsm", "problem-config">>, problemConfigItsmRouter),
       Member(<<"itsm", "change-config">>, changeConfigItsmRouter),
       Member(<<"itsm", "change-calendar">>, changeCalendarItsmRouter),
       Member(<<"itsm", "asset-config">>, assetConfigItsmRouter),
       Member(<<"itsm", "access-policies">>, accessPoliciesItsmRouter),
       Member(<<"itsm", "delegations">>, delegationsItsmRouter) >>

GovernanceMounts ==
    << Member(<<"itsm", "access-reviews">>, accessReviewsItsmRouter),
       Member(<<"itsm", "audit">>, auditItsmRouter),
       Member(<<"itsm", "security">>, securityItsmRouter),
       Member(<<"itsm", "support">>, supportItsmRouter),
       Member(<<"itsm", "reports">>, reportsItsmRouter),
       Member(<<"itsm", "imports">>, importsItsmRouter),
       Member(<<"itsm", "exports">>, exportsItsmRouter),
       Member(<<"itsm", "settings">>, settingsItsmRouter),
       Member(<<"itsm", "portal">>, portalItsmRouter) >>

API_MOUNTS ==
    AuthMounts \o AdminMounts \o AdminOperationMounts \o OrganizationMounts \o
    PracticeMounts \o AutomationMounts \o ConfigurationMounts \o GovernanceMounts

-----------------------------------------------------------------------------
Mounts == API_MOUNTS
Layer(p) == Mounts[p[1]].router[p[2]]
NoPlace == <<0, 0>>
Places == UNION {{m} \X (1..Len(Mounts[m].router)) : m \in 1..Len(Mounts)}
Targets == {p \in Places : Layer(p).does = "handle"}
Base(p) == Mounts[p[1]].base
Area(p) == Base(p)[1]

\* The path that is meant for a route: its parameters stand for what no route is called.
Named(path) == [i \in DOMAIN path |-> IF path[i] = ":" THEN "id" ELSE path[i]]
PathTo(p) == Base(p) \o Named(Layer(p).path)
\* What a mount leaves of a path to its router, and the middleware it runs before it.
Below(m, path) == SubSeq(path, Len(Mounts[m].base) + 1, Len(path))
Before(mount) == {mount.before[i] : i \in DOMAIN mount.before}

-----------------------------------------------------------------------------
\* Permissions a caller comes with: an API key has the scopes it was created with.
Permissions(c) ==
    IF c.type = "TENANT_USER" THEN TenantGrants(c.role)
    ELSE IF c.type = "anonymous" THEN {} ELSE PlatformGrants(c.role)
Wildcard == <<"*">>
hasPermission(c, code) == code \in Permissions(c) \/ Wildcard \in Permissions(c)

\* One code has to be known as well as held, of several any has to be held.
Known(mount) ==
    IF "requireTenantMembership" \in Before(mount)
    THEN ALL_TENANT_PERMISSION_CODES ELSE ALL_PERMISSION_CODES
Authorized(c, mount, codes) ==
    \/ codes = {}
    \/ /\ \E code \in codes : hasPermission(c, code)
       /\ Cardinality(codes) = 1 => codes \subseteq Known(mount)

\* The roles that are described as read-only, as requesters, or as working on what is assigned to
\* them, and whether a role is one of an organization.
LimitedRoles ==
    {"read-only-analyst", "security-auditor", "employee", "customer-contact", "remote-engineer",
     "field-engineer"}
OfOrganization(role) == role \in DOMAIN TenantRoleTemplates

\* The routes whose handlers answer a POST and change nothing, and those whose handlers add a row
\* in the name of whoever asks.
Address(p) == Base(p) \o Layer(p).path
Computing ==
    {<<"admin", "workflow-management", "templates", ":", "validate">>,
     <<"admin", "email-notifications", "templates", ":", "preview">>}
Adding ==
    {<<"admin", "reports", "run">>, <<"admin", "reports", "exports">>, <<"admin", "audit", "exports">>,
     <<"itsm", "requests">>, <<"itsm", "attachments">>}
\* cancelRequest lets only the requester, and who may act on approvals, cancel; cancelExport lets
\* anybody cancel any export that is still queued.
CancelOfApproval == <<"admin", "approvals", "requests", ":", "cancel">>
CancelOfExport == <<"admin", "reports", "exports", ":">>

\* Whether a caller who holds these codes can change what others have made by way of a route.  What
\* the other handlers change is not told apart: it counts as what others have made.
AltersOthers(held, p) ==
    /\ Layer(p).on # "get"
    /\ Area(p) # "auth" /\ "my-account" \notin {Base(p)[i] : i \in DOMAIN Base(p)}
    /\ Layer(p).on = "post" => Address(p) \notin Computing \union Adding
    /\ Address(p) = CancelOfApproval => <<"admin", "approvals", "act">> \in held
=============================================================================
