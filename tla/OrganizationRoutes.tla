------------------------- MODULE OrganizationRoutes --------------------------
(***************************************************************************)
(* The routers an organization works with: src/src/routes/tenantadmin and  *)
(* routes/itsm, one definition for each, in the order in which its routes  *)
(* are registered.                                                         *)
(***************************************************************************)
EXTENDS Routing

\* tenantadmin/organization.routes.ts
organizationTenantRouter ==
    LET May(a) == <<"organization", a>> IN
    << Get(<<>>, {May("read")}), Patch(<<>>, {May("update")}), Get(<<"branding">>, {May("read")}),
       Put(<<"branding">>, {<<"organization", "branding", "manage">>}),
       Get(<<"localization">>, {May("read")}),
       Put(<<"localization">>, {<<"organization", "localization", "manage">>}),
       Get(<<"business-hours">>, {May("read")}),
       Put(<<"business-hours">>, {<<"organization", "business_hours", "manage">>}) >>

\* tenantadmin/organizationStructure.routes.ts
organizationStructureTenantRouter ==
    LET May(a) == <<"organization_structure", a>> IN
    << Get(<<>>, {May("read")}), Put(<<>>, {May("manage")}) >>

\* tenantadmin/roles.routes.ts
rolesTenantRouter ==
    LET May(a) == <<"roles", a>> IN
    << Get(<<>>, {May("read")}), Post(<<>>, {May("create")}),
       Get(<<"permission-catalog">>, {May("read")}), Get(<<":">>, {May("read")}),
       Patch(<<":">>, {May("update")}), Delete(<<":">>, {May("delete")}),
       Get(<<":", "permissions">>, {May("read")}),
       Put(<<":", "permissions">>, {<<"roles", "permissions", "manage">>}),
       Get(<<":", "members">>, {May("read")}),
       Post(<<":", "members">>, {<<"roles", "members", "manage">>}),
       Delete(<<":", "members", ":">>, {<<"roles", "members", "manage">>}) >>

\* tenantadmin/permissions.routes.ts
permissionsTenantRouter ==
    LET May(a) == <<"permissions", a>> IN
    << Get(<<>>, {May("read")}), Get(<<"groups">>, {May("read")}), Get(<<":">>, {May("read")}) >>

\* tenantadmin/users.routes.ts
usersTenantRouter ==
    LET May(a) == <<"users", a>> IN
    << Get(<<>>, {May("read")}), Post(<<"invite">>, {May("invite")}),
       Post(<<"import">>, {May("import")}), Get(<<"invitations">>, {May("read")}),
       Post(<<"invitations", ":", "revoke">>, {May("invite")}), Get(<<":">>, {May("read")}),
       Patch(<<":">>, {May("update")}), Post(<<":", "activate">>, {May("activate")}),
       Post(<<":", "suspend">>, {May("suspend")}), Post(<<":", "deactivate">>, {May("deactivate")}),
       Post(<<":", "reset-password">>, {May("reset_password")}),
       Post(<<":", "revoke-sessions">>, {May("revoke_sessions")}),
       Get(<<":", "roles">>, {May("read")}),
       Put(<<":", "roles">>, {<<"users", "roles", "manage">>}),
       Get(<<":", "activity">>, {May("read")}) >>

\* tenantadmin/departments.routes.ts
departmentsTenantRouter ==
    LET May(a) == <<"departments", a>> IN
    << Get(<<>>, {May("read")}), Post(<<>>, {May("manage")}), Get(<<":">>, {May("read")}),
       Patch(<<":">>, {May("manage")}), Delete(<<":">>, {May("manage")}) >>

\* tenantadmin/locations.routes.ts
locationsTenantRouter ==
    LET May(a) == <<"locations", a>> IN
    << Get(<<>>, {May("read")}), Post(<<>>, {May("manage")}), Get(<<":">>, {May("read")}),
       Patch(<<":">>, {May("manage")}), Delete(<<":">>, {May("manage")}) >>

\* tenantadmin/costCenters.routes.ts
costCentersTenantRouter ==
    LET May(a) == <<"cost_centers", a>> IN
    << Get(<<>>, {May("read")}), Post(<<>>, {May("manage")}), Get(<<":">>, {May("read")}),
       Patch(<<":">>, {May("manage")}), Delete(<<":">>, {May("manage")}) >>

\* tenantadmin/teams.routes.ts
teamsTenantRouter ==
    LET May(a) == <<"teams", a>> IN
    << Get(<<>>, {May("read")}), Post(<<>>, {May("manage")}), Get(<<":">>, {May("read")}),
       Patch(<<":">>, {May("manage")}), Delete(<<":">>, {May("manage")}),
       Get(<<":", "members">>, {May("read")}),
       Post(<<":", "members">>, {<<"teams", "members", "manage">>}),
       Delete(<<":", "members", ":">>, {<<"teams", "members", "manage">>}),
       Get(<<":", "queues">>, {May("read")}),
       Post(<<":", "queues">>, {<<"teams", "queues", "manage">>}),
       Delete(<<":", "queues", ":">>, {<<"teams", "queues", "manage">>}) >>

\* tenantadmin/customers.routes.ts
customersTenantRouter ==
    LET May(a) == <<"customers", a>> IN
    << Get(<<"contacts">>, {May("read")}), Get(<<"sites">>, {May("read")}),
       Get(<<>>, {May("read")}), Post(<<>>, {May("manage")}), Get(<<":">>, {May("read")}),
       Patch(<<":">>, {May("manage")}), Delete(<<":">>, {May("manage")}),
       Post(<<":", "contacts">>, {<<"customers", "contacts", "manage">>}),
       Patch(<<":", "contacts", ":">>, {<<"customers", "contacts", "manage">>}),
       Delete(<<":", "contacts", ":">>, {<<"customers", "contacts", "manage">>}),
       Post(<<":", "contacts", ":", "portal", "invite">>, {<<"customers", "portal", "manage">>}),
       Post(<<":", "contacts", ":", "portal", "revoke">>, {<<"customers", "portal", "manage">>}),
       Post(<<":", "sites">>, {<<"customers", "sites", "manage">>}),
       Patch(<<":", "sites", ":">>, {<<"customers", "sites", "manage">>}),
       Delete(<<":", "sites", ":">>, {<<"customers", "sites", "manage">>}) >>

\* tenantadmin/myAccount.routes.ts
myAccountTenantRouter ==
    << Get(<<>>, {}), Patch(<<"profile">>, {}), Get(<<"preferences">>, {}),
       Put(<<"preferences">>, {}), Get(<<"security">>, {}), Get(<<"activity">>, {}) >>

\* itsm/incidents.routes.ts
incidentsItsmRouter ==
    LET May(a) == <<"incidents", a>> IN
    << Get(<<>>, {May("read")}), Post(<<>>, {May("create")}), Get(<<":">>, {May("read")}),
       Patch(<<":">>, {May("update")}), Delete(<<":">>, {May("update")}),
       Post(<<":", "assign">>, {May("assign")}), Post(<<":", "escalate">>, {May("escalate")}),
       Post(<<":", "resolve">>, {May("resolve")}), Post(<<":", "reopen">>, {May("reopen")}),
       Get(<<":", "comments">>, {May("read")}), Post(<<":", "comments">>, {May("update")}) >>

\* itsm/problems.routes.ts
problemsItsmRouter ==
    LET May(a) == <<"problems", a>> IN
    << Get(<<>>, {May("read")}), Post(<<>>, {May("create")}), Get(<<":">>, {May("read")}),
       Patch(<<":">>, {May("update")}), Delete(<<":">>, {May("update")}),
       Post(<<":", "assign">>, {May("update")}), Post(<<":", "resolve">>, {May("resolve")}),
       Get(<<":", "comments">>, {May("read")}), Post(<<":", "comments">>, {May("update")}) >>

\* itsm/changes.routes.ts
changesItsmRouter ==
    LET May(a) == <<"changes", a>> IN
    << Get(<<>>, {May("read")}), Post(<<>>, {May("create")}), Get(<<":">>, {May("read")}),
       Patch(<<":">>, {May("update")}), Delete(<<":">>, {May("update")}),
       Post(<<":", "assign">>, {May("update")}), Post(<<":", "decision">>, {May("approve")}),
       Post(<<":", "implement">>, {May("implement")}),
       Post(<<":", "complete">>, {May("implement")}), Post(<<":", "rollback">>, {May("implement")}),
       Get(<<":", "comments">>, {May("read")}), Post(<<":", "comments">>, {May("update")}) >>

\* itsm/requests.routes.ts
requestsItsmRouter ==
    LET May(a) == <<"requests", a>> IN
    << Get(<<>>, {May("read")}), Post(<<>>, {May("create")}), Get(<<":">>, {May("read")}),
       Patch(<<":">>, {May("update")}), Delete(<<":">>, {May("update")}),
       Post(<<":", "assign">>, {May("update")}), Post(<<":", "decision">>, {May("approve")}),
       Post(<<":", "fulfill">>, {May("fulfill")}), Post(<<":", "cancel">>, {May("fulfill")}),
       Get(<<":", "comments">>, {May("read")}), Post(<<":", "comments">>, {May("update")}) >>

\* itsm/catalog.routes.ts
catalogItsmRouter ==
    LET May(a) == <<"catalog", a>> IN
    << Get(<<"categories">>, {May("read")}), Post(<<"categories">>, {May("manage")}),
       Get(<<"categories", ":">>, {May("read")}), Patch(<<"categories", ":">>, {May("manage")}),
       Delete(<<"categories", ":">>, {May("manage")}), Get(<<"items">>, {May("read")}),
       Post(<<"items">>, {May("manage")}), Get(<<"items", ":">>, {May("read")}),
       Patch(<<"items", ":">>, {May("manage")}), Delete(<<"items", ":">>, {May("manage")}),
       Post(<<"items", ":", "publish">>, {May("publish")}),
       Post(<<"items", ":", "retire">>, {May("publish")}),
       Get(<<"items", ":", "versions">>, {May("read")}) >>

\* itsm/knowledge.routes.ts
knowledgeItsmRouter ==
    LET May(a) == <<"knowledge", a>> IN
    << Get(<<"settings">>, {May("read")}),
       Put(<<"settings">>, {<<"knowledge", "settings", "manage">>}) >> \o
    Crud(<<"categories">>, May("read"), May("create"), {"create", "update"}) \o
    Crud(<<"articles">>, May("read"), May("create"), {"create", "update"}) \o
    << Get(<<"articles", ":", "comments">>, {May("read")}),
       Post(<<"articles", ":", "comments">>, {May("create")}),
       Post(<<"articles", ":", "submit">>, {May("review")}),
       Post(<<"articles", ":", "publish">>, {May("publish")}),
       Post(<<"articles", ":", "archive">>, {May("publish")}) >>

\* itsm/cmdb.routes.ts
cmdbItsmRouter ==
    LET May(a) == <<"cmdb", a>> IN
    Crud(<<"items">>, May("read"), May("manage"), {"create", "update"}) \o
    Crud(<<"relationships">>, May("read"), May("manage"), {"create", "update"})

\* A mutation: the assets are registered before their maintenance.
assetsItsmRouterReordered ==
    LET May(a) == <<"assets", a>> IN
    Crud(<<>>, May("read"), May("manage"), {"create", "update"}) \o
    Crud(<<"maintenance">>, May("read"), May("manage"), {"update"})

\* itsm/assets.routes.ts
assetsItsmRouter ==
    LET May(a) == <<"assets", a>> IN
    Crud(<<"maintenance">>, May("read"), May("manage"), {"update"}) \o
    << Post(<<"maintenance", ":", "complete">>, {May("manage")}) >> \o
    Crud(<<>>, May("read"), May("manage"), {"create", "update"}) \o
    << Post(<<":", "assign">>, {May("manage")}), Post(<<":", "return">>, {May("manage")}),
       Post(<<":", "retire">>, {May("manage")}), Get(<<":", "maintenance">>, {May("read")}),
       Post(<<":", "maintenance">>, {May("manage")}) >>

\* itsm/discovery.routes.ts
discoveryItsmRouter ==
    LET May(a) == <<"discovery", a>> IN
    Crud(<<"runs">>, May("read"), May("manage"), {"create"}) \o
    << Get(<<"runs", ":", "results">>, {May("read")}), Get(<<"results", ":">>, {May("read")}),
       Patch(<<"results", ":">>, {May("manage")}), Delete(<<"results", ":">>, {May("manage")}) >>

\* itsm/oncall.routes.ts
onCallItsmRouter ==
    LET May(a) == <<"on_call", a>> IN
    Crud(<<"schedules">>, May("read"), May("manage"), {"create", "update"}) \o
    << Get(<<"schedules", ":", "shifts">>, {May("read")}),
       Post(<<"schedules", ":", "shifts">>, {May("manage")}), Get(<<"shifts", ":">>, {May("read")}),
       Patch(<<"shifts", ":">>, {May("manage")}), Delete(<<"shifts", ":">>, {May("manage")}) >>

\* itsm/releases.routes.ts
releasesItsmRouter ==
    LET May(a) == <<"releases", a>> IN
    Crud(<<>>, May("read"), May("manage"), {"create", "update"}) \o
    << Post(<<":", "deploy">>, {May("manage")}), Post(<<":", "complete">>, {May("manage")}),
       Post(<<":", "cancel">>, {May("manage")}) >>

\* itsm/knownErrors.routes.ts
knownErrorsItsmRouter ==
    LET May(a) == <<"known_errors", a>> IN
    Crud(<<>>, May("read"), May("manage"), {"create", "update"}) \o
    << Post(<<":", "resolve">>, {May("manage")}), Post(<<":", "reopen">>, {May("manage")}),
       Post(<<":", "archive">>, {May("manage")}) >>

\* itsm/majorIncidents.routes.ts
majorIncidentsItsmRouter ==
    LET May(a) == <<"major_incidents", a>> IN
    Crud(<<>>, May("read"), May("manage"), {"create", "update"}) \o
    << Post(<<":", "investigate">>, {May("manage")}), Post(<<":", "monitor">>, {May("manage")}),
       Post(<<":", "resolve">>, {May("manage")}), Post(<<":", "close">>, {May("manage")}) >>

\* itsm/vendors.routes.ts
vendorsItsmRouter ==
    LET May(a) == <<"vendors", a>> IN
    Crud(<<>>, May("read"), May("manage"), {"create", "update"}) \o
    << Post(<<":", "activate">>, {May("manage")}), Post(<<":", "deactivate">>, {May("manage")}),
       Post(<<":", "blacklist">>, {May("manage")}) >>

\* A mutation: the permission to read is asked for throughout.
announcementsItsmRouterRead ==
    Crud(<<>>, <<"announcements", "read">>, <<"announcements", "read">>, {"create", "update"})

\* itsm/announcements.routes.ts
announcementsItsmRouter ==
    LET May(a) == <<"announcements", a>> IN
    Crud(<<>>, May("read"), May("manage"), {"create", "update"}) \o
    << Post(<<":", "publish">>, {May("manage")}), Post(<<":", "archive">>, {May("manage")}),
       Post(<<":", "expire">>, {May("manage")}) >>

\* itsm/approvals.routes.ts
approvalsItsmRouter ==
    LET May(a) == <<"approvals", a>> IN
    Crud(<<"policies">>, May("read"), May("manage"), {"create", "update"}) \o
    << Post(<<"policies", ":", "enable">>, {May("manage")}),
       Post(<<"policies", ":", "disable">>, {May("manage")}) >> \o
    Crud(<<"requests">>, May("read"), May("manage"), {"create", "update"}) \o
    << Get(<<"requests", ":", "decisions">>, {May("read")}),
       Post(<<"requests", ":", "decide">>, {May("decide")}),
       Post(<<"requests", ":", "cancel">>, {May("manage")}) >>

\* itsm/sla.routes.ts
slaItsmRouter ==
    LET May(a) == <<"sla", a>> IN
    Crud(<<"policies">>, May("read"), May("manage"), {"create", "update"}) \o
    << Post(<<"policies", ":", "activate">>, {May("manage")}),
       Post(<<"policies", ":", "deactivate">>, {May("manage")}) >> \o
    Crud(<<"escalation-rules">>, May("read"), May("manage"), {"create", "update"}) \o
    << Post(<<"escalation-rules", ":", "enable">>, {May("manage")}),
       Post(<<"escalation-rules", ":", "disable">>, {May("manage")}) >> \o
    Crud(<<"calendars">>, May("read"), May("manage"), {"create", "update"}) \o
    << Post(<<"calendars", ":", "set-default">>, {May("manage")}) >>

\* itsm/slaEngine.routes.ts
slaEngineRouter ==
    LET May(a) == <<"sla", a>> IN
    << Get(<<"instances">>, {May("read")}), Get(<<"clock-events">>, {May("read")}),
       Post(<<"pause">>, {May("manage")}), Post(<<"resume">>, {May("manage")}),
       Post(<<"response", "complete">>, {May("manage")}),
       Post(<<"detect-breaches">>, {May("manage")}) >>

\* itsm/workflows.routes.ts
workflowsItsmRouter ==
    LET May(a) == <<"workflows", a>> IN
    Crud(<<"runs">>, May("read"), May("manage"), {"update"}) \o
    << Post(<<"runs", ":", "complete">>, {May("manage")}),
       Post(<<"runs", ":", "fail">>, {May("manage")}),
       Post(<<"runs", ":", "cancel">>, {May("manage")}), Post(<<"runs">>, {May("manage")}) >> \o
    Crud(<<>>, May("read"), May("manage"), {"create", "update"}) \o
    << Get(<<":", "versions">>, {May("read")}), Post(<<":", "publish">>, {May("manage")}),
       Post(<<":", "activate">>, {May("manage")}), Post(<<":", "deactivate">>, {May("manage")}),
       Post(<<":", "retire">>, {May("manage")}) >>

\* itsm/automation.routes.ts
automationItsmRouter ==
    LET May(a) == <<"automation", a>> IN
    Crud(<<"rules">>, May("read"), May("manage"), {"create", "update"}) \o
    << Get(<<"rules", ":", "runs">>, {May("read")}),
       Post(<<"rules", ":", "enable">>, {May("manage")}),
       Post(<<"rules", ":", "disable">>, {May("manage")}),
       Post(<<"rules", ":", "run">>, {May("manage")}) >> \o
    Crud(<<"runs">>, May("read"), May("manage"), {}) \o
    << Post(<<"runs", ":", "complete">>, {May("manage")}),
       Post(<<"runs", ":", "fail">>, {May("manage")}),
       Post(<<"runs", ":", "cancel">>, {May("manage")}) >>

\* itsm/notifications.routes.ts
notificationsItsmRouter ==
    LET May(a) == <<"notifications", a>> IN
    Crud(<<"templates">>, May("read"), May("manage"), {"create", "update"}) \o
    << Post(<<"templates", ":", "enable">>, {May("manage")}),
       Post(<<"templates", ":", "disable">>, {May("manage")}) >> \o
    Crud(<<"rules">>, May("read"), May("manage"), {"create", "update"}) \o
    << Post(<<"rules", ":", "enable">>, {May("manage")}),
       Post(<<"rules", ":", "disable">>, {May("manage")}), Get(<<"logs">>, {May("read")}),
       Get(<<"logs", ":">>, {May("read")}), Get(<<"providers">>, {May("read")}),
       Post(<<"providers">>, {May("manage")}), Get(<<"providers", ":">>, {May("read")}),
       Patch(<<"providers", ":">>, {May("manage")}),
       Post(<<"providers", ":", "test">>, {May("manage")}),
       Post(<<"providers", ":", "verify">>, {May("manage")}),
       Post(<<"providers", ":", "disable">>, {May("manage")}) >>

\* itsm/servicedesk.routes.ts
serviceDeskItsmRouter ==
    LET May(a) == <<"service_desk", a>> IN
    Crud(<<"queues">>, May("read"), May("manage"), {"create", "update"}) \o
    << Post(<<"queues", ":", "set-default">>, {May("manage")}) >> \o
    Crud(<<"operating-hours">>, May("read"), May("manage"), {"create", "update"}) \o
    << Post(<<"operating-hours", ":", "set-default">>, {May("manage")}) >> \o
    Crud(<<"routing-rules">>, May("read"), <<"service_desk", "routing", "manage">>, {"create", "update"})

\* itsm/integrations.routes.ts
integrationsItsmRouter ==
    LET May(a) == <<"integrations", a>> IN
    << Get(<<>>, {May("read")}), Post(<<>>, {May("manage")}), Get(<<":">>, {May("read")}),
       Patch(<<":">>, {May("manage")}), Delete(<<":">>, {May("manage")}),
       Post(<<":", "test">>, {May("manage")}), Post(<<":", "enable">>, {May("manage")}),
       Post(<<":", "disable">>, {May("manage")}), Get(<<":", "logs">>, {May("read")}) >>

\* itsm/apikeys.routes.ts
apiKeysItsmRouter ==
    LET May(a) == <<"api_keys", a>> IN
    << Get(<<>>, {May("read")}), Post(<<>>, {May("manage")}), Get(<<":">>, {May("read")}),
       Patch(<<":">>, {May("manage")}), Post(<<":", "revoke">>, {May("manage")}),
       Post(<<":", "rotate">>, {May("manage")}), Get(<<":", "usage">>, {May("read")}) >>

\* itsm/webhooks.routes.ts
webhooksItsmRouter ==
    LET May(a) == <<"webhooks", a>> IN
    << Get(<<>>, {May("read")}), Post(<<>>, {May("manage")}), Get(<<":">>, {May("read")}),
       Patch(<<":">>, {May("manage")}), Delete(<<":">>, {May("manage")}),
       Post(<<":", "enable">>, {May("manage")}), Post(<<":", "disable">>, {May("manage")}),
       Post(<<":", "rotate-secret">>, {May("manage")}), Post(<<":", "test">>, {May("manage")}),
       Get(<<":", "deliveries">>, {May("read")}) >>

\* itsm/attachments.routes.ts
attachmentsItsmRouter ==
    LET May(a) == <<"attachments", a>> IN
    << Get(<<>>, {May("read")}), Post(<<>>, {May("upload")}), Get(<<":">>, {May("read")}),
       Delete(<<":">>, {May("delete")}) >>

\* itsm/dashboard.routes.ts
dashboardItsmRouter ==
    LET May(a) == <<"dashboard", a>> IN
    << Get(<<"overview">>, {May("read")}), Get(<<"incidents">>, {May("read")}),
       Get(<<"workload">>, {May("read")}), Get(<<"trends">>, {May("read")}),
       Get(<<"activity">>, {May("read")}) >>

\* itsm/incidentconfig.routes.ts
incidentConfigItsmRouter ==
    LET May(a) == <<"incident_configuration", a>> IN
    Crud(<<"categories">>, May("read"), May("manage"), {"create", "update"}) \o
    Crud(<<"priorities">>, May("read"), May("manage"), {"create", "update"}) \o
    Crud(<<"resolution-codes">>, May("read"), May("manage"), {"create", "update"})

\* itsm/problemconfig.routes.ts
problemConfigItsmRouter ==
    LET May(a) == <<"problem_configuration", a>> IN
    Crud(<<"categories">>, May("read"), May("manage"), {"create", "update"}) \o
    Crud(<<"root-causes">>, May("read"), May("manage"), {"create", "update"})

\* itsm/changeconfig.routes.ts
changeConfigItsmRouter ==
    LET May(a) == <<"change_configuration", a>> IN
    Crud(<<"types">>, May("read"), May("manage"), {"create", "update"}) \o
    Crud(<<"templates">>, May("read"), May("manage"), {"create", "update"})

\* itsm/changecalendar.routes.ts
changeCalendarItsmRouter ==
    LET May(a) == <<"change_calendar", a>> IN
    Crud(<<"windows">>, May("read"), May("manage"), {"create", "update"})

\* itsm/assetconfig.routes.ts
assetConfigItsmRouter ==
    LET May(a) == <<"asset_configuration", a>> IN
    Crud(<<"models">>, May("read"), May("manage"), {"create", "update"}) \o
    Crud(<<"licenses">>, May("read"), May("manage"), {"create", "update"})

\* itsm/accesspolicies.routes.ts
accessPoliciesItsmRouter ==
    LET May(a) == <<"access_policies", a>> IN
    Crud(<<>>, May("read"), May("manage"), {"create", "update"}) \o
    << Get(<<":", "assignments">>, {May("read")}), Post(<<":", "assignments">>, {May("manage")}),
       Delete(<<":", "assignments", ":">>, {May("manage")}) >>

\* itsm/delegations.routes.ts
delegationsItsmRouter ==
    LET May(a) == <<"delegations", a>> IN
    Crud(<<>>, May("read"), May("manage"), {"create", "update"}) \o
    << Post(<<":", "revoke">>, {May("manage")}) >>

\* itsm/accessreviews.routes.ts
accessReviewsItsmRouter ==
    LET May(a) == <<"access_reviews", a>> IN
    Crud(<<>>, May("read"), May("manage"), {"create", "update"}) \o
    << Post(<<":", "start">>, {May("manage")}), Post(<<":", "complete">>, {May("manage")}),
       Post(<<":", "cancel">>, {May("manage")}), Get(<<":", "items">>, {May("read")}),
       Post(<<":", "items">>, {May("manage")}),
       Post(<<":", "items", ":", "decide">>, {May("manage")}),
       Delete(<<":", "items", ":">>, {May("manage")}) >>

\* itsm/audit.routes.ts
auditItsmRouter ==
    LET May(a) == <<"audit", a>> IN
    << Get(<<"events">>, {May("read")}), Get(<<"events", ":">>, {May("read")}),
       Get(<<"resource", ":", ":">>, {May("read")}), Get(<<"actors">>, {May("read")}),
       Get(<<"security-events">>, {May("read")}), Post(<<"export">>, {May("export")}) >>

\* itsm/security.routes.ts
securityItsmRouter ==
    LET May(a) == <<"security", a>> IN
    << Get(<<"overview">>, {May("read")}), Get(<<"events">>, {May("read")}),
       Get(<<"sessions">>, {May("read")}),
       Post(<<"sessions", ":", "revoke">>, {<<"security", "sessions", "revoke">>}) >>

\* itsm/support.routes.ts
supportItsmRouter ==
    LET May(a) == <<"support", a>> IN
    << Get(<<>>, {May("read")}), Get(<<":">>, {May("read")}), Post(<<>>, {May("manage")}),
       Patch(<<":">>, {May("manage")}), Post(<<":", "reply">>, {May("manage")}),
       Post(<<":", "resolve">>, {May("manage")}), Post(<<":", "close">>, {May("manage")}),
       Post(<<":", "reopen">>, {May("manage")}) >>

\* itsm/reports.routes.ts
reportsItsmRouter ==
    LET May(a) == <<"reports", a>> IN
    << Get(<<"catalog">>, {May("read")}), Get(<<"runs">>, {May("read")}),
       Post(<<"runs">>, {May("run")}), Get(<<"runs", ":">>, {May("read")}),
       Post(<<"runs", ":", "cancel">>, {May("run")}) >>

\* itsm/imports.routes.ts
importsItsmRouter ==
    LET May(a) == <<"imports", a>> IN
    << Get(<<>>, {May("read")}), Get(<<":">>, {May("read")}), Post(<<>>, {May("manage")}),
       Post(<<":", "run">>, {May("manage")}), Post(<<":", "cancel">>, {May("manage")}),
       Post(<<":", "retry">>, {May("manage")}), Delete(<<":">>, {May("manage")}) >>

\* itsm/exports.routes.ts
exportsItsmRouter ==
    LET May(a) == <<"exports", a>> IN
    << Get(<<>>, {May("read")}), Post(<<>>, {May("manage")}), Get(<<":">>, {May("read")}),
       Post(<<":", "cancel">>, {May("manage")}) >>

\* itsm/settings.routes.ts
settingsItsmRouter ==
    LET May(a) == <<"settings", a>> IN
    Crud(<<"custom-fields">>, May("read"), <<"organization", "custom_fields", "manage">>, {"create", "update"}) \o
    << Get(<<>>, {May("read")}), Get(<<":">>, {May("read")}), Put(<<":">>, {May("manage")}),
       Delete(<<":">>, {May("manage")}) >>

\* itsm/portal.routes.ts
portalItsmRouter ==
    LET May(a) == <<"portal", a>> IN
    << Get(<<"config">>, {May("read")}), Put(<<"config">>, {May("manage")}),
       Get(<<"forms">>, {May("read")}), Put(<<"forms", ":">>, {May("manage")}),
       Delete(<<"forms", ":">>, {May("manage")}) >>
=============================================================================
