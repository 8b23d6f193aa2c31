--------------------------- MODULE PlatformRoutes ----------------------------
(***************************************************************************)
(* The routers of the public surface and of the platform administration:   *)
(* src/src/routes/health.routes.ts, routes/auth and routes/saasadmin, one  *)
(* definition for each, in the order in which its routes are registered.   *)
(***************************************************************************)
EXTENDS Routing

\* saasadmin/tenant-domains.routes.ts
tenantDomainsRouter ==
    LET May(a) == <<"admin", "tenants", "domains", a>> IN
    << Get(<<>>, {May("read")}), Post(<<>>, {May("manage")}), Get(<<":">>, {May("read")}),
       Post(<<":", "verify">>, {May("manage")}), Post(<<":", "activate">>, {May("manage")}),
       Post(<<":", "disable">>, {May("manage")}), Delete(<<":">>, {May("manage")}),
       Get(<<":", "verification-status">>, {May("read")}) >>

\* health.routes.ts
healthRouter ==
    << Get(<<"live">>, {}), Get(<<"ready">>, {}), Get(<<>>, {}) >>

\* auth/auth.routes.ts
authRouter ==
    << Post(<<"login">>, {}), Post(<<"refresh">>, {}), SignedIn(Get(<<"me">>, {})),
       SignedIn(Post(<<"logout">>, {})), SignedIn(Post(<<"switch-tenant">>, {})),
       Post(<<"invitation", "accept">>, {}) >>

\* auth/password.routes.ts
passwordRouter ==
    << Post(<<"forgot-password">>, {}), Post(<<"reset-password">>, {}),
       SignedIn(Post(<<"change-password">>, {})) >>

\* auth/session.routes.ts
sessionRouter ==
    << Use(<<>>, "authenticate"), Get(<<>>, {}), Delete(<<":">>, {}) >>

\* auth/mfa.routes.ts
mfaRouter ==
    << Post(<<"verify">>, {}), SignedIn(Get(<<"status">>, {})), SignedIn(Post(<<"enroll">>, {})),
       SignedIn(Post(<<"verify-enrollment">>, {})), SignedIn(Delete(<<>>, {})),
       SignedIn(Post(<<"recovery-codes", "regenerate">>, {})) >>

\* saasadmin/dashboard.routes.ts
dashboardAdminRouter ==
    LET May(a) == <<"admin", "dashboard", a>> IN
    << Get(<<"summary">>, {May("read")}), Get(<<"tenant-growth">>, {May("read")}),
       Get(<<"tenant-status">>, {May("read")}), Get(<<"platform-health">>, {May("read")}),
       Get(<<"recent-activity">>, {May("read")}), Get(<<"alerts">>, {May("read")}),
       Get(<<"work-queue">>, {May("read")}) >>

\* saasadmin/tenants.routes.ts
tenantsAdminRouter ==
    LET May(a) == <<"admin", "tenants", a>> IN
    << Use(<<>>, "authenticate"), Get(<<>>, {May("read")}), Post(<<>>, {May("create")}),
       Get(<<"domains">>, {<<"admin", "tenants", "domains", "read">>}),
       Use(<<":">>, "tenantContext"), Get(<<":">>, {May("read")}), Patch(<<":">>, {May("update")}),
       Post(<<":", "activate">>, {May("update")}), Post(<<":", "suspend">>, {May("suspend")}),
       Post(<<":", "reactivate">>, {May("suspend")}), Post(<<":", "archive">>, {May("suspend")}),
       Get(<<":", "overview">>, {May("read")}), Get(<<":", "users">>, {May("read")}),
       Post(<<":", "users">>, {May("update")}), Get(<<":", "activity">>, {May("read")}),
       Get(<<":", "health">>, {May("read")}), Post(<<":", "provision">>, {May("provision")}),
       Get(<<":", "provisioning-status">>, {May("read")}),
       Post(<<":", "impersonation-sessions">>, {May("impersonate")}) >> \o
    Nested(<<":", "domains">>, tenantDomainsRouter)

\* saasadmin/staff.routes.ts
staffAdminRouter ==
    LET May(a) == <<"admin", "staff", a>> IN
    << Get(<<>>, {May("read")}), Post(<<>>, {May("manage")}), Get(<<":">>, {May("read")}),
       Patch(<<":">>, {May("manage")}), Post(<<":", "invite">>, {May("manage")}),
       Post(<<":", "activate">>, {May("manage")}), Post(<<":", "suspend">>, {May("manage")}),
       Post(<<":", "deactivate">>, {May("manage")}),
       Post(<<":", "reset-password">>, {May("manage")}),
       Post(<<":", "revoke-sessions">>, {May("manage")}), Get(<<":", "sessions">>, {May("read")}),
       Delete(<<":", "sessions", ":">>, {May("manage")}),
       Get(<<":", "effective-permissions">>, {May("read")}), Put(<<":", "roles">>, {May("manage")}),
       Get(<<":", "roles">>, {May("read")}), Get(<<":", "activity">>, {May("read")}) >>

\* saasadmin/roles.routes.ts
rolesAdminRouter ==
    LET May(a) == <<"admin", "roles", a>> IN
    << Get(<<>>, {May("read")}), Post(<<>>, {May("manage")}),
       Get(<<"permission-catalog">>, {May("read")}), Get(<<":">>, {May("read")}),
       Patch(<<":">>, {May("manage")}), Delete(<<":">>, {May("manage")}),
       Get(<<":", "permissions">>, {May("read")}), Put(<<":", "permissions">>, {May("manage")}),
       Get(<<":", "members">>, {May("read")}) >>

\* saasadmin/permissions.routes.ts
permissionsAdminRouter ==
    LET May(a) == <<"admin", "permissions", a>> IN
    << Get(<<>>, {May("read")}), Get(<<"groups">>, {May("read")}), Get(<<":">>, {May("read")}) >>

\* saasadmin/access-policies.routes.ts
accessPoliciesAdminRouter ==
    LET May(a) == <<"admin", "access-policies", a>> IN
    << Get(<<>>, {May("read")}), Post(<<>>, {May("manage")}), Get(<<":">>, {May("read")}),
       Patch(<<":">>, {May("manage")}), Post(<<":", "enable">>, {May("manage")}),
       Post(<<":", "disable">>, {May("manage")}), Get(<<":", "assignments">>, {May("read")}),
       Post(<<":", "assignments">>, {May("manage")}),
       Delete(<<":", "assignments", ":">>, {May("manage")}) >>

\* saasadmin/approvals.routes.ts
approvalsAdminRouter ==
    LET May(a) == <<"admin", "approvals", a>> IN
    << Use(<<>>, "authenticate"), Get(<<"policies">>, {May("read")}),
       Post(<<"policies">>, {May("manage")}), Get(<<"policies", ":">>, {May("read")}),
       Patch(<<"policies", ":">>, {May("manage")}),
       Post(<<"policies", ":", "enable">>, {May("manage")}),
       Post(<<"policies", ":", "disable">>, {May("manage")}), Get(<<"requests">>, {May("read")}),
       Get(<<"my-pending">>, {May("read")}), Get(<<"requests", ":">>, {May("read")}),
       Post(<<"requests", ":", "approve">>, {May("act")}),
       Post(<<"requests", ":", "reject">>, {May("act")}),
       Post(<<"requests", ":", "cancel">>, {May("act"), May("read")}) >>

\* saasadmin/service-management.routes.ts
serviceManagementAdminRouter ==
    LET May(a) == <<"admin", "service-management", a>> IN
    << Get(<<"services">>, {May("read")}), Post(<<"services">>, {May("manage")}),
       Get(<<"services", ":">>, {May("read")}), Patch(<<"services", ":">>, {May("manage")}),
       Post(<<"services", ":", "enable">>, {May("manage")}),
       Post(<<"services", ":", "disable">>, {May("manage")}), Get(<<"categories">>, {May("read")}),
       Post(<<"categories">>, {May("manage")}), Patch(<<"categories", ":">>, {May("manage")}),
       Delete(<<"categories", ":">>, {May("manage")}), Get(<<"templates">>, {May("read")}),
       Post(<<"templates">>, {May("manage")}), Get(<<"templates", ":", "versions">>, {May("read")}),
       Get(<<"templates", ":">>, {May("read")}), Patch(<<"templates", ":">>, {May("manage")}),
       Post(<<"templates", ":", "publish">>, {May("manage")}),
       Put(<<"tenants", ":", "services">>, {May("manage")}) >>

\* saasadmin/sla-management.routes.ts
slaManagementAdminRouter ==
    LET May(a) == <<"admin", "sla-management", a>> IN
    << Get(<<"policies">>, {May("read")}), Post(<<"policies">>, {May("manage")}),
       Get(<<"policies", ":">>, {May("read")}), Patch(<<"policies", ":">>, {May("manage")}),
       Post(<<"policies", ":", "enable">>, {May("manage")}),
       Post(<<"policies", ":", "disable">>, {May("manage")}), Get(<<"calendars">>, {May("read")}),
       Post(<<"calendars">>, {May("manage")}), Patch(<<"calendars", ":">>, {May("manage")}),
       Get(<<"escalation-rules">>, {May("read")}), Post(<<"escalation-rules">>, {May("manage")}),
       Patch(<<"escalation-rules", ":">>, {May("manage")}),
       Get(<<"tenants", ":", "assignments">>, {May("read")}),
       Put(<<"tenants", ":", "assignments">>, {May("manage")}) >>

\* saasadmin/workflow-management.routes.ts
workflowManagementAdminRouter ==
    LET May(a) == <<"admin", "workflow-management", a>> IN
    << Get(<<"templates">>, {May("read")}), Post(<<"templates">>, {May("manage")}),
       Get(<<"templates", ":">>, {May("read")}), Patch(<<"templates", ":">>, {May("manage")}),
       Post(<<"templates", ":", "validate">>, {May("read")}),
       Post(<<"templates", ":", "publish">>, {May("manage")}),
       Post(<<"templates", ":", "retire">>, {May("manage")}),
       Get(<<"templates", ":", "versions">>, {May("read")}), Get(<<"runs">>, {May("read")}),
       Get(<<"runs", ":">>, {May("read")}), Post(<<"runs", ":", "cancel">>, {May("manage")}),
       Get(<<"tenants", ":", "assignments">>, {May("read")}),
       Put(<<"tenants", ":", "assignments">>, {May("manage")}) >>

\* saasadmin/itsm-configuration.routes.ts
itsmConfigurationAdminRouter ==
    LET May(a) == <<"admin", "itsm-configuration", a>> IN
    << Get(<<"modules">>, {May("read")}), Get(<<"modules", ":">>, {May("read")}),
       Patch(<<"modules", ":">>, {May("manage")}), Get(<<"priorities">>, {May("read")}),
       Post(<<"priorities">>, {May("manage")}), Patch(<<"priorities", ":">>, {May("manage")}),
       Get(<<"statuses">>, {May("read")}), Post(<<"statuses">>, {May("manage")}),
       Patch(<<"statuses", ":">>, {May("manage")}), Get(<<"categories">>, {May("read")}),
       Post(<<"categories">>, {May("manage")}), Patch(<<"categories", ":">>, {May("manage")}),
       Get(<<"numbering-rules">>, {May("read")}),
       Patch(<<"numbering-rules", ":">>, {May("manage")}),
       Get(<<"tenants", ":", "configuration">>, {May("read")}),
       Patch(<<"tenants", ":", "configuration">>, {May("manage")}) >>

\* saasadmin/knowledge-management.routes.ts
knowledgeManagementAdminRouter ==
    LET May(a) == <<"admin", "knowledge-management", a>> IN
    << Get(<<"policies">>, {May("read")}), Post(<<"policies">>, {May("manage")}),
       Patch(<<"policies", ":">>, {May("manage")}), Get(<<"categories">>, {May("read")}),
       Post(<<"categories">>, {May("manage")}), Patch(<<"categories", ":">>, {May("manage")}),
       Get(<<"templates">>, {May("read")}), Post(<<"templates">>, {May("manage")}),
       Patch(<<"templates", ":">>, {May("manage")}), Get(<<"review-rules">>, {May("read")}),
       Post(<<"review-rules">>, {May("manage")}), Patch(<<"review-rules", ":">>, {May("manage")}),
       Get(<<"tenants", ":", "settings">>, {May("read")}),
       Patch(<<"tenants", ":", "settings">>, {May("manage")}) >>

\* saasadmin/cmdb-assets.routes.ts
cmdbAssetsAdminRouter ==
    LET May(a) == <<"admin", "cmdb-assets", a>> IN
    << Get(<<"ci-types">>, {May("read")}), Post(<<"ci-types">>, {May("manage")}),
       Get(<<"ci-types", ":">>, {May("read")}), Patch(<<"ci-types", ":">>, {May("manage")}),
       Get(<<"relationship-types">>, {May("read")}),
       Post(<<"relationship-types">>, {May("manage")}),
       Patch(<<"relationship-types", ":">>, {May("manage")}),
       Get(<<"asset-categories">>, {May("read")}), Post(<<"asset-categories">>, {May("manage")}),
       Patch(<<"asset-categories", ":">>, {May("manage")}),
       Get(<<"discovery-profiles">>, {May("read")}),
       Post(<<"discovery-profiles">>, {May("manage")}),
       Patch(<<"discovery-profiles", ":">>, {May("manage")}),
       Get(<<"tenants", ":", "configuration">>, {May("read")}),
       Patch(<<"tenants", ":", "configuration">>, {May("manage")}) >>

\* saasadmin/email-notifications.routes.ts
emailNotificationsAdminRouter ==
    LET May(a) == <<"admin", "email-notifications", a>> IN
    << Get(<<"providers">>, {May("read")}), Post(<<"providers">>, {May("manage")}),
       Get(<<"providers", ":">>, {May("read")}), Patch(<<"providers", ":">>, {May("manage")}),
       Post(<<"providers", ":", "test">>, {May("test")}),
       Post(<<"providers", ":", "verify">>, {May("test")}),
       Post(<<"providers", ":", "disable">>, {May("manage")}), Get(<<"templates">>, {May("read")}),
       Post(<<"templates">>, {May("manage")}), Get(<<"templates", ":">>, {May("read")}),
       Patch(<<"templates", ":">>, {May("manage")}),
       Post(<<"templates", ":", "preview">>, {May("read")}), Get(<<"rules">>, {May("read")}),
       Post(<<"rules">>, {May("manage")}), Patch(<<"rules", ":">>, {May("manage")}),
       Post(<<"rules", ":", "enable">>, {May("manage")}),
       Post(<<"rules", ":", "disable">>, {May("manage")}), Get(<<"delivery-logs">>, {May("read")}),
       Get(<<"delivery-logs", ":">>, {May("read")}) >>

\* saasadmin/integrations.routes.ts
integrationsAdminRouter ==
    LET May(a) == <<"admin", "integrations", a>> IN
    << Get(<<>>, {May("read")}), Post(<<>>, {May("manage")}), Get(<<":">>, {May("read")}),
       Patch(<<":">>, {May("manage")}), Post(<<":", "test">>, {May("manage")}),
       Post(<<":", "enable">>, {May("manage")}), Post(<<":", "disable">>, {May("manage")}),
       Get(<<":", "logs">>, {May("read")}) >>

\* saasadmin/api-keys.routes.ts
apiKeysAdminRouter ==
    LET May(a) == <<"admin", "api-keys", a>> IN
    << Get(<<>>, {May("read")}), Post(<<>>, {May("manage")}), Get(<<":">>, {May("read")}),
       Patch(<<":">>, {May("manage")}), Post(<<":", "rotate">>, {May("manage")}),
       Post(<<":", "revoke">>, {May("manage")}), Get(<<":", "usage">>, {May("read")}) >>

\* saasadmin/webhooks.routes.ts
webhooksAdminRouter ==
    LET May(a) == <<"admin", "webhooks", a>> IN
    << Get(<<>>, {May("read")}), Post(<<>>, {May("manage")}), Get(<<":">>, {May("read")}),
       Patch(<<":">>, {May("manage")}), Post(<<":", "test">>, {May("manage")}),
       Post(<<":", "enable">>, {May("manage")}), Post(<<":", "disable">>, {May("manage")}),
       Post(<<":", "rotate-secret">>, {May("manage")}), Get(<<":", "deliveries">>, {May("read")}),
       Get(<<":", "deliveries", ":">>, {May("read")}),
       Post(<<":", "deliveries", ":", "retry">>, {May("manage")}) >>

\* saasadmin/support.routes.ts
supportAdminRouter ==
    LET May(a) == <<"admin", "support", a>> IN
    << Get(<<"tickets">>, {May("read")}), Post(<<"tickets">>, {May("manage")}),
       Get(<<"tickets", ":">>, {May("read")}), Patch(<<"tickets", ":">>, {May("manage")}),
       Post(<<"tickets", ":", "assign">>, {May("manage")}),
       Post(<<"tickets", ":", "reply">>, {May("manage")}),
       Post(<<"tickets", ":", "resolve">>, {May("manage")}),
       Post(<<"tickets", ":", "reopen">>, {May("manage")}),
       Get(<<"tickets", ":", "history">>, {May("read")}), Get(<<"queues">>, {May("read")}),
       Post(<<"queues">>, {May("manage")}), Patch(<<"queues", ":">>, {May("manage")}) >>

\* saasadmin/reports.routes.ts
reportsAdminRouter ==
    LET May(a) == <<"admin", "reports", a>> IN
    << Get(<<"catalog">>, {May("read")}), Post(<<"run">>, {May("run")}),
       Get(<<"runs">>, {May("read")}), Get(<<"runs", ":">>, {May("read")}),
       Get(<<"runs", ":", "download">>, {May("export")}), Get(<<"exports">>, {May("read")}),
       Post(<<"exports">>, {May("export")}), Get(<<"exports", ":">>, {May("read")}),
       Delete(<<"exports", ":">>, {May("export")}), Get(<<"tenant-usage">>, {May("read")}),
       Get(<<"activity">>, {May("read")}), Get(<<"security-summary">>, {May("read")}) >>

\* saasadmin/audit.routes.ts
auditAdminRouter ==
    LET May(a) == <<"admin", "audit", a>> IN
    << Get(<<"events">>, {May("read")}), Get(<<"events", ":">>, {May("read")}),
       Get(<<"actors">>, {May("read")}), Get(<<"resource-history">>, {May("read")}),
       Get(<<"security-events">>, {May("read")}), Get(<<"login-events">>, {May("read")}),
       Get(<<"privileged-actions">>, {May("read")}), Post(<<"exports">>, {May("export")}) >>

\* saasadmin/system-administration.routes.ts
systemAdministrationAdminRouter ==
    LET May(a) == <<"admin", "system-administration", a>> IN
    << Get(<<"health">>, {May("read")}), Get(<<"services">>, {May("read")}),
       Get(<<"services", ":">>, {May("read")}), Get(<<"queues">>, {May("read")}),
       Get(<<"jobs">>, {May("read")}), Get(<<"jobs", ":">>, {May("read")}),
       Post(<<"jobs", ":", "retry">>, {May("manage")}),
       Post(<<"jobs", ":", "cancel">>, {May("manage")}), Get(<<"maintenance">>, {May("read")}),
       Patch(<<"maintenance">>, {May("manage")}), Get(<<"diagnostics">>, {May("read")}),
       Get(<<"version">>, {May("read")}) >>

\* saasadmin/platform-settings.routes.ts
platformSettingsAdminRouter ==
    LET May(a) == <<"admin", "settings", a>> IN
    << Get(<<>>, {May("read")}), Get(<<"groups">>, {May("read")}),
       Get(<<"branding">>, {May("read")}), Patch(<<"branding">>, {May("manage")}),
       Get(<<"localization">>, {May("read")}), Patch(<<"localization">>, {May("manage")}),
       Get(<<"security">>, {May("read")}), Patch(<<"security">>, {May("manage")}),
       Get(<<"retention">>, {May("read")}), Patch(<<"retention">>, {May("manage")}),
       Get(<<"feature-flags">>, {May("read")}), Patch(<<"feature-flags", ":">>, {May("manage")}),
       Get(<<":">>, {May("read")}), Patch(<<":">>, {May("manage")}) >>

\* saasadmin/my-account.routes.ts
myAccountAdminRouter ==
    << Get(<<"profile">>, {}), Patch(<<"profile">>, {}), Get(<<"preferences">>, {}),
       Patch(<<"preferences">>, {}), Get(<<"sessions">>, {}), Delete(<<"sessions", ":">>, {}),
       Get(<<"security">>, {}), Post(<<"email-change">>, {}),
       Post(<<"email-change", "confirm">>, {}), Post(<<"mfa", "recovery-codes", "regenerate">>, {}) >>
=============================================================================
