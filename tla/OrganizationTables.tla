------------------------------ MODULE OrganizationTables ------------------------------
(***************************************************************************)
(* The tables of an organization's records (prisma/schema.prisma). The     *)
(* columns id and tenantId, which every table has, and the relations are   *)
(* left out; a column of an enumeration counts as text.                    *)
(***************************************************************************)
EXTENDS RecordContracts

TenantAccessPolicy ==
    Table({"name", "description", "policyType", "createdById"},
          {"rules", "priority", "isEnabled"} \cup Stamps, {"name"}, {{"name"}})

TenantAccessReview ==
    Table({"name", "description", "scope", "status", "createdById"},
          {"dueAt", "startedAt", "completedAt"} \cup Stamps, {"name"}, {})

Announcement ==
    Table({"title", "body", "type", "status", "audience", "createdById"},
          {"pinned", "publishAt", "expireAt", "metadata"} \cup Stamps, {"title"}, {})

TenantApprovalPolicy ==
    Table({"name", "description", "actionScope", "createdById"},
          {"conditions", "approverRoleIds", "minApprovals", "isEnabled"} \cup Stamps,
          {"name", "actionScope"}, {{"name"}})

TenantApprovalRequest ==
    Table({"policyId", "actionKey", "resourceType", "resourceId", "reason", "requestedById",
          "status"},
          {"payload", "expiresAt", "createdAt", "updatedAt"},
          {"actionKey", "resourceType"}, {})

TenantAssetModel ==
    Table({"name", "manufacturer", "category", "description", "createdById"},
          {"isActive"} \cup Stamps, {"name"}, {{"name"}})

TenantAssetLicense ==
    Table({"name", "vendor", "licenseKeyEnc", "status", "createdById"},
          {"seats", "usedSeats", "expiresAt"} \cup Stamps, {"name"}, {{"name"}})

Asset ==
    Table({"assetTag", "name", "categoryKey", "status", "condition", "serialNumber", "model",
          "manufacturer", "currency", "assignedToId", "locationId", "ciId", "vendorId", "notes",
          "createdById"},
          {"purchaseDate", "warrantyExpiry", "cost", "attributes"} \cup Stamps,
          {"assetTag", "name"}, {{"assetTag"}})

AssetMaintenance ==
    Table({"assetId", "kind", "status", "summary", "description", "performedById",
          "createdById"},
          {"scheduledAt", "completedAt", "cost"} \cup Stamps, {"assetId", "summary"}, {})

TenantAttachment ==
    Table({"name", "filename", "mimeType", "storageKey", "resourceType", "resourceId",
          "uploadedById"},
          {"size", "metadata", "createdAt", "deletedAt"},
          {"name", "filename", "mimeType", "size", "storageKey"}, {})

TenantAutomationRule ==
    Table({"name", "description", "moduleKey", "trigger", "eventKey", "schedule", "status",
          "createdById"},
          {"conditions", "actions", "isEnabled", "lastRunAt", "runCount"} \cup Stamps,
          {"name"}, {{"name"}})

TenantAutomationRun ==
    Table({"ruleId", "status", "trigger", "error"},
          {"context", "result", "startedAt", "completedAt", "createdAt", "updatedAt"},
          {}, {})

TenantChangeType ==
    Table({"name", "code", "description", "riskLevel", "createdById"},
          {"requiresApproval", "isActive"} \cup Stamps, {"name", "code"}, {{"code"}})

TenantChangeTemplate ==
    Table({"name", "changeTypeId", "description", "createdById"},
          {"template", "isActive"} \cup Stamps, {"name"}, {{"name"}})

TenantChangeWindow ==
    Table({"name", "windowType", "recurrence", "description", "createdById"},
          {"startAt", "endAt", "isActive"} \cup Stamps, {"name", "startAt", "endAt"},
          {{"name"}})

ConfigurationItem ==
    Table({"name", "ciTypeKey", "status", "criticality", "environment", "ownerId",
          "supportTeamId", "serialNumber", "assetTag", "ipAddress", "hostname", "locationId",
          "createdById"},
          {"attributes", "tags"} \cup Stamps, {"name"}, {{"name"}})

CiRelationship ==
    Table({"sourceCiId", "targetCiId", "typeKey", "description", "createdById"}, Stamps,
          {"sourceCiId", "targetCiId"}, {{"sourceCiId", "targetCiId", "typeKey"}})

TenantCustomField ==
    Table({"name", "key", "resourceType", "fieldType", "createdById"},
          {"options", "isRequired", "isActive"} \cup Stamps,
          {"name", "key", "resourceType"}, {{"resourceType", "key"}})

TenantDelegation ==
    Table({"delegatorId", "delegateeId", "reason", "status", "createdById"},
          {"scope", "startsAt", "endsAt", "revokedAt"} \cup Stamps,
          {"delegatorId", "delegateeId"}, {})

DiscoveryRun ==
    Table({"profileKey", "name", "status", "mode", "error", "createdById"},
          {"startedAt", "completedAt", "discovered", "created", "updated", "failed", "summary"}
          \cup Stamps,
          {}, {})

DiscoveryResult ==
    Table({"runId", "ciTypeKey", "name", "hostname", "ipAddress", "status", "action",
          "matchedCiId"},
          {"payload"} \cup Stamps, {"runId", "name"}, {})

TenantIncidentCategory ==
    Table({"name", "code", "description", "parentId", "createdById"},
          {"isActive", "sortOrder"} \cup Stamps, {"name", "code"}, {{"code"}})

TenantIncidentPriority ==
    Table({"name", "key", "color", "description", "createdById"},
          {"level", "responseMinutes", "resolveMinutes", "isActive"} \cup Stamps,
          {"name", "key"}, {{"key"}})

TenantResolutionCode ==
    Table({"code", "label", "description", "createdById"}, {"isActive"} \cup Stamps,
          {"code", "label"}, {{"code"}})

KnowledgeArticleCategory ==
    Table({"name", "description", "parentId", "status", "createdById"},
          {"sortOrder"} \cup Stamps, {"name"}, {{"name"}})

KnowledgeArticle ==
    Table({"number", "title", "summary", "body", "categoryId", "status", "visibility",
          "authorId", "reviewerId", "createdById"},
          {"tags", "publishedAt", "reviewedAt", "archivedAt", "viewCount", "helpfulCount",
          "notHelpfulCount", "metadata"} \cup Stamps,
          {"title"}, {{"number"}})

KnownError ==
    Table({"number", "title", "description", "status", "problemId", "workaround", "rootCause",
          "ownerId", "createdById"},
          {"resolvedAt", "tags", "metadata"} \cup Stamps, {"title"}, {{"number"}})

MajorIncident ==
    Table({"number", "title", "description", "status", "severity", "incidentId", "commanderId",
          "impactSummary", "communicationPlan", "createdById"},
          {"startedAt", "resolvedAt", "tags", "metadata"} \cup Stamps, {"title"},
          {{"number"}})

TenantNotificationTemplate ==
    Table({"name", "eventKey", "channel", "subject", "body", "format", "locale", "status",
          "createdById"},
          {"isEnabled"} \cup Stamps, {"name", "eventKey", "body"}, {{"name"}})

TenantNotificationRule ==
    Table({"name", "eventKey", "templateId", "channel", "createdById"},
          {"recipients", "conditions", "isEnabled"} \cup Stamps, {"name", "eventKey"},
          {{"name"}})

OnCallSchedule ==
    Table({"name", "description", "timezone", "rotationType", "status", "teamId",
          "createdById"},
          {"escalationPolicy"} \cup Stamps, {"name"}, {{"name"}})

OnCallShift ==
    Table({"scheduleId", "userId", "kind", "note", "status", "createdById"},
          {"startAt", "endAt"} \cup Stamps, {"scheduleId", "userId", "startAt", "endAt"},
          {})

TenantProblemCategory ==
    Table({"name", "code", "description", "createdById"}, {"isActive"} \cup Stamps,
          {"name", "code"}, {{"code"}})

TenantRootCauseCategory ==
    Table({"name", "code", "description", "createdById"}, {"isActive"} \cup Stamps,
          {"name", "code"}, {{"code"}})

Release ==
    Table({"number", "name", "version", "type", "status", "description", "ownerId", "teamId",
          "createdById"},
          {"plannedStartAt", "plannedEndAt", "actualStartAt", "actualEndAt", "tags", "metadata"}
          \cup Stamps,
          {"name"}, {{"number"}})

TenantServiceDeskQueue ==
    Table({"name", "email", "description", "operatingHoursId", "teamId", "status",
          "createdById"},
          {"isDefault", "settings", "metadata"} \cup Stamps, {"name"}, {{"name"}})

TenantOperatingHours ==
    Table({"name", "timezone"}, {"schedule", "holidays", "isDefault"} \cup Stamps,
          {"name"}, {{"name"}})

TenantRoutingRule ==
    Table({"name", "queueId", "createdById"},
          {"priority", "conditions", "actions", "isEnabled", "sortOrder"} \cup Stamps,
          {"name"}, {{"name"}})

TenantSlaPolicy ==
    Table({"name", "description", "status", "createdById"},
          {"serviceLevels", "settings", "isDefault"} \cup Stamps, {"name"}, {{"name"}})

TenantSlaEscalationRule ==
    Table({"slaPolicyId", "name", "trigger"},
          {"thresholdMinutes", "actions", "isEnabled", "sortOrder", "createdAt", "updatedAt"},
          {"name", "trigger", "thresholdMinutes"}, {})

TenantBusinessCalendar ==
    Table({"name", "timezone"}, {"workingHours", "holidays", "isDefault"} \cup Stamps,
          {"name"}, {{"name"}})

Vendor ==
    Table({"name", "code", "type", "status", "contactName", "email", "phone", "website",
          "addressLine1", "addressLine2", "city", "state", "postalCode", "country", "notes",
          "createdById"},
          {"rating", "metadata"} \cup Stamps, {"name"}, {{"code"}, {"name"}})

TenantWorkflow ==
    Table({"name", "description", "moduleKey", "status", "trigger", "createdById"},
          {"conditions", "definition", "currentVersion"} \cup Stamps, {"name"},
          {{"name"}})

TenantWorkflowRun ==
    Table({"workflowId", "resourceType", "resourceId", "status", "error"},
          {"context", "steps", "startedAt", "completedAt", "createdAt", "updatedAt"},
          {"resourceType"}, {})

TenantAccessPolicyAssignment ==
    Table({"policyId", "subjectType", "subjectId"}, {"createdAt"},
          {"policyId", "subjectType", "subjectId"},
          {{"policyId", "subjectType", "subjectId"}})

TenantAccessReviewItem ==
    Table({"reviewId", "subjectType", "subjectId", "decision", "notes", "decidedById"},
          {"decidedAt", "createdAt", "updatedAt"},
          {"reviewId", "subjectType", "subjectId"}, {})

KnowledgeArticleComment ==
    Table({"articleId", "body", "authorId"}, {"isInternal", "createdAt"},
          {"articleId", "body"}, {})

TenantEmailProvider ==
    Table({"key", "name", "providerType", "fromName", "fromEmail", "replyTo", "configEnc",
          "status", "lastTestResult", "createdById"},
          {"isDefault", "lastTestedAt"} \cup Stamps,
          {"key", "name", "providerType", "fromEmail", "configEnc"}, {{"key"}})

CatalogItem ==
    Table({"categoryId", "name", "slug", "shortDescription", "description", "itemType",
          "status", "currency", "fulfillmentTeamId", "createdById"},
          {"price", "approvalRequired", "formSchema", "currentVersion", "tags"} \cup Stamps,
          {"name", "slug"}, {{"slug"}})

SupportTicket ==
    Table({"ticketNumber", "subject", "description", "status", "priority", "category",
          "requesterName", "requesterEmail", "queueId", "assigneeId", "createdById"},
          {"tags", "resolvedAt", "closedAt", "createdAt", "updatedAt"},
          {"ticketNumber", "subject", "description", "requesterName", "requesterEmail"},
          {{"ticketNumber"}})

SupportQueue ==
    Table({"name", "description", "email"}, {"isDefault", "createdAt", "updatedAt"},
          {"name"}, {})

CostCenter ==
    Table({"name", "code", "description", "status", "createdById"}, Stamps, {"name"},
          {{"code"}})

Department ==
    Table({"name", "code", "description", "parentId", "managerId", "status", "createdById"},
          Stamps, {"name"}, {{"code"}})

Location ==
    Table({"name", "code", "type", "addressLine1", "addressLine2", "city", "state", "country",
          "postalCode", "timezone", "phone", "status", "createdById"},
          Stamps, {"name"}, {{"code"}})

Team ==
    Table({"name", "code", "description", "departmentId", "leadId", "email", "status",
          "createdById"},
          Stamps, {"name"}, {{"code"}})

Customer ==
    Table({"name", "code", "type", "status", "industry", "website", "phone", "email",
          "description", "addressLine1", "addressLine2", "city", "state", "postalCode",
          "country", "timezone", "slaPolicyId", "createdById"},
          {"isDataCenter", "metadata"} \cup Stamps, {"name"}, {{"code"}})

CatalogCategory ==
    Table({"name", "description", "parentId", "icon", "status", "createdById"},
          {"sortOrder"} \cup Stamps, {"name"}, {})

CustomerContact ==
    Table({"customerId", "firstName", "lastName", "email", "phone", "jobTitle", "role",
          "portalStatus", "notes", "createdById"},
          {"invitedAt", "portalActivatedAt", "isPrimary"} \cup Stamps,
          {"customerId", "firstName", "lastName", "email"}, {{"customerId", "email"}})

CustomerSite ==
    Table({"customerId", "name", "code", "siteType", "addressLine1", "addressLine2", "city",
          "state", "postalCode", "country", "timezone", "status", "notes", "createdById"},
          {"isDataCenter"} \cup Stamps, {"customerId", "name"}, {{"customerId", "code"}})

================================================================================
