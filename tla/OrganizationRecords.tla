----------------------------- MODULE OrganizationRecords ------------------------------
(***************************************************************************)
(* The record services of an organization (services/itsm and               *)
(* services/tenantadmin) and the platform's support queues: the            *)
(* configuration each gives to its factory, and what its own operations    *)
(* add or check.                                                           *)
(***************************************************************************)
EXTENDS OrganizationInputs

accessPolicyService ==
    [Service(TenantAccessPolicy, createAccessPolicySchema, Partial(createAccessPolicySchema)) EXCEPT
        !.search = {"name", "description", "policyType"},
        !.sort = Dated({"name", "priority", "policyType"}), !.filter = {"policyType"},
        !.order = "priority", !.status = {}, !.checks = {Over({"name"})}]

accessReviewService ==
    [Service(TenantAccessReview, createAccessReviewSchema, Partial(createAccessReviewSchema)) EXCEPT
        !.search = {"name", "description", "scope"},
        !.sort = Dated({"name", "status", "dueAt"}), !.filter = {"scope"},
        !.sets = {"startedAt", "completedAt"}]

announcementService ==
    [Service(Announcement, createAnnouncementSchema, Partial(createAnnouncementSchema)) EXCEPT
        !.search = {"title", "body"},
        !.sort = Dated({"title", "status", "type", "pinned", "publishAt", "expireAt"}),
        !.filter = {"type", "audience", "pinned"}, !.sets = {"publishAt"}]

approvalPolicyService ==
    [Service(TenantApprovalPolicy, createApprovalPolicySchema, Partial(createApprovalPolicySchema)) EXCEPT
        !.search = {"name", "description", "actionScope"},
        !.sort = Dated({"name", "actionScope", "isEnabled"}), !.filter = {"actionScope"},
        !.status = {}, !.checks = {Over({"name"})}]

approvalRequestService ==
    [Service(TenantApprovalRequest, createApprovalRequestSchema, Partial(createApprovalRequestSchema)) EXCEPT
        !.search = {"actionKey", "resourceType", "reason"},
        !.sort = Dated({"status", "actionKey", "resourceType"}),
        !.filter = {"actionKey", "resourceType", "policyId"}, !.createdBy = FALSE,
        !.soft = FALSE, !.supplied = {"requestedById"}]

assetModelService ==
    [Service(TenantAssetModel, createAssetModelSchema, Partial(createAssetModelSchema)) EXCEPT
        !.search = {"name", "manufacturer", "category"},
        !.sort = Dated({"name", "manufacturer"}), !.status = {},
        !.checks = {Over({"name"})}]

assetLicenseService ==
    [Service(TenantAssetLicense, createAssetLicenseSchema, Partial(createAssetLicenseSchema)) EXCEPT
        !.search = {"name", "vendor"},
        !.sort = Dated({"name", "vendor", "seats", "expiresAt", "status"}),
        !.checks = {Over({"name"})}, !.supplied = {"licenseKeyEnc"},
        !.dropped = {"licenseKey"}]

assetService ==
    [Service(Asset, createAssetSchema, Partial(createAssetSchema)) EXCEPT
        !.search = {"assetTag", "name", "serialNumber", "model", "manufacturer"},
        !.sort = Dated({"assetTag", "name", "status", "categoryKey", "purchaseDate",
                        "warrantyExpiry"}),
        !.filter = {"categoryKey", "assignedToId", "locationId", "vendorId", "ciId"},
        !.checks = {Over({"assetTag"})}, !.sets = {"assignedToId", "locationId"}]

assetMaintenanceService ==
    [Service(AssetMaintenance, createAssetMaintenanceSchema, Partial(createAssetMaintenanceSchema)) EXCEPT
        !.search = {"summary", "description"},
        !.sort = Dated({"summary", "status", "scheduledAt", "completedAt"}),
        !.filter = {"assetId", "kind"}, !.supplied = {"assetId"}, !.sets = {"completedAt"},
        !.parent = "other", !.by = "assetId", !.asserted = "always"]

attachmentService ==
    [Service(TenantAttachment, createAttachmentSchema, NoInput) EXCEPT
        !.search = {"name", "filename", "mimeType"},
        !.sort = {"name", "filename", "size", "createdAt"},
        !.filter = {"resourceType", "resourceId", "mimeType"}, !.status = {},
        !.createdBy = FALSE, !.supplied = {"uploadedById"}]

automationRuleService ==
    [Service(TenantAutomationRule, createAutomationRuleSchema, Partial(createAutomationRuleSchema)) EXCEPT
        !.search = {"name", "description", "moduleKey", "eventKey"},
        !.sort = Dated({"name", "status", "trigger", "isEnabled", "runCount", "lastRunAt"}),
        !.filter = {"trigger", "moduleKey", "isEnabled"}, !.checks = {Over({"name"})},
        !.sets = {"lastRunAt", "runCount"}]

automationRunService ==
    [Service(TenantAutomationRun, NoInput, NoInput) EXCEPT
        !.search = {"trigger", "error"}, !.sort = Dated({"status", "trigger", "startedAt"}),
        !.filter = {"ruleId", "trigger"}, !.createdBy = FALSE, !.soft = FALSE,
        !.supplied = {"ruleId", "status", "trigger", "context"}, !.sets = {"completedAt"},
        !.parent = "other", !.by = "ruleId", !.asserted = "given"]

changeTypeService ==
    [Service(TenantChangeType, createChangeTypeSchema, Partial(createChangeTypeSchema)) EXCEPT
        !.search = {"name", "code", "description"},
        !.sort = Dated({"name", "code", "riskLevel"}), !.status = {},
        !.checks = {Over({"code"})}]

changeTemplateService ==
    [Service(TenantChangeTemplate, createChangeTemplateSchema, Partial(createChangeTemplateSchema)) EXCEPT
        !.search = {"name", "description"}, !.sort = Dated({"name"}),
        !.filter = {"changeTypeId"}, !.status = {}, !.checks = {Over({"name"})},
        !.parent = "other", !.by = "changeTypeId"]

changeWindowService ==
    [Service(TenantChangeWindow, createChangeWindowSchema, Partial(createChangeWindowSchema)) EXCEPT
        !.search = {"name", "description"},
        !.sort = Dated({"name", "startAt", "endAt", "windowType"}),
        !.filter = {"windowType"}, !.status = {}, !.checks = {Over({"name"})}]

configurationItemService ==
    [Service(ConfigurationItem, createCiSchema, Partial(createCiSchema)) EXCEPT
        !.search = {"name", "hostname", "ipAddress", "serialNumber", "assetTag"},
        !.sort = Dated({"name", "ciTypeKey", "status", "criticality"}),
        !.filter = {"ciTypeKey", "criticality", "environment", "ownerId", "supportTeamId"},
        !.checks = {Over({"name"})}]

ciRelationshipService ==
    [Service(CiRelationship, createCiRelationshipSchema, Partial(createCiRelationshipSchema)) EXCEPT
        !.search = {"typeKey", "description"}, !.sort = Dated({"typeKey"}),
        !.filter = {"sourceCiId", "targetCiId", "typeKey"},
        !.checks = {OverLive({"sourceCiId", "targetCiId", "typeKey"})}, !.parent = "other",
        !.by = "sourceCiId", !.asserted = "given", !.within = TRUE]

customFieldService ==
    [Service(TenantCustomField, createCustomFieldSchema, Partial(createCustomFieldSchema)) EXCEPT
        !.search = {"key", "label", "resourceType"},
        !.sort = Dated({"key", "label", "resourceType", "sortOrder"}),
        !.filter = {"resourceType"}, !.order = "sortOrder", !.status = {},
        !.checks = {Over({"resourceType", "key"})}, !.partly = TRUE]

delegationService ==
    [Service(TenantDelegation, createDelegationSchema, Partial(createDelegationSchema)) EXCEPT
        !.search = {"reason"}, !.sort = Dated({"startsAt", "endsAt", "status"}),
        !.filter = {"delegatorId", "delegateeId"}, !.sets = {"revokedAt"}]

discoveryRunService ==
    [Service(DiscoveryRun, createDiscoveryRunSchema, NoInput) EXCEPT
        !.search = {"name", "profileKey"},
        !.sort = Dated({"name", "status", "startedAt", "completedAt"}),
        !.filter = {"profileKey", "mode"}, !.sets = {"startedAt", "completedAt", "error"}]

discoveryResultService ==
    [Service(DiscoveryResult, NoInput, updateDiscoveryResultSchema) EXCEPT
        !.search = {"name", "hostname", "ipAddress"},
        !.sort = Dated({"name", "status", "action"}),
        !.filter = {"runId", "action", "ciTypeKey"}, !.createdBy = FALSE,
        !.parent = "other", !.by = "runId", !.asserted = "always"]

incidentCategoryService ==
    [Service(TenantIncidentCategory, createIncidentCategorySchema, Partial(createIncidentCategorySchema)) EXCEPT
        !.search = {"name", "code", "description"},
        !.sort = Dated({"name", "code", "sortOrder"}), !.order = "sortOrder", !.status = {},
        !.checks = {Over({"code"})}, !.parent = "own", !.by = "parentId"]

incidentPriorityService ==
    [Service(TenantIncidentPriority, createIncidentPrioritySchema, Partial(createIncidentPrioritySchema)) EXCEPT
        !.search = {"name", "key", "description"}, !.sort = Dated({"name", "key", "level"}),
        !.order = "level", !.status = {}, !.checks = {Over({"key"})}]

resolutionCodeService ==
    [Service(TenantResolutionCode, createResolutionCodeSchema, Partial(createResolutionCodeSchema)) EXCEPT
        !.search = {"code", "label", "description"}, !.sort = Dated({"code", "label"}),
        !.status = {}, !.checks = {Over({"code"})}]

knowledgeCategoryService ==
    [Service(KnowledgeArticleCategory, createKnowledgeCategorySchema, Partial(createKnowledgeCategorySchema)) EXCEPT
        !.search = {"name", "description"}, !.sort = Dated({"name", "sortOrder", "status"}),
        !.checks = {Over({"name"})}, !.parent = "own", !.by = "parentId", !.guarded = TRUE]

knowledgeArticleService ==
    [Service(KnowledgeArticle, createKnowledgeArticleSchema, Partial(createKnowledgeArticleSchema)) EXCEPT
        !.search = {"title", "summary", "body", "number"},
        !.sort = Dated({"title", "status", "visibility", "viewCount", "publishedAt"}),
        !.filter = {"categoryId", "visibility", "authorId"}, !.checks = {Over({"number"})},
        !.numbered = TRUE, !.supplied = {"number"},
        !.sets = {"publishedAt", "reviewedAt", "reviewerId", "archivedAt"},
        !.parent = "other", !.by = "categoryId", !.guarded = TRUE]

knownErrorService ==
    [Service(KnownError, createKnownErrorSchema, Partial(createKnownErrorSchema)) EXCEPT
        !.search = {"title", "number", "description", "workaround", "rootCause"},
        !.sort = Dated({"title", "status", "number", "resolvedAt"}),
        !.filter = {"problemId", "ownerId"}, !.checks = {Over({"number"})},
        !.numbered = TRUE, !.supplied = {"number"}, !.sets = {"resolvedAt"}]

majorIncidentService ==
    [Service(MajorIncident, createMajorIncidentSchema, Partial(createMajorIncidentSchema)) EXCEPT
        !.search = {"title", "number", "description", "impactSummary"},
        !.sort = Dated({"title", "status", "severity", "number", "startedAt",
                        "resolvedAt"}),
        !.filter = {"severity", "incidentId", "commanderId"}, !.checks = {Over({"number"})},
        !.numbered = TRUE, !.supplied = {"number"}, !.sets = {"resolvedAt"}]

notificationTemplateService ==
    [Service(TenantNotificationTemplate, createNotificationTemplateSchema, Partial(createNotificationTemplateSchema)) EXCEPT
        !.search = {"name", "eventKey", "subject"},
        !.sort = Dated({"name", "eventKey", "channel", "status", "isEnabled"}),
        !.filter = {"channel", "eventKey", "isEnabled"}, !.checks = {Over({"name"})}]

notificationRuleService ==
    [Service(TenantNotificationRule, createNotificationRuleSchema, Partial(createNotificationRuleSchema)) EXCEPT
        !.search = {"name", "eventKey"},
        !.sort = Dated({"name", "eventKey", "channel", "isEnabled"}),
        !.filter = {"channel", "eventKey", "isEnabled", "templateId"}, !.status = {},
        !.checks = {Over({"name"})}, !.parent = "other", !.by = "templateId"]

onCallScheduleService ==
    [Service(OnCallSchedule, createOnCallScheduleSchema, Partial(createOnCallScheduleSchema)) EXCEPT
        !.search = {"name", "description"},
        !.sort = Dated({"name", "rotationType", "status"}),
        !.filter = {"teamId", "rotationType"}, !.checks = {Over({"name"})}]

onCallShiftService ==
    [Service(OnCallShift, createOnCallShiftSchema, Partial(createOnCallShiftSchema)) EXCEPT
        !.search = {"note"}, !.sort = Dated({"startAt", "endAt", "status", "kind"}),
        !.filter = {"scheduleId", "userId", "kind"}, !.parent = "other",
        !.by = "scheduleId", !.asserted = "always"]

problemCategoryService ==
    [Service(TenantProblemCategory, createProblemCategorySchema, Partial(createProblemCategorySchema)) EXCEPT
        !.search = {"name", "code", "description"}, !.sort = Dated({"name", "code"}),
        !.status = {}, !.checks = {Over({"code"})}]

rootCauseCategoryService ==
    [Service(TenantRootCauseCategory, createRootCauseCategorySchema, Partial(createRootCauseCategorySchema)) EXCEPT
        !.search = {"name", "code", "description"}, !.sort = Dated({"name", "code"}),
        !.status = {}, !.checks = {Over({"code"})}]

releaseService ==
    [Service(Release, createReleaseSchema, Partial(createReleaseSchema)) EXCEPT
        !.search = {"name", "version", "number", "description"},
        !.sort = Dated({"name", "version", "status", "type", "plannedStartAt"}),
        !.filter = {"type", "ownerId", "teamId"}, !.checks = {Over({"number"})},
        !.numbered = TRUE, !.supplied = {"number"},
        !.sets = {"actualStartAt", "actualEndAt"}]

serviceDeskQueueService ==
    [Service(TenantServiceDeskQueue, createQueueSchema, Partial(createQueueSchema)) EXCEPT
        !.search = {"name", "email", "description"},
        !.sort = Dated({"name", "status", "isDefault"}), !.filter = {"isDefault"},
        !.checks = {Over({"name"})}, !.default = "chosen"]

operatingHoursService ==
    [Service(TenantOperatingHours, createOperatingHoursSchema, Partial(createOperatingHoursSchema)) EXCEPT
        !.search = {"name", "timezone"}, !.sort = Dated({"name", "timezone", "isDefault"}),
        !.status = {}, !.createdBy = FALSE, !.checks = {Over({"name"})},
        !.default = "chosen"]

routingRuleService ==
    [Service(TenantRoutingRule, createRoutingRuleSchema, Partial(createRoutingRuleSchema)) EXCEPT
        !.search = {"name"}, !.sort = Dated({"name", "priority", "isEnabled", "sortOrder"}),
        !.filter = {"queueId", "isEnabled"}, !.status = {}, !.checks = {Over({"name"})},
        !.parent = "other", !.by = "queueId"]

slaPolicyService ==
    [Service(TenantSlaPolicy, createSlaPolicySchema, Partial(createSlaPolicySchema)) EXCEPT
        !.search = {"name", "description"}, !.sort = Dated({"name", "status", "isDefault"}),
        !.checks = {Over({"name"})}]

escalationRuleService ==
    [Service(TenantSlaEscalationRule, createEscalationRuleSchema, Partial(createEscalationRuleSchema)) EXCEPT
        !.search = {"name", "trigger"},
        !.sort = Dated({"name", "trigger", "thresholdMinutes", "isEnabled", "sortOrder"}),
        !.filter = {"slaPolicyId", "isEnabled"}, !.status = {}, !.createdBy = FALSE,
        !.soft = FALSE, !.checks = {Over({"name"})}, !.parent = "other",
        !.by = "slaPolicyId"]

businessCalendarService ==
    [Service(TenantBusinessCalendar, createBusinessCalendarSchema, Partial(createBusinessCalendarSchema)) EXCEPT
        !.search = {"name", "timezone"}, !.sort = Dated({"name", "timezone", "isDefault"}),
        !.filter = {"timezone"}, !.createdBy = FALSE, !.checks = {Over({"name"})},
        !.default = "chosen"]

vendorService ==
    [Service(Vendor, createVendorSchema, Partial(createVendorSchema)) EXCEPT
        !.search = {"name", "code", "email", "contactName", "city", "country"},
        !.sort = Dated({"name", "code", "status", "type", "rating"}), !.filter = {"type"},
        !.checks = {Over({"name"}), Over({"code"})}]

workflowService ==
    [Service(TenantWorkflow, createWorkflowSchema, Partial(createWorkflowSchema)) EXCEPT
        !.search = {"name", "description", "moduleKey"},
        !.sort = Dated({"name", "status", "moduleKey", "currentVersion"}),
        !.filter = {"moduleKey"}, !.checks = {Over({"name"})}, !.sets = {"currentVersion"}]

workflowRunService ==
    [Service(TenantWorkflowRun, createWorkflowRunSchema, updateWorkflowRunSchema) EXCEPT
        !.search = {"resourceType", "error"},
        !.sort = Dated({"status", "resourceType", "startedAt"}),
        !.filter = {"workflowId", "resourceType", "resourceId"}, !.createdBy = FALSE,
        !.soft = FALSE, !.supplied = {"status"}, !.sets = {"completedAt"},
        !.parent = "other", !.by = "workflowId", !.asserted = "given"]

accessPolicyAssignmentService ==
    [Service(TenantAccessPolicyAssignment, createAccessPolicyAssignmentSchema, NoInput) EXCEPT
        !.status = {}, !.createdBy = FALSE, !.soft = FALSE,
        !.checks = {Over({"policyId", "subjectType", "subjectId"})},
        !.supplied = {"policyId"}, !.parent = "other", !.by = "policyId",
        !.asserted = "given", !.within = TRUE]

accessReviewItemService ==
    [Service(TenantAccessReviewItem, createAccessReviewItemSchema, decideAccessReviewItemSchema) EXCEPT
        !.status = {}, !.createdBy = FALSE, !.soft = FALSE,
        !.checks = {Over({"reviewId", "subjectType", "subjectId"})},
        !.supplied = {"reviewId"},
        !.sets = {"decision", "notes", "decidedById", "decidedAt"}, !.parent = "other",
        !.by = "reviewId", !.asserted = "always", !.within = TRUE]

knowledgeCommentService ==
    [Service(KnowledgeArticleComment, createKnowledgeCommentSchema, NoInput) EXCEPT
        !.status = {}, !.createdBy = FALSE, !.soft = FALSE,
        !.supplied = {"articleId", "authorId"}, !.parent = "other", !.by = "articleId",
        !.asserted = "given", !.removed = FALSE]

emailProviderService ==
    [Service(TenantEmailProvider, createProviderSchema, Omit(Partial(createProviderSchema), "key")) EXCEPT
        !.search = {"key", "name", "fromEmail"}, !.filter = {"providerType"},
        !.checks = {Over({"key"})}, !.supplied = {"configEnc"}, !.dropped = {"config"},
        !.default = "kept", !.removed = FALSE]

catalogItemService ==
    [Service(CatalogItem, createCatalogItemSchema, Partial(createCatalogItemSchema)) EXCEPT
        !.search = {"name", "slug", "shortDescription"},
        !.sort = Dated({"name", "slug", "status", "itemType"}),
        !.filter = {"categoryId", "itemType"}, !.checks = {Over({"slug"})},
        !.numbered = TRUE, !.supplied = {"slug", "status"}, !.sets = {"currentVersion"},
        !.parent = "other", !.by = "categoryId", !.asserted = "given", !.guarded = TRUE]

supportTicketService ==
    [Service(SupportTicket, createSupportTicketSchema, updateSupportTicketSchema) EXCEPT
        !.search = {"subject", "ticketNumber"}, !.filter = {"priority"}, !.soft = FALSE,
        !.supplied = {"ticketNumber", "requesterName", "requesterEmail"},
        !.sets = {"resolvedAt", "closedAt"}, !.removed = FALSE]

supportQueueService ==
    [Service(SupportQueue, createSupportQueueSchema, updateSupportQueueSchema) EXCEPT
        !.search = {"name", "email"}, !.sort = Dated({"name", "isDefault"}), !.status = {},
        !.createdBy = FALSE, !.soft = FALSE, !.checks = {Over({"name"})},
        !.default = "kept", !.removed = FALSE]

costCenterService ==
    [Service(CostCenter, createCostCenterSchema, Partial(createCostCenterSchema)) EXCEPT
        !.search = {"name", "code", "description"},
        !.sort = Dated({"name", "code", "status"}), !.checks = {Over({"code"})}]

departmentService ==
    [Service(Department, createDepartmentSchema, Partial(createDepartmentSchema)) EXCEPT
        !.search = {"name", "code", "description"},
        !.sort = Dated({"name", "code", "status"}), !.checks = {Over({"code"})},
        !.parent = "own", !.by = "parentId", !.asserted = "given", !.guarded = TRUE]

locationService ==
    [Service(Location, createLocationSchema, Partial(createLocationSchema)) EXCEPT
        !.search = {"name", "code", "city", "country"},
        !.sort = Dated({"name", "code", "city", "status"}), !.checks = {Over({"code"})}]

teamService ==
    [Service(Team, createTeamSchema, Partial(createTeamSchema)) EXCEPT
        !.search = {"name", "code", "description", "email"},
        !.sort = Dated({"name", "code", "status"}), !.checks = {Over({"code"})},
        !.parent = "other", !.by = "departmentId", !.asserted = "given", !.guarded = TRUE]

customerService ==
    [Service(Customer, createCustomerSchema, Partial(createCustomerSchema)) EXCEPT
        !.search = {"name", "code", "email", "industry", "city", "country"},
        !.sort = Dated({"name", "code", "status"}), !.checks = {Over({"code"})}]

catalogCategoryService ==
    [Service(CatalogCategory, createCatalogCategorySchema, Partial(createCatalogCategorySchema)) EXCEPT
        !.search = {"name", "description"}, !.sort = Dated({"name", "sortOrder", "status"}),
        !.checks = {OverLive({"name"})}, !.parent = "own", !.by = "parentId",
        !.asserted = "given", !.guarded = TRUE, !.itself = TRUE]

customerContactService ==
    [Service(CustomerContact, createContactSchema, Partial(createContactSchema)) EXCEPT
        !.search = {"firstName", "lastName", "email"},
        !.sort = {"firstName", "lastName", "email", "createdAt"}, !.filter = {"customerId"},
        !.status = {}, !.checks = {Over({"customerId", "email"})}, !.revives = TRUE,
        !.within = TRUE, !.supplied = {"customerId"},
        !.sets = {"portalStatus", "invitedAt"}, !.parent = "other", !.by = "customerId",
        !.asserted = "given"]

customerSiteService ==
    [Service(CustomerSite, createSiteSchema, Partial(createSiteSchema)) EXCEPT
        !.search = {"name", "code", "city"}, !.sort = {"name", "code", "city", "createdAt"},
        !.filter = {"customerId"}, !.status = {},
        !.checks = {OverLive({"customerId", "code"})}, !.within = TRUE,
        !.supplied = {"customerId"}, !.parent = "other", !.by = "customerId",
        !.asserted = "given"]

\* Every service by its name.
Contracts == [
    accessPolicyService |-> accessPolicyService,
    accessReviewService |-> accessReviewService,
    announcementService |-> announcementService,
    approvalPolicyService |-> approvalPolicyService,
    approvalRequestService |-> approvalRequestService,
    assetModelService |-> assetModelService,
    assetLicenseService |-> assetLicenseService,
    assetService |-> assetService,
    assetMaintenanceService |-> assetMaintenanceService,
    attachmentService |-> attachmentService,
    automationRuleService |-> automationRuleService,
    automationRunService |-> automationRunService,
    changeTypeService |-> changeTypeService,
    changeTemplateService |-> changeTemplateService,
    changeWindowService |-> changeWindowService,
    configurationItemService |-> configurationItemService,
    ciRelationshipService |-> ciRelationshipService,
    customFieldService |-> customFieldService,
    delegationService |-> delegationService,
    discoveryRunService |-> discoveryRunService,
    discoveryResultService |-> discoveryResultService,
    incidentCategoryService |-> incidentCategoryService,
    incidentPriorityService |-> incidentPriorityService,
    resolutionCodeService |-> resolutionCodeService,
    knowledgeCategoryService |-> knowledgeCategoryService,
    knowledgeArticleService |-> knowledgeArticleService,
    knownErrorService |-> knownErrorService,
    majorIncidentService |-> majorIncidentService,
    notificationTemplateService |-> notificationTemplateService,
    notificationRuleService |-> notificationRuleService,
    onCallScheduleService |-> onCallScheduleService,
    onCallShiftService |-> onCallShiftService,
    problemCategoryService |-> problemCategoryService,
    rootCauseCategoryService |-> rootCauseCategoryService,
    releaseService |-> releaseService,
    serviceDeskQueueService |-> serviceDeskQueueService,
    operatingHoursService |-> operatingHoursService,
    routingRuleService |-> routingRuleService,
    slaPolicyService |-> slaPolicyService,
    escalationRuleService |-> escalationRuleService,
    businessCalendarService |-> businessCalendarService,
    vendorService |-> vendorService,
    workflowService |-> workflowService,
    workflowRunService |-> workflowRunService,
    accessPolicyAssignmentService |-> accessPolicyAssignmentService,
    accessReviewItemService |-> accessReviewItemService,
    knowledgeCommentService |-> knowledgeCommentService,
    emailProviderService |-> emailProviderService,
    catalogItemService |-> catalogItemService,
    supportTicketService |-> supportTicketService,
    supportQueueService |-> supportQueueService,
    costCenterService |-> costCenterService,
    departmentService |-> departmentService,
    locationService |-> locationService,
    teamService |-> teamService,
    customerService |-> customerService,
    catalogCategoryService |-> catalogCategoryService,
    customerContactService |-> customerContactService,
    customerSiteService |-> customerSiteService]

================================================================================
