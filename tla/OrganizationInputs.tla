------------------------------ MODULE OrganizationInputs ------------------------------
(***************************************************************************)
(* The bodies that the routes of an organization's records accept          *)
(* (validators/itsm and validators/tenantadmin), and those of the          *)
(* platform's support queues. An update takes the same fields, none of     *)
(* them required (.partial()), unless it has a body of its own here.       *)
(***************************************************************************)
EXTENDS OrganizationTables

createAccessPolicySchema ==
    Input({"name"},
          {"description", "policyType", "rules", "priority", "isEnabled"})

createAccessReviewSchema == Input({"name"}, {"description", "scope", "dueAt"})

createAnnouncementSchema ==
    Input({"title"},
          {"body", "type", "status", "audience", "pinned", "publishAt", "expireAt", "metadata"})

createApprovalPolicySchema ==
    Input({"name", "actionScope"},
          {"description", "conditions", "approverRoleIds", "minApprovals", "isEnabled"})

createApprovalRequestSchema ==
    Input({"actionKey", "resourceType"},
          {"resourceId", "policyId", "payload", "reason", "expiresAt"})

createAssetModelSchema ==
    Input({"name"},
          {"manufacturer", "category", "description", "isActive"})

createAssetLicenseSchema ==
    Input({"name"},
          {"vendor", "licenseKey", "seats", "usedSeats", "expiresAt", "status"})

createAssetSchema ==
    Input({"assetTag", "name"},
          {"categoryKey", "status", "condition", "serialNumber", "model", "manufacturer",
          "purchaseDate", "warrantyExpiry", "cost", "currency", "assignedToId", "locationId",
          "ciId", "vendorId", "notes", "attributes"})

createAssetMaintenanceSchema ==
    Input({"summary"},
          {"kind", "status", "description", "scheduledAt", "completedAt", "cost",
          "performedById"})

createAttachmentSchema ==
    Input({"name", "filename", "mimeType", "size", "storageKey"},
          {"resourceType", "resourceId", "metadata"})

createAutomationRuleSchema ==
    Input({"name"},
          {"description", "moduleKey", "trigger", "eventKey", "schedule", "conditions",
          "actions", "isEnabled", "status"})

createChangeTypeSchema ==
    Input({"name", "code"},
          {"description", "riskLevel", "requiresApproval", "isActive"})

createChangeTemplateSchema ==
    Input({"name"},
          {"changeTypeId", "description", "template", "isActive"})

createChangeWindowSchema ==
    Input({"name", "startAt", "endAt"},
          {"windowType", "recurrence", "description", "isActive"})

createCiSchema ==
    Input({"name"},
          {"ciTypeKey", "status", "criticality", "environment", "ownerId", "supportTeamId",
          "serialNumber", "assetTag", "ipAddress", "hostname", "locationId", "attributes",
          "tags"})

createCiRelationshipSchema ==
    Input({"sourceCiId", "targetCiId"},
          {"typeKey", "description"})

createCustomFieldSchema ==
    Input({"name", "key", "resourceType"},
          {"fieldType", "options", "isRequired", "isActive"})

createDelegationSchema ==
    Input({"delegatorId", "delegateeId"},
          {"scope", "reason", "startsAt", "endsAt"})

createDiscoveryRunSchema == Input({}, {"profileKey", "name", "mode"})

updateDiscoveryResultSchema == Input({}, {"status", "action", "matchedCiId"})

createIncidentCategorySchema ==
    Input({"name", "code"},
          {"description", "parentId", "isActive", "sortOrder"})

createIncidentPrioritySchema ==
    Input({"name", "key"},
          {"level", "responseMinutes", "resolveMinutes", "color", "description", "isActive"})

createResolutionCodeSchema == Input({"code", "label"}, {"description", "isActive"})

createKnowledgeCategorySchema ==
    Input({"name"},
          {"description", "parentId", "sortOrder", "status"})

createKnowledgeArticleSchema ==
    Input({"title"},
          {"summary", "body", "categoryId", "status", "visibility", "tags", "authorId",
          "metadata"})

createKnownErrorSchema ==
    Input({"title"},
          {"description", "status", "problemId", "workaround", "rootCause", "resolvedAt",
          "ownerId", "tags", "metadata"})

createMajorIncidentSchema ==
    Input({"title"},
          {"description", "status", "severity", "incidentId", "commanderId", "impactSummary",
          "communicationPlan", "startedAt", "resolvedAt", "tags", "metadata"})

createNotificationTemplateSchema ==
    Input({"name", "eventKey", "body"},
          {"channel", "subject", "format", "locale", "isEnabled", "status"})

createNotificationRuleSchema ==
    Input({"name", "eventKey"},
          {"templateId", "channel", "recipients", "conditions", "isEnabled"})

createOnCallScheduleSchema ==
    Input({"name"},
          {"description", "timezone", "rotationType", "status", "teamId", "escalationPolicy"})

createOnCallShiftSchema ==
    Input({"scheduleId", "userId", "startAt", "endAt"},
          {"kind", "note", "status"})

createProblemCategorySchema == Input({"name", "code"}, {"description", "isActive"})

createRootCauseCategorySchema == Input({"name", "code"}, {"description", "isActive"})

createReleaseSchema ==
    Input({"name"},
          {"version", "type", "status", "description", "plannedStartAt", "plannedEndAt",
          "actualStartAt", "actualEndAt", "ownerId", "teamId", "tags", "metadata"})

createQueueSchema ==
    Input({"name"},
          {"email", "description", "operatingHoursId", "isDefault", "status", "settings",
          "metadata"})

createOperatingHoursSchema ==
    Input({"name"},
          {"timezone", "schedule", "holidays", "isDefault"})

createRoutingRuleSchema ==
    Input({"name"},
          {"queueId", "priority", "conditions", "actions", "isEnabled", "sortOrder"})

createSlaPolicySchema ==
    Input({"name"},
          {"description", "status", "serviceLevels", "settings", "isDefault"})

createEscalationRuleSchema ==
    Input({"name", "trigger", "thresholdMinutes"},
          {"slaPolicyId", "actions", "isEnabled", "sortOrder"})

createBusinessCalendarSchema ==
    Input({"name"},
          {"timezone", "workingHours", "holidays", "isDefault"})

createVendorSchema ==
    Input({"name"},
          {"code", "type", "status", "contactName", "email", "phone", "website", "addressLine1",
          "addressLine2", "city", "state", "postalCode", "country", "rating", "notes",
          "metadata"})

createWorkflowSchema ==
    Input({"name"},
          {"description", "moduleKey", "status", "trigger", "conditions", "definition"})

createWorkflowRunSchema == Input({"resourceType"}, {"workflowId", "resourceId", "context"})

updateWorkflowRunSchema == Input({}, {"status", "steps", "error", "context"})

createAccessPolicyAssignmentSchema == Input({"subjectType", "subjectId"}, {})

createAccessReviewItemSchema == Input({"subjectType", "subjectId"}, {})

decideAccessReviewItemSchema == Input({"decision"}, {"notes"})

createKnowledgeCommentSchema == Input({"body"}, {"isInternal"})

createProviderSchema ==
    Input({"key", "name", "providerType", "fromEmail", "config"},
          {"fromName", "replyTo", "isDefault"})

createCatalogItemSchema ==
    Input({"name"},
          {"slug", "categoryId", "shortDescription", "description", "itemType", "price",
          "currency", "fulfillmentTeamId", "approvalRequired", "formSchema", "tags"})

createSupportTicketSchema == Input({"subject", "description"}, {"priority", "category"})

updateSupportTicketSchema == Input({}, {"subject", "description", "priority", "category"})

createSupportQueueSchema == Input({"name"}, {"description", "email", "isDefault"})

updateSupportQueueSchema == Input({}, {"name", "description", "email", "isDefault"})

createCostCenterSchema == Input({"name"}, {"code", "description"})

createDepartmentSchema == Input({"name"}, {"code", "description", "parentId", "managerId"})

createLocationSchema ==
    Input({"name"},
          {"code", "type", "addressLine1", "addressLine2", "city", "state", "country",
          "postalCode", "timezone", "phone"})

createTeamSchema ==
    Input({"name"},
          {"code", "description", "departmentId", "leadId", "email"})

createCustomerSchema ==
    Input({"name"},
          {"code", "type", "status", "industry", "website", "phone", "email", "description",
          "addressLine1", "addressLine2", "city", "state", "postalCode", "country", "timezone",
          "slaPolicyId", "isDataCenter"})

createCatalogCategorySchema ==
    Input({"name"},
          {"description", "parentId", "sortOrder", "icon", "status"})

createContactSchema ==
    Input({"firstName", "lastName", "email"},
          {"phone", "jobTitle", "role", "isPrimary", "notes"})

createSiteSchema ==
    Input({"name"},
          {"code", "siteType", "isDataCenter", "addressLine1", "addressLine2", "city", "state",
          "postalCode", "country", "timezone", "status", "notes"})

================================================================================
