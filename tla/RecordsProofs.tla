----------------------------- MODULE RecordsProofs -----------------------------
(***************************************************************************)
(* The record services of an organization: KeysApart, ChildrenKeepParents  *)
(* DefaultStandsAlone and NothingOfferedFails, for any rows, values and    *)
(* calls that interleave.  The contracts are looked into once, one by one, *)
(* for what all of them keep to (EachKept).  At the end, the dates and the *)
(* numbers of support tickets, which have a module of their own.           *)
(***************************************************************************)
EXTENDS RecordServices, FiniteSetTheorems, TLAPS

RowRecord ==
    [state : {"none", "live", "deleted", "gone"}, key : Nat, parent : Nat, default : BOOLEAN,
     torn : BOOLEAN, named : BOOLEAN, claimed : BOOLEAN]
Operations ==
    {"create", "revive", "rekey", "reparent", "flag", "setDefault", "remove", "removeUpper"}
CallRecord ==
    [op : Operations \cup {"idle"}, row : Nat, key : Nat, parent : Nat, default : BOOLEAN,
     partly : BOOLEAN, phase : {"idle", "checked", "found"}, seen : SUBSET Rows,
     overtaken : BOOLEAN]

RecordsTyped ==
    /\ service \in DOMAIN Contracts
    /\ rows \in [Rows \cup Uppers -> RowRecord]
    /\ calls \in [Callers -> CallRecord]

\* Nothing that the service's contract excludes is stored.
RowsFit ==
    \A r \in Rows : /\ rows[r].parent \in Owners \cup {NoRow}
                    /\ rows[r].default => Contract.default # "none"

\* The rows that are stored have different values where an index is over them.
IndexHolds ==
    Indexed => \A r, s \in Rows :
        r # s /\ Stored(r) /\ Stored(s) /\ rows[r].key # NoKey
        => Value(rows[r].parent, rows[r].key) # Value(rows[s].parent, rows[s].key)

\* What stays true of a call, whatever is written.
Stands(call) ==
    /\ call.op = "idle" => call.phase = "idle"
    /\ call.op # "idle" =>
        /\ call.row \in IF call.op = "removeUpper" THEN Uppers ELSE Rows
        /\ call.op # "create" => rows[call.row].state # "none"
        /\ call.op \in {"create", "reparent"} => call.parent \in Owners \cup {NoRow}
        /\ call.op \in {"flag", "setDefault"} => call.default
        /\ call.op = "setDefault" => Contract.default = "chosen"
        /\ call.default => Contract.default # "none"
        /\ call.op = "revive" => Contract.revives
        /\ call.op = "removeUpper" => Contract.parent = "other"

\* What the checks of a call have seen.
Seen(call) ==
    /\ call.op = "create" =>
          Holders(call.row, call.parent, call.key) = {} /\ OwnerAccepted(call.row, call.parent)
    /\ call.op = "revive" =>
          /\ OwnerAccepted(NoRow, rows[call.row].parent)
          /\ \A s \in Rows :
                Live(s) => Value(rows[s].parent, rows[s].key)
                               # Value(rows[call.row].parent, rows[call.row].key)
    /\ call.op \in {"rekey", "reparent"} => Live(call.row)
    /\ call.op = "rekey" =>
          call.partly \/ Holders(call.row, rows[call.row].parent, call.key) = {}
    /\ call.op = "reparent" =>
          /\ OwnerAccepted(call.row, call.parent)
          /\ Contract.within => Holders(call.row, call.parent, rows[call.row].key) = {}
    /\ call.op = "removeUpper" \/ (call.op = "remove" /\ Contract.parent = "own") =>
          (Contract.guarded => Children(call.row) = {})
    /\ call.phase = "found" => \A r \in Rows : Live(r) /\ rows[r].default => r \in call.seen

IInv ==
    /\ RecordsTyped /\ RowsFit /\ IndexHolds
    /\ \A c \in Callers : Stands(calls[c]) /\ (calls[c].overtaken \/ Seen(calls[c]))
    /\ KeysApart /\ ChildrenKeepParents /\ DefaultStandsAlone

--------------------------------------------------------------------------------
(***************************************************************************)
(* What a contract keeps to: the table answers every search, filter, sort  *)
(* and order of its lists but those known not to be, it has every column a *)
(* body brings or an operation sets, and a row is not made without what it *)
(* needs; and how a row becomes the default one.  The one service that     *)
(* revives rows knows their owners and has no default.                     *)
(***************************************************************************)
Kept(name, s) ==
    /\ \A f \in s.search \cup s.filter \cup s.status :
          f \in s.table.text \/ <<name, <<"list", f>>>> \in KnownUnanswered
    /\ \A f \in s.sort \cup {s.order} :
          f \in s.table.columns \/ <<name, <<"sort", f>>>> \in KnownUnanswered
    /\ Created(s) \cup Changed(s) \subseteq s.table.columns
    /\ HasCreate(s) => s.table.needed \subseteq s.create.required \cup s.supplied
    /\ s.partly \in BOOLEAN /\ s.default \in {"none", "chosen", "kept"}
    /\ s.revives => s.within /\ s.default = "none"

\* Each service does, against its table and the bodies of its routes.
LEMMA EachKept == \A name \in DOMAIN Contracts : Kept(name, Contracts[name])
<1> USE DEF Kept, Service, Table, Stamps, Dated, Input, Fields, Partial, Omit, NoInput, Check, Over, OverLive,
            HasCreate, Created, Changed
<1>1. Kept("accessPolicyService", accessPolicyService)
    BY DEF accessPolicyService, TenantAccessPolicy, createAccessPolicySchema
<1>2. Kept("accessReviewService", accessReviewService)
    BY DEF accessReviewService, TenantAccessReview, createAccessReviewSchema
<1>3. Kept("announcementService", announcementService)
    BY DEF KnownUnanswered, announcementService, Announcement, createAnnouncementSchema
<1>4. Kept("approvalPolicyService", approvalPolicyService)
    BY DEF approvalPolicyService, TenantApprovalPolicy, createApprovalPolicySchema
<1>5. Kept("approvalRequestService", approvalRequestService)
    BY DEF approvalRequestService, TenantApprovalRequest, createApprovalRequestSchema
<1>6. Kept("assetModelService", assetModelService)
    BY DEF assetModelService, TenantAssetModel, createAssetModelSchema
<1>7. Kept("assetLicenseService", assetLicenseService)
    BY DEF assetLicenseService, TenantAssetLicense, createAssetLicenseSchema
<1>8. Kept("assetService", assetService)
    BY DEF assetService, Asset, createAssetSchema
<1>9. Kept("assetMaintenanceService", assetMaintenanceService)
    BY DEF assetMaintenanceService, AssetMaintenance, createAssetMaintenanceSchema
<1>10. Kept("attachmentService", attachmentService)
    BY DEF attachmentService, TenantAttachment, createAttachmentSchema
<1>11. Kept("automationRuleService", automationRuleService)
    BY DEF KnownUnanswered, automationRuleService, TenantAutomationRule,
         createAutomationRuleSchema
<1>12. Kept("automationRunService", automationRunService)
    BY DEF automationRunService, TenantAutomationRun
<1>13. Kept("changeTypeService", changeTypeService)
    BY DEF changeTypeService, TenantChangeType, createChangeTypeSchema
<1>14. Kept("changeTemplateService", changeTemplateService)
    BY DEF changeTemplateService, TenantChangeTemplate, createChangeTemplateSchema
<1>15. Kept("changeWindowService", changeWindowService)
    BY DEF changeWindowService, TenantChangeWindow, createChangeWindowSchema
<1>16. Kept("configurationItemService", configurationItemService)
    BY DEF configurationItemService, ConfigurationItem, createCiSchema
<1>17. Kept("ciRelationshipService", ciRelationshipService)
    BY DEF KnownUnanswered, ciRelationshipService, CiRelationship, createCiRelationshipSchema
<1>18. Kept("customFieldService", customFieldService)
    BY DEF KnownUnanswered, customFieldService, TenantCustomField, createCustomFieldSchema
<1>19. Kept("delegationService", delegationService)
    BY DEF delegationService, TenantDelegation, createDelegationSchema
<1>20. Kept("discoveryRunService", discoveryRunService)
    BY DEF discoveryRunService, DiscoveryRun, createDiscoveryRunSchema
<1>21. Kept("discoveryResultService", discoveryResultService)
    BY DEF discoveryResultService, DiscoveryResult, updateDiscoveryResultSchema
<1>22. Kept("incidentCategoryService", incidentCategoryService)
    BY DEF incidentCategoryService, TenantIncidentCategory, createIncidentCategorySchema
<1>23. Kept("incidentPriorityService", incidentPriorityService)
    BY DEF incidentPriorityService, TenantIncidentPriority, createIncidentPrioritySchema
<1>24. Kept("resolutionCodeService", resolutionCodeService)
    BY DEF resolutionCodeService, TenantResolutionCode, createResolutionCodeSchema
<1>25. Kept("knowledgeCategoryService", knowledgeCategoryService)
    BY DEF knowledgeCategoryService, KnowledgeArticleCategory, createKnowledgeCategorySchema
<1>26. Kept("knowledgeArticleService", knowledgeArticleService)
    BY DEF knowledgeArticleService, KnowledgeArticle, createKnowledgeArticleSchema
<1>27. Kept("knownErrorService", knownErrorService)
    BY DEF knownErrorService, KnownError, createKnownErrorSchema
<1>28. Kept("majorIncidentService", majorIncidentService)
    BY DEF majorIncidentService, MajorIncident, createMajorIncidentSchema
<1>29. Kept("notificationTemplateService", notificationTemplateService)
    BY DEF KnownUnanswered, notificationTemplateService, TenantNotificationTemplate,
         createNotificationTemplateSchema
<1>30. Kept("notificationRuleService", notificationRuleService)
    BY DEF KnownUnanswered, notificationRuleService, TenantNotificationRule,
         createNotificationRuleSchema
<1>31. Kept("onCallScheduleService", onCallScheduleService)
    BY DEF onCallScheduleService, OnCallSchedule, createOnCallScheduleSchema
<1>32. Kept("onCallShiftService", onCallShiftService)
    BY DEF onCallShiftService, OnCallShift, createOnCallShiftSchema
<1>33. Kept("problemCategoryService", problemCategoryService)
    BY DEF problemCategoryService, TenantProblemCategory, createProblemCategorySchema
<1>34. Kept("rootCauseCategoryService", rootCauseCategoryService)
    BY DEF rootCauseCategoryService, TenantRootCauseCategory, createRootCauseCategorySchema
<1>35. Kept("releaseService", releaseService)
    BY DEF releaseService, Release, createReleaseSchema
<1>36. Kept("serviceDeskQueueService", serviceDeskQueueService)
    BY DEF KnownUnanswered, serviceDeskQueueService, TenantServiceDeskQueue, createQueueSchema
<1>37. Kept("operatingHoursService", operatingHoursService)
    BY DEF operatingHoursService, TenantOperatingHours, createOperatingHoursSchema
<1>38. Kept("routingRuleService", routingRuleService)
    BY DEF KnownUnanswered, routingRuleService, TenantRoutingRule, createRoutingRuleSchema
<1>39. Kept("slaPolicyService", slaPolicyService)
    BY DEF slaPolicyService, TenantSlaPolicy, createSlaPolicySchema
<1>40. Kept("escalationRuleService", escalationRuleService)
    BY DEF KnownUnanswered, escalationRuleService, TenantSlaEscalationRule,
         createEscalationRuleSchema
<1>41. Kept("businessCalendarService", businessCalendarService)
    BY DEF KnownUnanswered, businessCalendarService, TenantBusinessCalendar,
         createBusinessCalendarSchema
<1>42. Kept("vendorService", vendorService)
    BY DEF vendorService, Vendor, createVendorSchema
<1>43. Kept("workflowService", workflowService)
    BY DEF workflowService, TenantWorkflow, createWorkflowSchema
<1>44. Kept("workflowRunService", workflowRunService)
    BY DEF workflowRunService, TenantWorkflowRun, createWorkflowRunSchema, updateWorkflowRunSchema
<1>45. Kept("accessPolicyAssignmentService", accessPolicyAssignmentService)
    BY DEF accessPolicyAssignmentService, TenantAccessPolicyAssignment,
         createAccessPolicyAssignmentSchema
<1>46. Kept("accessReviewItemService", accessReviewItemService)
    BY DEF accessReviewItemService, TenantAccessReviewItem, createAccessReviewItemSchema,
         decideAccessReviewItemSchema
<1>47. Kept("knowledgeCommentService", knowledgeCommentService)
    BY DEF knowledgeCommentService, KnowledgeArticleComment, createKnowledgeCommentSchema
<1>48. Kept("emailProviderService", emailProviderService)
    BY DEF emailProviderService, TenantEmailProvider, createProviderSchema
<1>49. Kept("catalogItemService", catalogItemService)
    BY DEF catalogItemService, CatalogItem, createCatalogItemSchema
<1>50. Kept("supportTicketService", supportTicketService)
    BY DEF supportTicketService, SupportTicket, createSupportTicketSchema,
         updateSupportTicketSchema
<1>51. Kept("supportQueueService", supportQueueService)
    BY DEF supportQueueService, SupportQueue, createSupportQueueSchema, updateSupportQueueSchema
<1>52. Kept("costCenterService", costCenterService)
    BY DEF costCenterService, CostCenter, createCostCenterSchema
<1>53. Kept("departmentService", departmentService)
    BY DEF departmentService, Department, createDepartmentSchema
<1>54. Kept("locationService", locationService)
    BY DEF locationService, Location, createLocationSchema
<1>55. Kept("teamService", teamService)
    BY DEF teamService, Team, createTeamSchema
<1>56. Kept("customerService", customerService)
    BY DEF customerService, Customer, createCustomerSchema
<1>57. Kept("catalogCategoryService", catalogCategoryService)
    BY DEF catalogCategoryService, CatalogCategory, createCatalogCategorySchema
<1>58. Kept("customerContactService", customerContactService)
    BY DEF customerContactService, CustomerContact, createContactSchema
<1>59. Kept("customerSiteService", customerSiteService)
    BY DEF customerSiteService, CustomerSite, createSiteSchema
<1> HIDE DEF Kept
<1> QED
  BY <1>1, <1>2, <1>3, <1>4, <1>5, <1>6, <1>7, <1>8, <1>9, <1>10, <1>11, <1>12, <1>13, <1>14,
     <1>15, <1>16, <1>17, <1>18, <1>19, <1>20, <1>21, <1>22, <1>23, <1>24, <1>25, <1>26, <1>27,
     <1>28, <1>29, <1>30, <1>31, <1>32, <1>33, <1>34, <1>35, <1>36, <1>37, <1>38, <1>39, <1>40,
     <1>41, <1>42, <1>43, <1>44, <1>45, <1>46, <1>47, <1>48, <1>49, <1>50, <1>51, <1>52, <1>53,
     <1>54, <1>55, <1>56, <1>57, <1>58, <1>59 DEF Contracts

LEMMA ContractKept == ASSUME IInv PROVE Kept(service, Contract)
BY EachKept DEF IInv, RecordsTyped, Contract

LEMMA Ids == /\ Rows \subseteq Nat /\ Uppers \subseteq Nat /\ Keys \subseteq Nat
             /\ Numbers \subseteq Nat /\ NoRow \notin Rows /\ NoRow \notin Uppers
             /\ NoRow \in Nat /\ NoKey \in Nat /\ Uppers \cap Rows = {}
BY RecordsAssumption DEF NoRow, NoKey

LEMMA OwnersKnown == /\ Owners \subseteq Rows \cup Uppers
                     /\ Contract.parent # "own" => Owners \cap Rows = {}
<1>1. CASE Contract.parent = "own"
  BY <1>1 DEF Owners
<1>2. CASE Contract.parent = "other"
  BY <1>2, Ids DEF Owners
<1>3. CASE Contract.parent \notin {"own", "other"}
  BY <1>3 DEF Owners
<1> QED BY <1>1, <1>2, <1>3

LEMMA IdleCall == Idle \in CallRecord /\ Idle.op = "idle" /\ Idle.phase = "idle"
<1>1. Idle \in CallRecord
  BY DEF Idle, CallRecord, Operations, NoRow, NoKey
<1> QED BY <1>1 DEF Idle

LEMMA IdleStands == Stands(Idle) /\ Seen(Idle)
BY IdleCall DEF Stands, Seen

\* The contract does not change, nor do values and owners.
LEMMA Fixed ==
    ASSUME UNCHANGED <<service, check>>
    PROVE  /\ Contract' = Contract /\ Owners' = Owners /\ (Indexed' <=> Indexed)
           /\ \A parent, key : Value(parent, key)' = Value(parent, key)
BY DEF Contract, Owners, Indexed, Value

LEMMA StillKnown ==
    ASSUME UNCHANGED <<service, check, rows>>, NEW call
    PROVE  (Stands(call)' <=> Stands(call)) /\ (Seen(call)' <=> Seen(call))
<1>1. Contract' = Contract /\ Owners' = Owners
      /\ \A parent, key : Value(parent, key)' = Value(parent, key)
  BY Fixed
<1>2. \A r : (Live(r)' <=> Live(r)) /\ (Stored(r)' <=> Stored(r))
  BY DEF Live, Stored
<1>3. \A own, parent, key : Holders(own, parent, key)' = Holders(own, parent, key)
  BY <1>1, <1>2 DEF Holders, Value, Contract
<1>4. \A r, parent : OwnerAccepted(r, parent)' <=> OwnerAccepted(r, parent)
  BY <1>1, <1>2 DEF OwnerAccepted
<1>5. \A r : Children(r)' = Children(r)
  BY <1>2 DEF Children
<1>6. Stands(call)' <=> Stands(call)
  BY <1>1 DEF Stands
<1>7. Seen(call)' <=> Seen(call)
  BY <1>1, <1>2, <1>3, <1>4, <1>5 DEF Seen, Value, Contract
<1> QED BY <1>6, <1>7

\* A step that writes no row.
LEMMA NoRowWritten ==
    ASSUME IInv, UNCHANGED <<service, check, rows>>, NEW c \in Callers, NEW call \in CallRecord,
           Stands(call), call.overtaken \/ Seen(call), calls' = [calls EXCEPT ![c] = call],
           \A w \in refused' : w \in refused \/ w.overtaken \/ w.partly \/ w.narrow
    PROVE  IInv'
<1>1. RecordsTyped'
  BY DEF IInv, RecordsTyped
<1>2. Contract' = Contract /\ Owners' = Owners /\ (Indexed' <=> Indexed)
      /\ \A parent, key : Value(parent, key)' = Value(parent, key)
  BY Fixed
<1>3. \A r : (Live(r)' <=> Live(r)) /\ (Stored(r)' <=> Stored(r))
  BY DEF Live, Stored
<1>4. RowsFit'
  BY <1>2 DEF IInv, RowsFit
<1>5. IndexHolds'
  BY <1>2, <1>3 DEF IInv, IndexHolds, Value, Contract
<1>6. ASSUME NEW d \in Callers PROVE Stands(calls[d])' /\ (calls[d].overtaken' \/ Seen(calls[d])')
  <2>1. PICK x : /\ x = calls'[d] /\ Stands(x) /\ (x.overtaken \/ Seen(x))
    <3>1. CASE d = c
      BY <3>1 DEF IInv, RecordsTyped
    <3>2. CASE d # c
      BY <3>2 DEF IInv, RecordsTyped
    <3> QED BY <3>1, <3>2
  <2>2. Stands(x)' /\ (x.overtaken \/ Seen(x)')
    BY <2>1, StillKnown
  <2> QED BY <2>1, <2>2
<1>7. KeysApart'
  BY <1>2, <1>3 DEF IInv, KeysApart, Value, Contract
<1>8. ChildrenKeepParents'
  BY <1>2, <1>3 DEF IInv, ChildrenKeepParents
<1>9. DefaultStandsAlone'
  BY <1>3 DEF IInv, DefaultStandsAlone
<1> QED BY <1>1, <1>4, <1>5, <1>6, <1>7, <1>8, <1>9 DEF IInv

\* A call starts, with what its checks have seen.
LEMMA Started ==
    ASSUME IInv, NEW c \in Callers, NEW call \in CallRecord, Stands(call), Seen(call),
           Start(c, call)
    PROVE  IInv'
BY NoRowWritten DEF Start

LEMMA CallOf ==
    ASSUME NEW op \in Operations, NEW r \in Nat
    PROVE  /\ Call(op, r) \in CallRecord
           /\ Call(op, r).op = op /\ Call(op, r).row = r /\ Call(op, r).phase = "checked"
           /\ ~Call(op, r).default /\ ~Call(op, r).partly
<1>1. Call(op, r) \in CallRecord
  BY IdleCall DEF Call, CallRecord
<1> QED BY <1>1 DEF Call, Idle

--------------------------------------------------------------------------------
LEMMA RowTyped == ASSUME IInv, NEW r \in Rows \cup Uppers PROVE rows[r] \in RowRecord
BY DEF IInv, RecordsTyped

LEMMA CreateStep == ASSUME IInv, NEW c \in Callers, Create(c) PROVE IInv'
<1>1. PICK r \in Free, key \in NewKeys, parent \in OwnerChoices, default \in Defaults :
        /\ Holders(r, parent, key) = {} /\ OwnerAccepted(r, parent)
        /\ Start(c, [Call("create", r) EXCEPT
                        !.key = key, !.parent = parent, !.default = default])
  BY DEF Create
<1>2. r \in Rows /\ r \in Nat
  BY Ids DEF Free
<1>3. key \in Nat
  BY Ids DEF NewKeys, NextNumber
<1>4. parent \in Owners \cup {NoRow} /\ parent \in Nat
  BY Ids, OwnersKnown DEF OwnerChoices
<1>5. default \in BOOLEAN /\ (default => Contract.default # "none")
  BY DEF Defaults
<1> DEFINE x == [Call("create", r) EXCEPT !.key = key, !.parent = parent, !.default = default]
<1>6. x \in CallRecord
  <2>1. Call("create", r) \in CallRecord
    BY <1>2, <1>3, <1>4, <1>5, CallOf DEF Operations
  <2> QED BY <1>2, <1>3, <1>4, <1>5, <2>1 DEF CallRecord
<1>7. x.op = "create" /\ x.row = r /\ x.key = key /\ x.parent = parent /\ x.phase = "checked"
  BY DEF Call, Idle
<1>8. x.default <=> default
  BY <1>5 DEF Call, Idle
<1> HIDE DEF x
<1>9. Stands(x) /\ Seen(x)
  BY <1>1, <1>2, <1>4, <1>5, <1>7, <1>8 DEF Stands, Seen
<1> QED BY <1>1, <1>6, <1>9, Started DEF x

LEMMA ReviveStep == ASSUME IInv, NEW c \in Callers, Revive(c) PROVE IInv'
<1>1. PICK parent \in Uppers, key \in Keys :
        /\ Contract.revives /\ OwnerAccepted(NoRow, parent)
        /\ \E r \in Holders(NoRow, parent, key) :
            /\ \A s \in Holders(NoRow, parent, key) : rows[s].state = "deleted"
            /\ Start(c, Call("revive", r))
  BY DEF Revive
<1>2. PICK r \in Holders(NoRow, parent, key) :
        /\ \A s \in Holders(NoRow, parent, key) : rows[s].state = "deleted"
        /\ Start(c, Call("revive", r))
  BY <1>1
<1> DEFINE x == Call("revive", r)
<1>3. r \in Rows /\ r \in Nat /\ key # NoKey /\ rows[r].state = "deleted"
      /\ Value(rows[r].parent, rows[r].key) = Value(parent, key)
  BY <1>2, Ids DEF Holders
<1>4. x \in CallRecord /\ x.op = "revive" /\ x.row = r /\ x.phase = "checked" /\ ~x.default
  BY <1>3, CallOf DEF Operations
<1>5. Contract.within
  BY <1>1, ContractKept DEF Kept
<1>6. rows[r].parent = parent
  BY <1>3, <1>5 DEF Value
<1>7. ASSUME NEW s \in Rows, Live(s)
      PROVE  Value(rows[s].parent, rows[s].key) # Value(rows[r].parent, rows[r].key)
  <2>1. s \notin Holders(NoRow, parent, key)
    BY <1>2, <1>7 DEF Live
  <2> QED BY <1>3, <1>7, <2>1, Ids DEF Holders, Live, Stored
<1> HIDE DEF x
<1>8. Stands(x)
  BY <1>1, <1>3, <1>4 DEF Stands
<1>9. Seen(x)
  BY <1>1, <1>4, <1>6, <1>7 DEF Seen
<1> QED BY <1>2, <1>4, <1>8, <1>9, Started DEF x

LEMMA RekeyStep == ASSUME IInv, NEW c \in Callers, Rekey(c) PROVE IInv'
<1>1. PICK r \in Rows, key \in Keys, partly \in {Contract.partly, FALSE} :
        /\ Live(r) /\ (partly \/ Holders(r, rows[r].parent, key) = {})
        /\ Start(c, [Call("rekey", r) EXCEPT !.key = key, !.partly = partly])
  BY DEF Rekey
<1>2. r \in Nat /\ key \in Nat /\ partly \in BOOLEAN
  BY Ids, ContractKept DEF Kept
<1> DEFINE x == [Call("rekey", r) EXCEPT !.key = key, !.partly = partly]
<1>3. x \in CallRecord
  <2>1. Call("rekey", r) \in CallRecord
    BY <1>2, CallOf DEF Operations
  <2> QED BY <1>2, <2>1 DEF CallRecord
<1>4. x.op = "rekey" /\ x.row = r /\ x.key = key /\ x.phase = "checked"
  BY DEF Call, Idle
<1>5. (x.partly <=> partly) /\ ~x.default
  BY <1>2 DEF Call, Idle
<1> HIDE DEF x
<1>6. Stands(x)
  BY <1>1, <1>4, <1>5 DEF Stands, Live
<1>7. Seen(x)
  BY <1>1, <1>4, <1>5 DEF Seen
<1> QED BY <1>1, <1>3, <1>6, <1>7, Started DEF x

LEMMA ReparentStep == ASSUME IInv, NEW c \in Callers, Reparent(c) PROVE IInv'
<1>1. PICK r \in Rows, parent \in OwnerChoices :
        /\ Live(r) /\ OwnerAccepted(r, parent)
        /\ Contract.within => Holders(r, parent, rows[r].key) = {}
        /\ Start(c, [Call("reparent", r) EXCEPT !.parent = parent])
  BY DEF Reparent
<1>2. r \in Nat /\ parent \in Owners \cup {NoRow} /\ parent \in Nat
  BY Ids, OwnersKnown DEF OwnerChoices
<1> DEFINE x == [Call("reparent", r) EXCEPT !.parent = parent]
<1>3. x \in CallRecord
  BY <1>2, CallOf DEF CallRecord, Operations
<1>4. x.op = "reparent" /\ x.row = r /\ x.parent = parent /\ x.phase = "checked" /\ ~x.default
  BY DEF Call, Idle
<1> HIDE DEF x
<1>5. Stands(x) /\ Seen(x)
  BY <1>1, <1>2, <1>4 DEF Stands, Seen, Live
<1> QED BY <1>1, <1>3, <1>5, Started DEF x

LEMMA FlagStep == ASSUME IInv, NEW c \in Callers, Flag(c) \/ SetDefault(c) PROVE IInv'
<1>1. PICK r \in Rows, op \in {"flag", "setDefault"} :
        /\ Live(r) /\ Contract.default # "none"
        /\ op = "setDefault" => Contract.default = "chosen"
        /\ Start(c, [Call(op, r) EXCEPT !.default = TRUE])
  BY DEF Flag, SetDefault
<1> DEFINE x == [Call(op, r) EXCEPT !.default = TRUE]
<1>2. x \in CallRecord
  <2>1. Call(op, r) \in CallRecord
    BY Ids, CallOf DEF Operations
  <2> QED BY <2>1 DEF CallRecord
<1>3. x.op = op /\ x.row = r /\ x.phase = "checked"
  BY DEF Call, Idle
<1>4. x.default
  BY DEF Call, Idle
<1> HIDE DEF x
<1>5. Stands(x) /\ Seen(x)
  BY <1>1, <1>3, <1>4 DEF Stands, Seen, Live
<1> QED BY <1>1, <1>2, <1>5, Started DEF x

LEMMA RemoveStep == ASSUME IInv, NEW c \in Callers, Remove(c) \/ RemoveUpper(c) PROVE IInv'
<1>1. CASE Remove(c)
  <2>1. PICK r \in Rows :
          /\ Live(r) /\ (Contract.parent = "own" /\ Contract.guarded => Children(r) = {})
          /\ Start(c, Call("remove", r))
    BY <1>1 DEF Remove
  <2>2. PICK x \in CallRecord : /\ Start(c, x) /\ x.op = "remove" /\ x.row = r
                                /\ x.phase = "checked" /\ ~x.default
    BY <2>1, Ids, CallOf DEF Operations
  <2>3. Stands(x) /\ Seen(x)
    BY <2>1, <2>2 DEF Stands, Seen, Live
  <2> QED BY <2>2, <2>3, Started
<1>2. CASE RemoveUpper(c)
  <2>1. PICK r \in Uppers :
          /\ Live(r) /\ Contract.parent = "other"
          /\ Contract.guarded => Children(r) = {}
          /\ Start(c, Call("removeUpper", r))
    BY <1>2 DEF RemoveUpper
  <2>2. PICK x \in CallRecord : /\ Start(c, x) /\ x.op = "removeUpper" /\ x.row = r
                                /\ x.phase = "checked" /\ ~x.default
    BY <2>1, Ids, CallOf DEF Operations
  <2>3. Stands(x) /\ Seen(x)
    BY <2>1, <2>2 DEF Stands, Seen, Live
  <2> QED BY <2>2, <2>3, Started
<1> QED BY <1>1, <1>2

LEMMA FindDefaultsStep == ASSUME IInv, NEW c \in Callers, FindDefaults(c) PROVE IInv'
<1> DEFINE found == {r \in Rows : /\ IF Contract.default = "kept" THEN Live(r) ELSE Stored(r)
                                  /\ rows[r].default}
<1>1. PICK call \in CallRecord : call = calls[c] /\ Stands(call) /\ (call.overtaken \/ Seen(call))
  BY DEF IInv, RecordsTyped
<1> DEFINE x == [call EXCEPT !.phase = "found", !.seen = found]
<1>2. calls' = [calls EXCEPT ![c] = x] /\ UNCHANGED <<service, check, rows, refused>>
  <2>1. calls' = [calls EXCEPT ![c].phase = "found", ![c].seen = found]
    BY DEF FindDefaults
  <2> QED BY <1>1, <2>1 DEF FindDefaults, IInv, RecordsTyped
<1>3. found \subseteq Rows /\ \A r \in Rows : Live(r) /\ rows[r].default => r \in found
  BY DEF Live, Stored
<1> HIDE DEF found
<1>4. x \in CallRecord /\ x.op = call.op /\ x.row = call.row /\ x.key = call.key
      /\ x.parent = call.parent /\ x.seen = found
  BY <1>3 DEF CallRecord
<1>5. (x.default <=> call.default) /\ (x.partly <=> call.partly) /\ (x.overtaken <=> call.overtaken)
  BY DEF CallRecord
<1> HIDE DEF x
<1>6. Stands(x)
  <2>1. call.op # "idle"
    BY <1>1 DEF FindDefaults, Stands
  <2> QED BY <1>1, <1>4, <1>5, <2>1 DEF Stands
<1>7. Seen(call) => Seen(x)
  BY <1>3, <1>4, <1>5 DEF Seen
<1>8. \A w \in refused' : w \in refused
  BY <1>2
<1> QED BY <1>1, <1>2, <1>4, <1>5, <1>6, <1>7, <1>8, NoRowWritten

--------------------------------------------------------------------------------
\* What a call leaves of its row.
LEMMA WrittenKeeps ==
    ASSUME IInv, NEW call \in CallRecord, call.op \notin {"idle", "create"}, Stands(call),
           NEW row \in RowRecord, row = rows[call.row], NEW new, new = Written(call)
    PROVE  /\ new \in RowRecord /\ new.state # "none"
           /\ new.torn <=> (row.torn \/ call.overtaken)
           /\ call.op # "rekey" => new.key = row.key /\ (new.named <=> row.named)
           /\ call.op = "rekey" => new.key = call.key /\ (new.named <=> call.partly)
           /\ new.parent = IF call.op = "reparent" THEN call.parent ELSE row.parent
           /\ call.op \in {"rekey", "reparent", "flag", "setDefault"} => new.state = row.state
           /\ call.op = "revive" => new.state = "live"
           /\ call.op \in {"remove", "removeUpper"} => new.state \in {"deleted", "gone"}
           /\ call.op \notin {"flag", "setDefault"} =>
                 (new.default <=> row.default) /\ (new.claimed <=> row.claimed)
           /\ call.op = "flag" /\ Contract.default = "chosen" => new.claimed
<1>1. row.state # "none" /\ call.op \in Operations
  BY DEF Stands, CallRecord
<1>2. PICK torn \in BOOLEAN : torn <=> (row.torn \/ call.overtaken)
  OBVIOUS
<1>3. CASE call.op = "revive"
  <2>1. new = [row EXCEPT !.state = "live", !.torn = torn]
    BY <1>2, <1>3 DEF Written
  <2> QED BY <1>2, <1>3, <2>1 DEF RowRecord
<1>4. CASE call.op = "rekey"
  <2>1. new = [row EXCEPT !.key = call.key, !.torn = torn, !.named = call.partly]
    BY <1>2, <1>4 DEF Written
  <2> QED BY <1>1, <1>2, <1>4, <2>1 DEF RowRecord, CallRecord
<1>5. CASE call.op = "reparent"
  <2>1. new = [row EXCEPT !.parent = call.parent, !.torn = torn]
    BY <1>2, <1>5 DEF Written
  <2> QED BY <1>1, <1>2, <1>5, <2>1 DEF RowRecord, CallRecord
<1>6. CASE call.op \in {"flag", "setDefault"}
  <2>1. PICK claimed \in BOOLEAN : claimed <=> (call.op = "flag" /\ Contract.default = "chosen")
    OBVIOUS
  <2>2. new = [row EXCEPT !.default = TRUE, !.torn = torn, !.claimed = claimed]
    BY <1>2, <1>6, <2>1 DEF Written
  <2> QED BY <1>1, <1>2, <1>6, <2>1, <2>2 DEF RowRecord
<1>7. CASE call.op \in {"remove", "removeUpper"}
  <2>1. PICK state \in {"deleted", "gone"} : state = IF Contract.soft THEN "deleted" ELSE "gone"
    OBVIOUS
  <2>2. new = [row EXCEPT !.state = state, !.torn = torn]
    BY <1>2, <1>7, <2>1 DEF Written
  <2> QED BY <1>2, <1>7, <2>1, <2>2 DEF RowRecord
<1> QED BY <1>1, <1>3, <1>4, <1>5, <1>6, <1>7 DEF Operations

LEMMA WrittenCreates ==
    ASSUME NEW call \in CallRecord, call.op = "create", NEW new, new = Written(call)
    PROVE  /\ new \in RowRecord /\ new.state = "live"
           /\ new.key = call.key /\ new.parent = call.parent
           /\ (new.torn <=> call.overtaken) /\ ~new.named
           /\ (new.default <=> call.default)
           /\ new.claimed <=> (call.default /\ Contract.default = "chosen")
<1>1. PICK claimed \in BOOLEAN : claimed <=> (call.default /\ Contract.default = "chosen")
  OBVIOUS
<1>2. new = [NoneYet EXCEPT !.state = "live", !.key = call.key, !.parent = call.parent,
                            !.default = call.default, !.torn = call.overtaken,
                            !.claimed = claimed]
  BY <1>1 DEF Written
<1>3. NoneYet \in RowRecord /\ NoneYet.named = FALSE
  BY DEF NoneYet, RowRecord, NoRow, NoKey
<1> QED BY <1>1, <1>2, <1>3 DEF RowRecord, CallRecord

--------------------------------------------------------------------------------
\* The other rows stay as they are, but for a default that is cleared.
SameBut(w) ==
    \A r \in (Rows \cup Uppers) \ {w} :
        /\ rows'[r].state = rows[r].state /\ rows'[r].key = rows[r].key
        /\ rows'[r].parent = rows[r].parent
        /\ (rows'[r].torn <=> rows[r].torn) /\ (rows'[r].named <=> rows[r].named)
        /\ (rows'[r].claimed <=> rows[r].claimed)
        /\ rows'[r].default => rows[r].default

\* A write that is made: what all that follows knows of it.
Made(c, call, new) ==
    /\ call = calls[c] /\ call.op # "idle" /\ Stands(call) /\ (call.overtaken \/ Seen(call))
    /\ call.row \in Rows \cup Uppers /\ rows[call.row].state # "gone" /\ ~Refused(call)
    /\ new = Written(call) /\ new \in RowRecord /\ rows'[call.row] = new
    /\ SameBut(call.row) /\ \A r \in Cleared(call) : ~rows'[r].default
    /\ call.phase = IF Clears(call) THEN "found" ELSE "checked"
    /\ UNCHANGED <<service, check, started>>

LEMMA WriteMade ==
    ASSUME IInv, NEW c \in Callers, Write(c),
           ~Refused(calls[c]), rows[calls[c].row].state # "gone"
    PROVE  /\ \E call, new : call \in CallRecord /\ Made(c, call, new)
           /\ rows' \in [Rows \cup Uppers -> RowRecord]
<1>1. PICK call \in CallRecord : call = calls[c] /\ Stands(call) /\ (call.overtaken \/ Seen(call))
  BY DEF IInv, RecordsTyped
<1>2. call.phase = (IF Clears(call) THEN "found" ELSE "checked")
      /\ UNCHANGED <<service, check, started>>
  BY <1>1 DEF Write
<1>3. call.op # "idle"
  BY <1>1, <1>2 DEF Stands
<1>4. call.row \in Rows \cup Uppers
  BY <1>1, <1>3 DEF Stands
<1>5. PICK new : new = Written(call)
  OBVIOUS
<1>6. new \in RowRecord
  <2>1. CASE call.op = "create"
    BY <1>5, <2>1, WrittenCreates
  <2>2. CASE call.op # "create"
    BY <1>1, <1>3, <1>4, <1>5, <2>2, RowTyped, WrittenKeeps
  <2> QED BY <2>1, <2>2
<1>7. rows' = [r \in DOMAIN rows |->
                 IF r = call.row THEN Written(call)
                 ELSE IF r \in Cleared(call) THEN [rows[r] EXCEPT !.default = FALSE] ELSE rows[r]]
  BY <1>1 DEF Write
<1>8. DOMAIN rows = Rows \cup Uppers
  BY DEF IInv, RecordsTyped
<1>9. \A r \in Rows \cup Uppers :
        rows'[r] = IF r = call.row THEN new
                   ELSE IF r \in Cleared(call) THEN [rows[r] EXCEPT !.default = FALSE] ELSE rows[r]
  BY <1>5, <1>7, <1>8
<1>10. ASSUME NEW r \in Rows \cup Uppers, NEW x, x = [rows[r] EXCEPT !.default = FALSE]
       PROVE  /\ x \in RowRecord /\ ~x.default /\ x.state = rows[r].state /\ x.key = rows[r].key
              /\ x.parent = rows[r].parent /\ (x.torn <=> rows[r].torn)
              /\ (x.named <=> rows[r].named) /\ (x.claimed <=> rows[r].claimed)
  BY <1>10, RowTyped DEF RowRecord
<1>11. SameBut(call.row)
  <2> SUFFICES ASSUME NEW r \in (Rows \cup Uppers) \ {call.row}
               PROVE  /\ rows'[r].state = rows[r].state /\ rows'[r].key = rows[r].key
                      /\ rows'[r].parent = rows[r].parent
                      /\ (rows'[r].torn <=> rows[r].torn) /\ (rows'[r].named <=> rows[r].named)
                      /\ (rows'[r].claimed <=> rows[r].claimed)
                      /\ rows'[r].default => rows[r].default
    BY DEF SameBut
  <2>1. CASE r \in Cleared(call)
    BY <1>9, <1>10, <2>1
  <2>2. CASE r \notin Cleared(call)
    BY <1>9, <2>2
  <2> QED BY <2>1, <2>2
<1>12. \A r \in Cleared(call) : ~rows'[r].default
  <2> TAKE r \in Cleared(call)
  <2>1. r \in Rows /\ r # call.row
    BY DEF Cleared, CallRecord
  <2> QED BY <1>9, <1>10, <2>1
<1>13. rows' \in [Rows \cup Uppers -> RowRecord]
  <2>1. \A r \in Rows \cup Uppers : rows'[r] \in RowRecord
    <3> TAKE r \in Rows \cup Uppers
    <3>1. [rows[r] EXCEPT !.default = FALSE] \in RowRecord
      BY <1>10
    <3> QED BY <1>6, <1>9, <3>1, RowTyped
  <2> QED BY <1>7, <1>8, <2>1
<1>14. ~Refused(call) /\ rows[call.row].state # "gone"
  BY <1>1
<1>15. rows'[call.row] = new
  BY <1>4, <1>9
<1>16. Made(c, call, new)
  BY <1>1, <1>2, <1>3, <1>4, <1>5, <1>6, <1>11, <1>12, <1>14, <1>15 DEF Made
<1> QED BY <1>13, <1>16

\* What stands of any call goes on to stand: no row comes back to "none".
LEMMA StandsOn ==
    ASSUME IInv, NEW c \in Callers, NEW call \in CallRecord, NEW new, Made(c, call, new),
           NEW other, Stands(other)
    PROVE  Stands(other)'
<1>1. Contract' = Contract /\ Owners' = Owners
  BY Fixed DEF Made
<1>2. ASSUME NEW r \in Rows \cup Uppers, rows[r].state # "none" PROVE rows'[r].state # "none"
  <2>1. CASE r = call.row
    <3>1. new.state # "none"
      <4>1. CASE call.op = "create"
        BY <4>1, WrittenCreates DEF Made
      <4>2. CASE call.op # "create"
        BY <4>2, RowTyped, WrittenKeeps DEF Made
      <4> QED BY <4>1, <4>2
    <3> QED BY <2>1, <3>1 DEF Made
  <2>2. CASE r # call.row
    BY <1>2, <2>2 DEF Made, SameBut
  <2> QED BY <2>1, <2>2
<1> QED BY <1>1, <1>2 DEF Stands

\* The other calls have been overtaken.
LEMMA CallsOn ==
    ASSUME IInv, NEW c \in Callers, Write(c), ~Refused(calls[c]),
           \A other : Stands(other) => Stands(other)'
    PROVE  /\ calls' \in [Callers -> CallRecord]
           /\ \A d \in Callers : Stands(calls[d])' /\ (calls[d].overtaken' \/ Seen(calls[d])')
<1>1. calls' = [d \in Callers |->
                  IF d = c THEN Idle
                  ELSE IF calls[d] = Idle THEN Idle ELSE [calls[d] EXCEPT !.overtaken = TRUE]]
  BY DEF Write
<1>2. Stands(Idle)' /\ Seen(Idle)'
  BY IdleCall DEF Stands, Seen
<1>3. ASSUME NEW d \in Callers
      PROVE  /\ calls'[d] \in CallRecord
             /\ Stands(calls[d])' /\ (calls[d].overtaken' \/ Seen(calls[d])')
  <2>1. CASE calls'[d] = Idle
    BY <1>2, <2>1, IdleCall
  <2>2. CASE calls'[d] # Idle
    <3>1. calls'[d] = [calls[d] EXCEPT !.overtaken = TRUE]
      BY <1>1, <2>2
    <3>2. calls[d] \in CallRecord /\ Stands(calls[d])
      BY DEF IInv, RecordsTyped
    <3>3. PICK x \in CallRecord : /\ x = calls'[d] /\ x.overtaken
                                  /\ x.op = calls[d].op /\ x.row = calls[d].row
                                  /\ x.parent = calls[d].parent /\ x.phase = calls[d].phase
                                  /\ (x.default <=> calls[d].default)
      <4> DEFINE y == [calls[d] EXCEPT !.overtaken = TRUE]
      <4>1. y \in CallRecord /\ y.op = calls[d].op /\ y.row = calls[d].row
            /\ y.parent = calls[d].parent /\ y.phase = calls[d].phase
        BY <3>2 DEF CallRecord
      <4>2. y.overtaken /\ (y.default <=> calls[d].default)
        BY <3>2 DEF CallRecord
      <4> HIDE DEF y
      <4> QED BY <3>1, <4>1, <4>2 DEF y
    <3>4. Stands(x)
      BY <3>2, <3>3 DEF Stands
    <3>5. Stands(x)'
      BY <3>4
    <3> QED BY <3>1, <3>3, <3>5
  <2> QED BY <2>1, <2>2
<1>4. calls' \in [Callers -> CallRecord]
  BY <1>1, <1>3
<1> QED BY <1>3, <1>4

--------------------------------------------------------------------------------
LEMMA NoHolder ==
    ASSUME NEW own, NEW parent, NEW key, Holders(own, parent, key) = {}, key # NoKey,
           NEW s \in Rows \ {own}, IF check.reads = "live" THEN Live(s) ELSE Stored(s)
    PROVE  Value(rows[s].parent, rows[s].key) # Value(parent, key)
BY DEF Holders

LEMMA NoLiveHolder ==
    ASSUME NEW own, NEW parent, NEW key, Holders(own, parent, key) = {}, key # NoKey,
           NEW s \in Rows \ {own}, Live(s)
    PROVE  Value(rows[s].parent, rows[s].key) # Value(parent, key)
BY NoHolder DEF Live, Stored

LEMMA SameValue ==
    ASSUME NEW p, NEW q, NEW k, NEW l, Value(p, k) = Value(q, l)
    PROVE  k = l
BY DEF Value

\* What holds of any write that is made, whatever the call.
LEMMA MadeKeeps ==
    ASSUME IInv, NEW c \in Callers, NEW call \in CallRecord, NEW new, Made(c, call, new),
           call.op # "create"
    PROVE  LET row == rows[call.row] IN
           /\ row \in RowRecord /\ row.state \in {"live", "deleted"}
           /\ new.torn <=> (row.torn \/ call.overtaken)
           /\ call.op # "rekey" => new.key = row.key /\ (new.named <=> row.named)
           /\ call.op = "rekey" => new.key = call.key /\ (new.named <=> call.partly)
           /\ new.parent = IF call.op = "reparent" THEN call.parent ELSE row.parent
           /\ call.op \in {"rekey", "reparent", "flag", "setDefault"} => new.state = row.state
           /\ call.op = "revive" => new.state = "live"
           /\ call.op \in {"remove", "removeUpper"} => new.state \in {"deleted", "gone"}
           /\ call.op \notin {"flag", "setDefault"} =>
                 (new.default <=> row.default) /\ (new.claimed <=> row.claimed)
           /\ call.op = "flag" /\ Contract.default = "chosen" => new.claimed
<1>1. PICK row \in RowRecord : row = rows[call.row]
  BY RowTyped DEF Made
<1>2. row.state \in {"live", "deleted"}
  BY <1>1 DEF Made, Stands, RowRecord
<1>3. call.op \notin {"idle", "create"} /\ Stands(call) /\ new = Written(call)
  BY DEF Made
<1>4. /\ new.torn <=> (row.torn \/ call.overtaken)
      /\ call.op # "rekey" => new.key = row.key /\ (new.named <=> row.named)
      /\ call.op = "rekey" => new.key = call.key /\ (new.named <=> call.partly)
      /\ new.parent = IF call.op = "reparent" THEN call.parent ELSE row.parent
      /\ call.op \in {"rekey", "reparent", "flag", "setDefault"} => new.state = row.state
      /\ call.op = "revive" => new.state = "live"
      /\ call.op \in {"remove", "removeUpper"} => new.state \in {"deleted", "gone"}
      /\ call.op \notin {"flag", "setDefault"} =>
            (new.default <=> row.default) /\ (new.claimed <=> row.claimed)
      /\ call.op = "flag" /\ Contract.default = "chosen" => new.claimed
  BY <1>1, <1>3, WrittenKeeps
<1> QED BY <1>1, <1>2, <1>4

LEMMA IndexStep ==
    ASSUME IInv, NEW c \in Callers, NEW call \in CallRecord, NEW new, Made(c, call, new)
    PROVE  IndexHolds'
<1> DEFINE w == call.row
<1>1. (Indexed' <=> Indexed) /\ \A p, k : Value(p, k)' = Value(p, k)
  BY Fixed DEF Made
<1>2. rows'[w] = new /\ w \in Rows \cup Uppers
      /\ \A r \in Rows \ {w} : rows'[r].key = rows[r].key /\ rows'[r].parent = rows[r].parent
                               /\ (Stored(r)' <=> Stored(r))
  BY DEF Made, SameBut, Stored
<1>3. ASSUME NEW s \in Rows \ {w}, w \in Rows, Indexed, Stored(s), Stored(w)', new.key # NoKey
      PROVE  Value(new.parent, new.key) # Value(rows[s].parent, rows[s].key)
  <2>1. CASE call.op \in {"create", "rekey", "reparent"}
    <3>1. ~Clashes(w, new.parent, new.key)
      BY <2>1 DEF Made, Refused
    <3> QED BY <1>3, <3>1 DEF Clashes
  <2>2. CASE call.op \notin {"create", "rekey", "reparent"}
    <3>1. new.key = rows[w].key /\ new.parent = rows[w].parent
      BY <2>2, MadeKeeps
    <3>2. Stored(w)
      BY <2>2, MadeKeeps DEF Stored
    <3> QED BY <1>3, <3>1, <3>2 DEF IInv, IndexHolds
  <2> QED BY <2>1, <2>2
<1>4. ASSUME NEW r \in Rows, NEW s \in Rows, Indexed, r # s, Stored(r)', Stored(s)',
             rows'[r].key # NoKey,
             Value(rows'[r].parent, rows'[r].key) = Value(rows'[s].parent, rows'[s].key)
      PROVE  FALSE
  <2>1. rows'[r].key = rows'[s].key
    BY <1>4, SameValue
  <2>2. CASE r = w
    BY <1>2, <1>3, <1>4, <2>2
  <2>3. CASE s = w
    BY <1>2, <1>3, <1>4, <2>1, <2>3
  <2>4. CASE r # w /\ s # w
    BY <1>2, <1>4, <2>4 DEF IInv, IndexHolds
  <2> QED BY <2>2, <2>3, <2>4
<1> QED BY <1>1, <1>4 DEF IndexHolds

LEMMA KeysStep ==
    ASSUME IInv, NEW c \in Callers, NEW call \in CallRecord, NEW new, Made(c, call, new),
           refused' = refused
    PROVE  KeysApart'
<1> DEFINE w == call.row
<1>1. \A p, k : Value(p, k)' = Value(p, k)
  BY Fixed DEF Made
<1>2. rows'[w] = new /\ (call.overtaken \/ Seen(call))
      /\ \A r \in Rows \ {w} : rows'[r].key = rows[r].key /\ rows'[r].parent = rows[r].parent
                               /\ (Live(r)' <=> Live(r)) /\ (rows'[r].torn <=> rows[r].torn)
                               /\ (rows'[r].named <=> rows[r].named)
  BY DEF Made, SameBut, Live
<1>3. ASSUME NEW s \in Rows \ {w}, w \in Rows, Live(s), new.state = "live", new.key # NoKey,
             ~new.torn, ~new.named, ~rows[s].torn, ~rows[s].named
      PROVE  Value(new.parent, new.key) # Value(rows[s].parent, rows[s].key)
  <2>1. CASE call.op = "create"
    <3>1. new.key = call.key /\ new.parent = call.parent /\ ~call.overtaken
      BY <1>3, <2>1, WrittenCreates DEF Made
    <3>2. Holders(w, call.parent, call.key) = {}
      BY <1>2, <2>1, <3>1 DEF Seen
    <3> QED BY <1>3, <3>1, <3>2, NoLiveHolder
  <2>2. CASE call.op # "create"
    <3>1. ~call.overtaken /\ Seen(call) /\ ~rows[w].torn
      BY <1>2, <1>3, <2>2, MadeKeeps
    <3>2. ASSUME Live(w), ~rows[w].named, rows[w].key = new.key,
                 Value(rows[w].parent, new.key) = Value(new.parent, new.key)
          PROVE  Value(new.parent, new.key) # Value(rows[s].parent, rows[s].key)
      BY <1>3, <3>1, <3>2 DEF IInv, KeysApart
    <3>3. CASE call.op = "revive"
      <4>1. new.key = rows[w].key /\ new.parent = rows[w].parent
        BY <3>3, MadeKeeps
      <4> QED BY <1>3, <3>1, <3>3, <4>1 DEF Seen
    <3>4. CASE call.op = "rekey"
      <4>1. new.key = call.key /\ new.parent = rows[w].parent /\ ~call.partly
        BY <1>3, <3>4, MadeKeeps
      <4>2. Holders(w, rows[w].parent, call.key) = {}
        BY <3>1, <3>4, <4>1 DEF Seen
      <4> QED BY <1>3, <4>1, <4>2, NoLiveHolder
    <3>5. CASE call.op = "reparent"
      <4>1. new.key = rows[w].key /\ new.parent = call.parent /\ Live(w) /\ ~rows[w].named
        BY <1>3, <3>1, <3>5, MadeKeeps DEF Seen
      <4>2. CASE Contract.within
        <5>1. Holders(w, new.parent, new.key) = {}
          BY <3>1, <3>5, <4>1, <4>2 DEF Seen
        <5> QED BY <1>3, <5>1, NoLiveHolder
      <4>3. CASE ~Contract.within
        <5>1. Value(rows[w].parent, new.key) = Value(new.parent, new.key)
          BY <4>3 DEF Value
        <5> QED BY <3>2, <4>1, <5>1
      <4> QED BY <4>2, <4>3
    <3>6. CASE call.op \in {"flag", "setDefault"}
      <4>1. new.key = rows[w].key /\ new.parent = rows[w].parent /\ new.state = rows[w].state
            /\ ~rows[w].named
        BY <1>3, <3>6, MadeKeeps
      <4> QED BY <1>3, <3>2, <4>1 DEF Live
    <3>7. call.op \notin {"remove", "removeUpper", "idle"}
      BY <1>3, <2>2, MadeKeeps DEF Made
    <3> QED BY <2>2, <3>3, <3>4, <3>5, <3>6, <3>7 DEF CallRecord, Operations
  <2> QED BY <2>1, <2>2
<1>4. ASSUME NEW r \in Rows, NEW s \in Rows, r # s, Live(r)', Live(s)', rows'[r].key # NoKey,
             Value(rows'[r].parent, rows'[r].key) = Value(rows'[s].parent, rows'[s].key),
             \A t \in {r, s} : ~rows'[t].torn /\ ~rows'[t].named
      PROVE  FALSE
  <2>1. rows'[r].key = rows'[s].key
    BY <1>4, SameValue
  <2>2. CASE r = w
    BY <1>2, <1>3, <1>4, <2>2 DEF Live
  <2>3. CASE s = w
    BY <1>2, <1>3, <1>4, <2>1, <2>3 DEF Live
  <2>4. CASE r # w /\ s # w
    BY <1>2, <1>4, <2>4 DEF IInv, KeysApart
  <2> QED BY <2>2, <2>3, <2>4
<1> QED BY <1>1, <1>4 DEF KeysApart, IInv

LEMMA RowsFitStep ==
    ASSUME IInv, NEW c \in Callers, NEW call \in CallRecord, NEW new, Made(c, call, new)
    PROVE  RowsFit'
<1>1. Contract' = Contract /\ Owners' = Owners
  BY Fixed DEF Made
<1>2. ASSUME NEW r \in Rows
      PROVE  /\ rows'[r].parent \in Owners \cup {NoRow}
             /\ rows'[r].default => Contract.default # "none"
  <2>1. CASE r # call.row
    BY <2>1 DEF Made, SameBut, IInv, RowsFit
  <2>2. CASE r = call.row /\ call.op = "create"
    <3>1. new.parent = call.parent /\ (new.default <=> call.default)
      BY <2>2, WrittenCreates DEF Made
    <3> QED BY <2>2, <3>1 DEF Made, Stands
  <2>3. CASE r = call.row /\ call.op # "create"
    <3>1. /\ new.parent = IF call.op = "reparent" THEN call.parent ELSE rows[r].parent
          /\ call.op \notin {"flag", "setDefault"} => (new.default <=> rows[r].default)
      BY <2>3, MadeKeeps
    <3>2. new.parent \in Owners \cup {NoRow}
      BY <3>1 DEF Made, Stands, IInv, RowsFit
    <3>3. new.default => Contract.default # "none"
      BY <3>1 DEF Made, Stands, IInv, RowsFit
    <3> QED BY <2>3, <3>2, <3>3 DEF Made
  <2> QED BY <2>1, <2>2, <2>3
<1> QED BY <1>1, <1>2 DEF RowsFit

\* An owner that a call has accepted is live, whoever the owner is.
LEMMA OwnerStays ==
    ASSUME IInv, NEW c \in Callers, NEW call \in CallRecord, NEW new, Made(c, call, new),
           call.op \notin {"remove", "removeUpper"},
           NEW p \in Rows \cup Uppers, Live(p)
    PROVE  Live(p)'
<1>1. CASE p # call.row
  BY <1>1 DEF Made, SameBut, Live
<1>2. CASE p = call.row /\ call.op = "create"
  <2>1. new.state = "live"
    BY <1>2, WrittenCreates DEF Made
  <2> QED BY <1>2, <2>1 DEF Made, Live
<1>3. CASE p = call.row /\ call.op # "create"
  <2>1. new.state = "live"
    BY <1>3, MadeKeeps DEF Made, Live, CallRecord, Operations
  <2> QED BY <1>3, <2>1 DEF Made, Live
<1> QED BY <1>1, <1>2, <1>3

LEMMA ParentsStep ==
    ASSUME IInv, NEW c \in Callers, NEW call \in CallRecord, NEW new, Made(c, call, new)
    PROVE  ChildrenKeepParents'
<1> DEFINE w == call.row
<1>1. Contract' = Contract /\ RowsFit'
  BY Fixed, RowsFitStep DEF Made
<1>2. rows'[w] = new /\ w \in Rows \cup Uppers /\ (call.overtaken \/ Seen(call))
      /\ \A r \in (Rows \cup Uppers) \ {w} :
            /\ rows'[r].parent = rows[r].parent /\ (Live(r)' <=> Live(r))
            /\ (rows'[r].torn <=> rows[r].torn)
  BY DEF Made, SameBut, Live
<1>3. ASSUME Contract.guarded, Contract.asserted # "never", NEW r \in Rows, Live(r)',
             rows'[r].parent # NoRow, ~Live(rows[r].parent)',
             ~rows'[r].torn, ~rows'[rows'[r].parent].torn
      PROVE  FALSE
  <2>1. PICK p \in Rows \cup Uppers : p = rows'[r].parent /\ p # NoRow /\ p \in Owners'
    BY <1>1, <1>3, OwnersKnown, Fixed DEF RowsFit, Made
  <2>2. ~Live(p)' /\ ~rows'[p].torn
    BY <1>3, <2>1 DEF Live
  <2>3. CASE call.op \in {"remove", "removeUpper"}
    <3>1. new.state # "live" /\ (new.torn <=> (rows[w].torn \/ call.overtaken))
          /\ new.parent = rows[w].parent
      BY <2>3, MadeKeeps
    <3>2. r # w
      BY <1>2, <1>3, <3>1 DEF Live
    <3>3. Live(r) /\ rows[r].parent = p /\ ~rows[r].torn
      BY <1>2, <1>3, <2>1, <3>2
    <3>4. CASE p # w
      <4>1. ~Live(p) /\ ~rows[p].torn
        BY <1>2, <2>1, <2>2, <3>4
      <4> QED BY <1>3, <2>1, <3>3, <4>1 DEF IInv, ChildrenKeepParents
    <3>5. CASE p = w
      <4>1. Seen(call)
        BY <1>2, <2>2, <3>1, <3>5
      <4>2. r \in Children(w)
        BY <3>3, <3>5 DEF Children
      <4>3. call.op = "remove" /\ Contract.parent # "own"
        BY <1>3, <2>3, <4>1, <4>2 DEF Seen
      <4>4. w \in Rows
        BY <4>3 DEF Made, Stands
      <4>5. p \in Owners
        BY <2>1, Fixed DEF Made
      <4> QED BY <3>5, <4>3, <4>4, <4>5, OwnersKnown
    <3> QED BY <3>4, <3>5
  <2>4. CASE call.op \notin {"remove", "removeUpper"}
    <3>1. ~Live(p)
      BY <2>2, <2>4, OwnerStays
    <3>2. ASSUME p = w PROVE ~rows[p].torn
      <4>1. call.op # "create"
        BY <2>2, <3>2, WrittenCreates DEF Made, Live
      <4> QED BY <2>2, <3>2, <4>1, MadeKeeps DEF Made
    <3>3. ~rows[p].torn
      BY <1>2, <2>2, <3>2
    <3>4. ASSUME Live(r), rows[r].parent = p, ~rows[r].torn PROVE FALSE
      BY <1>3, <2>1, <3>1, <3>3, <3>4 DEF IInv, ChildrenKeepParents
    <3>5. CASE r # w
      BY <1>2, <1>3, <2>1, <3>4, <3>5
    <3>6. CASE r = w /\ call.op = "create"
      <4>1. new.parent = call.parent /\ (new.torn <=> call.overtaken)
        BY <3>6, WrittenCreates DEF Made
      <4>2. OwnerAccepted(w, p)
        BY <1>2, <1>3, <2>1, <3>6, <4>1 DEF Seen
      <4> QED BY <1>3, <2>1, <3>1, <4>2 DEF OwnerAccepted
    <3>7. CASE r = w /\ call.op # "create"
      <4>1. /\ new.torn <=> (rows[w].torn \/ call.overtaken)
            /\ new.parent = IF call.op = "reparent" THEN call.parent ELSE rows[w].parent
            /\ call.op \in {"rekey", "reparent", "flag", "setDefault"} =>
                  new.state = rows[w].state
        BY <3>7, MadeKeeps
      <4>2. Seen(call) /\ ~rows[w].torn
        BY <1>2, <1>3, <3>7, <4>1
      <4>3. CASE call.op = "reparent"
        <5>1. OwnerAccepted(w, p)
          BY <1>2, <2>1, <3>7, <4>1, <4>2, <4>3 DEF Seen
        <5> QED BY <1>3, <2>1, <3>1, <5>1 DEF OwnerAccepted
      <4>4. CASE call.op = "revive"
        <5>1. OwnerAccepted(NoRow, p)
          BY <1>2, <2>1, <3>7, <4>1, <4>2, <4>4 DEF Seen
        <5> QED BY <1>3, <2>1, <3>1, <5>1 DEF OwnerAccepted
      <4>5. CASE call.op \in {"rekey", "flag", "setDefault"}
        <5>1. Live(r) /\ rows[r].parent = p
          BY <1>2, <1>3, <2>1, <3>7, <4>1, <4>5 DEF Live
        <5> QED BY <3>4, <3>7, <4>2, <5>1
      <4>6. call.op # "idle"
        BY DEF Made
      <4> QED BY <2>4, <3>7, <4>3, <4>4, <4>5, <4>6 DEF CallRecord, Operations
    <3> QED BY <3>5, <3>6, <3>7
  <2> QED BY <2>3, <2>4
<1> QED BY <1>1, <1>3 DEF ChildrenKeepParents

LEMMA DefaultsStep ==
    ASSUME IInv, NEW c \in Callers, NEW call \in CallRecord, NEW new, Made(c, call, new)
    PROVE  DefaultStandsAlone'
<1> DEFINE w == call.row
<1>1. rows'[w] = new /\ w \in Rows \cup Uppers /\ (call.overtaken \/ Seen(call))
      /\ \A r \in Rows \ {w} :
            /\ (Live(r)' <=> Live(r)) /\ (rows'[r].torn <=> rows[r].torn)
            /\ (rows'[r].claimed <=> rows[r].claimed) /\ (rows'[r].default => rows[r].default)
  BY DEF Made, SameBut, Live
<1>2. Contract.default \in {"none", "chosen", "kept"}
      /\ (Contract.revives => Contract.default = "none")
  BY ContractKept DEF Kept
\* A transaction that nothing has overtaken clears every other default.
<1>3. ASSUME Clears(call), ~call.overtaken, NEW s \in Rows \ {w}, Live(s), rows'[s].default
      PROVE  FALSE
  <2>1. s \in call.seen
    BY <1>1, <1>3 DEF Made, Seen
  <2> QED BY <1>3, <2>1 DEF Made, Cleared
<1>4. ASSUME NEW s \in Rows \ {w}, w \in Rows, Live(w)', Live(s)', rows'[w].default,
             rows'[s].default, ~rows'[w].torn, ~rows'[w].claimed,
             ~rows'[s].torn, ~rows'[s].claimed
      PROVE  FALSE
  <2>1. Live(s) /\ rows[s].default /\ ~rows[s].torn /\ ~rows[s].claimed
    BY <1>1, <1>4
  <2>2. CASE call.op = "create"
    <3>1. (new.default <=> call.default) /\ (new.torn <=> call.overtaken)
          /\ (new.claimed <=> (call.default /\ Contract.default = "chosen"))
      BY <2>2, WrittenCreates DEF Made
    <3>2. call.default /\ ~call.overtaken /\ Contract.default = "kept"
      BY <1>1, <1>2, <1>4, <3>1 DEF Made, Stands
    <3> QED BY <1>3, <1>4, <2>1, <3>2 DEF Clears
  <2>3. CASE call.op # "create"
    <3>1. /\ new.torn <=> (rows[w].torn \/ call.overtaken)
          /\ call.op \in {"rekey", "reparent", "flag", "setDefault"} => new.state = rows[w].state
          /\ call.op \in {"remove", "removeUpper"} => new.state \in {"deleted", "gone"}
          /\ call.op \notin {"flag", "setDefault"} =>
                (new.default <=> rows[w].default) /\ (new.claimed <=> rows[w].claimed)
          /\ call.op = "flag" /\ Contract.default = "chosen" => new.claimed
      BY <2>3, MadeKeeps
    <3>2. ~call.overtaken /\ ~rows[w].torn
      BY <1>1, <1>4, <3>1
    <3>3. CASE call.op \in {"flag", "setDefault"}
      <4>1. Clears(call)
        BY <1>1, <1>2, <1>4, <3>1, <3>3 DEF Clears, Made, Stands
      <4> QED BY <1>3, <1>4, <2>1, <3>2, <4>1
    <3>4. CASE call.op \in {"rekey", "reparent"}
      <4>1. Live(w) /\ rows[w].default /\ ~rows[w].claimed
        BY <1>1, <1>4, <3>1, <3>4 DEF Live
      <4> QED BY <1>4, <2>1, <3>2, <4>1 DEF IInv, DefaultStandsAlone
    <3>5. CASE call.op = "revive"
      <4>1. rows[w].default
        BY <1>1, <1>4, <3>1, <3>5
      <4> QED BY <1>2, <1>4, <3>5, <4>1 DEF Made, Stands, IInv, RowsFit
    <3>6. call.op \notin {"remove", "removeUpper", "idle"}
      BY <1>1, <1>4, <3>1 DEF Made, Live
    <3> QED BY <2>3, <3>3, <3>4, <3>5, <3>6 DEF CallRecord, Operations
  <2> QED BY <2>2, <2>3
<1>5. ASSUME NEW r \in Rows, NEW s \in Rows, r # s, Live(r)', Live(s)', rows'[r].default,
             rows'[s].default, \A t \in {r, s} : ~rows'[t].torn /\ ~rows'[t].claimed
      PROVE  FALSE
  <2>1. CASE r = w
    BY <1>4, <1>5, <2>1
  <2>2. CASE s = w
    BY <1>4, <1>5, <2>2
  <2>3. CASE r # w /\ s # w
    BY <1>1, <1>5, <2>3 DEF IInv, DefaultStandsAlone
  <2> QED BY <2>1, <2>2, <2>3
<1> QED BY <1>5 DEF DefaultStandsAlone

--------------------------------------------------------------------------------
\* An index refuses a value that the check found free only where the check did
\* not see all of it.
LEMMA RefusedKnown ==
    ASSUME IInv, NEW call \in CallRecord, Stands(call), Seen(call), Refused(call),
           ~call.partly, check.reads # "live"
    PROVE  FALSE
<1> DEFINE w == call.row
<1>1. w \in Rows \cup Uppers /\ call.op \in {"create", "rekey", "reparent"}
  BY DEF Stands, Refused
<1>2. PICK new : new = Written(call)
  OBVIOUS
<1>3. PICK s \in Rows \ {w} : /\ Indexed /\ new.key # NoKey /\ Stored(s)
                              /\ Value(rows[s].parent, rows[s].key) = Value(new.parent, new.key)
  BY <1>2 DEF Refused, Clashes
<1>4. Holders(w, new.parent, new.key) # {}
  BY <1>3, NoHolder
<1>5. CASE call.op = "create"
  <2>1. new.key = call.key /\ new.parent = call.parent
    BY <1>2, <1>5, WrittenCreates
  <2> QED BY <1>4, <1>5, <2>1 DEF Seen
<1>6. CASE call.op \in {"rekey", "reparent"}
  <2>1. /\ call.op = "reparent" => new.key = rows[w].key
        /\ call.op = "rekey" => new.key = call.key
        /\ new.parent = IF call.op = "reparent" THEN call.parent ELSE rows[w].parent
    BY <1>1, <1>2, <1>6, RowTyped, WrittenKeeps
  <2>2. CASE call.op = "rekey"
    BY <1>4, <2>1, <2>2 DEF Seen
  <2>3. CASE call.op = "reparent" /\ Contract.within
    BY <1>4, <2>1, <2>3 DEF Seen
  <2>4. CASE call.op = "reparent" /\ ~Contract.within
    <3>1. Value(rows[w].parent, rows[w].key) = Value(new.parent, new.key)
      BY <2>1, <2>4 DEF Value
    <3>2. w \in Rows /\ Stored(w)
      BY <2>4 DEF Stands, Seen, Live, Stored
    <3> QED BY <1>3, <2>1, <2>4, <3>1, <3>2 DEF IInv, IndexHolds
  <2> QED BY <1>6, <2>2, <2>3, <2>4
<1> QED BY <1>1, <1>5, <1>6

LEMMA WriteStep == ASSUME IInv, NEW c \in Callers, Write(c) PROVE IInv'
<1>1. PICK call \in CallRecord : call = calls[c] /\ Stands(call) /\ (call.overtaken \/ Seen(call))
  BY DEF IInv, RecordsTyped
<1>2. UNCHANGED <<service, check, started>>
  BY DEF Write
<1>3. CASE Refused(call)
  <2>1. PICK record : record = [overtaken |-> call.overtaken, partly |-> call.partly,
                                narrow |-> check.reads = "live"]
    OBVIOUS
  <2>2. refused' = refused \cup {record} /\ calls' = [calls EXCEPT ![c] = Idle] /\ rows' = rows
    BY <1>1, <1>3, <2>1 DEF Write
  <2>3. record.overtaken \/ record.partly \/ record.narrow
    BY <1>1, <1>3, <2>1, RefusedKnown
  <2>4. \A x \in refused' : x \in refused \/ x.overtaken \/ x.partly \/ x.narrow
    BY <2>2, <2>3
  <2> QED BY <1>2, <2>2, <2>4, IdleCall, IdleStands, NoRowWritten
<1>4. CASE ~Refused(call) /\ rows[call.row].state = "gone"
  <2>1. rows' = rows /\ refused' = refused
    BY <1>1, <1>4 DEF Write
  <2>2. \A other : Stands(other) => Stands(other)'
    BY <1>2, <2>1, StillKnown
  <2>3. /\ calls' \in [Callers -> CallRecord]
        /\ \A d \in Callers : Stands(calls[d])' /\ (calls[d].overtaken' \/ Seen(calls[d])')
    BY <1>1, <1>4, <2>2, CallsOn
  <2>4. Contract' = Contract /\ Owners' = Owners /\ (Indexed' <=> Indexed)
        /\ \A parent, key : Value(parent, key)' = Value(parent, key)
    BY <1>2, Fixed
  <2>5. \A r : (Live(r)' <=> Live(r)) /\ (Stored(r)' <=> Stored(r))
    BY <2>1 DEF Live, Stored
  <2>6. RecordsTyped' /\ RowsFit'
    BY <1>2, <2>1, <2>3, <2>4 DEF IInv, RecordsTyped, RowsFit
  <2>7. IndexHolds'
    BY <2>1, <2>4, <2>5 DEF IInv, IndexHolds, Value, Contract
  <2>8. KeysApart'
    BY <2>1, <2>4, <2>5 DEF IInv, KeysApart, Value, Contract
  <2>9. ChildrenKeepParents' /\ DefaultStandsAlone'
    BY <2>1, <2>4, <2>5 DEF IInv, ChildrenKeepParents, DefaultStandsAlone
  <2> QED BY <2>3, <2>6, <2>7, <2>8, <2>9 DEF IInv
<1>5. CASE ~Refused(call) /\ rows[call.row].state # "gone"
  <2>1. PICK x, new : x \in CallRecord /\ Made(c, x, new)
    BY <1>1, <1>5, WriteMade
  <2>2. rows' \in [Rows \cup Uppers -> RowRecord] /\ refused' = refused
    BY <1>1, <1>5, WriteMade DEF Write
  <2>3. \A other : Stands(other) => Stands(other)'
    BY <2>1, StandsOn
  <2>4. /\ calls' \in [Callers -> CallRecord]
        /\ \A d \in Callers : Stands(calls[d])' /\ (calls[d].overtaken' \/ Seen(calls[d])')
    BY <1>1, <1>5, <2>3, CallsOn
  <2>5. RecordsTyped'
    BY <1>2, <2>2, <2>4 DEF IInv, RecordsTyped
  <2>6. RowsFit' /\ IndexHolds'
    BY <2>1, RowsFitStep, IndexStep
  <2>7. KeysApart'
    BY <2>1, <2>2, KeysStep
  <2>8. ChildrenKeepParents' /\ DefaultStandsAlone'
    BY <2>1, ParentsStep, DefaultsStep
  <2> QED BY <2>4, <2>5, <2>6, <2>7, <2>8 DEF IInv
<1> QED BY <1>3, <1>4, <1>5

LEMMA UnansweredOnly ==
    ASSUME IInv, UNCHANGED <<service, check, rows, calls, refused>>
    PROVE  IInv'
<1>1. \A call : (Stands(call)' <=> Stands(call)) /\ (Seen(call)' <=> Seen(call))
  BY StillKnown
<1>2. Contract' = Contract /\ Owners' = Owners /\ (Indexed' <=> Indexed)
      /\ \A parent, key : Value(parent, key)' = Value(parent, key)
  BY Fixed
<1>3. \A r : (Live(r)' <=> Live(r)) /\ (Stored(r)' <=> Stored(r))
  BY DEF Live, Stored
<1>4. RecordsTyped' /\ RowsFit'
  BY <1>2 DEF IInv, RecordsTyped, RowsFit
<1>5. IndexHolds' /\ KeysApart'
  BY <1>2, <1>3 DEF IInv, IndexHolds, KeysApart, Value, Contract
<1>6. ChildrenKeepParents' /\ DefaultStandsAlone'
  BY <1>2, <1>3 DEF IInv, ChildrenKeepParents, DefaultStandsAlone
<1>7. ASSUME NEW c \in Callers PROVE Stands(calls[c])' /\ (calls[c].overtaken' \/ Seen(calls[c])')
  <2>1. PICK x : x = calls[c] /\ Stands(x) /\ (x.overtaken \/ Seen(x))
    BY DEF IInv
  <2>2. Stands(x)' /\ (x.overtaken \/ Seen(x)')
    BY <1>1, <2>1
  <2>3. x = calls'[c]
    BY <2>1
  <2> QED BY <2>2, <2>3
<1> QED BY <1>4, <1>5, <1>6, <1>7 DEF IInv

LEMMA InitIInv == ASSUME Init PROVE IInv
<1>1. NoneYet \in RowRecord /\ [NoneYet EXCEPT !.state = "live"] \in RowRecord
      /\ NoneYet.state = "none" /\ NoneYet.parent = NoRow /\ ~NoneYet.default
  <2>1. NoneYet \in RowRecord
    BY DEF NoneYet, RowRecord, NoRow, NoKey
  <2> QED BY <2>1 DEF NoneYet, RowRecord
<1>2. service \in DOMAIN Contracts
  BY DEF Init
<1>3. rows \in [Rows \cup Uppers -> RowRecord] /\ \A r \in Rows : rows[r] = NoneYet
  BY <1>1, Ids DEF Init
<1>4. calls \in [Callers -> CallRecord] /\ \A c \in Callers : calls[c] = Idle
  BY IdleCall DEF Init
<1>5. RecordsTyped /\ RowsFit
  BY <1>1, <1>2, <1>3, <1>4 DEF RecordsTyped, RowsFit
<1>6. \A r \in Rows : ~Live(r) /\ ~Stored(r)
  BY <1>1, <1>3 DEF Live, Stored
<1>7. IndexHolds /\ ChildrenKeepParents /\ DefaultStandsAlone
  BY <1>6 DEF IndexHolds, ChildrenKeepParents, DefaultStandsAlone
<1>8. KeysApart
  BY <1>6 DEF KeysApart, Init
<1>9. \A c \in Callers : Stands(calls[c]) /\ (calls[c].overtaken \/ Seen(calls[c]))
  BY <1>4, IdleStands
<1> QED BY <1>5, <1>7, <1>8, <1>9 DEF IInv

LEMMA NextIInv == ASSUME IInv, [Next]_vars PROVE IInv'
<1>1. CASE Ask
  BY <1>1, UnansweredOnly DEF Ask
<1>2. CASE UNCHANGED vars
  BY <1>2, UnansweredOnly DEF vars
<1>3. ASSUME NEW c \in Callers,
             \/ Create(c) \/ Revive(c) \/ Rekey(c) \/ Reparent(c)
             \/ Flag(c) \/ SetDefault(c) \/ Remove(c) \/ RemoveUpper(c)
             \/ FindDefaults(c) \/ Write(c)
      PROVE  IInv'
  BY <1>3, CreateStep, ReviveStep, RekeyStep, ReparentStep, FlagStep, RemoveStep,
     FindDefaultsStep, WriteStep
<1> QED BY <1>1, <1>2, <1>3 DEF Next

LEMMA IInvAlways == Spec => []IInv
BY InitIInv, NextIInv, PTL DEF Spec

--------------------------------------------------------------------------------
\* Two live rows share a checked value only where another call's write came
\* between a check and its write, or the check was told part of the value; and an
\* index refuses only what a check could not have seen (assertUnique and its like).
THEOREM KeysAlwaysApart == Spec => []KeysApart
<1>1. IInv => KeysApart
  BY DEF IInv
<1> QED BY <1>1, IInvAlways, PTL

\* A live row's owner is live where validate and beforeDelete look, whatever rows
\* are made, moved and deleted, unless one of the two was written too late.
THEOREM ChildrenAlwaysKeepParents == Spec => []ChildrenKeepParents
<1>1. IInv => ChildrenKeepParents
  BY DEF IInv
<1> QED BY <1>1, IInvAlways, PTL

\* One row is the default, unless a plain create or update claimed it too, or
\* another call's write came before the transaction's own (setDefault).
THEOREM DefaultAlwaysStandsAlone == Spec => []DefaultStandsAlone
<1>1. IInv => DefaultStandsAlone
  BY DEF IInv
<1> QED BY <1>1, IInvAlways, PTL

\* Whatever the routes of whichever service offer is answered, save what is known not to be: no
\* list names a column its table has not or compares one that is not text, no body brings one, and
\* no row lacks what it needs (createItsmCrudService hands both on as they are).
THEOREM NothingOfferedEverFails == Spec => []NothingOfferedFails
<1>1. ASSUME IInv, Ask PROVE NothingOfferedFails'
  <2>1. PICK offer \in Offers : unanswered' = IF Answered(offer) THEN {} ELSE {offer}
    BY <1>1 DEF Ask
  <2>2. Kept(service, Contract) /\ UNCHANGED service
    BY <1>1, ContractKept DEF Ask
  <2>3. Answered(offer) \/ <<service, offer>> \in KnownUnanswered
    BY <2>2 DEF Offers, Answered, Kept
  <2> QED BY <2>1, <2>2, <2>3 DEF NothingOfferedFails
<1>2. ASSUME IInv, NothingOfferedFails, [Next]_vars PROVE NothingOfferedFails'
  <2>1. CASE Ask
    BY <1>1, <1>2, <2>1
  <2>2. CASE UNCHANGED vars
    BY <1>2, <2>2 DEF vars, NothingOfferedFails
  <2>3. ASSUME NEW c \in Callers,
               \/ Create(c) \/ Revive(c) \/ Rekey(c) \/ Reparent(c)
               \/ Flag(c) \/ SetDefault(c) \/ Remove(c) \/ RemoveUpper(c)
               \/ FindDefaults(c) \/ Write(c)
        PROVE  unanswered' = {}
    BY <2>3 DEF Create, Revive, Rekey, Reparent, Flag, SetDefault, Remove, RemoveUpper, Start,
                FindDefaults, Write
  <2> QED BY <1>2, <2>1, <2>2, <2>3 DEF Next, NothingOfferedFails
<1>3. Init => NothingOfferedFails
  BY DEF Init, NothingOfferedFails
<1> QED BY IInvAlways, <1>2, <1>3, PTL DEF Spec

--------------------------------------------------------------------------------
(***************************************************************************)
(* Support tickets: their dates and their numbers, for any number of       *)
(* tickets, requests and attempts.                                         *)
(***************************************************************************)
TicketRecord ==
    [status : {"none", "OPEN", "IN_PROGRESS", "RESOLVED", "CLOSED", "REOPENED"},
     resolvedAt : BOOLEAN, closedAt : BOOLEAN, series : {"none", "SUP", "ST"}, number : Nat,
     owned : BOOLEAN, torn : BOOLEAN]
Staff == {"assign", "reply", "resolve", "reopen"}
WorkRecord ==
    [op : Staff \cup {"none", "SUP", "ST"}, ticket : Nat,
     saw : {"none", "OPEN", "IN_PROGRESS", "RESOLVED", "CLOSED", "REOPENED"},
     count : Nat, attempt : Nat, made : Nat]
SupportTyped ==
    support \in [Tickets -> TicketRecord] /\ work \in [Requests -> WorkRecord]

\* Nothing but an overtaken call leaves a date where there should be none, and what
\* it leaves is in progress; no ticket waits.
DatesHold(ticket) ==
    /\ ticket.status = "RESOLVED" => ticket.resolvedAt
    /\ ticket.status = "CLOSED" => ticket.closedAt
    /\ ticket.status \in {"OPEN", "REOPENED"} => ~ticket.resolvedAt /\ ~ticket.closedAt
    /\ ticket.status = "IN_PROGRESS" /\ (ticket.resolvedAt \/ ticket.closedAt) => ticket.torn

\* What a request knows of the tickets: the numbers a create of the platform has tried
\* are taken, and those of an organization that are above its count are newer than it.
Knows(call) ==
    /\ call.op \in Staff => call.ticket \in Filed
    /\ call.op = "SUP" => /\ call.made = call.count
                          /\ call.count + call.attempt <= Cardinality(Of("SUP"))
    /\ call.op = "ST" =>
          /\ call.attempt = 0 /\ call.made <= Cardinality(Of("ST"))
          /\ call.count <= Cardinality(Filed)
          /\ Cardinality(Of("ST")) = call.made => \A n \in Taken("ST") : n <= call.count

SupportInv ==
    /\ SupportTyped
    /\ \A t \in Tickets : DatesHold(support[t])
    /\ \A a \in Requests : Knows(work[a])
    /\ NumbersFollow /\ RefusedByOthers

LEMMA SupportFinite ==
    ASSUME NEW series
    PROVE  /\ IsFiniteSet(Filed) /\ IsFiniteSet(Of(series))
           /\ Cardinality(Filed) \in Nat /\ Cardinality(Of(series)) \in Nat
<1>1. Filed \subseteq Tickets /\ Of(series) \subseteq Tickets
  BY DEF Filed, Of
<1> QED BY <1>1, SupportAssumption, FS_Subset, FS_CardinalityType

LEMMA AtRestKnows == AtRest \in WorkRecord /\ Knows(AtRest)
<1>1. AtRest \in WorkRecord /\ AtRest.op = "none"
  BY DEF AtRest, WorkRecord
<1> QED BY <1>1 DEF Knows, Staff

\* A step that files no ticket and leaves the numbers.
SameNumbers ==
    \A t \in Tickets : /\ (support'[t].status = "none") <=> (support[t].status = "none")
                       /\ support'[t].series = support[t].series
                       /\ support'[t].number = support[t].number

LEMMA NothingFiled ==
    ASSUME SameNumbers
    PROVE  /\ Filed' = Filed
           /\ \A series : Of(series)' = Of(series) /\ Taken(series)' = Taken(series)
           /\ \A call : Knows(call) => Knows(call)'
<1>1. Filed' = Filed
  BY DEF Filed, SameNumbers
<1>2. \A series : Of(series)' = Of(series)
  BY <1>1 DEF Of, Filed, SameNumbers
<1>3. \A series : Taken(series)' = Taken(series)
  BY <1>2 DEF Taken, Of, Filed, SameNumbers
<1>4. \A call : Knows(call) => Knows(call)'
  BY <1>1, <1>2, <1>3 DEF Knows
<1> QED BY <1>1, <1>2, <1>3, <1>4

\* One request goes on, and no ticket is filed.
LEMMA WorkGoesOn ==
    ASSUME SupportInv, SameNumbers, support' \in [Tickets -> TicketRecord],
           \A t \in Tickets : DatesHold(support'[t]),
           NEW a \in Requests, NEW call \in WorkRecord, work' = [work EXCEPT ![a] = call],
           Knows(call), \A f \in failed' : f \in failed \/ f.since >= Attempts(f.series)
    PROVE  SupportInv'
<1>1. SupportTyped'
  BY DEF SupportInv, SupportTyped
<1>2. ASSUME NEW t \in Tickets PROVE DatesHold(support[t])'
  <2>1. PICK x : x = support'[t] /\ DatesHold(x)
    OBVIOUS
  <2> QED BY <2>1 DEF DatesHold
<1>3. ASSUME NEW b \in Requests PROVE Knows(work[b])'
  <2>1. PICK x : x = work'[b] /\ Knows(x)
    BY DEF SupportInv, SupportTyped
  <2>2. Knows(x)'
    BY <2>1, NothingFiled
  <2> QED BY <2>1, <2>2
<1>4. NumbersFollow'
  BY NothingFiled DEF SupportInv, NumbersFollow
<1>5. RefusedByOthers'
  BY DEF SupportInv, RefusedByOthers, Attempts
<1> QED BY <1>1, <1>2, <1>3, <1>4, <1>5 DEF SupportInv

\* The tickets stay, and a request goes on.
LEMMA TicketsLeft ==
    ASSUME SupportInv, UNCHANGED support,
           NEW a \in Requests, NEW call \in WorkRecord, work' = [work EXCEPT ![a] = call],
           Knows(call), \A f \in failed' : f \in failed \/ f.since >= Attempts(f.series)
    PROVE  SupportInv'
<1>1. SameNumbers
  BY DEF SameNumbers
<1>2. support' \in [Tickets -> TicketRecord] /\ \A t \in Tickets : DatesHold(support'[t])
  BY DEF SupportInv, SupportTyped
<1> QED BY <1>1, <1>2, WorkGoesOn

LEMMA CountStep == ASSUME SupportInv, NEW a \in Requests, CountTickets(a) PROVE SupportInv'
<1>1. PICK series \in {"SUP", "ST"} :
        Begin(a, [AtRest EXCEPT !.op = series, !.count = Counted(series),
                                !.made = Cardinality(Of(series))])
  BY DEF CountTickets
<1>2. PICK count \in Nat, made \in Nat : count = Counted(series) /\ made = Cardinality(Of(series))
  BY SupportFinite DEF Counted
<1>3. PICK x : x = [AtRest EXCEPT !.op = series, !.count = count, !.made = made]
  OBVIOUS
<1>4. x \in WorkRecord /\ x.op = series /\ x.count = count /\ x.made = made /\ x.attempt = 0
  BY <1>3 DEF AtRest, WorkRecord
<1>5. series = "SUP" => made = count
  BY <1>2 DEF Counted
<1>6. Cardinality(Of(series)) \in Nat /\ Cardinality(Filed) \in Nat
  BY SupportFinite
<1>7. series = "ST" => count = Cardinality(Filed) /\ \A n \in Taken("ST") : n <= count
  BY <1>2 DEF Counted, SupportInv, NumbersFollow
<1>8. Knows(x)
  BY <1>1, <1>2, <1>4, <1>5, <1>6, <1>7 DEF Knows, Staff
<1> QED BY <1>1, <1>2, <1>3, <1>4, <1>8, TicketsLeft DEF Begin

LEMMA NumberTakenStep == ASSUME SupportInv, NEW a \in Requests, NumberTaken(a) PROVE SupportInv'
<1>1. PICK call \in WorkRecord :
        /\ call = work[a] /\ Knows(call) /\ call.op \in {"SUP", "ST"}
        /\ Number(call) \in Taken(call.op)
  BY DEF SupportInv, SupportTyped, NumberTaken
<1>2. call.count \in Nat /\ call.attempt \in Nat /\ call.made \in Nat
      /\ Cardinality(Of("SUP")) \in Nat /\ Cardinality(Of("ST")) \in Nat
  BY SupportFinite DEF WorkRecord
<1>3. call.op = "SUP" => call.made = call.count
                         /\ call.count + call.attempt + 1 <= Cardinality(Of("SUP"))
  <2>1. CASE call.op = "SUP"
    <3>1. Number(call) \in 1..Cardinality(Of("SUP"))
      BY <1>1, <2>1 DEF SupportInv, NumbersFollow
    <3> QED BY <1>1, <1>2, <2>1, <3>1 DEF Number, Knows
  <2> QED BY <2>1
<1>4. call.op = "ST" => call.attempt = 0 /\ call.made + 1 <= Cardinality(Of("ST"))
  <2>1. CASE call.op = "ST"
    <3>1. call.attempt = 0 /\ call.made <= Cardinality(Of("ST"))
      BY <1>1, <2>1 DEF Knows
    <3>2. Number(call) = call.count + 1
      BY <1>2, <3>1 DEF Number
    <3>3. Cardinality(Of("ST")) # call.made
      BY <1>1, <1>2, <2>1, <3>2 DEF Knows
    <3> QED BY <1>2, <3>1, <3>3
  <2> QED BY <2>1
<1>5. CASE call.attempt + 1 < Attempts(call.op)
  <2>1. call.op = "SUP"
    BY <1>1, <1>2, <1>4, <1>5 DEF Attempts
  <2>2. PICK x : x = [call EXCEPT !.attempt = call.attempt + 1]
    OBVIOUS
  <2>3. work' = [work EXCEPT ![a] = x] /\ support' = support /\ failed' = failed
    BY <1>1, <1>5, <2>2 DEF NumberTaken, SupportInv, SupportTyped
  <2>4. x \in WorkRecord /\ x.op = "SUP" /\ x.count = call.count /\ x.made = call.made
        /\ x.attempt = call.attempt + 1
    BY <1>2, <2>1, <2>2 DEF WorkRecord
  <2>5. Knows(x)
    BY <1>2, <1>3, <2>1, <2>4 DEF Knows, Staff
  <2> QED BY <2>3, <2>4, <2>5, TicketsLeft
<1>6. CASE ~(call.attempt + 1 < Attempts(call.op))
  <2>1. PICK f : f = [series |-> call.op, since |-> Cardinality(Of(call.op)) - call.made]
    OBVIOUS
  <2>2. work' = [work EXCEPT ![a] = AtRest] /\ support' = support /\ failed' = failed \cup {f}
    BY <1>1, <1>6, <2>1 DEF NumberTaken, End
  <2>3. f.since >= Attempts(f.series)
    <3>1. CASE call.op = "SUP"
      BY <1>2, <1>3, <1>6, <2>1, <3>1, SupportAssumption DEF Attempts
    <3>2. CASE call.op = "ST"
      BY <1>2, <1>4, <2>1, <3>2 DEF Attempts
    <3> QED BY <1>1, <3>1, <3>2
  <2> QED BY <2>2, <2>3, AtRestKnows, TicketsLeft
<1> QED BY <1>5, <1>6

LEMMA FindTicketStep == ASSUME SupportInv, NEW a \in Requests, FindTicket(a) PROVE SupportInv'
<1>1. PICK t \in Filed, op \in Staff :
        Begin(a, [AtRest EXCEPT !.op = op, !.ticket = t, !.saw = support[t].status])
  BY DEF FindTicket, Staff
<1>2. t \in Nat /\ support[t] \in TicketRecord
  BY SupportAssumption DEF Filed, SupportInv, SupportTyped
<1>3. PICK x : x = [AtRest EXCEPT !.op = op, !.ticket = t, !.saw = support[t].status]
  OBVIOUS
<1>4. x \in WorkRecord /\ x.op = op /\ x.ticket = t
  BY <1>2, <1>3 DEF AtRest, WorkRecord, TicketRecord
<1>5. Knows(x)
  BY <1>1, <1>4 DEF Knows, Staff
<1> QED BY <1>1, <1>3, <1>4, <1>5, TicketsLeft DEF Begin

LEMMA ReopenedIs ==
    ASSUME NEW ticket \in TicketRecord, NEW x, x = Reopened(ticket)
    PROVE  /\ x \in TicketRecord /\ x.status = "REOPENED" /\ ~x.resolvedAt /\ ~x.closedAt
           /\ x.series = ticket.series /\ x.number = ticket.number
BY DEF Reopened, TicketRecord

\* What a call of the staff, or a transition, makes of a ticket.
LEMMA ResultIs ==
    ASSUME NEW ticket \in TicketRecord, ticket.status # "none", DatesHold(ticket),
           NEW call \in WorkRecord, NEW x, x = Result(call, ticket)
    PROVE  /\ x \in TicketRecord /\ x.status # "none" /\ DatesHold(x)
           /\ x.series = ticket.series /\ x.number = ticket.number
           /\ ticket.status \in REOPENABLE_STATUSES =>
                 x.status \in REOPENABLE_STATUSES \cup {"REOPENED"} \/ x.torn
<1>1. PICK torn \in BOOLEAN : torn = (ticket.status # call.saw)
  OBVIOUS
<1>2. CASE Moves(call.op, call.saw)
  <2>1. x = [ticket EXCEPT !.status = "IN_PROGRESS", !.torn = torn]
    <3>1. call.op # "resolve" /\ call.op # "reopen"
      BY <1>2 DEF Moves
    <3>2. x = [ticket EXCEPT !.status = "IN_PROGRESS", !.torn = (ticket.status # call.saw)]
      BY <1>2, <3>1, Zenon DEF Result
    <3> QED BY <1>1, <3>2, Zenon
  <2>2. x \in TicketRecord /\ x.status = "IN_PROGRESS" /\ x.series = ticket.series
        /\ x.number = ticket.number
    BY <2>1 DEF TicketRecord
  <2>3. (x.torn <=> torn) /\ (x.resolvedAt <=> ticket.resolvedAt)
        /\ (x.closedAt <=> ticket.closedAt)
    BY <2>1 DEF TicketRecord
  <2>4. call.saw = "OPEN"
    BY <1>2 DEF Moves, WorkRecord
  <2> QED BY <1>1, <2>2, <2>3, <2>4 DEF DatesHold, REOPENABLE_STATUSES
<1>3. CASE ~Moves(call.op, call.saw) /\ call.op = "resolve"
  <2>1. x = [ticket EXCEPT !.status = "RESOLVED", !.resolvedAt = TRUE, !.torn = torn]
    BY <1>1, <1>3 DEF Result
  <2> QED BY <2>1 DEF TicketRecord, DatesHold, REOPENABLE_STATUSES
<1>4. CASE ~Moves(call.op, call.saw) /\ call.op = "reopen"
  <2>1. x = Reopened(ticket)
    BY <1>4 DEF Result
  <2> QED BY <2>1, ReopenedIs DEF DatesHold
<1>5. CASE ~Moves(call.op, call.saw) /\ call.op \notin {"resolve", "reopen"}
  BY <1>5 DEF Result
<1> QED BY <1>2, <1>3, <1>4, <1>5

LEMMA transitionIs ==
    ASSUME NEW ticket \in TicketRecord, DatesHold(ticket),
           NEW status \in {"RESOLVED", "CLOSED", "REOPENED"}, NEW x, x = transition(ticket, status)
    PROVE  /\ x \in TicketRecord /\ x.status # "none" /\ DatesHold(x)
           /\ x.series = ticket.series /\ x.number = ticket.number
           /\ x.status \in REOPENABLE_STATUSES \cup {"REOPENED"}
<1>1. CASE status = "RESOLVED"
  <2>1. x = [ticket EXCEPT !.status = "RESOLVED", !.resolvedAt = TRUE, !.torn = FALSE]
    BY <1>1 DEF transition
  <2> QED BY <2>1 DEF TicketRecord, DatesHold, REOPENABLE_STATUSES
<1>2. CASE status = "CLOSED"
  <2>1. x = [ticket EXCEPT !.status = "CLOSED", !.closedAt = TRUE, !.torn = FALSE]
    BY <1>2 DEF transition
  <2> QED BY <2>1 DEF TicketRecord, DatesHold, REOPENABLE_STATUSES
<1>3. CASE status = "REOPENED"
  BY <1>3, ReopenedIs DEF transition, DatesHold
<1> QED BY <1>1, <1>2, <1>3

\* A filed ticket is written.
LEMMA OneWritten ==
    ASSUME SupportInv, NEW t \in Filed, NEW x \in TicketRecord, x.status # "none", DatesHold(x),
           x.series = support[t].series, x.number = support[t].number,
           support' = [support EXCEPT ![t] = x]
    PROVE  /\ SameNumbers /\ support' \in [Tickets -> TicketRecord]
           /\ \A s \in Tickets : DatesHold(support'[s])
BY DEF SameNumbers, SupportInv, SupportTyped, Filed

LEMMA WriteTicketStep ==
    ASSUME SupportInv, NEW a \in Requests, WriteTicket(a) PROVE SupportInv' /\ SameNumbers
<1>1. PICK call \in WorkRecord :
        /\ call = work[a] /\ call.ticket \in Filed
        /\ support' = [support EXCEPT ![call.ticket] = Result(call, support[call.ticket])]
        /\ work' = [work EXCEPT ![a] = AtRest] /\ failed' = failed
  BY DEF SupportInv, SupportTyped, WriteTicket, Knows, Staff, End
<1>2. PICK t, x : t \in Filed /\ t = call.ticket /\ x = Result(call, support[t])
  BY <1>1
<1>3. support[t] \in TicketRecord /\ support[t].status # "none" /\ DatesHold(support[t])
  BY <1>2 DEF SupportInv, SupportTyped, Filed
<1>4. x \in TicketRecord /\ x.status # "none" /\ DatesHold(x)
      /\ x.series = support[t].series /\ x.number = support[t].number
  BY <1>2, <1>3, ResultIs
<1>5. /\ SameNumbers /\ support' \in [Tickets -> TicketRecord]
      /\ \A s \in Tickets : DatesHold(support'[s])
  BY <1>1, <1>2, <1>4, OneWritten
<1> QED BY <1>1, <1>5, AtRestKnows, WorkGoesOn

LEMMA TransitionStep == ASSUME SupportInv, Transition PROVE SupportInv' /\ SameNumbers
<1>1. PICK t, status, x :
        /\ t \in Filed /\ status \in {"RESOLVED", "CLOSED", "REOPENED"}
        /\ x = transition(support[t], status) /\ support' = [support EXCEPT ![t] = x]
        /\ work' = work /\ failed' = failed
  BY DEF Transition
<1>2. support[t] \in TicketRecord /\ DatesHold(support[t])
  BY <1>1 DEF SupportInv, SupportTyped, Filed
<1>3. x \in TicketRecord /\ x.status # "none" /\ DatesHold(x)
      /\ x.series = support[t].series /\ x.number = support[t].number
  BY <1>1, <1>2, transitionIs
<1>4. /\ SameNumbers /\ support' \in [Tickets -> TicketRecord]
      /\ \A s \in Tickets : DatesHold(support'[s])
  BY <1>1, <1>3, OneWritten
<1>5. SupportTyped'
  BY <1>1, <1>4 DEF SupportInv, SupportTyped
<1>6. ASSUME NEW s \in Tickets PROVE DatesHold(support[s])'
  <2>1. PICK y : y = support'[s] /\ DatesHold(y)
    BY <1>4
  <2> QED BY <2>1 DEF DatesHold
<1>7. ASSUME NEW b \in Requests PROVE Knows(work[b])'
  <2>1. PICK y : y = work[b] /\ y = work'[b] /\ Knows(y)
    BY <1>1 DEF SupportInv
  <2>2. Knows(y)'
    BY <1>4, <2>1, NothingFiled
  <2> QED BY <2>1, <2>2
<1>8. NumbersFollow' /\ RefusedByOthers'
  BY <1>1, <1>4, NothingFiled DEF SupportInv, NumbersFollow, RefusedByOthers, Attempts
<1> QED BY <1>4, <1>5, <1>6, <1>7, <1>8 DEF SupportInv

\* What a ticket that is filed changes in the sets of tickets and of numbers.
LEMMA TicketFiled ==
    ASSUME SupportInv, NEW a \in Requests, CreateTicket(a),
           NEW series, series = work[a].op, NEW n, n = Number(work[a])
    PROVE  /\ Knows(work[a]) /\ series \in {"SUP", "ST"} /\ n \in Nat /\ n \notin Taken(series)
           /\ n = work[a].count + 1 + work[a].attempt
           /\ work[a].count \in Nat /\ work[a].attempt \in Nat /\ work[a].made \in Nat
           /\ work' = [work EXCEPT ![a] = AtRest] /\ failed' = failed
           /\ \E t \in Tickets, x \in TicketRecord :
                 /\ x.status = "OPEN" /\ ~x.resolvedAt /\ ~x.closedAt
                 /\ support'[t] = x /\ \A s \in Tickets \ {t} : support'[s] = support[s]
                 /\ support' = [support EXCEPT ![t] = x]
                 /\ Filed' = Filed \cup {t}
           /\ Taken(series)' = Taken(series) \cup {n}
           /\ \A other : other # series => Taken(other)' = Taken(other)
           /\ Cardinality(Filed)' = Cardinality(Filed) + 1 /\ Cardinality(Filed) \in Nat
           /\ Cardinality(Of(series))' = Cardinality(Of(series)) + 1
           /\ Cardinality(Of(series)) \in Nat
           /\ \A other : other # series => Cardinality(Of(other))' = Cardinality(Of(other))
<1>1. PICK call \in WorkRecord :
        /\ call = work[a] /\ Knows(call) /\ call.op \in {"SUP", "ST"}
        /\ Number(call) \notin Taken(call.op)
  BY DEF SupportInv, SupportTyped, CreateTicket
<1>2. PICK t, owned, x :
        /\ t \in Tickets \ Filed /\ owned \in BOOLEAN
        /\ x = [NotMade EXCEPT !.status = "OPEN", !.series = call.op,
                               !.number = Number(call), !.owned = owned]
        /\ support' = [support EXCEPT ![t] = x]
        /\ work' = [work EXCEPT ![a] = AtRest] /\ failed' = failed
  BY <1>1 DEF CreateTicket, End
<1>0. n = Number(call) /\ series = call.op
  BY <1>1
<1>3. call.count \in Nat /\ call.attempt \in Nat /\ call.made \in Nat /\ n \in Nat
      /\ n = call.count + 1 + call.attempt
  BY <1>0 DEF WorkRecord, Number
<1>4. x \in TicketRecord /\ x.status = "OPEN" /\ x.series = series /\ x.number = n
      /\ ~x.resolvedAt /\ ~x.closedAt
  BY <1>0, <1>1, <1>2, <1>3 DEF NotMade, TicketRecord
<1>5. support'[t] = x /\ \A s \in Tickets \ {t} : support'[s] = support[s]
  BY <1>2 DEF SupportInv, SupportTyped
<1>6. t \notin Filed /\ t \in Tickets /\ support[t].status = "none"
  BY <1>2 DEF Filed
<1>7. Filed' = Filed \cup {t}
  BY <1>4, <1>5, <1>6 DEF Filed
<1>8. Of(series)' = Of(series) \cup {t} /\ t \notin Of(series)
      /\ \A other : other # series => Of(other)' = Of(other)
  BY <1>4, <1>5, <1>6, <1>7 DEF Of, Filed
<1>9. Taken(series)' = Taken(series) \cup {n}
      /\ \A other : other # series => Taken(other)' = Taken(other)
  <2>1. ASSUME NEW other, NEW s \in Of(other) PROVE s # t /\ support'[s] = support[s]
    BY <1>5, <1>6, <2>1 DEF Of, Filed
  <2> QED BY <1>4, <1>5, <1>8, <2>1 DEF Taken
<1>10. /\ Cardinality(Filed)' = Cardinality(Filed) + 1 /\ Cardinality(Filed) \in Nat
       /\ Cardinality(Of(series))' = Cardinality(Of(series)) + 1
       /\ Cardinality(Of(series)) \in Nat
       /\ \A other : other # series => Cardinality(Of(other))' = Cardinality(Of(other))
  <2>1. IsFiniteSet(Filed) /\ IsFiniteSet(Of(series))
        /\ Cardinality(Filed) \in Nat /\ Cardinality(Of(series)) \in Nat
    BY SupportFinite
  <2> QED BY <1>6, <1>7, <1>8, <2>1, FS_AddElement
<1> QED BY <1>0, <1>1, <1>2, <1>3, <1>4, <1>5, <1>6, <1>7, <1>9, <1>10

LEMMA CreateTicketStep == ASSUME SupportInv, NEW a \in Requests, CreateTicket(a) PROVE SupportInv'
<1>1. PICK call, series, n : call = work[a] /\ series = call.op /\ n = Number(call)
  OBVIOUS
<1>2. /\ Knows(call) /\ series \in {"SUP", "ST"} /\ n = call.count + 1 + call.attempt
      /\ n \notin Taken(series)
      /\ call.count \in Nat /\ call.attempt \in Nat /\ call.made \in Nat /\ n \in Nat
      /\ work' = [work EXCEPT ![a] = AtRest] /\ failed' = failed
  BY <1>1, TicketFiled
<1>5. PICK t \in Tickets, x \in TicketRecord :
        /\ x.status = "OPEN" /\ ~x.resolvedAt /\ ~x.closedAt
        /\ support'[t] = x /\ \A s \in Tickets \ {t} : support'[s] = support[s]
        /\ support' = [support EXCEPT ![t] = x]
        /\ Filed' = Filed \cup {t}
  BY <1>1, TicketFiled
<1>9. Taken(series)' = Taken(series) \cup {n}
      /\ \A other : other # series => Taken(other)' = Taken(other)
  BY <1>1, TicketFiled
<1>10. /\ Cardinality(Filed)' = Cardinality(Filed) + 1 /\ Cardinality(Filed) \in Nat
       /\ Cardinality(Of(series))' = Cardinality(Of(series)) + 1
       /\ Cardinality(Of(series)) \in Nat
       /\ \A other : other # series => Cardinality(Of(other))' = Cardinality(Of(other))
  BY <1>1, TicketFiled
<1>11. NumbersFollow'
  <2>1. CASE series = "SUP"
    <3>1. Taken("SUP") = 1..Cardinality(Of("SUP"))
          /\ (\A m \in Taken("ST") : m <= Cardinality(Filed))
      BY DEF SupportInv, NumbersFollow
    <3>2. n = Cardinality(Of("SUP")) + 1
      BY <1>1, <1>2, <1>10, <2>1, <3>1 DEF Knows
    <3>3. Taken("SUP")' = 1..(Cardinality(Of("SUP")) + 1)
      <4>1. PICK k \in Nat : k = Cardinality(Of("SUP"))
        BY <1>10, <2>1
      <4>2. Taken("SUP")' = (1..k) \cup {k + 1}
        BY <1>9, <2>1, <3>1, <3>2, <4>1
      <4>3. (1..k) \cup {k + 1} = 1..(k + 1)
        OBVIOUS
      <4> QED BY <4>1, <4>2, <4>3
    <3>4. \A m \in Taken("ST")' : m <= Cardinality(Filed) + 1
      <4>1. \A m \in Taken("ST") : m \in Nat
        BY DEF Taken, Of, Filed, SupportInv, SupportTyped, TicketRecord
      <4> QED BY <1>9, <1>10, <2>1, <3>1, <4>1
    <3> QED BY <1>10, <2>1, <3>3, <3>4 DEF NumbersFollow
  <2>2. CASE series = "ST"
    <3>1. Taken("SUP") = 1..Cardinality(Of("SUP"))
          /\ (\A m \in Taken("ST") : m <= Cardinality(Filed))
      BY DEF SupportInv, NumbersFollow
    <3>2. n <= Cardinality(Filed) + 1
      BY <1>1, <1>2, <1>10, <2>2 DEF Knows
    <3>3. \A m \in Taken("ST")' : m <= Cardinality(Filed) + 1
      <4>1. \A m \in Taken("ST") : m \in Nat
        BY DEF Taken, Of, Filed, SupportInv, SupportTyped, TicketRecord
      <4> QED BY <1>9, <1>10, <2>2, <3>1, <3>2, <4>1
    <3>4. Taken("SUP")' = Taken("SUP") /\ Cardinality(Of("SUP"))' = Cardinality(Of("SUP"))
      BY <1>9, <1>10, <2>2
    <3> QED BY <1>10, <3>1, <3>3, <3>4 DEF NumbersFollow
  <2> QED BY <1>2, <2>1, <2>2
<1>12. ASSUME NEW other \in WorkRecord, Knows(other) PROVE Knows(other)'
  <2>1. other.count \in Nat /\ other.attempt \in Nat /\ other.made \in Nat
    BY DEF WorkRecord
  <2>2. other.op \in Staff => other.ticket \in Filed'
    BY <1>5, <1>12 DEF Knows
  <2>3. Cardinality(Of("SUP")) \in Nat /\ Cardinality(Of("ST")) \in Nat
    BY SupportFinite
  <2>4. /\ Cardinality(Of("SUP"))' = Cardinality(Of("SUP"))
           \/ Cardinality(Of("SUP"))' = Cardinality(Of("SUP")) + 1
        /\ (Cardinality(Of("ST"))' = Cardinality(Of("ST")) /\ Taken("ST")' = Taken("ST"))
           \/ Cardinality(Of("ST"))' = Cardinality(Of("ST")) + 1
    BY <1>2, <1>9, <1>10
  <2> QED BY <1>10, <1>12, <2>1, <2>2, <2>3, <2>4 DEF Knows
<1>13. ASSUME NEW b \in Requests PROVE Knows(work[b])'
  <2>1. PICK y \in WorkRecord : y = work'[b] /\ Knows(y)
    BY <1>2, AtRestKnows DEF SupportInv, SupportTyped
  <2>2. Knows(y)'
    BY <1>12, <2>1
  <2> QED BY <2>1, <2>2
<1>14. SupportTyped'
  BY <1>2, <1>5, AtRestKnows DEF SupportInv, SupportTyped
<1>15. ASSUME NEW s \in Tickets PROVE DatesHold(support[s])'
  <2>1. PICK y : y = support'[s] /\ DatesHold(y)
    BY <1>5 DEF SupportInv, DatesHold
  <2> QED BY <2>1 DEF DatesHold
<1>16. RefusedByOthers'
  BY <1>2 DEF SupportInv, RefusedByOthers, Attempts
<1> QED BY <1>11, <1>13, <1>14, <1>15, <1>16 DEF SupportInv

LEMMA SupportInitially == ASSUME SupportInit PROVE SupportInv
<1>1. NotMade \in TicketRecord /\ NotMade.status = "none"
  BY DEF NotMade, TicketRecord
<1>2. SupportTyped /\ (\A t \in Tickets : support[t] = NotMade)
      /\ (\A a \in Requests : work[a] = AtRest) /\ failed = {}
  BY <1>1, AtRestKnows DEF SupportInit, SupportTyped
<1>3. Filed = {}
  BY <1>1, <1>2 DEF Filed
<1>4. \A series : Of(series) = {} /\ Taken(series) = {}
  BY <1>3 DEF Of, Taken
<1>5. NumbersFollow
  BY <1>3, <1>4, FS_EmptySet DEF NumbersFollow
<1>6. \A t \in Tickets : DatesHold(support[t])
  BY <1>1, <1>2 DEF DatesHold
<1> QED BY <1>2, <1>5, <1>6, AtRestKnows DEF SupportInv, RefusedByOthers

LEMMA SupportGoesOn == ASSUME SupportInv, [SupportNext]_supportVars PROVE SupportInv'
<1>1. CASE Transition
  BY <1>1, TransitionStep
<1>2. ASSUME NEW a \in Requests, CutShort(a) PROVE SupportInv'
  <2>1. work' = [work EXCEPT ![a] = AtRest] /\ support' = support /\ failed' = failed
    BY <1>2 DEF CutShort, End
  <2> QED BY <2>1, AtRestKnows, TicketsLeft
<1>3. ASSUME NEW a \in Requests,
             \/ CountTickets(a) \/ CreateTicket(a) \/ NumberTaken(a)
             \/ FindTicket(a) \/ WriteTicket(a)
      PROVE  SupportInv'
  BY <1>3, CountStep, CreateTicketStep, NumberTakenStep, FindTicketStep, WriteTicketStep
<1>4. CASE UNCHANGED supportVars
  <2>1. /\ UNCHANGED support /\ UNCHANGED work /\ UNCHANGED failed
    BY <1>4 DEF supportVars
  <2> QED BY <2>1 DEF SupportInv, SupportTyped, DatesHold, Knows, NumbersFollow, RefusedByOthers,
              Filed, Of, Taken, Attempts
<1> QED BY <1>1, <1>2, <1>3, <1>4 DEF SupportNext

LEMMA SupportAlways == SupportSpec => []SupportInv
BY SupportInitially, SupportGoesOn, PTL DEF SupportSpec

\* A resolved or closed ticket has its date and one that is worked on has none, unless
\* an assignment or a reply was written after another call had changed the status.
THEOREM DatesAlwaysFollow == SupportSpec => []DatesFollowStatus
<1>1. ASSUME SupportInv PROVE DatesFollowStatus
  <2>1. ASSUME NEW t \in Filed
        PROVE  /\ support[t].status = "RESOLVED" => support[t].resolvedAt
               /\ support[t].status = "CLOSED" => support[t].closedAt
               /\ support[t].status \in RESOLVABLE_STATUSES
                     /\ (support[t].resolvedAt \/ support[t].closedAt) => support[t].torn
    <3>1. support[t] \in TicketRecord /\ DatesHold(support[t])
      BY <1>1 DEF SupportInv, SupportTyped, Filed
    <3> QED BY <3>1 DEF DatesHold, TicketRecord, RESOLVABLE_STATUSES
  <2> QED BY <2>1 DEF DatesFollowStatus
<1> QED BY <1>1, SupportAlways, PTL

\* The platform's tickets are numbered without a gap, however many creates count and
\* number at the same time, and no organization's number is above that of tickets.
THEOREM NumbersAlwaysFollow == SupportSpec => []NumbersFollow
<1>1. SupportInv => NumbersFollow
  BY DEF SupportInv
<1> QED BY <1>1, SupportAlways, PTL

\* Counting and trying implements giving the numbers out one after the other, for any
\* number of tickets, requests and attempts: each create that succeeds is one step of
\* Numbering, and nothing else moves a number.
THEOREM NumbersAreGivenOut == SupportSpec => ImplementsNumbering
<1>1. ASSUME SupportInit PROVE Promised!Init
  <2>1. Filed = {}
    BY <1>1 DEF SupportInit, Filed, NotMade
  <2> QED BY <2>1, FS_EmptySet DEF Promised!Init, Taken, Of
<1>2. ASSUME SupportInv, SupportInv', NEW a \in Requests, CreateTicket(a) PROVE Promised!Next
  <2>1. PICK series, n : series = work[a].op /\ n = Number(work[a])
    OBVIOUS
  <2>2. CASE series = "SUP"
    <3>1. PICK k \in Nat : k = Cardinality(Of("SUP")) /\ Cardinality(Of("SUP"))' = k + 1
      BY <1>2, <2>1, <2>2, TicketFiled
    <3>2. Taken("SUP") = 1..k /\ Taken("SUP")' = 1..(k + 1)
      BY <1>2, <3>1 DEF SupportInv, NumbersFollow
    <3>3. k <= Cardinality(Filed) /\ Cardinality(Filed) \in Nat
      <4>1. Of("SUP") \subseteq Filed
        BY DEF Of
      <4> QED BY <3>1, <4>1, SupportFinite, FS_Subset
    <3>4. UNCHANGED Taken("ST") /\ Cardinality(Filed)' = Cardinality(Filed) + 1
      BY <1>2, <2>1, <2>2, TicketFiled
    <3> QED BY <3>2, <3>3, <3>4 DEF Promised!Next, Promised!GiveNext
  <2>3. CASE series = "ST"
    <3>1. /\ Knows(work[a]) /\ n \in Nat /\ n = work[a].count + 1 + work[a].attempt
          /\ work[a].count \in Nat /\ n \notin Taken("ST")
          /\ Taken("ST")' = Taken("ST") \cup {n} /\ UNCHANGED Taken("SUP")
          /\ Cardinality(Filed)' = Cardinality(Filed) + 1 /\ Cardinality(Filed) \in Nat
      BY <1>2, <2>1, <2>3, TicketFiled
    <3>2. n \in (1..(Cardinality(Filed) + 1)) \ Taken("ST")
      BY <2>1, <2>3, <3>1 DEF Knows
    <3> QED BY <3>1, <3>2 DEF Promised!Next, Promised!GiveFree
  <2> QED BY <1>2, <2>1, <2>2, <2>3, TicketFiled
<1>3. ASSUME SupportInv, SupportNext, \A a \in Requests : ~ CreateTicket(a)
      PROVE  UNCHANGED Promised!vars
  <2>1. SameNumbers
    <3>1. ASSUME NEW a \in Requests, WriteTicket(a) PROVE SameNumbers
      BY <1>3, <3>1, WriteTicketStep
    <3>2. ASSUME NEW a \in Requests,
                 CountTickets(a) \/ NumberTaken(a) \/ FindTicket(a) \/ CutShort(a)
          PROVE  SameNumbers
      BY <3>2 DEF CountTickets, NumberTaken, FindTicket, CutShort, Begin, SameNumbers
    <3> QED BY <1>3, <3>1, <3>2, TransitionStep DEF SupportNext
  <2> QED BY <2>1, NothingFiled DEF Promised!vars
<1>4. ASSUME UNCHANGED supportVars PROVE UNCHANGED Promised!vars
  BY <1>4 DEF supportVars, Promised!vars, Taken, Of, Filed
<1>5. ASSUME SupportInv, SupportInv', [SupportNext]_supportVars
      PROVE  [Promised!Next]_(Promised!vars)
  BY <1>2, <1>3, <1>4, <1>5
<1> QED BY <1>1, <1>5, SupportAlways, PTL DEF SupportSpec, ImplementsNumbering, Promised!Spec

\* A create gives up only when as many others as it has attempts got in between.
THEOREM AlwaysRefusedByOthers == SupportSpec => []RefusedByOthers
<1>1. SupportInv => RefusedByOthers
  BY DEF SupportInv
<1> QED BY <1>1, SupportAlways, PTL

\* A resolved or closed ticket is worked on again only when it is reopened, or by a
\* call that had read it before.
THEOREM DoneStaysDone == SupportSpec => DoneUntilReopened
<1>1. ASSUME SupportInv, SupportNext, NEW t \in Tickets,
             support[t].status \in REOPENABLE_STATUSES
      PROVE  support'[t].status \in REOPENABLE_STATUSES \cup {"REOPENED"} \/ support'[t].torn
  <2>1. CASE support'[t] = support[t]
    BY <1>1, <2>1
  <2>2. ASSUME NEW a \in Requests, CreateTicket(a) PROVE support'[t] = support[t]
    <3>1. PICK s, x : s \in Tickets \ Filed /\ support' = [support EXCEPT ![s] = x]
      BY <2>2 DEF CreateTicket
    <3>2. t \in Filed
      BY <1>1 DEF Filed, REOPENABLE_STATUSES
    <3> QED BY <1>1, <3>1, <3>2 DEF SupportInv, SupportTyped
  <2>3. ASSUME NEW a \in Requests, WriteTicket(a), support'[t] # support[t]
        PROVE  support'[t].status \in REOPENABLE_STATUSES \cup {"REOPENED"} \/ support'[t].torn
    <3>1. PICK call \in WorkRecord : t = call.ticket /\ support'[t] = Result(call, support[t])
      BY <1>1, <2>3 DEF WriteTicket, SupportInv, SupportTyped
    <3>2. support[t] \in TicketRecord /\ support[t].status # "none" /\ DatesHold(support[t])
      BY <1>1 DEF SupportInv, SupportTyped, REOPENABLE_STATUSES
    <3> QED BY <1>1, <3>1, <3>2, ResultIs
  <2>4. ASSUME Transition, support'[t] # support[t]
        PROVE  support'[t].status \in REOPENABLE_STATUSES \cup {"REOPENED"}
    <3>1. PICK status \in {"RESOLVED", "CLOSED", "REOPENED"} :
            support'[t] = transition(support[t], status)
      BY <1>1, <2>4 DEF Transition, SupportInv, SupportTyped
    <3>2. support[t] \in TicketRecord /\ DatesHold(support[t])
      BY <1>1 DEF SupportInv, SupportTyped
    <3> QED BY <3>1, <3>2, transitionIs
  <2>5. ASSUME NEW a \in Requests,
               CountTickets(a) \/ NumberTaken(a) \/ FindTicket(a) \/ CutShort(a)
        PROVE  support'[t] = support[t]
    BY <2>5 DEF CountTickets, NumberTaken, FindTicket, CutShort, Begin
  <2> QED BY <1>1, <2>1, <2>2, <2>3, <2>4, <2>5 DEF SupportNext
<1>2. ASSUME SupportInv, [SupportNext]_supportVars
      PROVE  [\A t \in Tickets :
                support[t].status \in REOPENABLE_STATUSES
                => \/ support'[t].status \in REOPENABLE_STATUSES \cup {"REOPENED"}
                   \/ support'[t].torn]_supportVars
  BY <1>1, <1>2
<1> QED BY <1>2, SupportAlways, PTL DEF SupportSpec, DoneUntilReopened

\* The record services and the support tickets, side by side, run each as they do
\* alone: what is proved above of either part holds of the two together.
THEOREM ServicesRunBoth == ServicesSpec => Spec /\ SupportSpec
<1>1. ServicesInit => Init /\ SupportInit
  BY DEF ServicesInit
<1>2. ASSUME [RecordStep \/ SupportStep]_<<vars, supportVars>>
      PROVE  [Next]_vars /\ [SupportNext]_supportVars
  BY <1>2 DEF RecordStep, SupportStep, Next
<1> QED BY <1>1, <1>2, PTL DEF ServicesSpec, Spec, SupportSpec
=============================================================================
