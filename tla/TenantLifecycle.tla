--------------------------- MODULE TenantLifecycle ---------------------------
(***************************************************************************)
(* The life of one tenant (services/saasadmin/tenants): provisioning, and  *)
(* the four operations on Tenant.status that platform staff run            *)
(* concurrently. Each of them reads the row, checks it, and then updates   *)
(* it by id whatever it has become; suspension and archiving revoke the    *)
(* tenant's sessions and API keys only after that.                         *)
(***************************************************************************)
EXTENDS Naturals

CONSTANTS
    Ops,        \* concurrent requests of platform staff
    NumSteps,   \* length of PROVISIONING_STEPS
    MaxCuts     \* bound on requests cut short

ASSUME TenantAssumption ==
    /\ NumSteps \in Nat \ {0}
    /\ MaxCuts \in Nat

VARIABLES
    tstatus,     \* Tenant.status
    prov,        \* Tenant.provisioningStatus
    configured,  \* how many of the steps' defaults exist (steps run in order)
    op,          \* progress of each request
    live,        \* kinds of live credentials, with their age (see Ages)
    cuts,        \* requests cut short
    skipped,     \* history: the last closing's revocation was cut short
    early        \* history: it was suspended with its defaults missing

tvars == <<tstatus, prov, configured, op, live, cuts, skipped, early>>

TenantStatus == {"PROVISIONING", "ACTIVE", "SUSPENDED", "ARCHIVED", "FAILED"}
ProvisioningStatus == {"NOT_STARTED", "IN_PROGRESS", "COMPLETED", "FAILED"}
Closing == {"suspend", "archive"}
Kinds == {"activate", "reactivate"} \cup Closing

\* Sessions of the tenant's members, and its API keys, apart by whether they
\* were issued before the tenant was last closed or since.
Credentials == {"session", "key"}
Ages == {"before", "since"}

NoOp == [pc |-> "idle", kind |-> "none", step |-> 0]
Pending(kind) == [pc |-> "write", kind |-> kind, step |-> 0]

\* createTenant has made the row; its first provisioning is still to come.
TenantInit ==
    /\ tstatus = "PROVISIONING"
    /\ prov = "NOT_STARTED"
    /\ configured = 0
    /\ op = [p \in Ops |-> NoOp]
    /\ live = {}
    /\ cuts = 0
    /\ skipped = FALSE
    /\ early = FALSE
-----------------------------------------------------------------------------
(* performTenantActivation, -Suspend, -Reactivate and -Archive *)

\* Mutant: an activation that does not look at provisioningStatus.
AllowedUnprovisioned(kind) ==
    \/ kind = "activate" /\ tstatus \notin {"ACTIVE", "ARCHIVED"}
    \/ kind = "suspend" /\ tstatus \notin {"SUSPENDED", "ARCHIVED"}
    \/ kind = "reactivate" /\ tstatus = "SUSPENDED"
    \/ kind = "archive" /\ tstatus \notin {"ARCHIVED", "ACTIVE"}

\* The preconditions each operation checks on the row it reads.
Allowed(kind) ==
    \/ /\ kind = "activate"
       /\ tstatus \notin {"ACTIVE", "ARCHIVED"}
       /\ prov = "COMPLETED"
    \/ /\ kind = "suspend"
       /\ tstatus \notin {"SUSPENDED", "ARCHIVED"}
    \/ /\ kind = "reactivate"
       /\ tstatus = "SUSPENDED"
    \/ /\ kind = "archive"
       /\ tstatus \notin {"ARCHIVED", "ACTIVE"}

CheckStatus(p, kind) ==
    /\ op[p].pc = "idle"
    /\ Allowed(kind)
    /\ op' = [op EXCEPT ![p] = Pending(kind)]
    /\ UNCHANGED <<tstatus, prov, configured, live, cuts, skipped, early>>

\* activate and reactivate update the row and are done.
OpenTenant(p) ==
    /\ op[p].pc = "write"
    /\ op[p].kind \notin Closing
    /\ tstatus' = "ACTIVE"
    /\ op' = [op EXCEPT ![p] = NoOp]
    /\ UNCHANGED <<prov, configured, live, cuts, skipped, early>>

StatusWhenClosed(kind) == IF kind = "suspend" THEN "SUSPENDED" ELSE "ARCHIVED"

\* suspend and archive update the row first ...
CloseTenant(p) ==
    /\ op[p].pc = "write"
    /\ op[p].kind \in Closing
    /\ tstatus' = StatusWhenClosed(op[p].kind)
    /\ op' = [op EXCEPT ![p].pc = "revoke"]
    /\ live' = {<<c, "before">> : c \in {x \in Credentials : \E a \in Ages : <<x, a>> \in live}}
    /\ skipped' = FALSE
    /\ early' = (early \/ (op[p].kind = "suspend" /\ configured < NumSteps))
    /\ UNCHANGED <<prov, configured, cuts>>

\* Mutant: archiving forgets the API keys.
RevokedButKeys(kind) == IF kind \in Closing THEN {"session"} ELSE {}

\* ... and then revoke the sessions, archive the API keys as well.
RevokedBy(kind) == IF kind = "suspend" THEN {"session"} ELSE Credentials

RevokeCredentials(p) ==
    /\ op[p].pc = "revoke"
    /\ live' = {x \in live : x[1] \notin RevokedBy(op[p].kind)}
    /\ op' = [op EXCEPT ![p] = NoOp]
    /\ UNCHANGED <<tstatus, prov, configured, cuts, skipped, early>>
-----------------------------------------------------------------------------
(* provisionTenant, from createTenant, the provision endpoint or a retried  *)
(* job: nothing keeps it from any tenant, nor from running twice at once    *)

ProvisionBegin(p) ==
    /\ op[p].pc = "idle"
    /\ prov' = "IN_PROGRESS"
    /\ op' = [op EXCEPT ![p] = [pc |-> "steps", kind |-> "provision", step |-> 0]]
    /\ UNCHANGED <<tstatus, configured, live, cuts, skipped, early>>

\* One step upserts its defaults; what exists already stays.
ProvisionStep(p) ==
    /\ op[p].pc = "steps"
    /\ op[p].step < NumSteps
    /\ op' = [op EXCEPT ![p].step = @ + 1]
    /\ configured' = IF configured > op[p].step THEN configured ELSE op[p].step + 1
    /\ UNCHANGED <<tstatus, prov, live, cuts, skipped, early>>

\* Mutant: the last step is not waited for.
StepsAlmostDone(p) == op[p].step >= NumSteps - 1

StepsDone(p) == op[p].step = NumSteps

ProvisionSucceed(p) ==
    /\ op[p].pc = "steps"
    /\ StepsDone(p)
    /\ prov' = "COMPLETED"
    /\ op' = [op EXCEPT ![p] = NoOp]
    /\ UNCHANGED <<tstatus, configured, live, cuts, skipped, early>>

\* A step, or the final transaction, throws: the tenant is FAILED whatever
\* its status was.
ProvisionFail(p) ==
    /\ op[p].pc = "steps"
    /\ prov' = "FAILED"
    /\ tstatus' = "FAILED"
    /\ op' = [op EXCEPT ![p] = NoOp]
    /\ UNCHANGED <<configured, live, cuts, skipped, early>>
-----------------------------------------------------------------------------
\* A login or a rotation issues a session, a createApiKey a key. None of them
\* depends on the status at that moment: a login read it before, and the
\* others do not look at it.
IssueCredential(c) ==
    /\ live' = live \cup {<<c, "since">>}
    /\ UNCHANGED <<tstatus, prov, configured, op, cuts, skipped, early>>

\* A request is cut short: a crash, or a database error.
CutShort(p) ==
    /\ op[p].pc # "idle"
    /\ cuts < MaxCuts
    /\ cuts' = cuts + 1
    /\ op' = [op EXCEPT ![p] = NoOp]
    /\ skipped' = (skipped \/ op[p].pc = "revoke")
    /\ UNCHANGED <<tstatus, prov, configured, live, early>>

TenantNext ==
    \/ \E p \in Ops :
          \/ \E kind \in Kinds : CheckStatus(p, kind)
          \/ OpenTenant(p)
          \/ CloseTenant(p)
          \/ RevokeCredentials(p)
          \/ ProvisionBegin(p)
          \/ ProvisionStep(p)
          \/ ProvisionSucceed(p)
          \/ ProvisionFail(p)
          \/ CutShort(p)
    \/ \E c \in Credentials : IssueCredential(c)

TenantSpec == TenantInit /\ [][TenantNext]_tvars
-----------------------------------------------------------------------------
(* Properties *)

\* Every variable keeps to the columns and program counters of the code.
TenantTypeOK ==
    /\ tstatus \in TenantStatus
    /\ prov \in ProvisioningStatus
    /\ configured \in 0..NumSteps
    /\ op \in [Ops -> [pc : {"idle", "write", "revoke", "steps"},
                       kind : Kinds \cup {"none", "provision"}, step : 0..NumSteps]]
    /\ live \subseteq Credentials \X Ages
    /\ cuts \in 0..MaxCuts
    /\ skipped \in BOOLEAN
    /\ early \in BOOLEAN

\* No suspension or archiving is between its update and its revocation, nor
\* was the last one cut short there.
Revoked == ~skipped /\ \A p \in Ops : op[p].pc # "revoke"

\* A closed tenant has cut off whoever was there before: once the revocations
\* of concurrent requests are over, no session issued before the tenant was
\* last closed is alive, nor, when it is archived, an API key.
ClosingCutsOff ==
    Revoked =>
        /\ tstatus \in {"SUSPENDED", "ARCHIVED"} => <<"session", "before">> \notin live
        /\ tstatus = "ARCHIVED" => <<"key", "before">> \notin live

\* However provisionings overlap, fail and are retried, a tenant whose
\* provisioning is COMPLETED has the defaults of every step.
CompletedIsConfigured == prov = "COMPLETED" => configured = NumSteps

\* The only way past the provisioning check of performTenantActivation is a
\* suspension: an ACTIVE tenant that lacks defaults was suspended while it
\* lacked them.
ActiveIsConfigured == tstatus = "ACTIVE" => early \/ configured = NumSteps
=============================================================================
