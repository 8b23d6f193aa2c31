---------------------------- MODULE GatedTenant ----------------------------
(***************************************************************************)
(* A tenant whose suspension, or archiving, is behind the approval gate:   *)
(* requestSuspension and requestArchive ask evaluateApproval first, and    *)
(* services/saasadmin/approvals.registry runs performTenantSuspend and     *)
(* performTenantArchive from inside decideRequest. Staff without the gate, *)
(* approvers' calls and other lifecycle requests interleave step by step.  *)
(***************************************************************************)
EXTENDS ApprovalGate

CONSTANTS
    Staff,      \* concurrent requests on the tenant, each of one staff member
    Owners,     \* those made by a platform owner
    Scope,      \* ApprovalPolicy.actionScope: "suspend" or "archive"
    Issued,     \* kinds of credentials issued meanwhile
    NumSteps, MaxCuts   \* as in TenantLifecycle

VARIABLES
    tstatus, prov, configured, op, live, cuts, skipped, early,
    cleared,   \* closing that a staff request may go on with, past the gate
    exempted,  \* history: the gate has let a request in Scope pass
    enacted    \* history: requests whose executor has updated the tenant

\* Lifecycle requests come from staff and from the calls that run an executor.
T == INSTANCE TenantLifecycle WITH Ops <- Staff \cup Calls

ASSUME GatedAssumption ==
    /\ T!TenantAssumption
    /\ Scope \in {"suspend", "archive"}
    /\ Staff \cap Calls = {}
    /\ Issued \subseteq {"session", "key"}

tenant == <<tstatus, prov, configured, op, live, cuts, skipped, early>>
own    == <<cleared, exempted, enacted>>
vars   == <<gvars, tenant, own>>

Init ==
    /\ GateInit
    /\ T!TenantInit
    /\ cleared = [p \in Staff |-> "none"]
    /\ exempted = FALSE
    /\ enacted = {}
-----------------------------------------------------------------------------
(* requestSuspension and requestArchive *)

\* evaluateApproval finds no enabled policy for the operation, or the
\* requester is a platform owner.
Exempt(p, kind) == kind # Scope \/ ~policyOn \/ p \in Owners

Free(p) == cleared[p] = "none" /\ op[p].pc = "idle"

\* The operation becomes a request: ApprovalRequiredError.
AskApproval(p, r) ==
    /\ Free(p)
    /\ ~Exempt(p, Scope)
    /\ Ask(r)
    /\ UNCHANGED <<tenant, own>>

PassGate(p, kind) ==
    /\ Free(p)
    /\ Exempt(p, kind)
    /\ cleared' = [cleared EXCEPT ![p] = kind]
    /\ exempted' = (exempted \/ kind = Scope)
    /\ UNCHANGED <<gvars, tenant, enacted>>

\* Mutant: the tenant's own preconditions are not checked again.
PerformClosingUnchecked(p) ==
    /\ cleared[p] # "none"
    /\ cleared' = [cleared EXCEPT ![p] = "none"]
    /\ op' = [op EXCEPT ![p] = T!Pending(cleared[p])]
    /\ UNCHANGED <<tstatus, prov, configured, live, cuts, skipped, early>>
    /\ UNCHANGED <<gvars, exempted, enacted>>

\* What passed the gate goes on to the tenant's own preconditions.
PerformClosing(p) ==
    /\ cleared[p] # "none"
    /\ cleared' = [cleared EXCEPT ![p] = "none"]
    /\ \/ T!CheckStatus(p, cleared[p])
       \/ ~T!Allowed(cleared[p]) /\ UNCHANGED tenant
    /\ UNCHANGED <<gvars, exempted, enacted>>

\* What staff began on the tenant, step by step.
Work(p) ==
    \/ T!OpenTenant(p)
    \/ T!CloseTenant(p)
    \/ T!RevokeCredentials(p)
    \/ T!ProvisionBegin(p)
    \/ T!ProvisionStep(p)
    \/ T!ProvisionSucceed(p)
    \/ T!ProvisionFail(p)
    \/ T!CutShort(p)

\* Mutant: a handler that calls performTenantArchive past requestArchive.
StaffStepUngated(p) ==
    /\ cleared[p] = "none"
    /\ Work(p) \/ \E kind \in T!Kinds : T!CheckStatus(p, kind)
    /\ UNCHANGED <<gvars, own>>

\* Everything else staff do to the tenant, and the rest of what they began.
StaffStep(p) ==
    /\ cleared[p] = "none"
    /\ Work(p) \/ \E kind \in {"activate", "reactivate"} : T!CheckStatus(p, kind)
    /\ UNCHANGED <<gvars, own>>
-----------------------------------------------------------------------------
(* The executors, each inside a decideRequest that reached its quorum *)

ExecutorReady(c) == At(c, "execute") /\ op[c].pc = "idle"

ExecutorCheck(c) ==
    /\ ExecutorReady(c)
    /\ T!CheckStatus(c, Scope)
    /\ UNCHANGED <<gvars, own>>

\* Mutant: the executor's error is swallowed.
ExecutorRefusedSwallowed(c) ==
    /\ ExecutorReady(c)
    /\ ~T!Allowed(Scope)
    /\ Execute(c)
    /\ UNCHANGED <<tenant, own>>

\* The tenant is no longer in a state the operation allows.
ExecutorRefused(c) ==
    /\ ExecutorReady(c)
    /\ ~T!Allowed(Scope)
    /\ ExecuteFails(c)
    /\ UNCHANGED <<tenant, own>>

\* Mutant: APPROVED is written before the executor has finished.
ExecutorCloseApproves(c) ==
    /\ T!CloseTenant(c)
    /\ SetStatus(call[c].r, "APPROVED")
    /\ enacted' = enacted \cup {call[c].r}
    /\ UNCHANGED <<overdue, decision, policy, call, crashes, ghosts, cleared, exempted>>

ExecutorClose(c) ==
    /\ T!CloseTenant(c)
    /\ enacted' = enacted \cup {call[c].r}
    /\ UNCHANGED <<gvars, cleared, exempted>>

ExecutorReturns(c) ==
    /\ T!RevokeCredentials(c)
    /\ Execute(c)
    /\ UNCHANGED own

\* A statement of the executor throws.
ExecutorThrows(c) ==
    /\ T!CutShort(c)
    /\ ExecuteFails(c)
    /\ UNCHANGED own

\* The server dies in the middle of a call.
CallCutShort(c) ==
    /\ CutShort(c)
    /\ \/ T!CutShort(c)
       \/ op[c].pc = "idle" /\ UNCHANGED tenant
    /\ UNCHANGED own

\* The rest of the approval workflow does not touch the tenant.
GateStep ==
    /\ \/ UpdatePolicy
       \/ ExpireStale
       \/ \E r \in Requests : Lapse(r)
       \/ \E c \in Calls :
             \/ \E r \in Requests :
                   \/ \E a \in Approvers, d \in {"APPROVED", "REJECTED"} : DecideRead(c, r, a, d)
                   \/ CancelRead(c, r)
             \/ DecideExpire(c)
             \/ DecideRecord(c)
             \/ DecideDuplicate(c)
             \/ DecideReject(c)
             \/ DecideApprove(c)
             \/ CancelWrite(c)
    /\ UNCHANGED <<tenant, own>>

Credential ==
    /\ \E c \in Issued : T!IssueCredential(c)
    /\ UNCHANGED <<gvars, own>>

Next ==
    \/ \E p \in Staff :
          \/ \E r \in Requests : AskApproval(p, r)
          \/ \E kind \in T!Closing : PassGate(p, kind)
          \/ PerformClosing(p)
          \/ StaffStep(p)
    \/ \E c \in Calls :
          \/ ExecutorCheck(c)
          \/ ExecutorRefused(c)
          \/ ExecutorClose(c)
          \/ ExecutorReturns(c)
          \/ ExecutorThrows(c)
          \/ CallCutShort(c)
    \/ GateStep
    \/ Credential

Spec == Init /\ [][Next]_vars
-----------------------------------------------------------------------------
(* Properties *)

\* The two components' invariants, and the shape of what joins them.
TypeOK ==
    /\ GateTypeOK
    /\ T!TenantTypeOK
    /\ cleared \in [Staff -> T!Closing \cup {"none"}]
    /\ exempted \in BOOLEAN
    /\ enacted \subseteq Requests

\* The gate holds: as long as nobody was exempt from it, a tenant is
\* suspended (or archived) only when as many distinct approvers as the policy
\* asked for have approved one and the same request.
GateHolds ==
    tstatus = T!StatusWhenClosed(Scope) =>
        \/ exempted
        \/ \E r \in enacted :
              /\ laxest[r] > 0
              /\ Cardinality(ApprovedBy(r)) >= laxest[r]

\* A request that says APPROVED did close the tenant, also when the executor
\* of another of its approvers was refused or thrown out.
ApprovedWasEnacted ==
    \A r \in Requests : rstatus[r] = "APPROVED" => r \in enacted

\* Joined to the tenant, the gate still runs its own protocol, and the tenant
\* its own: an executor's run is one step of the one and several of the other.
ImplementsGate == GateSpec
ImplementsTenant == T!TenantSpec
=============================================================================
