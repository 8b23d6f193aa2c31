---------------------------- MODULE ApprovalGate ----------------------------
(***************************************************************************)
(* The approval workflow of the platform (services/saasadmin/approvals): a *)
(* policy turns an operation into a request, approvers decide on it, and   *)
(* the decision that completes the quorum runs the operation's executor    *)
(* inside its own HTTP call. Every call reads the request, checks what it  *)
(* read, and then writes by id; the daily maintenance job closes what has  *)
(* expired.                                                                *)
(***************************************************************************)
EXTENDS Naturals, FiniteSets

CONSTANTS
    Requests,   \* rows of ApprovalRequest
    Approvers,  \* staff with admin.approvals.act
    Calls,      \* concurrent calls of decideRequest and cancelRequest
    NoRequest,  \* the request of a call that is not under way
    Nobody,     \* the approver of a call that decides nothing
    MaxMin,     \* bound of minApprovals in createApprovalPolicySchema
    MaxCrashes  \* bound on calls cut short

ASSUME GateAssumption ==
    /\ IsFiniteSet(Approvers)
    /\ NoRequest \notin Requests
    /\ Nobody \notin Approvers
    /\ MaxMin \in Nat \ {0}
    /\ MaxCrashes \in Nat

VARIABLES
    rstatus,       \* ApprovalRequest.status, "ABSENT" before the row exists
    overdue,       \* ApprovalRequest.expiresAt has passed
    decision,      \* the ApprovalDecision of each approver, "NONE" if absent
    minApprovals,  \* ApprovalPolicy.minApprovals
    policyOn,      \* ApprovalPolicy.isEnabled
    call,          \* progress of each call
    crashes,       \* calls cut short
    passed,        \* history: approvers whose decision completed the quorum
    laxest,        \* history: the smallest quorum any of them went by
    ran            \* history: the executor has returned normally

policy == <<minApprovals, policyOn>>
ghosts == <<passed, laxest, ran>>
gvars  == <<rstatus, overdue, decision, policy, call, crashes, ghosts>>

RequestStatus == {"ABSENT", "PENDING", "APPROVED", "REJECTED", "CANCELLED", "EXPIRED"}
Decisions == {"APPROVED", "REJECTED"}
Closed(r) == rstatus[r] \notin {"ABSENT", "PENDING"}
ApprovedBy(r) == {a \in Approvers : decision[r][a] = "APPROVED"}

Call == [pc : {"idle", "record", "reject", "execute", "approve", "expire", "cancel"},
         r : Requests \cup {NoRequest}, by : Approvers \cup {Nobody},
         decides : Decisions \cup {"NONE"}, seen : Nat, min : Nat]

NoCall == [pc |-> "idle", r |-> NoRequest, by |-> Nobody,
           decides |-> "NONE", seen |-> 0, min |-> 0]

GateInit ==
    /\ rstatus = [r \in Requests |-> "ABSENT"]
    /\ overdue = [r \in Requests |-> FALSE]
    /\ decision = [r \in Requests |-> [a \in Approvers |-> "NONE"]]
    /\ minApprovals \in 1..MaxMin
    /\ policyOn \in BOOLEAN
    /\ call = [c \in Calls |-> NoCall]
    /\ crashes = 0
    /\ passed = [r \in Requests |-> {}]
    /\ laxest = [r \in Requests |-> 0]
    /\ ran = [r \in Requests |-> FALSE]

At(c, pc) == call[c].pc = pc
Goto(c, pc) == call' = [call EXCEPT ![c].pc = pc]
Return(c) == call' = [call EXCEPT ![c] = NoCall]
SetStatus(r, s) == rstatus' = [rstatus EXCEPT ![r] = s]
-----------------------------------------------------------------------------
\* evaluateApproval, for an operation the enabled policy covers and a
\* requester who is not a platform owner.
Ask(r) ==
    /\ rstatus[r] = "ABSENT"
    /\ policyOn
    /\ SetStatus(r, "PENDING")
    /\ UNCHANGED <<overdue, decision, policy, call, crashes, ghosts>>

\* updatePolicy, enablePolicy and disablePolicy; open requests go by the
\* policy as it is when they are decided.
UpdatePolicy ==
    /\ minApprovals' \in 1..MaxMin
    /\ policyOn' \in BOOLEAN
    /\ UNCHANGED <<rstatus, overdue, decision, call, crashes, ghosts>>

\* The seven days of expiresAt pass.
Lapse(r) ==
    /\ rstatus[r] # "ABSENT"
    /\ ~overdue[r]
    /\ overdue' = [overdue EXCEPT ![r] = TRUE]
    /\ UNCHANGED <<rstatus, decision, policy, call, crashes, ghosts>>
-----------------------------------------------------------------------------
(* decideRequest *)

\* The request, its policy and its decisions are read: a call on a closed
\* request, or by an approver who has decided it, ends here.
DecideRead(c, r, a, d) ==
    /\ At(c, "idle")
    /\ rstatus[r] = "PENDING"
    /\ \/ /\ overdue[r]
          /\ call' = [call EXCEPT ![c] = [NoCall EXCEPT !.pc = "expire", !.r = r]]
       \/ /\ ~overdue[r]
          /\ decision[r][a] = "NONE"
          /\ call' = [call EXCEPT ![c] = [pc |-> "record", r |-> r, by |-> a, decides |-> d,
                                          seen |-> Cardinality(ApprovedBy(r)),
                                          min |-> minApprovals]]
    /\ UNCHANGED <<rstatus, overdue, decision, policy, crashes, ghosts>>

\* It was overdue when read.
DecideExpire(c) ==
    /\ At(c, "expire")
    /\ SetStatus(call[c].r, "EXPIRED")
    /\ Return(c)
    /\ UNCHANGED <<overdue, decision, policy, crashes, ghosts>>

\* Mutant: one approval counted twice.
QuorumReachedEarly(c) == call[c].seen + 2 >= call[c].min

\* The approvals it saw and its own make the quorum it read.
QuorumReached(c) == call[c].seen + 1 >= call[c].min

\* Mutant: the request approved without its executor.
AfterDecisionUnexecuted(c) ==
    IF call[c].decides = "REJECTED" THEN "reject" ELSE IF QuorumReached(c) THEN "approve" ELSE "idle"

\* Where a recorded decision leads.
AfterDecision(c) ==
    IF call[c].decides = "REJECTED" THEN "reject"
    ELSE IF QuorumReached(c) THEN "execute" ELSE "idle"

Lower(old, new) == IF old = 0 \/ new < old THEN new ELSE old

\* The decision row is created; @@unique([requestId, approverId]) fails a
\* second one of the same approver.
DecideRecord(c) ==
    LET r == call[c].r
        a == call[c].by
        next == AfterDecision(c)
    IN
    /\ At(c, "record")
    /\ decision[r][a] = "NONE"
    /\ decision' = [decision EXCEPT ![r][a] = call[c].decides]
    /\ call' = [call EXCEPT ![c] = IF next = "idle" THEN NoCall ELSE [@ EXCEPT !.pc = next]]
    /\ IF next = "execute"
       THEN /\ passed' = [passed EXCEPT ![r] = @ \cup {a}]
            /\ laxest' = [laxest EXCEPT ![r] = Lower(@, call[c].min)]
       ELSE UNCHANGED <<passed, laxest>>
    /\ UNCHANGED <<rstatus, overdue, policy, crashes, ran>>

DecideDuplicate(c) ==
    /\ At(c, "record")
    /\ decision[call[c].r][call[c].by] # "NONE"
    /\ Return(c)
    /\ UNCHANGED <<rstatus, overdue, decision, policy, crashes, ghosts>>

DecideReject(c) ==
    /\ At(c, "reject")
    /\ SetStatus(call[c].r, "REJECTED")
    /\ Return(c)
    /\ UNCHANGED <<overdue, decision, policy, crashes, ghosts>>

\* The executor returns ...
Execute(c) ==
    /\ At(c, "execute")
    /\ ran' = [ran EXCEPT ![call[c].r] = TRUE]
    /\ Goto(c, "approve")
    /\ UNCHANGED <<rstatus, overdue, decision, policy, crashes, passed, laxest>>

\* ... or throws, or none is registered: the request stays as it is and so
\* does the decision, which its approver cannot repeat.
ExecuteFails(c) ==
    /\ At(c, "execute")
    /\ Return(c)
    /\ UNCHANGED <<rstatus, overdue, decision, policy, crashes, ghosts>>

DecideApprove(c) ==
    /\ At(c, "approve")
    /\ SetStatus(call[c].r, "APPROVED")
    /\ Return(c)
    /\ UNCHANGED <<overdue, decision, policy, crashes, ghosts>>
-----------------------------------------------------------------------------
(* cancelRequest, by the requester or an approver *)

CancelRead(c, r) ==
    /\ At(c, "idle")
    /\ rstatus[r] = "PENDING"
    /\ call' = [call EXCEPT ![c] = [NoCall EXCEPT !.pc = "cancel", !.r = r]]
    /\ UNCHANGED <<rstatus, overdue, decision, policy, crashes, ghosts>>

CancelWrite(c) ==
    /\ At(c, "cancel")
    /\ SetStatus(call[c].r, "CANCELLED")
    /\ Return(c)
    /\ UNCHANGED <<overdue, decision, policy, crashes, ghosts>>
-----------------------------------------------------------------------------
\* Mutant: the deadline compared the wrong way round.
StaleReversed == {r \in Requests : rstatus[r] = "PENDING" /\ ~overdue[r]}

Stale == {r \in Requests : rstatus[r] = "PENDING" /\ overdue[r]}

\* expireStaleRequests of the tenant-maintenance job: one updateMany.
ExpireStale ==
    /\ Stale # {}
    /\ rstatus' = [r \in Requests |-> IF r \in Stale THEN "EXPIRED" ELSE rstatus[r]]
    /\ UNCHANGED <<overdue, decision, policy, call, crashes, ghosts>>

\* A call is cut short: a crash, or a database error.
CutShort(c) ==
    /\ ~At(c, "idle")
    /\ crashes < MaxCrashes
    /\ crashes' = crashes + 1
    /\ Return(c)
    /\ UNCHANGED <<rstatus, overdue, decision, policy, ghosts>>

GateNext ==
    \/ \E r \in Requests : Ask(r) \/ Lapse(r)
    \/ UpdatePolicy
    \/ \E c \in Calls :
          \/ \E r \in Requests :
                \/ \E a \in Approvers, d \in Decisions : DecideRead(c, r, a, d)
                \/ CancelRead(c, r)
          \/ DecideExpire(c)
          \/ DecideRecord(c)
          \/ DecideDuplicate(c)
          \/ DecideReject(c)
          \/ Execute(c)
          \/ ExecuteFails(c)
          \/ DecideApprove(c)
          \/ CancelWrite(c)
          \/ CutShort(c)
    \/ ExpireStale

GateSpec == GateInit /\ [][GateNext]_gvars

\* Time passes and the maintenance job keeps running. Nothing obliges anybody
\* to decide, and a call under way may be stuck for ever in its executor.
GateFairness ==
    /\ \A r \in Requests : WF_gvars(Lapse(r))
    /\ WF_gvars(ExpireStale)

FairGateSpec == GateSpec /\ GateFairness
-----------------------------------------------------------------------------
(* Properties *)

\* Every variable keeps to the columns and program counters of the code.
GateTypeOK ==
    /\ rstatus \in [Requests -> RequestStatus]
    /\ overdue \in [Requests -> BOOLEAN]
    /\ decision \in [Requests -> [Approvers -> Decisions \cup {"NONE"}]]
    /\ minApprovals \in 1..MaxMin
    /\ policyOn \in BOOLEAN
    /\ call \in [Calls -> Call]
    /\ \A c \in Calls :
          /\ ~At(c, "idle") => call[c].r \in Requests
          /\ call[c].pc \in {"record", "reject", "execute", "approve"} => call[c].by \in Approvers
    /\ crashes \in 0..MaxCrashes
    /\ passed \in [Requests -> SUBSET Approvers]
    /\ laxest \in [Requests -> 0..MaxMin]
    /\ ran \in [Requests -> BOOLEAN]

\* However many calls count the same approvals at once, the executor is
\* entered at most once for each approval beyond the smallest quorum that was
\* in force, and never before that quorum of distinct approvers approved.
QuorumBehindExecution ==
    \A r \in Requests :
        passed[r] # {} =>
            Cardinality(passed[r]) + laxest[r] <= Cardinality(ApprovedBy(r)) + 1

\* A request is closed for the reason its status gives, whichever of several
\* unconditional writes came last: APPROVED after its operation ran, REJECTED
\* by somebody who rejected it, EXPIRED after its time.
ClosedForReason ==
    \A r \in Requests :
        /\ rstatus[r] = "APPROVED" => ran[r]
        /\ rstatus[r] = "REJECTED" => \E a \in Approvers : decision[r][a] = "REJECTED"
        /\ rstatus[r] = "EXPIRED" => overdue[r]

\* No request stays open: one whose executor failed, whose last approver
\* crashed, or that nobody may decide any more is closed in the end, for good.
EveryRequestCloses ==
    \A r \in Requests : rstatus[r] = "PENDING" ~> []Closed(r)
=============================================================================
