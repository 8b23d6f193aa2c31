---------------------------- MODULE TenantApprovals ----------------------------
(***************************************************************************)
(* An approval request of an organization and the policy it names          *)
(* (services/itsm/approvals.service.ts).                                   *)
(***************************************************************************)
EXTENDS ConcurrentCalls

CONSTANTS
    Approvers,
    MaxMin       \* the largest minApprovals

ASSUME ApprovalsAssumption == IsFiniteSet(Approvers) /\ MaxMin \in Nat

VARIABLES
    request,     \* the request's status, "none" before it is made, "gone" after
    policy,      \* minApprovals of its policy, 1 without one
    decisions,   \* each approver's decision
    approved,    \* everyone who has ever decided APPROVED
    lowest       \* the least minApprovals that has stood

approvalVars == <<request, policy, decisions, approved, lowest>>

InitApprovals ==
    /\ request = "none" /\ policy \in 1..MaxMin /\ lowest = policy
    /\ decisions = [a \in Approvers |-> "none"] /\ approved = {}

\* A request is made; it is looked up for a cancellation, a decision or a removal.
Ask ==
    /\ request = "none"
    /\ request' = "PENDING"
    /\ UNCHANGED <<policy, decisions, approved, lowest, callVars>>

\* cancel is the plain transition: whatever the status is.
FindRequest(c) ==
    /\ request \notin {"none", "gone"}
    /\ \E op \in {"cancelRequest", "removeRequest"} : Start(c, [Idle EXCEPT !.op = op])
    /\ UNCHANGED approvalVars
CancelRequest(c) ==
    /\ Doing(c, "cancelRequest")
    /\ request' = IF request = "gone" THEN "gone" ELSE "CANCELLED"
    /\ Write(c)
    /\ UNCHANGED <<policy, decisions, approved, lowest>>
RemoveRequest(c) ==
    /\ Doing(c, "removeRequest")
    /\ request' = "gone"
    /\ decisions' = [a \in Approvers |-> "none"]
    /\ Write(c)
    /\ UNCHANGED <<policy, approved, lowest>>

\* decide: the request and its policy are read, the decision is stored in the
\* approver's one row, all decisions are read, and the status they give is written.
DecideRead(c) ==
    /\ request = "PENDING"
    /\ \E a \in Approvers, d \in {"APPROVED", "REJECTED"} :
        Start(c, [Idle EXCEPT !.op = "decide", !.approver = a, !.decision = d, !.min = policy,
                              !.approvals = {b \in Approvers : decisions[b] = "APPROVED"}])
    /\ UNCHANGED approvalVars

DecideRecord(c) ==
    LET call == calls[c] IN
    /\ Doing(c, "decide")
    /\ IF request = "gone" THEN End(c) /\ UNCHANGED <<decisions, approved>>
       ELSE /\ decisions' = [decisions EXCEPT ![call.approver] = call.decision]
            /\ approved' = IF call.decision = "APPROVED"
                           THEN approved \cup {call.approver} ELSE approved
            /\ WriteAnd(c, [call EXCEPT !.op = "tally"])
    /\ UNCHANGED <<request, policy, lowest>>

\* Mutation: the decision at hand is added to the approvals read at first.
VerdictOfFirstRead(call) ==
    IF \E a \in Approvers : decisions[a] = "REJECTED" THEN "REJECTED"
    ELSE IF call.decision = "APPROVED" /\ Cardinality(call.approvals) + 1 >= call.min
    THEN "APPROVED" ELSE "PENDING"

Verdict(call) ==
    IF \E a \in Approvers : decisions[a] = "REJECTED" THEN "REJECTED"
    ELSE IF Cardinality({a \in Approvers : decisions[a] = "APPROVED"}) >= call.min
    THEN "APPROVED" ELSE "PENDING"

DecideTally(c) ==
    /\ Doing(c, "tally")
    /\ ReadAnd(c, [calls[c] EXCEPT !.op = "verdict", !.decision = Verdict(calls[c])])
    /\ UNCHANGED approvalVars

DecideWrite(c) ==
    /\ Doing(c, "verdict")
    /\ request' = IF request = "gone" THEN "gone" ELSE calls[c].decision
    /\ Write(c)
    /\ UNCHANGED <<policy, decisions, approved, lowest>>

\* The policy is changed, or another one is named by the request, or it is removed.
ChangePolicy ==
    /\ \E min \in 1..MaxMin :
        /\ min # policy /\ policy' = min
        /\ lowest' = IF min < lowest THEN min ELSE lowest
    /\ UNCHANGED <<request, decisions, approved, callVars>>

ApprovalStep(c) ==
    \/ FindRequest(c) \/ CancelRequest(c) \/ RemoveRequest(c)
    \/ DecideRead(c) \/ DecideRecord(c) \/ DecideTally(c) \/ DecideWrite(c)
================================================================================
