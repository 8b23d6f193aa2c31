--------------------------- MODULE ServiceDeskProofs ---------------------------
(***************************************************************************)
(* The service desk of an organization, for any number of calls at once:   *)
(* ApprovedByEnough for any approvers and changes of the policy, and then  *)
(* ClocksTurnInOrder and FirstTimesKept for any tickets and service levels.*)
(***************************************************************************)
EXTENDS ServiceDesk, FiniteSetTheorems, TLAPS

Decisions == {"none", "APPROVED", "REJECTED"}
ApprovalOperations == {"idle", "decide", "tally", "verdict", "cancelRequest", "removeRequest"}
ApprovalCall ==
    [op : ApprovalOperations, number : {0}, milestone : {"none"}, approver : Approvers \cup {"none"},
     row : SUBSET {}, minutes : {0}, clocks : SUBSET {}, time : {Never},
     decision : Decisions \cup {"PENDING"}, min : Nat, approvals : SUBSET Approvers,
     given : BOOLEAN, overtaken : BOOLEAN]

ApprovalsTyped ==
    /\ policy \in 1..MaxMin /\ lowest \in 1..MaxMin /\ lowest <= policy
    /\ decisions \in [Approvers -> Decisions]
    /\ approved \in SUBSET Approvers
    /\ calls \in [Callers -> ApprovalCall]

Enough == Cardinality(approved) >= lowest

\* Who stands as having approved has approved; a call that decides counts by a minimum
\* that has stood; and a verdict of approval was reached with enough.
Knows(call) ==
    /\ call.op = "decide" =>
          call.approver \in Approvers /\ call.decision \in {"APPROVED", "REJECTED"}
    /\ call.op \in {"decide", "tally"} => call.min >= lowest
    /\ call.op = "verdict" /\ call.decision = "APPROVED" => Enough
Counted ==
    /\ ApprovalsTyped
    /\ \A a \in Approvers : decisions[a] = "APPROVED" => a \in approved
    /\ \A c \in Callers : Knows(calls[c])

Kept == Counted /\ (request = "APPROVED" => Enough)

DeskInv ==
    /\ desk \in {"tickets", "approvals"}
    /\ desk = "tickets" => request = "none"
    /\ desk = "approvals" => Kept

--------------------------------------------------------------------------------
LEMMA IdleTyped == Idle \in ApprovalCall /\ Idle.op = "idle"
BY DEF Idle, ApprovalCall, Decisions, ApprovalOperations

LEMMA Counting == \A S \in SUBSET Approvers : IsFiniteSet(S) /\ Cardinality(S) \in Nat
<1> TAKE S \in SUBSET Approvers
<1>1. IsFiniteSet(S)
  BY ApprovalsAssumption, FS_Subset
<1> QED BY <1>1, FS_CardinalityType

\* Approvals are not forgotten, and the least minimum falls: what was enough stays enough.
LEMMA EnoughStays ==
    ASSUME ApprovalsTyped, approved' \in SUBSET Approvers, approved \subseteq approved',
           lowest' \in 1..MaxMin, lowest' <= lowest, Enough
    PROVE  Enough'
<1>1. Cardinality(approved) <= Cardinality(approved')
  BY Counting, FS_Subset
<1>2. Cardinality(approved) \in Nat /\ Cardinality(approved') \in Nat
  BY Counting DEF ApprovalsTyped
<1>3. Cardinality(approved) >= lowest
  BY DEF Enough
<1>4. Cardinality(approved') >= lowest'
  BY <1>1, <1>2, <1>3 DEF ApprovalsTyped
<1> QED BY <1>4 DEF Enough

\* A step of one call, the others being overtaken or left alone.
LEMMA CallsGoOn ==
    ASSUME Counted, NEW c \in Callers, NEW call \in ApprovalCall, Knows(call)',
           approved' \in SUBSET Approvers, approved \subseteq approved',
           lowest' \in 1..MaxMin, lowest' <= lowest,
           WriteAnd(c, call) \/ calls' = [calls EXCEPT ![c] = call]
    PROVE  calls' \in [Callers -> ApprovalCall] /\ \A d \in Callers : Knows(calls[d])'
<1>1. calls' = [d \in Callers |-> calls'[d]] /\ calls'[c] = call
  BY DEF Counted, ApprovalsTyped, WriteAnd
<1>2. ASSUME NEW d \in Callers \ {c}
      PROVE  calls'[d] \in ApprovalCall /\ Knows(calls[d])'
  <2>1. calls[d] \in ApprovalCall /\ Knows(calls[d])
    BY DEF Counted, ApprovalsTyped
  <2>2. PICK e \in ApprovalCall :
          /\ e = calls'[d] /\ (e.op = "idle" \/ e.op = calls[d].op)
          /\ e.approver = calls[d].approver \/ e.op = "idle"
          /\ e.decision = calls[d].decision \/ e.op = "idle"
          /\ e.min = calls[d].min \/ e.op = "idle"
    <3>1. calls'[d] = calls[d] \/ calls'[d] = [calls[d] EXCEPT !.overtaken = TRUE] \/ calls'[d] = Idle
      BY DEF WriteAnd, Counted, ApprovalsTyped
    <3>2. CASE calls'[d] = [calls[d] EXCEPT !.overtaken = TRUE]
      <4> DEFINE x == [calls[d] EXCEPT !.overtaken = TRUE]
      <4>1. x \in ApprovalCall /\ x.op = calls[d].op /\ x.approver = calls[d].approver
            /\ x.decision = calls[d].decision /\ x.min = calls[d].min
        BY <2>1 DEF ApprovalCall
      <4> QED BY <3>2, <4>1
    <3> QED BY <2>1, <3>1, <3>2, IdleTyped
  <2>3. Knows(calls[d])'
    <3>1. calls[d].min \in Nat /\ lowest \in Nat /\ lowest' \in Nat /\ lowest' <= lowest
      BY <2>1 DEF ApprovalCall, Counted, ApprovalsTyped
    <3>2. e.op = "idle" \/ (e.op = calls[d].op /\ e.approver = calls[d].approver
                            /\ e.decision = calls[d].decision /\ e.min = calls[d].min)
      BY <2>2
    <3>3. calls[d].op \in {"decide", "tally"} => calls[d].min >= lowest'
      BY <2>1, <3>1 DEF Knows
    <3>4. Enough => Enough'
      BY EnoughStays DEF Counted
    <3> QED BY <2>1, <2>2, <3>2, <3>3, <3>4 DEF Knows
  <2> QED BY <2>2, <2>3
<1>3. Knows(calls[c])'
  BY <1>1 DEF Knows, Enough
<1> QED BY <1>1, <1>2, <1>3

LEMMA IdleKnows == Knows(Idle)'
BY DEF Knows, Idle

\* A step of a call that leaves the decisions and the policy alone.
LEMMA StepOfCall ==
    ASSUME Counted, NEW c \in Callers, NEW call \in ApprovalCall, Knows(call)',
           WriteAnd(c, call) \/ calls' = [calls EXCEPT ![c] = call],
           UNCHANGED <<policy, decisions, approved, lowest>>
    PROVE  Counted' /\ (Enough => Enough')
<1>1. /\ approved' \in SUBSET Approvers /\ approved \subseteq approved'
      /\ lowest' \in 1..MaxMin /\ lowest' <= lowest
  BY DEF Counted, ApprovalsTyped
<1>2. calls' \in [Callers -> ApprovalCall] /\ \A d \in Callers : Knows(calls[d])'
  BY <1>1, CallsGoOn
<1>3. Enough => Enough'
  BY DEF Enough
<1> QED BY <1>2, <1>3 DEF Counted, ApprovalsTyped

LEMMA EndOfCall ==
    ASSUME Counted, NEW c \in Callers, Write(c) \/ End(c),
           UNCHANGED <<policy, decisions, approved, lowest>>
    PROVE  Counted' /\ (Enough => Enough')
<1>1. WriteAnd(c, Idle) \/ calls' = [calls EXCEPT ![c] = Idle]
  BY DEF Write, End, ReadAnd
<1> QED BY <1>1, IdleTyped, IdleKnows, StepOfCall

--------------------------------------------------------------------------------
LEMMA FindRequestStep == ASSUME Kept, NEW c \in Callers, FindRequest(c) PROVE Kept'
<1>1. PICK op \in {"cancelRequest", "removeRequest"} : Start(c, [Idle EXCEPT !.op = op])
  BY DEF FindRequest
<1> DEFINE x == [Idle EXCEPT !.op = op]
<1>2. x \in ApprovalCall /\ x.op = op
  BY DEF Idle, ApprovalCall, Decisions, ApprovalOperations
<1>3. calls' = [calls EXCEPT ![c] = x]
  BY <1>1 DEF Start
<1> HIDE DEF x
<1>4. PICK k \in ApprovalCall : k = x
  BY <1>2
<1>5. Knows(k)'
  <2>1. op \in {"cancelRequest", "removeRequest"}
    BY <1>1
  <2>2. k.op = op
    BY <1>2, <1>4
  <2> QED BY <2>1, <2>2 DEF Knows
<1>6. UNCHANGED approvalVars
  BY DEF FindRequest
<1>7. calls' = [calls EXCEPT ![c] = k] /\ UNCHANGED <<policy, decisions, approved, lowest>>
  BY <1>3, <1>4, <1>6 DEF approvalVars
<1>8. Counted' /\ (Enough => Enough')
  BY <1>5, <1>7, StepOfCall DEF Kept
<1> QED BY <1>6, <1>8 DEF Kept, approvalVars

LEMMA CancelRequestStep ==
    ASSUME Kept, NEW c \in Callers, CancelRequest(c) PROVE Kept'
BY EndOfCall DEF CancelRequest, Kept

LEMMA DecideReadStep == ASSUME Kept, NEW c \in Callers, DecideRead(c) PROVE Kept'
<1>1. PICK a \in Approvers, d \in {"APPROVED", "REJECTED"} :
        Start(c, [Idle EXCEPT !.op = "decide", !.approver = a, !.decision = d, !.min = policy,
                              !.approvals = {b \in Approvers : decisions[b] = "APPROVED"}])
  BY DEF DecideRead
<1> DEFINE x == [Idle EXCEPT !.op = "decide", !.approver = a, !.decision = d, !.min = policy,
                             !.approvals = {b \in Approvers : decisions[b] = "APPROVED"}]
<1>2. policy \in Nat /\ lowest \in Nat /\ lowest <= policy
  BY ApprovalsAssumption DEF Kept, Counted, ApprovalsTyped
<1>3. x \in ApprovalCall /\ x.op = "decide" /\ x.approver = a /\ x.decision = d /\ x.min = policy
  BY <1>2 DEF Idle, ApprovalCall, Decisions, ApprovalOperations
<1>4. calls' = [calls EXCEPT ![c] = x]
  BY <1>1 DEF Start
<1> HIDE DEF x
<1>5. PICK k \in ApprovalCall : k = x
  BY <1>3
<1>6. UNCHANGED approvalVars
  BY DEF DecideRead
<1>7. Knows(k)'
  <2>1. k.op = "decide" /\ k.approver \in Approvers /\ k.decision \in {"APPROVED", "REJECTED"}
    BY <1>1, <1>3, <1>5
  <2>2. k.min >= lowest'
    BY <1>2, <1>3, <1>5, <1>6 DEF approvalVars
  <2> QED BY <2>1, <2>2 DEF Knows
<1>8. calls' = [calls EXCEPT ![c] = k] /\ UNCHANGED <<policy, decisions, approved, lowest>>
  BY <1>4, <1>5, <1>6 DEF approvalVars
<1>9. Counted' /\ (Enough => Enough')
  BY <1>7, <1>8, StepOfCall DEF Kept
<1> QED BY <1>6, <1>9 DEF Kept, approvalVars

LEMMA DecideTallyStep == ASSUME Kept, NEW c \in Callers, DecideTally(c) PROVE Kept'
<1> DEFINE x == [calls[c] EXCEPT !.op = "verdict", !.decision = Verdict(calls[c])]
<1>1. calls[c] \in ApprovalCall /\ Knows(calls[c]) /\ calls[c].op = "tally"
  BY DEF Kept, Counted, ApprovalsTyped, DecideTally, Doing
<1>2. Verdict(calls[c]) \in {"APPROVED", "REJECTED", "PENDING"}
  BY DEF Verdict
<1>3. x \in ApprovalCall /\ x.op = "verdict" /\ x.decision = Verdict(calls[c])
  BY <1>1, <1>2 DEF ApprovalCall, Decisions, ApprovalOperations
<1>4. calls' = [calls EXCEPT ![c] = x] /\ UNCHANGED approvalVars
  BY DEF DecideTally, ReadAnd
<1> HIDE DEF x
<1>5. PICK k \in ApprovalCall : k = x
  BY <1>3
<1>6. ASSUME Verdict(calls[c]) = "APPROVED" PROVE Enough
  <2> DEFINE yes == {a \in Approvers : decisions[a] = "APPROVED"}
  <2>1. Cardinality(yes) >= calls[c].min
    BY <1>6 DEF Verdict
  <2>2. yes \subseteq approved /\ approved \in SUBSET Approvers /\ yes \in SUBSET Approvers
    BY DEF Kept, Counted, ApprovalsTyped
  <2> HIDE DEF yes
  <2>3. Cardinality(yes) <= Cardinality(approved)
    BY <2>2, Counting, FS_Subset
  <2>4. Cardinality(yes) \in Nat /\ Cardinality(approved) \in Nat
    BY <2>2, Counting
  <2>5. calls[c].min \in Nat /\ lowest \in Nat /\ calls[c].min >= lowest
    BY <1>1, ApprovalsAssumption DEF ApprovalCall, Knows, Kept, Counted, ApprovalsTyped
  <2> QED BY <2>1, <2>3, <2>4, <2>5 DEF Enough
<1>7. Enough => Enough'
  BY <1>4 DEF Enough, approvalVars
<1>8. Knows(k)'
  <2>1. k.op = "verdict" /\ k.decision = Verdict(calls[c])
    BY <1>3, <1>5
  <2> QED BY <2>1, <1>6, <1>7 DEF Knows
<1>9. calls' = [calls EXCEPT ![c] = k] /\ UNCHANGED <<policy, decisions, approved, lowest>>
  BY <1>4, <1>5 DEF approvalVars
<1>10. Counted' /\ (Enough => Enough')
  BY <1>8, <1>9, StepOfCall DEF Kept
<1> QED BY <1>4, <1>10 DEF Kept, approvalVars

LEMMA DecideWriteStep == ASSUME Kept, NEW c \in Callers, DecideWrite(c) PROVE Kept'
<1>1. Counted' /\ (Enough => Enough')
  BY EndOfCall DEF DecideWrite, Kept
<1>2. calls[c].decision = "APPROVED" => Enough
  BY DEF DecideWrite, Doing, Kept, Counted, Knows
<1>3. request' = "gone" \/ request' = calls[c].decision
  BY DEF DecideWrite
<1> QED BY <1>1, <1>2, <1>3 DEF Kept

--------------------------------------------------------------------------------
LEMMA RemoveRequestStep == ASSUME Kept, NEW c \in Callers, RemoveRequest(c) PROVE Kept'
<1>1. WriteAnd(c, Idle) /\ request' = "gone" /\ UNCHANGED <<policy, approved, lowest>>
      /\ decisions' = [a \in Approvers |-> "none"]
  BY DEF RemoveRequest, Write
<1>2. /\ approved' \in SUBSET Approvers /\ approved \subseteq approved'
      /\ lowest' \in 1..MaxMin /\ lowest' <= lowest
  BY <1>1 DEF Kept, Counted, ApprovalsTyped
<1>3. calls' \in [Callers -> ApprovalCall] /\ \A d \in Callers : Knows(calls[d])'
  BY <1>1, <1>2, CallsGoOn, IdleTyped, IdleKnows DEF Kept
<1>4. decisions' \in [Approvers -> Decisions] /\ \A a \in Approvers : decisions'[a] # "APPROVED"
  BY <1>1 DEF Decisions
<1>5. Counted'
  BY <1>1, <1>3, <1>4 DEF Kept, Counted, ApprovalsTyped
<1> QED BY <1>1, <1>5 DEF Kept

LEMMA DecideRecordStep == ASSUME Kept, NEW c \in Callers, DecideRecord(c) PROVE Kept'
<1>1. CASE request = "gone"
  <2>1. End(c) /\ UNCHANGED <<decisions, approved, request, policy, lowest>>
    BY <1>1 DEF DecideRecord
  <2> QED BY <2>1, EndOfCall DEF Kept
<1>2. CASE request # "gone"
  <2> DEFINE x == [calls[c] EXCEPT !.op = "tally"]
  <2>1. calls[c] \in ApprovalCall /\ Knows(calls[c]) /\ calls[c].op = "decide"
    BY DEF Kept, Counted, ApprovalsTyped, DecideRecord, Doing
  <2>2. calls[c].approver \in Approvers /\ calls[c].decision \in {"APPROVED", "REJECTED"}
        /\ calls[c].min >= lowest
    BY <2>1 DEF Knows
  <2>3. /\ WriteAnd(c, x)
        /\ decisions' = [decisions EXCEPT ![calls[c].approver] = calls[c].decision]
        /\ approved' = IF calls[c].decision = "APPROVED"
                       THEN approved \cup {calls[c].approver} ELSE approved
        /\ UNCHANGED <<request, policy, lowest>>
    BY <1>2 DEF DecideRecord
  <2>4. x \in ApprovalCall /\ x.op = "tally" /\ x.min = calls[c].min
    BY <2>1 DEF ApprovalCall, ApprovalOperations
  <2> HIDE DEF x
  <2>5. PICK k \in ApprovalCall : k = x
    BY <2>4
  <2>6. Knows(k)'
    <3>1. k.op = "tally" /\ k.min >= lowest'
      BY <2>2, <2>3, <2>4, <2>5
    <3> QED BY <3>1 DEF Knows
  <2>7. /\ approved' \in SUBSET Approvers /\ approved \subseteq approved'
        /\ lowest' \in 1..MaxMin /\ lowest' <= lowest
    BY <2>2, <2>3 DEF Kept, Counted, ApprovalsTyped
  <2>8. WriteAnd(c, k)
    BY <2>3, <2>5
  <2>9. calls' \in [Callers -> ApprovalCall] /\ \A d \in Callers : Knows(calls[d])'
    BY <2>6, <2>7, <2>8, CallsGoOn DEF Kept
  <2>10. /\ decisions' \in [Approvers -> Decisions]
         /\ \A a \in Approvers : decisions'[a] = "APPROVED" => a \in approved'
    BY <2>2, <2>3 DEF Kept, Counted, ApprovalsTyped, Decisions
  <2>11. Enough => Enough'
    BY <2>7, EnoughStays DEF Kept, Counted
  <2> QED BY <2>3, <2>7, <2>9, <2>10, <2>11 DEF Kept, Counted, ApprovalsTyped
<1> QED BY <1>1, <1>2

LEMMA AskStep == ASSUME Kept, Ask PROVE Kept'
BY DEF Ask, Kept, Counted, ApprovalsTyped, Knows, Enough, callVars

LEMMA ChangePolicyStep == ASSUME Kept, ChangePolicy PROVE Kept'
<1>1. PICK min \in 1..MaxMin :
        policy' = min /\ lowest' = (IF min < lowest THEN min ELSE lowest)
  BY DEF ChangePolicy
<1>2. UNCHANGED <<request, decisions, approved, calls>>
  BY DEF ChangePolicy, callVars
<1>3. /\ lowest \in Nat /\ lowest' \in 1..MaxMin /\ lowest' <= lowest
      /\ policy' \in 1..MaxMin /\ lowest' <= policy'
  BY <1>1, ApprovalsAssumption DEF Kept, Counted, ApprovalsTyped
<1>4. Enough => Enough'
  BY <1>2, <1>3, EnoughStays DEF Kept, Counted, ApprovalsTyped
<1>5. ASSUME NEW d \in Callers PROVE Knows(calls[d])'
  <2>1. calls[d] \in ApprovalCall /\ Knows(calls[d])
    BY DEF Kept, Counted, ApprovalsTyped
  <2>2. calls[d].min \in Nat /\ calls'[d] = calls[d]
    BY <1>2, <2>1 DEF ApprovalCall
  <2> QED BY <1>3, <1>4, <2>1, <2>2 DEF Knows
<1> QED BY <1>2, <1>3, <1>4, <1>5 DEF Kept, Counted, ApprovalsTyped

LEMMA ApprovalsStepKeeps == ASSUME Kept, ApprovalsStep PROVE Kept'
BY FindRequestStep, CancelRequestStep, RemoveRequestStep, DecideReadStep, DecideRecordStep,
   DecideTallyStep, DecideWriteStep, AskStep, ChangePolicyStep DEF ApprovalsStep, ApprovalStep

--------------------------------------------------------------------------------
LEMMA DeskInit == Init => DeskInv
<1> SUFFICES ASSUME Init PROVE DeskInv
  OBVIOUS
<1>1. calls = [c \in Callers |-> Idle] /\ request = "none"
  BY DEF Init, InitCalls, InitApprovals
<1>2. ApprovalsTyped
  <2>1. calls \in [Callers -> ApprovalCall]
    BY <1>1, IdleTyped
  <2>2. decisions \in [Approvers -> Decisions]
    BY DEF Init, InitApprovals, Decisions
  <2> QED BY <2>1, <2>2, ApprovalsAssumption DEF Init, InitApprovals, ApprovalsTyped
<1>3. \A c \in Callers : Knows(calls[c])
  BY <1>1 DEF Knows, Idle
<1>4. \A a \in Approvers : decisions[a] # "APPROVED"
  BY DEF Init, InitApprovals
<1>5. desk \in {"tickets", "approvals"}
  BY DEF Init
<1> QED BY <1>1, <1>2, <1>3, <1>4, <1>5 DEF DeskInv, Counted, Kept

LEMMA DeskNext == DeskInv /\ [Next]_vars => DeskInv'
<1> SUFFICES ASSUME DeskInv, [Next]_vars PROVE DeskInv'
  OBVIOUS
<1>1. CASE DeskStep
  <2>1. desk = "tickets" /\ desk' = desk /\ request' = request
    BY <1>1 DEF DeskStep, approvalVars
  <2> QED BY <2>1 DEF DeskInv, Kept
<1>2. CASE ApprovalsStep
  <2>1. desk = "approvals" /\ desk' = desk
    BY <1>2 DEF ApprovalsStep
  <2> QED BY <1>2, <2>1, ApprovalsStepKeeps DEF DeskInv
<1>3. CASE UNCHANGED vars
  BY <1>3 DEF vars, callVars, approvalVars, DeskInv, Kept, Counted, ApprovalsTyped, Knows, Enough
<1> QED BY <1>1, <1>2, <1>3 DEF Next

\* An approved request of an organization had the approval of as many people as its
\* policy has asked for at the least, for any number of approvers and of calls that
\* interleave, and any policies (decide, services/itsm/approvals.service.ts).
THEOREM ApprovedAlwaysByEnough == Spec => []ApprovedByEnough
<1>1. DeskInv => ApprovedByEnough
  BY DEF DeskInv, Kept, Enough, ApprovedByEnough
<1> QED BY <1>1, DeskInit, DeskNext, PTL DEF Spec

(***************************************************************************)
(* The tickets and their clocks: ClocksTurnInOrder and FirstTimesKept, for *)
(* any tickets, service levels and calls that interleave.  A call that no  *)
(* write has overtaken still knows what it has read; any call refers to    *)
(* what was there, for a ticket and a deadline that have been set stay.    *)
(***************************************************************************)
Statuses ==
    {"none", "new", "resolved", "reopened", "approved", "rejected", "implementing", "completed",
     "closed", "rolled_back", "fulfilled", "cancelled"}
Row ==
    [state : {"none", "live", "deleted"}, statusKey : Statuses,
     approval : {"PENDING", "APPROVED", "REJECTED"},
     assignee : {"nobody", "hand", "lead"}, response : Nat, begun : Nat, ended : Nat,
     closed : Nat, reopened : BOOLEAN, escalations : Nat]
Clock ==
    [status : {"none", "RUNNING", "PAUSED", "MET", "BREACHED"}, deadline : Nat, pausedAt : Nat,
     pausedDuration : Int, breachedAt : Nat]
DeskOperations ==
    {"idle", "create", "route", "pause", "resume", "breach", "update", "delete", "assign",
     "escalate", "resolve", "reopen", "approve", "reject", "implement", "complete", "close",
     "rollback", "fulfill", "cancel"}
DeskCall ==
    [op : DeskOperations, number : Nat, milestone : {"none", "response", "resolution"},
     approver : {"none"}, row : SUBSET Row, minutes : Int, clocks : SUBSET Clocks,
     time : Nat, decision : {"none"}, min : {0}, approvals : SUBSET {}, given : BOOLEAN,
     overtaken : BOOLEAN]

DeskTyped ==
    /\ kind \in DOMAIN Operations
    /\ now \in Nat
    /\ tickets \in [Numbers -> Row]
    /\ clocks \in [Clocks -> Clock]
    /\ calls \in [Callers -> DeskCall]

\* A clock is started once, for a ticket that is there.
StartedOnce ==
    /\ \A n \in Numbers : ~Exists(n) => tickets[n] = NoTicket
    /\ \A n \in due : n \in Numbers /\ Exists(n)
    /\ \A k \in Clocks : IF ClockIs(k, "none") THEN clocks[k] = NoClock
                         ELSE Exists(k[1]) /\ k[1] \notin due

OfTicket(call) == call.op \in Operations[kind] \cup {"route"}
OfClock(call) == kind = "incident" /\ call.op \in {"complete", "pause", "resume"}
Started(k) == k \in Clocks /\ ~ClockIs(k, "none")

Refers(call) ==
    /\ call.op = "create" => call.number \in Numbers
    /\ OfTicket(call) => /\ call.number \in Numbers /\ Exists(call.number)
                         /\ \E row \in call.row : call.row = {row}
    /\ OfClock(call) => Started(<<call.number, call.milestone>>)
    /\ call.op = "breach" => \A k \in call.clocks : Started(k) /\ clocks[k].deadline < call.time

Current(call) ==
    /\ OfTicket(call) => call.row = {tickets[call.number]}
    /\ call.op = "route" => tickets[call.number].assignee = "nobody"
    /\ OfClock(call) => ClockIs(<<call.number, call.milestone>>,
                                IF call.op = "resume" THEN "PAUSED" ELSE "RUNNING")
    /\ call.op = "breach" => \A k \in call.clocks : ClockIs(k, "RUNNING")

Followed(call) == Refers(call) /\ (call.overtaken \/ Current(call))

TicketsInv ==
    /\ DeskTyped
    /\ StartedOnce
    /\ \A c \in Callers : Followed(calls[c])

TicketsFollowed == desk = "tickets" => TicketsInv

--------------------------------------------------------------------------------
\* What no step takes back: a ticket and the deadline of a clock that has been started.
Grows ==
    /\ kind' = kind
    /\ \A n \in Numbers : Exists(n) => Exists(n)'
    /\ \A k \in Clocks : Started(k) => Started(k)' /\ clocks'[k].deadline = clocks[k].deadline

\* A step that writes nothing a call may have read.
Steady ==
    /\ kind' = kind /\ tickets' = tickets
    /\ \A k \in Clocks : Started(k) => clocks'[k] = clocks[k]

LEMMA IdleOfDesk == Idle \in DeskCall /\ Idle.op = "idle" /\ ~Idle.overtaken
<1>1. Idle \in DeskCall
  BY DEF Idle, DeskCall, DeskOperations, Never
<1>2. Idle.op = "idle"
  BY DEF Idle
<1>3. ~Idle.overtaken
  BY DEF Idle
<1> QED BY <1>1, <1>2, <1>3

LEMMA IdleFollowed == ASSUME kind \in DOMAIN Operations PROVE Followed(Idle)
BY IdleOfDesk DEF Followed, Refers, Current, OfTicket, OfClock, Operations

LEMMA RefersStill ==
    ASSUME Grows, NEW call, Refers(call)
    PROVE  Refers(call)'
<1>1. OfTicket(call)' = OfTicket(call) /\ OfClock(call)' = OfClock(call)
  BY DEF Grows, OfTicket, OfClock
<1>2. \A k : Started(k) => Started(k)' /\ clocks'[k].deadline = clocks[k].deadline
  BY DEF Grows, Started
<1> QED BY <1>1, <1>2 DEF Grows, Refers

LEMMA SteadyGrows == Steady => Grows
BY DEF Steady, Grows, Started, ClockIs, Exists

LEMMA FollowedStill ==
    ASSUME Steady, NEW call, Followed(call)
    PROVE  Followed(call)'
<1>1. OfTicket(call)' = OfTicket(call) /\ OfClock(call)' = OfClock(call)
  BY DEF Steady, OfTicket, OfClock
<1>2. Refers(call)'
  BY SteadyGrows, RefersStill DEF Followed
<1>3. \A k : Started(k) => clocks'[k] = clocks[k]
  BY DEF Steady, Started
<1>4. Current(call) => Current(call)'
  BY <1>1, <1>3 DEF Current, Steady, Followed, Refers, ClockIs
<1> QED BY <1>2, <1>4 DEF Followed

\* A write that grows what there is, with which call is up to date.
LEMMA AfterWrite ==
    ASSUME TicketsInv, Grows, NEW c \in Callers, NEW call \in DeskCall, Followed(call)',
           WriteAnd(c, call)
    PROVE  calls' \in [Callers -> DeskCall] /\ \A d \in Callers : Followed(calls[d])'
<1>1. calls' = [d \in Callers |-> IF d = c THEN call
                    ELSE IF Busy(d) THEN [calls[d] EXCEPT !.overtaken = TRUE] ELSE Idle]
  BY DEF WriteAnd
<1>2. calls'[c] = call
  BY <1>1
<1>3. ASSUME NEW d \in Callers \ {c} PROVE calls'[d] \in DeskCall /\ Followed(calls[d])'
  <2>1. calls[d] \in DeskCall /\ Refers(calls[d])
    BY DEF TicketsInv, DeskTyped, Followed
  <2>2. CASE Busy(d)
    <3> DEFINE x == [calls[d] EXCEPT !.overtaken = TRUE]
    <3>1. calls'[d] = x
      BY <1>1, <2>2
    <3>2. x \in DeskCall /\ x.op = calls[d].op /\ x.number = calls[d].number
          /\ x.milestone = calls[d].milestone /\ x.row = calls[d].row
          /\ x.clocks = calls[d].clocks /\ x.time = calls[d].time /\ x.overtaken
      BY <2>1 DEF DeskCall
    <3> HIDE DEF x
    <3>3. Refers(x)
      BY <2>1, <3>2 DEF Refers, OfTicket, OfClock
    <3>4. PICK y : y = x /\ Refers(y)' /\ y.overtaken
      <4>1. PICK y : y = x
        OBVIOUS
      <4>2. Refers(y)
        BY <3>3, <4>1
      <4>3. Refers(y)'
        BY <4>2, RefersStill
      <4> QED BY <3>2, <4>1, <4>3
    <3>5. Followed(y)'
      BY <3>4 DEF Followed
    <3> QED BY <3>1, <3>2, <3>4, <3>5
  <2>3. CASE ~Busy(d)
    <3>1. calls'[d] = Idle
      BY <1>1, <2>3
    <3>2. kind' \in DOMAIN Operations
      BY DEF Grows, TicketsInv, DeskTyped
    <3>3. Followed(Idle)'
      BY <3>2, IdleOfDesk DEF Followed, Refers, Current, OfTicket, OfClock, Operations
    <3> QED BY <3>1, <3>3, IdleOfDesk
  <2> QED BY <2>2, <2>3
<1>4. calls' \in [Callers -> DeskCall]
  BY <1>1, <1>2, <1>3
<1> QED BY <1>2, <1>3, <1>4

\* A read after which call goes on.
LEMMA AfterRead ==
    ASSUME TicketsInv, Steady, NEW c \in Callers, NEW call \in DeskCall, Followed(call)',
           calls' = [calls EXCEPT ![c] = call]
    PROVE  calls' \in [Callers -> DeskCall] /\ \A d \in Callers : Followed(calls[d])'
<1>1. calls' \in [Callers -> DeskCall] /\ calls'[c] = call
      /\ \A d \in Callers \ {c} : calls'[d] = calls[d]
  BY DEF TicketsInv, DeskTyped
<1>2. ASSUME NEW d \in Callers \ {c} PROVE Followed(calls[d])'
  <2>1. PICK x : x = calls[d] /\ Followed(x)
    BY DEF TicketsInv
  <2>2. Followed(x)'
    BY <2>1, FollowedStill
  <2> QED BY <1>1, <2>1, <2>2
<1> QED BY <1>1, <1>2

\* A step of none of the calls.
LEMMA AfterNone ==
    ASSUME TicketsInv, Steady, UNCHANGED calls
    PROVE  \A d \in Callers : Followed(calls[d])'
<1> TAKE d \in Callers
<1>1. PICK x : x = calls[d] /\ Followed(x)
  BY DEF TicketsInv
<1>2. Followed(x)'
  BY <1>1, FollowedStill
<1> QED BY <1>1, <1>2

--------------------------------------------------------------------------------
LEMMA ClockOf ==
    ASSUME TicketsInv, NEW k, Started(k)
    PROVE  /\ k \in Clocks /\ clocks[k] \in Clock /\ clocks[k].status # "none"
           /\ Exists(k[1]) /\ k[1] \notin due
BY DEF Started, ClockIs, TicketsInv, DeskTyped, StartedOnce

\* A clock that has been started is written, by a call that goes on as call.
LEMMA ClockWritten ==
    ASSUME TicketsInv, NEW k, Started(k), NEW clock \in Clock, clock.status # "none",
           clock.deadline = clocks[k].deadline, clocks' = [clocks EXCEPT ![k] = clock],
           UNCHANGED <<ticketVars, due, now>>,
           NEW c \in Callers, NEW call \in DeskCall, Followed(call)', WriteAnd(c, call)
    PROVE  TicketsInv'
<1>1. /\ clocks' \in [Clocks -> Clock] /\ clocks'[k] = clock
      /\ \A l \in Clocks : l # k => clocks'[l] = clocks[l]
  BY ClockOf DEF TicketsInv, DeskTyped
<1>2. kind' = kind /\ tickets' = tickets /\ due' = due /\ now' = now
  BY DEF ticketVars
<1>3. Grows
  BY <1>1, <1>2 DEF Grows, Exists, Started, ClockIs
<1>4. calls' \in [Callers -> DeskCall] /\ \A d \in Callers : Followed(calls[d])'
  BY <1>3, AfterWrite
<1>5. StartedOnce'
  <2>1. \A n \in Numbers : Exists(n)' = Exists(n)
    BY <1>2 DEF Exists
  <2>2. ASSUME NEW l \in Clocks
        PROVE  IF ClockIs(l, "none")' THEN clocks'[l] = NoClock ELSE Exists(l[1])' /\ l[1] \notin due'
    <3>1. CASE l = k
      BY <1>1, <1>2, <3>1, ClockOf DEF ClockIs, Exists
    <3>2. CASE l # k
      <4>1. clocks'[l] = clocks[l]
        BY <1>1, <3>2
      <4>2. ClockIs(l, "none")' <=> ClockIs(l, "none")
        BY <4>1 DEF ClockIs
      <4>3. Exists(l[1])' <=> Exists(l[1])
        BY <1>2 DEF Exists
      <4> QED BY <1>2, <4>1, <4>2, <4>3 DEF TicketsInv, StartedOnce
    <3> QED BY <3>1, <3>2
  <2>3. \A n \in Numbers : ~Exists(n)' => tickets'[n] = NoTicket
    BY <1>2, <2>1 DEF TicketsInv, StartedOnce
  <2>4. \A n \in due' : n \in Numbers /\ Exists(n)'
    BY <1>2, <2>1 DEF TicketsInv, StartedOnce
  <2> QED BY <2>2, <2>3, <2>4 DEF StartedOnce, NoClock, NoTicket
<1>6. DeskTyped'
  BY <1>1, <1>2, <1>4 DEF TicketsInv, DeskTyped
<1> QED BY <1>4, <1>5, <1>6 DEF TicketsInv

\* A step that writes no clock turns none.
LEMMA ClocksLeft == ASSUME UNCHANGED clocks PROVE \A k \in Clocks : ClockTurns(k)
BY DEF ClockTurns

\* The three writes of a call that has found a clock by its status.
LEMMA SetClockStep ==
    ASSUME TicketsInv, NEW c \in Callers, OfClock(calls[c]), NEW clock \in Clock,
           clock.status # "none", clock.deadline = Found(c).deadline,
           clock.breachedAt = Found(c).breachedAt,
           calls[c].overtaken \/ <<Found(c).status, clock.status>> \in Turns,
           SetClock(c, clock), UNCHANGED ticketVars
    PROVE  TicketsInv' /\ \A k \in Clocks : ClockTurns(k)
<1> DEFINE here == <<calls[c].number, calls[c].milestone>>
<1>1. Started(here) /\ calls[c] \in DeskCall
  BY DEF TicketsInv, Followed, Refers, DeskTyped
<1>2. clocks' = [clocks EXCEPT ![here] = clock] /\ WriteAnd(c, Idle) /\ due' = due
      /\ Found(c) = clocks[here] /\ now' = now
  BY DEF SetClock, Write, WriteAnd, Found
<1>3. kind' \in DOMAIN Operations
  BY DEF ticketVars, TicketsInv, DeskTyped
<1>4. Followed(Idle)'
  BY <1>3, IdleOfDesk DEF Followed, Refers, Current, OfTicket, OfClock, Operations
<1>5. TicketsInv'
  <2> HIDE DEF here
  <2> QED BY <1>1, <1>2, <1>4, IdleOfDesk, ClockWritten
<1>6. calls'[c] = Idle /\ calls[c].op # "idle"
  BY <1>2 DEF WriteAnd, OfClock
<1>7. calls[c].overtaken => ByOvertaken
  BY <1>6, IdleOfDesk DEF ByOvertaken
<1>8. ASSUME NEW k \in Clocks PROVE ClockTurns(k)
  <2> HIDE DEF here
  <2>1. CASE k = here
    <3>1. clocks'[k] = clock
      BY <1>1, <1>2, <2>1 DEF TicketsInv, DeskTyped
    <3> QED BY <1>2, <1>7, <2>1, <3>1 DEF ClockTurns
  <2>2. CASE k # here
    <3>1. clocks'[k] = clocks[k]
      BY <1>2, <2>2 DEF TicketsInv, DeskTyped
    <3> QED BY <3>1 DEF ClockTurns
  <2> QED BY <2>1, <2>2
<1> QED BY <1>5, <1>8

LEMMA ClockWrites ==
    ASSUME TicketsInv, kind = "incident", NEW c \in Callers, UNCHANGED ticketVars,
           CompleteResponse(c) \/ Pause(c) \/ Resume(c)
    PROVE  TicketsInv' /\ \A k \in Clocks : ClockTurns(k)
<1> DEFINE old == Found(c)
<1>1. CompleteResponse(c) \/ Pause(c) \/ Resume(c)
  OBVIOUS
<1>2. OfClock(calls[c]) /\ Followed(calls[c]) /\ calls[c] \in DeskCall
  BY DEF CompleteResponse, Pause, Resume, Doing, OfClock, TicketsInv, DeskTyped
<1>3. Started(<<calls[c].number, calls[c].milestone>>)
  BY <1>2 DEF Followed, Refers
<1>4. old \in Clock /\ (~calls[c].overtaken =>
          old.status = IF calls[c].op = "resume" THEN "PAUSED" ELSE "RUNNING")
  BY <1>2, <1>3, ClockOf DEF Found, Followed, Current, ClockIs
<1>5. calls[c].time \in Nat /\ calls[c].minutes \in Int
  BY <1>2 DEF TicketsInv, DeskTyped, DeskCall
<1> HIDE DEF old
<1>6. CASE CompleteResponse(c)
  <2> DEFINE clock == [old EXCEPT !.status = "MET"]
  <2>1. clock \in Clock /\ clock.status = "MET" /\ clock.deadline = old.deadline
        /\ clock.breachedAt = old.breachedAt
    BY <1>4 DEF Clock
  <2>2. SetClock(c, clock) /\ calls[c].op = "complete"
    BY <1>6 DEF CompleteResponse, Doing, old
  <2>3. calls[c].overtaken \/ <<old.status, clock.status>> \in Turns
    BY <1>4, <2>1, <2>2 DEF Turns
  <2> HIDE DEF clock
  <2> QED BY <1>2, <2>1, <2>2, <2>3, SetClockStep DEF old
<1>7. CASE Pause(c)
  <2> DEFINE clock == [old EXCEPT !.status = "PAUSED", !.pausedAt = calls[c].time]
  <2>1. clock \in Clock /\ clock.status = "PAUSED" /\ clock.deadline = old.deadline
        /\ clock.breachedAt = old.breachedAt
    BY <1>4, <1>5 DEF Clock
  <2>2. SetClock(c, clock) /\ calls[c].op = "pause"
    BY <1>7 DEF Pause, Doing, old
  <2>3. calls[c].overtaken \/ <<old.status, clock.status>> \in Turns
    BY <1>4, <2>1, <2>2 DEF Turns
  <2> HIDE DEF clock
  <2> QED BY <1>2, <2>1, <2>2, <2>3, SetClockStep DEF old
<1>8. CASE Resume(c)
  <2> DEFINE clock == [old EXCEPT !.status = "RUNNING", !.pausedAt = Never,
                                  !.pausedDuration = @ + calls[c].minutes]
  <2>1. clock \in Clock /\ clock.status = "RUNNING" /\ clock.deadline = old.deadline
        /\ clock.breachedAt = old.breachedAt
    <3>1. old.pausedDuration + calls[c].minutes \in Int
      BY <1>4, <1>5 DEF Clock
    <3> QED BY <1>4, <3>1 DEF Clock, Never
  <2>2. SetClock(c, clock) /\ calls[c].op = "resume"
    BY <1>8 DEF Resume, Doing, old
  <2>3. calls[c].overtaken \/ <<old.status, clock.status>> \in Turns
    BY <1>4, <2>1, <2>2 DEF Turns
  <2> HIDE DEF clock
  <2> QED BY <1>2, <2>1, <2>2, <2>3, SetClockStep DEF old
<1> QED BY <1>1, <1>6, <1>7, <1>8

\* A step that reads, or ends without a write, of a call that goes on as call.
LEMMA OnlyRead ==
    ASSUME TicketsInv, UNCHANGED <<clocks, due, ticketVars, now>>,
           NEW c \in Callers, NEW call \in DeskCall, Followed(call),
           calls' = [calls EXCEPT ![c] = call]
    PROVE  TicketsInv'
<1>1. kind' = kind /\ tickets' = tickets /\ clocks' = clocks /\ due' = due /\ now' = now
  BY DEF ticketVars
<1>2. Steady
  BY <1>1 DEF Steady
<1>3. Followed(call)'
  BY <1>2, FollowedStill
<1>4. calls' \in [Callers -> DeskCall] /\ \A d \in Callers : Followed(calls[d])'
  BY <1>2, <1>3, AfterRead
<1>5. DeskTyped'
  BY <1>1, <1>4 DEF TicketsInv, DeskTyped
<1>6. StartedOnce'
  BY <1>1 DEF TicketsInv, StartedOnce, Exists, ClockIs
<1> QED BY <1>4, <1>5, <1>6 DEF TicketsInv

LEMMA OnlyEnded ==
    ASSUME TicketsInv, UNCHANGED <<clocks, due, ticketVars>>, NEW c \in Callers, End(c)
    PROVE  TicketsInv'
<1>1. calls' = [calls EXCEPT ![c] = Idle] /\ now' = now
  BY DEF End, ReadAnd
<1>2. Followed(Idle)
  BY IdleFollowed DEF TicketsInv, DeskTyped
<1> QED BY <1>1, <1>2, IdleOfDesk, OnlyRead

LEMMA FindClockStep ==
    ASSUME TicketsInv, kind = "incident", UNCHANGED ticketVars, NEW c \in Callers, FindClock(c)
    PROVE  TicketsInv'
<1>1. PICK k \in Clocks :
        \/ ClockIs(k, "RUNNING") /\ k[2] = "response" /\ Start(c, AboutClock("complete", k))
        \/ ClockIs(k, "RUNNING") /\ Start(c, [AboutClock("pause", k) EXCEPT !.time = now])
        \/ /\ ClockIs(k, "PAUSED")
           /\ Start(c, [AboutClock("resume", k) EXCEPT !.minutes = now - clocks[k].pausedAt])
  BY DEF FindClock
<1>2. k = <<k[1], k[2]>> /\ k[1] \in Nat /\ k[2] \in {"response", "resolution"}
  <2>1. Milestones = {"response", "resolution"} /\ Numbers \subseteq Nat
    BY SlaAssumption DEF Milestones
  <2>2. k \in Numbers \X Milestones
    BY DEF Clocks
  <2>3. k = <<k[1], k[2]>> /\ k[1] \in Numbers /\ k[2] \in Milestones
    BY <2>2
  <2> QED BY <2>1, <2>3
<1>3. now \in Nat /\ now - clocks[k].pausedAt \in Int
  BY DEF TicketsInv, DeskTyped, Clock
<1>4. ASSUME NEW op \in {"complete", "pause", "resume"}
      PROVE  /\ AboutClock(op, k) \in DeskCall /\ AboutClock(op, k).op = op
             /\ AboutClock(op, k).number = k[1] /\ AboutClock(op, k).milestone = k[2]
  BY <1>2, IdleOfDesk DEF AboutClock, DeskCall, DeskOperations, Idle
<1>5. PICK x \in DeskCall :
        /\ Start(c, x) /\ x.number = k[1] /\ x.milestone = k[2]
        /\ x.op \in {"complete", "pause", "resume"}
        /\ ClockIs(k, IF x.op = "resume" THEN "PAUSED" ELSE "RUNNING")
  <2>1. CASE ClockIs(k, "RUNNING") /\ Start(c, AboutClock("complete", k))
    BY <1>4, <2>1
  <2>2. CASE ClockIs(k, "RUNNING") /\ Start(c, [AboutClock("pause", k) EXCEPT !.time = now])
    <3> DEFINE y == [AboutClock("pause", k) EXCEPT !.time = now]
    <3>1. y \in DeskCall /\ y.op = "pause" /\ y.number = k[1] /\ y.milestone = k[2]
      BY <1>3, <1>4 DEF DeskCall
    <3> HIDE DEF y
    <3> QED BY <2>2, <3>1 DEF y
  <2>3. CASE /\ ClockIs(k, "PAUSED")
             /\ Start(c, [AboutClock("resume", k) EXCEPT !.minutes = now - clocks[k].pausedAt])
    <3> DEFINE y == [AboutClock("resume", k) EXCEPT !.minutes = now - clocks[k].pausedAt]
    <3>1. y \in DeskCall /\ y.op = "resume" /\ y.number = k[1] /\ y.milestone = k[2]
      BY <1>3, <1>4 DEF DeskCall
    <3> HIDE DEF y
    <3> QED BY <2>3, <3>1 DEF y
  <2> QED BY <1>1, <2>1, <2>2, <2>3
<1>6. calls' = [calls EXCEPT ![c] = x] /\ now' = now
  BY <1>5 DEF Start
<1>7. Started(<<x.number, x.milestone>>)
  BY <1>2, <1>5 DEF Started, ClockIs
<1>8. ClockIs(<<x.number, x.milestone>>, IF x.op = "resume" THEN "PAUSED" ELSE "RUNNING")
  BY <1>2, <1>5
<1>9. Followed(x)
  BY <1>5, <1>7, <1>8 DEF Followed, Refers, Current, OfTicket, OfClock, Operations
<1>10. UNCHANGED <<clocks, due, ticketVars, now>>
  BY <1>6 DEF FindClock
<1> QED BY <1>5, <1>6, <1>9, <1>10, OnlyRead

LEMMA ListOverdueStep ==
    ASSUME TicketsInv, UNCHANGED ticketVars, NEW c \in Callers, ListOverdue(c)
    PROVE  TicketsInv'
<1> DEFINE x == [Idle EXCEPT !.op = "breach", !.clocks = Overdue, !.time = now]
<1>1. calls' = [calls EXCEPT ![c] = x] /\ UNCHANGED <<clocks, due, ticketVars, now>>
  BY DEF ListOverdue, Start
<1>2. now \in Nat /\ Overdue \subseteq Clocks
  BY DEF TicketsInv, DeskTyped, Overdue
<1>3. x \in DeskCall /\ x.op = "breach" /\ x.clocks = Overdue /\ x.time = now
  <2>1. \A list \in SUBSET Clocks, time \in Nat :
          [Idle EXCEPT !.op = "breach", !.clocks = list, !.time = time] \in DeskCall
    BY IdleOfDesk DEF DeskCall, DeskOperations
  <2> QED BY <1>2, <2>1 DEF Idle
<1> HIDE DEF x
<1>4. Followed(x)
  BY <1>3 DEF Followed, Refers, Current, OfTicket, OfClock, Operations, TicketsInv, DeskTyped,
              Overdue, Started, ClockIs
<1> QED BY <1>1, <1>3, <1>4, OnlyRead

LEMMA MarkBreachedStep ==
    ASSUME TicketsInv, UNCHANGED ticketVars, NEW c \in Callers, MarkBreached(c)
    PROVE  TicketsInv' /\ \A k \in Clocks : ClockTurns(k)
<1>1. PICK k \in calls[c].clocks :
        /\ clocks' = [clocks EXCEPT ![k].status = "BREACHED", ![k].breachedAt = calls[c].time]
        /\ WriteAnd(c, [calls[c] EXCEPT !.clocks = @ \ {k}])
  BY DEF MarkBreached
<1>2. calls[c] \in DeskCall /\ calls[c].op = "breach" /\ Followed(calls[c])
  BY DEF MarkBreached, Doing, TicketsInv, DeskTyped
<1>3. \A l \in calls[c].clocks : Started(l) /\ clocks[l].deadline < calls[c].time
  BY <1>2 DEF Followed, Refers
<1>4. k \in Clocks /\ clocks[k] \in Clock
  BY <1>3, ClockOf
<1> DEFINE clock == [clocks[k] EXCEPT !.status = "BREACHED", !.breachedAt = calls[c].time]
           x == [calls[c] EXCEPT !.clocks = @ \ {k}]
<1>5. clock \in Clock /\ clock.status = "BREACHED" /\ clock.deadline = clocks[k].deadline
      /\ clock.breachedAt = calls[c].time
  BY <1>2, <1>4 DEF Clock, DeskCall
<1>6. clocks' = [clocks EXCEPT ![k] = clock]
  BY <1>1, <1>4 DEF TicketsInv, DeskTyped
<1>7. calls[c].clocks \ {k} \subseteq Clocks
  BY <1>2 DEF DeskCall
<1>8. x \in DeskCall /\ x.op = "breach" /\ x.clocks = calls[c].clocks \ {k}
      /\ x.time = calls[c].time
  BY <1>2, <1>7 DEF DeskCall
<1>9. x.overtaken = calls[c].overtaken
  BY <1>2 DEF DeskCall
<1>10. WriteAnd(c, x) /\ due' = due /\ now' = now /\ kind' = kind
  BY <1>1 DEF MarkBreached, WriteAnd, ticketVars
<1> HIDE DEF x, clock
<1>11. \A l \in x.clocks : clocks'[l] = clocks[l] /\ Started(l)
  <2> TAKE l \in x.clocks
  <2>1. l # k /\ l \in Clocks /\ Started(l)
    BY <1>3, <1>8, ClockOf
  <2> QED BY <1>6, <2>1 DEF TicketsInv, DeskTyped
<1>12. PICK y \in DeskCall : y = x
  BY <1>8
<1>13. Followed(y)'
  <2>1. y.op = "breach" /\ ~OfTicket(y)' /\ ~OfClock(y)'
    BY <1>8, <1>10, <1>12 DEF OfTicket, OfClock, Operations, TicketsInv, DeskTyped
  <2>2. Refers(y)'
    <3>1. \A l \in y.clocks : Started(l)' /\ clocks'[l].deadline < y.time
      BY <1>3, <1>8, <1>11, <1>12 DEF Started, ClockIs
    <3> QED BY <2>1, <3>1 DEF Refers
  <2>3. y.overtaken \/ Current(y)'
    <3>1. calls[c].overtaken \/ \A l \in calls[c].clocks : ClockIs(l, "RUNNING")
      BY <1>2 DEF Followed, Current
    <3>2. CASE calls[c].overtaken
      BY <1>9, <1>12, <3>2
    <3>3. CASE \A l \in calls[c].clocks : ClockIs(l, "RUNNING")
      <4>1. \A l \in y.clocks : ClockIs(l, "RUNNING")'
        BY <1>8, <1>11, <1>12, <3>3 DEF ClockIs
      <4> QED BY <2>1, <4>1 DEF Current
    <3> QED BY <3>1, <3>2, <3>3
  <2> QED BY <2>2, <2>3 DEF Followed
<1>14. TicketsInv'
  <2>1. UNCHANGED <<ticketVars, due, now>> /\ WriteAnd(c, y) /\ Started(k)
    BY <1>3, <1>10, <1>12
  <2> QED BY <1>5, <1>6, <1>13, <2>1, ClockWritten
<1>15. calls'[c] # calls[c]
  <2>1. calls'[c] = x /\ k \notin x.clocks /\ k \in calls[c].clocks
    BY <1>8, <1>10 DEF WriteAnd
  <2> QED BY <2>1
<1>16. ClockIs(k, "RUNNING") \/ ByOvertaken
  BY <1>2, <1>15 DEF Followed, Current, ByOvertaken
<1>17. ASSUME NEW l \in Clocks PROVE ClockTurns(l)
  <2>1. CASE l = k
    <3>1. clocks'[l] = clock
      BY <1>4, <1>6, <2>1 DEF TicketsInv, DeskTyped
    <3>2. clocks[l].deadline < clocks'[l].breachedAt
      BY <1>3, <1>5, <2>1, <3>1
    <3>3. <<clocks[l].status, clocks'[l].status>> \in Turns \/ ByOvertaken
      BY <1>5, <1>16, <2>1, <3>1 DEF Turns, ClockIs
    <3> QED BY <3>2, <3>3 DEF ClockTurns
  <2>2. CASE l # k
    <3>1. clocks'[l] = clocks[l]
      BY <1>6, <2>2 DEF TicketsInv, DeskTyped
    <3> QED BY <3>1 DEF ClockTurns
  <2> QED BY <2>1, <2>2
<1> QED BY <1>14, <1>17

LEMMA StartClocksStep ==
    ASSUME TicketsInv, UNCHANGED ticketVars, NEW n \in Numbers, StartClocks(n)
    PROVE  TicketsInv' /\ \A k \in Clocks : ClockTurns(k)
<1> DEFINE Fresh(k) == [NoClock EXCEPT
                            !.status = "RUNNING",
                            !.deadline = IF Target[k[2]] = 0 THEN Never ELSE now + Target[k[2]]]
<1>1. /\ n \in due /\ due' = due \ {n} /\ UNCHANGED <<calls, now, kind, tickets>>
      /\ clocks' = [k \in Clocks |-> IF k[1] # n THEN clocks[k] ELSE Fresh(k)]
  BY DEF StartClocks, callVars, ticketVars
<1>2. Exists(n) /\ now \in Nat
  BY <1>1 DEF TicketsInv, StartedOnce, DeskTyped
<1>3. ASSUME NEW k \in Clocks, k[1] = n
      PROVE  Fresh(k) \in Clock /\ Fresh(k).status = "RUNNING" /\ clocks[k] = NoClock
             /\ clocks[k].status = "none" /\ Fresh(k).breachedAt = clocks[k].breachedAt
  <2>1. Target[k[2]] \in Nat
    <3>1. k[2] \in Milestones
      BY DEF Clocks
    <3> QED BY <3>1, SlaAssumption DEF Milestones
  <2>2. (IF Target[k[2]] = 0 THEN Never ELSE now + Target[k[2]]) \in Nat
    BY <1>2, <2>1 DEF Never
  <2>3. clocks[k] = NoClock /\ clocks[k].status = "none"
    BY <1>1, <1>3 DEF TicketsInv, StartedOnce, ClockIs
  <2>4. \A d \in Nat : LET fresh == [NoClock EXCEPT !.status = "RUNNING", !.deadline = d]
                      IN  /\ fresh \in Clock /\ fresh.status = "RUNNING"
                          /\ fresh.breachedAt = NoClock.breachedAt
    <3>1. NoClock \in Clock
      BY DEF Clock, NoClock, Never
    <3> QED BY <3>1 DEF Clock
  <2>5. PICK d \in Nat : d = IF Target[k[2]] = 0 THEN Never ELSE now + Target[k[2]]
    BY <2>2
  <2>6. Fresh(k) = [NoClock EXCEPT !.status = "RUNNING", !.deadline = d]
    BY <2>5
  <2> QED BY <2>3, <2>4, <2>6
<1>4. \A k \in Clocks : clocks'[k] = IF k[1] # n THEN clocks[k] ELSE Fresh(k)
  BY <1>1
<1> HIDE DEF Fresh
<1>5. clocks' \in [Clocks -> Clock]
  BY <1>1, <1>3 DEF TicketsInv, DeskTyped
<1>6. Steady
  BY <1>1, <1>3, <1>4 DEF Steady, Started, ClockIs
<1>7. \A d \in Callers : Followed(calls[d])'
  BY <1>1, <1>6, AfterNone
<1>8. DeskTyped'
  BY <1>1, <1>5 DEF TicketsInv, DeskTyped
<1>9. StartedOnce'
  <2>1. \A m : Exists(m)' <=> Exists(m)
    BY <1>1 DEF Exists
  <2>2. ASSUME NEW k \in Clocks
        PROVE  IF ClockIs(k, "none")' THEN clocks'[k] = NoClock ELSE Exists(k[1])' /\ k[1] \notin due'
    <3>1. CASE k[1] = n
      <4>1. ~ClockIs(k, "none")'
        BY <1>3, <1>4, <3>1 DEF ClockIs
      <4> QED BY <1>1, <1>2, <2>1, <3>1, <4>1
    <3>2. CASE k[1] # n
      <4>1. clocks'[k] = clocks[k] /\ (ClockIs(k, "none")' <=> ClockIs(k, "none"))
        BY <1>4, <3>2 DEF ClockIs
      <4> QED BY <1>1, <2>1, <3>2, <4>1 DEF TicketsInv, StartedOnce
    <3> QED BY <3>1, <3>2
  <2>3. \A m \in Numbers : ~Exists(m)' => tickets'[m] = NoTicket
    BY <1>1, <2>1 DEF TicketsInv, StartedOnce
  <2>4. \A m \in due' : m \in Numbers /\ Exists(m)'
    BY <1>1, <2>1 DEF TicketsInv, StartedOnce
  <2> QED BY <2>2, <2>3, <2>4 DEF StartedOnce, NoClock, NoTicket
<1>10. ASSUME NEW k \in Clocks PROVE ClockTurns(k)
  <2>1. CASE k[1] = n
    BY <1>3, <1>4, <2>1 DEF ClockTurns, Turns
  <2>2. CASE k[1] # n
    BY <1>4, <2>2 DEF ClockTurns
  <2> QED BY <2>1, <2>2
<1> QED BY <1>7, <1>8, <1>9, <1>10 DEF TicketsInv

LEMMA NoClocksStep ==
    ASSUME TicketsInv, UNCHANGED ticketVars, NEW n \in Numbers, NoClocks(n)
    PROVE  TicketsInv'
<1>1. due' = due \ {n} /\ UNCHANGED <<clocks, calls, now, kind, tickets>>
  BY DEF NoClocks, callVars, ticketVars
<1>2. Steady
  BY <1>1 DEF Steady
<1>3. \A d \in Callers : Followed(calls[d])'
  BY <1>1, <1>2, AfterNone
<1>4. DeskTyped'
  BY <1>1 DEF TicketsInv, DeskTyped
<1>5. StartedOnce'
  BY <1>1 DEF TicketsInv, StartedOnce, Exists, ClockIs
<1> QED BY <1>3, <1>4, <1>5 DEF TicketsInv

LEMMA TickStep ==
    ASSUME TicketsInv, Tick, UNCHANGED <<clocks, due, ticketVars>>
    PROVE  TicketsInv'
<1>1. now' = now + 1 /\ UNCHANGED <<calls, clocks, due, kind, tickets>>
  BY DEF Tick, ticketVars
<1>2. Steady
  BY <1>1 DEF Steady
<1>3. \A d \in Callers : Followed(calls[d])'
  BY <1>1, <1>2, AfterNone
<1>4. DeskTyped'
  BY <1>1 DEF TicketsInv, DeskTyped
<1>5. StartedOnce'
  BY <1>1 DEF TicketsInv, StartedOnce, Exists, ClockIs
<1> QED BY <1>3, <1>4, <1>5 DEF TicketsInv

LEMMA ClockStepKeeps ==
    ASSUME TicketsInv, kind = "incident", UNCHANGED ticketVars, NEW c \in Callers, ClockStep(c)
    PROVE  TicketsInv' /\ \A k \in Clocks : ClockTurns(k)
<1>1. CASE FindClock(c)
  BY <1>1, FindClockStep, ClocksLeft DEF FindClock
<1>2. CASE CompleteResponse(c) \/ Pause(c) \/ Resume(c)
  BY <1>2, ClockWrites
<1>3. CASE ListOverdue(c)
  BY <1>3, ListOverdueStep, ClocksLeft DEF ListOverdue
<1>4. CASE MarkBreached(c)
  BY <1>4, MarkBreachedStep
<1>5. CASE EndSweep(c)
  BY <1>5, OnlyEnded, ClocksLeft DEF EndSweep
<1> QED BY <1>1, <1>2, <1>3, <1>4, <1>5 DEF ClockStep

--------------------------------------------------------------------------------
LEMMA NewTicket == NoTicket \in Row /\ NoTicket.state = "none" /\ NoTicket.assignee = "nobody"
                   /\ NoTicket.response = Never /\ NoTicket.begun = Never
BY DEF NoTicket, Row, Statuses, Never

\* What a call that has read the row before may leave of the row as it is now.
LEMMA OutcomesKeep ==
    ASSUME kind \in DOMAIN Operations, now \in Nat,
           NEW call \in DeskCall, call.op \in Operations[kind],
           NEW before \in Row, call.row = {before}, NEW old \in Row,
           NEW row \in Outcomes(call, old)
    PROVE  /\ row \in Row
           /\ old.state # "none" => row.state # "none"
           /\ old.assignee = "hand" => row.assignee # "lead"
           /\ (~call.given /\ before = old) =>
                 /\ old.response # Never => row.response = old.response
                 /\ old.begun # Never => row.begun = old.begun
<1>1. Before(call) = before
  BY DEF Before
<1>2. \A time \in Nat : /\ KeptOrNow(call, time) \in Nat
                        /\ (~call.given /\ time # Never) => KeptOrNow(call, time) = time
  BY DEF KeptOrNow
<1>3. call.op \in {"update", "delete", "assign", "escalate", "resolve", "reopen", "approve",
                   "reject", "implement", "complete", "close", "rollback", "fulfill", "cancel"}
  BY DEF Operations
<1>0. /\ "resolved" \in Statuses /\ "reopened" \in Statuses /\ "approved" \in Statuses
      /\ "rejected" \in Statuses /\ "implementing" \in Statuses /\ "completed" \in Statuses
      /\ "closed" \in Statuses /\ "rolled_back" \in Statuses /\ "fulfilled" \in Statuses
      /\ "cancelled" \in Statuses /\ "new" \in Statuses
  BY DEF Statuses
<1>4. CASE call.op = "assign"
  <2>1. PICK who \in Assignees(old) : row = Assigned(call, old, who)
    BY <1>4 DEF Outcomes
  <2>2. who \in {"nobody", "hand", "lead"} /\ (old.assignee = "hand" => who # "lead")
    BY DEF Assignees, Row
  <2> QED BY <1>1, <2>1, <2>2 DEF Assigned, Row
<1>5. CASE call.op = "escalate"
  <2>1. row = Escalated(call, old)
    BY <1>5 DEF Outcomes
  <2>2. before.escalations + 1 \in Nat
    BY DEF Row
  <2> QED BY <1>1, <2>1, <2>2 DEF Escalated, Row
<1>6. CASE call.op = "resolve"
  <2>1. row = Resolved(call, old)
    BY <1>6 DEF Outcomes
  <2>2. PICK time \in Nat : /\ time = KeptOrNow(call, before.response)
                            /\ (~call.given /\ before.response # Never) => time = before.response
    BY <1>2 DEF Row
  <2> QED BY <1>0, <1>1, <2>1, <2>2 DEF Resolved, Row
<1>7. CASE call.op = "reopen"
  <2>1. row = Reopened(old)
    BY <1>7 DEF Outcomes
  <2> QED BY <1>0, <2>1 DEF Reopened, Row, Never
<1>8. CASE call.op = "update"
  <2>1. row \in Updates(old)
    BY <1>8 DEF Outcomes
  <2>2. PICK status \in {"new", old.statusKey},
             count \in {old.escalations, IF kind = "incident" THEN 0 ELSE old.escalations},
             who \in IF kind = "incident" THEN {old.assignee} ELSE Assignees(old) :
          row = Updated(old, status, count, who)
    BY <2>1 DEF Updates
  <2>3. status \in Statuses /\ count \in Nat /\ who \in {old.assignee, "hand", "nobody"}
    BY <1>0 DEF Row, Assignees
  <2> QED BY <2>2, <2>3 DEF Updated, Row
<1>9. CASE call.op = "delete"
  BY <1>9 DEF Outcomes, Deleted, Row
<1>10. CASE call.op = "approve"
  <2>1. row = Decided(old, "APPROVED", "approved")
    BY <1>10 DEF Outcomes
  <2> QED BY <1>0, <2>1 DEF Decided, Row
<1>11. CASE call.op = "reject"
  <2>1. row = Decided(old, "REJECTED", "rejected")
    BY <1>11 DEF Outcomes
  <2> QED BY <1>0, <2>1 DEF Decided, Row
<1>12. CASE call.op = "implement"
  <2>1. row = Implemented(call, old)
    BY <1>12 DEF Outcomes
  <2>2. PICK time \in Nat : /\ time = KeptOrNow(call, before.begun)
                            /\ (~call.given /\ before.begun # Never) => time = before.begun
    BY <1>2 DEF Row
  <2> QED BY <1>0, <1>1, <2>1, <2>2 DEF Implemented, Row
<1>13. CASE call.op \in {"complete", "close"}
  <2>1. row = Completed(call, old)
    BY <1>13 DEF Outcomes
  <2>2. KeptOrNow(call, before.ended) \in Nat /\ before.closed \in Nat
    BY <1>2 DEF Row
  <2> QED BY <1>0, <1>1, <2>1, <2>2 DEF Completed, Row
<1>14. CASE call.op = "rollback"
  <2>1. row = RolledBack(old)
    BY <1>14 DEF Outcomes
  <2> QED BY <1>0, <2>1 DEF RolledBack, Row
<1>15. CASE call.op = "fulfill"
  <2>1. row = Fulfilled(old)
    BY <1>15 DEF Outcomes
  <2> QED BY <1>0, <2>1 DEF Fulfilled, Row
<1>16. CASE call.op = "cancel"
  <2>1. row = Cancelled(old)
    BY <1>16 DEF Outcomes
  <2> QED BY <1>0, <2>1 DEF Cancelled, Row
<1> QED BY <1>3, <1>4, <1>5, <1>6, <1>7, <1>8, <1>9, <1>10, <1>11, <1>12, <1>13, <1>14, <1>15, <1>16

\* A ticket is written that is there, or is there from now on, with its clocks due.
LEMMA TicketWritten ==
    ASSUME TicketsInv, NEW n \in Numbers, NEW row \in Row, row.state # "none",
           tickets' = [tickets EXCEPT ![n] = row],
           due' = due \/ (due' = due \cup {n} /\ ~Exists(n)),
           UNCHANGED <<kind, clocks, now>>,
           NEW c \in Callers, NEW call \in DeskCall, Followed(call)', WriteAnd(c, call)
    PROVE  TicketsInv'
<1>1. /\ tickets' \in [Numbers -> Row] /\ tickets'[n] = row
      /\ \A m \in Numbers : m # n => tickets'[m] = tickets[m]
  BY DEF TicketsInv, DeskTyped
<1>2. Exists(n)' /\ \A m \in Numbers : Exists(m) => Exists(m)'
  BY <1>1 DEF Exists
<1>3. Grows
  BY <1>2 DEF Grows, Started, ClockIs
<1>4. calls' \in [Callers -> DeskCall] /\ \A d \in Callers : Followed(calls[d])'
  BY <1>3, AfterWrite
<1>5. DeskTyped'
  BY <1>1, <1>4 DEF TicketsInv, DeskTyped
<1>6. StartedOnce'
  <2>1. \A m \in Numbers : ~Exists(m)' => tickets'[m] = NoTicket
    BY <1>1, <1>2 DEF TicketsInv, StartedOnce
  <2>2. \A m \in due' : m \in Numbers /\ Exists(m)'
    BY <1>2 DEF TicketsInv, StartedOnce
  <2>3. ASSUME NEW k \in Clocks
        PROVE  IF ClockIs(k, "none")' THEN clocks'[k] = NoClock ELSE Exists(k[1])' /\ k[1] \notin due'
    <3>1. k[1] \in Numbers
      BY DEF Clocks
    <3>2. ClockIs(k, "none")' <=> ClockIs(k, "none")
      BY DEF ClockIs
    <3> QED BY <1>2, <3>1, <3>2 DEF TicketsInv, StartedOnce
  <2> QED BY <2>1, <2>2, <2>3 DEF StartedOnce, NoClock, NoTicket
<1> QED BY <1>4, <1>5, <1>6 DEF TicketsInv

LEMMA IdleAfter == ASSUME TicketsInv, kind' = kind PROVE Followed(Idle)'
<1>1. kind' \in DOMAIN Operations
  BY DEF TicketsInv, DeskTyped
<1> QED BY <1>1, IdleOfDesk DEF Followed, Refers, Current, OfTicket, OfClock, Operations

LEMMA CreateReadStep ==
    ASSUME TicketsInv, NEW c \in Callers, CreateRead(c)
    PROVE  TicketsInv'
<1>1. NextFree \in Numbers /\ NextFree \in Nat
  BY SlaAssumption DEF CreateRead
<1>2. PICK n \in Numbers : n = NextFree /\ n \in Nat
  BY <1>1
<1>3. PICK byHand \in BOOLEAN :
        Start(c, [Idle EXCEPT !.op = "create", !.number = n, !.given = byHand])
  BY <1>2, Zenon DEF CreateRead
<1> DEFINE x == [Idle EXCEPT !.op = "create", !.number = n, !.given = byHand]
<1>4. calls' = [calls EXCEPT ![c] = x] /\ UNCHANGED <<clocks, due, ticketVars, now>>
  BY <1>3 DEF Start, CreateRead
<1>5. x \in DeskCall /\ x.op = "create" /\ x.number = n
  <2>1. x \in DeskCall
    BY <1>2, <1>3, IdleOfDesk DEF DeskCall, DeskOperations
  <2> QED BY <2>1 DEF Idle
<1> HIDE DEF x
<1>6. Followed(x)
  BY <1>5 DEF Followed, Refers, Current, OfTicket, OfClock, Operations, TicketsInv, DeskTyped
<1> QED BY <1>4, <1>5, <1>6, OnlyRead

LEMMA FindStep ==
    ASSUME TicketsInv, NEW c \in Callers, Find(c)
    PROVE  TicketsInv'
<1>1. PICK n \in Numbers, op \in Operations[kind], given \in BOOLEAN :
        /\ tickets[n].state = "live"
        /\ Start(c, [Idle EXCEPT !.op = op, !.number = n, !.row = {tickets[n]}, !.given = given])
  BY DEF Find
<1> DEFINE x == [Idle EXCEPT !.op = op, !.number = n, !.row = {tickets[n]}, !.given = given]
<1>2. calls' = [calls EXCEPT ![c] = x] /\ UNCHANGED <<clocks, due, ticketVars, now>>
  BY <1>1 DEF Start, Find
<1>3. tickets[n] \in Row /\ Exists(n) /\ n \in Nat
  BY <1>1, SlaAssumption DEF TicketsInv, DeskTyped, Exists
<1>4. op \in DeskOperations /\ op \notin {"idle", "create", "route", "pause", "resume", "breach"}
      /\ (kind = "incident" => op # "complete")
  BY DEF Operations, DeskOperations, TicketsInv, DeskTyped
<1>5. x \in DeskCall
  BY <1>1, <1>3, <1>4, IdleOfDesk DEF DeskCall
<1>6. x.op = op /\ x.number = n /\ x.row = {tickets[n]}
  BY DEF Idle
<1> HIDE DEF x
<1>7. Refers(x) /\ Current(x)
  BY <1>3, <1>4, <1>6 DEF Refers, Current, OfTicket, OfClock
<1> QED BY <1>2, <1>5, <1>7, OnlyRead DEF Followed

\* Of a ticket that was not there nothing is lost.
LEMMA CreateStep ==
    ASSUME TicketsInv, NEW c \in Callers, Create(c)
    PROVE  TicketsInv' /\ \A n \in Numbers : FirstTimes(n)
<1>1. PICK call \in DeskCall : call = calls[c]
  BY DEF TicketsInv, DeskTyped
<1> DEFINE n == call.number
           new == [NoTicket EXCEPT !.state = "live", !.statusKey = "new"]
<1>2. n \in Numbers /\ UNCHANGED <<kind, clocks>>
  BY <1>1 DEF Create, Doing, TicketsInv, Followed, Refers
<1>3. CASE Exists(n)
  <2>1. End(c) /\ UNCHANGED <<clocks, due, ticketVars>>
    BY <1>1, <1>2, <1>3 DEF Create, ticketVars
  <2>2. tickets' = tickets
    BY <2>1 DEF ticketVars
  <2> QED BY <2>1, <2>2, OnlyEnded DEF FirstTimes
<1>4. CASE ~Exists(n)
  <2>1. PICK assignee \in {"hand", "nobody"} :
          /\ tickets' = [tickets EXCEPT ![n] = [new EXCEPT !.assignee = assignee]]
          /\ ~call.given => assignee = "nobody"
    BY <1>1, <1>4 DEF Create
  <2> DEFINE row == [new EXCEPT !.assignee = assignee]
             route == [Idle EXCEPT !.op = "route", !.number = n, !.row = {new}]
  <2>2. /\ due' = due \/ (due' = due \cup {n} /\ ~Exists(n))
        /\ WriteAnd(c, IF kind = "incident" /\ ~call.given THEN route ELSE Idle)
        /\ now' = now
    BY <1>1, <1>4 DEF Create, Write, WriteAnd
  <2>3. /\ new \in Row /\ new.state = "live" /\ new.assignee = "nobody"
        /\ row \in Row /\ row.state = "live"
        /\ assignee = "nobody" => row = new
    BY NewTicket DEF Row, Statuses
  <2>4. tickets'[n] = row
    BY <1>2, <2>1 DEF TicketsInv, DeskTyped
  <2>5. PICK next \in DeskCall : WriteAnd(c, next) /\ Followed(next)'
    <3>1. CASE kind = "incident" /\ ~call.given
      <4>1. route \in DeskCall
        BY <1>2, <2>3, SlaAssumption, IdleOfDesk DEF DeskCall, DeskOperations
      <4>2. route.op = "route" /\ route.number = n /\ route.row = {new}
        BY DEF Idle
      <4>3. tickets'[n] = new
        BY <2>1, <2>3, <2>4, <3>1
      <4> HIDE DEF route, new, row
      <4>4. WriteAnd(c, route)
        BY <2>2, <3>1
      <4>5. Exists(n)' /\ tickets'[n].assignee = "nobody"
        BY <2>3, <4>3 DEF Exists
      <4>6. Followed(route)'
        <5>1. ~OfClock(route)'
          BY <4>2 DEF OfClock
        <5> QED BY <1>2, <2>3, <4>2, <4>3, <4>5, <5>1 DEF Followed, Refers, Current
      <4> QED BY <4>1, <4>4, <4>6
    <3>2. CASE ~(kind = "incident" /\ ~call.given)
      <4>1. WriteAnd(c, Idle)
        BY <2>2, <3>2
      <4> QED BY <1>2, <4>1, IdleAfter, IdleOfDesk
    <3> QED BY <3>1, <3>2
  <2>6. TicketsInv'
    <3> HIDE DEF new, row, n
    <3> QED BY <1>2, <2>1, <2>2, <2>3, <2>5, TicketWritten DEF row
  <2>7. ASSUME NEW m \in Numbers PROVE FirstTimes(m)
    <3>1. CASE m = n
      <4>1. tickets[m] = NoTicket
        BY <1>4, <3>1 DEF TicketsInv, StartedOnce
      <4> QED BY <4>1, NewTicket DEF FirstTimes
    <3>2. CASE m # n
      <4>1. tickets'[m] = tickets[m]
        BY <2>1, <3>2 DEF TicketsInv, DeskTyped
      <4> QED BY <4>1 DEF FirstTimes
    <3> QED BY <3>1, <3>2
  <2> QED BY <2>6, <2>7
<1> QED BY <1>3, <1>4

\* A call that has read its ticket writes it.  Unless it was overtaken it knows the row
\* as it is; unless a time was given it keeps that row's times.
LEMMA TicketOfCall ==
    ASSUME TicketsInv, NEW c \in Callers, OfTicket(calls[c]), NEW row \in Row, Write(c),
           tickets' = [tickets EXCEPT ![calls[c].number] = row], row.state # "none",
           UNCHANGED <<kind, clocks, due>>,
           LET old == tickets[calls[c].number]
           IN  \/ calls[c].overtaken \/ calls[c].given
               \/ /\ old.response # Never => row.response = old.response
                  /\ old.begun # Never => row.begun = old.begun
                  /\ old.assignee = "hand" => row.assignee # "lead"
    PROVE  TicketsInv' /\ \A n \in Numbers : FirstTimes(n)
<1>1. PICK n \in Numbers : n = calls[c].number /\ Exists(n)
  BY DEF TicketsInv, Followed, Refers
<1>2. tickets' = [tickets EXCEPT ![n] = row] /\ WriteAnd(c, Idle) /\ now' = now
  BY <1>1 DEF Write, WriteAnd
<1>3. TicketsInv'
  BY <1>1, <1>2, IdleAfter, IdleOfDesk, TicketWritten
<1>4. calls'[c] # calls[c]
  <2>1. calls'[c] = Idle
    BY <1>2 DEF WriteAnd
  <2>2. calls[c].op # "idle"
    BY DEF OfTicket, Operations, TicketsInv, DeskTyped
  <2> QED BY <2>1, <2>2, IdleOfDesk
<1>5. ASSUME NEW m \in Numbers PROVE FirstTimes(m)
  <2>1. CASE m = n
    <3>1. tickets'[m] = row
      BY <1>2, <2>1 DEF TicketsInv, DeskTyped
    <3>2. CASE calls[c].overtaken
      BY <1>4, <3>2 DEF FirstTimes, ByOvertaken
    <3>3. CASE calls[c].given
      BY <1>4, <3>3 DEF FirstTimes
    <3>4. CASE /\ tickets[n].response # Never => row.response = tickets[n].response
               /\ tickets[n].begun # Never => row.begun = tickets[n].begun
               /\ tickets[n].assignee = "hand" => row.assignee # "lead"
      BY <2>1, <3>1, <3>4 DEF FirstTimes
    <3> QED BY <1>1, <3>2, <3>3, <3>4
  <2>2. CASE m # n
    <3>1. tickets'[m] = tickets[m]
      BY <1>2, <2>2 DEF TicketsInv, DeskTyped
    <3> QED BY <3>1 DEF FirstTimes
  <2> QED BY <2>1, <2>2
<1> QED BY <1>3, <1>5

LEMMA TicketRead ==
    ASSUME TicketsInv, NEW c \in Callers, OfTicket(calls[c])
    PROVE  \E n \in Numbers, before \in Row :
              /\ n = calls[c].number /\ tickets[n] \in Row /\ tickets[n].state # "none"
              /\ calls[c].row = {before} /\ Before(calls[c]) = before
              /\ calls[c].overtaken \/ before = tickets[n]
<1>1. /\ calls[c].number \in Numbers /\ Exists(calls[c].number)
      /\ \E row \in calls[c].row : calls[c].row = {row}
  BY DEF TicketsInv, Followed, Refers
<1>2. PICK before \in calls[c].row : calls[c].row = {before}
  BY <1>1
<1>3. before \in Row
  BY <1>2 DEF TicketsInv, DeskTyped, DeskCall
<1>4. Before(calls[c]) = before
  BY <1>2 DEF Before
<1>5. calls[c].overtaken \/ calls[c].row = {tickets[calls[c].number]}
  BY DEF TicketsInv, Followed, Current
<1> QED BY <1>1, <1>2, <1>3, <1>4, <1>5 DEF Exists, TicketsInv, DeskTyped

LEMMA AutoAssignStep ==
    ASSUME TicketsInv, NEW c \in Callers, AutoAssign(c)
    PROVE  TicketsInv' /\ \A n \in Numbers : FirstTimes(n)
<1>1. OfTicket(calls[c]) /\ calls[c].op = "route"
  BY DEF OfTicket, AutoAssign, Doing
<1>2. PICK n \in Numbers, before \in Row :
        /\ n = calls[c].number /\ tickets[n] \in Row /\ tickets[n].state # "none"
        /\ calls[c].row = {before} /\ Before(calls[c]) = before
        /\ calls[c].overtaken \/ before = tickets[n]
  BY <1>1, TicketRead
<1> DEFINE time == IF before.response = Never THEN now ELSE before.response
           row == [tickets[n] EXCEPT !.assignee = "lead", !.response = time]
<1>3. time \in Nat
  BY DEF Row, TicketsInv, DeskTyped
<1>4. row \in Row /\ row.state = tickets[n].state /\ row.response = time
      /\ row.begun = tickets[n].begun
  <2> HIDE DEF time
  <2> QED BY <1>2, <1>3 DEF Row
<1>5. tickets' = [tickets EXCEPT ![n] = row] /\ Write(c) /\ UNCHANGED <<kind, clocks, due>>
  <2>1. tickets' = [tickets EXCEPT ![n].assignee = "lead", ![n].response = time]
    BY <1>2 DEF AutoAssign
  <2> QED BY <1>2, <2>1 DEF AutoAssign, TicketsInv, DeskTyped
<1>6. calls[c].overtaken \/ tickets[n].assignee = "nobody"
  BY <1>1, <1>2 DEF TicketsInv, Followed, Current
<1>7. \/ calls[c].overtaken
      \/ /\ tickets[n].response # Never => row.response = tickets[n].response
         /\ tickets[n].begun # Never => row.begun = tickets[n].begun
         /\ tickets[n].assignee = "hand" => row.assignee # "lead"
  BY <1>2, <1>4, <1>6
<1> HIDE DEF row
<1> QED BY <1>1, <1>2, <1>4, <1>5, <1>7, TicketOfCall

LEMMA ApplyStep ==
    ASSUME TicketsInv, NEW c \in Callers, Apply(c)
    PROVE  TicketsInv' /\ \A n \in Numbers : FirstTimes(n)
<1>1. OfTicket(calls[c]) /\ calls[c].op \in Operations[kind]
  BY DEF OfTicket, Apply
<1>2. PICK n \in Numbers, before \in Row :
        /\ n = calls[c].number /\ tickets[n] \in Row /\ tickets[n].state # "none"
        /\ calls[c].row = {before} /\ Before(calls[c]) = before
        /\ calls[c].overtaken \/ before = tickets[n]
  BY <1>1, TicketRead
<1>3. PICK row \in Outcomes(calls[c], tickets[n]) : tickets' = [tickets EXCEPT ![n] = row]
  BY <1>2 DEF Apply
<1>4. kind \in DOMAIN Operations /\ now \in Nat /\ calls[c] \in DeskCall
  BY DEF TicketsInv, DeskTyped
<1>5. /\ row \in Row /\ row.state # "none"
      /\ tickets[n].assignee = "hand" => row.assignee # "lead"
      /\ (~calls[c].given /\ before = tickets[n]) =>
            /\ tickets[n].response # Never => row.response = tickets[n].response
            /\ tickets[n].begun # Never => row.begun = tickets[n].begun
  BY <1>1, <1>2, <1>3, <1>4, OutcomesKeep
<1>6. Write(c) /\ UNCHANGED <<kind, clocks, due>>
  BY DEF Apply
<1> QED BY <1>1, <1>2, <1>3, <1>5, <1>6, TicketOfCall

LEMMA TicketStepKeeps ==
    ASSUME TicketsInv, NEW c \in Callers, TicketStep(c)
    PROVE  /\ TicketsInv'
           /\ \A n \in Numbers : FirstTimes(n)
           /\ \A k \in Clocks : ClockTurns(k)
<1>1. \A k \in Clocks : ClockTurns(k)
  BY ClocksLeft DEF TicketStep, CreateRead, Create, AutoAssign, NoTeam, Find, Apply
<1>2. ASSUME CreateRead(c) \/ NoTeam(c) \/ Find(c) PROVE \A n \in Numbers : FirstTimes(n)
  BY <1>2 DEF CreateRead, NoTeam, Find, ticketVars, FirstTimes
<1>3. CASE NoTeam(c)
  BY <1>1, <1>2, <1>3, OnlyEnded DEF NoTeam
<1> QED BY <1>1, <1>2, <1>3, CreateReadStep, CreateStep, AutoAssignStep, FindStep, ApplyStep
        DEF TicketStep

--------------------------------------------------------------------------------
LEMMA FollowedInit == Init => TicketsFollowed
<1> SUFFICES ASSUME Init PROVE TicketsInv
  BY DEF TicketsFollowed
<1>1. /\ calls = [c \in Callers |-> Idle] /\ now = 1 /\ kind \in DOMAIN Operations
      /\ tickets = [n \in Numbers |-> NoTicket] /\ clocks = [k \in Clocks |-> NoClock] /\ due = {}
  BY DEF Init, InitCalls, InitClocks, InitTickets
<1>2. NoClock \in Clock /\ NoClock.status = "none"
  BY DEF NoClock, Clock, Never
<1>3. DeskTyped
  <2>1. calls \in [Callers -> DeskCall]
    BY <1>1, IdleOfDesk
  <2>2. clocks \in [Clocks -> Clock]
    BY <1>1, <1>2
  <2>3. tickets \in [Numbers -> Row]
    BY <1>1, NewTicket
  <2> QED BY <1>1, <2>1, <2>2, <2>3 DEF DeskTyped
<1>4. StartedOnce
  <2>1. \A n \in Numbers : tickets[n] = NoTicket
    BY <1>1
  <2>2. \A k \in Clocks : clocks[k] = NoClock /\ ClockIs(k, "none")
    BY <1>1, <1>2 DEF ClockIs
  <2> QED BY <1>1, <2>1, <2>2 DEF StartedOnce
<1>5. \A c \in Callers : Followed(calls[c])
  BY <1>1, IdleFollowed
<1> QED BY <1>3, <1>4, <1>5 DEF TicketsInv

LEMMA DeskStepKeeps ==
    ASSUME TicketsFollowed, DeskStep
    PROVE  /\ TicketsFollowed'
           /\ \A n \in Numbers : FirstTimes(n)
           /\ \A k \in Clocks : ClockTurns(k)
<1>1. TicketsInv /\ desk' = desk /\ desk = "tickets"
  BY DEF DeskStep, TicketsFollowed
<1>2. ASSUME NEW c \in Callers, TicketStep(c)
      PROVE  /\ TicketsInv' /\ \A n \in Numbers : FirstTimes(n)
             /\ \A k \in Clocks : ClockTurns(k)
  BY <1>1, <1>2, TicketStepKeeps
<1>3. ASSUME UNCHANGED ticketVars PROVE \A n \in Numbers : FirstTimes(n)
  BY <1>3 DEF ticketVars, FirstTimes
<1>4. ASSUME NEW c \in Callers, ClockStep(c), kind = "incident", UNCHANGED ticketVars
      PROVE  TicketsInv' /\ \A k \in Clocks : ClockTurns(k)
  BY <1>1, <1>4, ClockStepKeeps
<1>5. ASSUME NEW n \in Numbers, StartClocks(n) \/ NoClocks(n), UNCHANGED ticketVars
      PROVE  TicketsInv' /\ \A k \in Clocks : ClockTurns(k)
  <2>1. CASE StartClocks(n)
    BY <1>1, <1>5, <2>1, StartClocksStep
  <2>2. CASE NoClocks(n)
    BY <1>1, <1>5, <2>2, NoClocksStep, ClocksLeft DEF NoClocks
  <2> QED BY <1>5, <2>1, <2>2
<1>6. ASSUME Tick, UNCHANGED <<clocks, due, ticketVars>>
      PROVE  TicketsInv' /\ \A k \in Clocks : ClockTurns(k)
  BY <1>1, <1>6, TickStep, ClocksLeft
<1>7. /\ TicketsInv' /\ \A n \in Numbers : FirstTimes(n)
      /\ \A k \in Clocks : ClockTurns(k)
  BY <1>2, <1>3, <1>4, <1>5, <1>6 DEF DeskStep
<1> QED BY <1>1, <1>7 DEF TicketsFollowed

LEMMA DeskFollows ==
    ASSUME TicketsFollowed, [Next]_vars
    PROVE  /\ TicketsFollowed'
           /\ \A n \in Numbers : FirstTimes(n)
           /\ \A k \in Clocks : ClockTurns(k)
<1>1. CASE DeskStep
  BY <1>1, DeskStepKeeps
<1>2. CASE ApprovalsStep
  <2>1. desk = "approvals" /\ desk' = desk /\ UNCHANGED <<clocks, ticketVars>>
    BY <1>2 DEF ApprovalsStep
  <2> QED BY <2>1, ClocksLeft DEF TicketsFollowed, ticketVars, FirstTimes
<1>3. CASE UNCHANGED vars
  <2>1. UNCHANGED <<desk, calls, now, clocks, due, kind, tickets>>
    BY <1>3 DEF vars, callVars, ticketVars
  <2>2. TicketsInv => TicketsInv'
    <3> SUFFICES ASSUME TicketsInv PROVE TicketsInv'
      OBVIOUS
    <3>1. Steady
      BY <2>1 DEF Steady
    <3>2. \A d \in Callers : Followed(calls[d])'
      BY <2>1, <3>1, AfterNone
    <3> QED BY <2>1, <3>2 DEF TicketsInv, DeskTyped, StartedOnce, Exists, ClockIs
  <2> QED BY <2>1, <2>2, ClocksLeft DEF TicketsFollowed, FirstTimes
<1> QED BY <1>1, <1>2, <1>3 DEF Next

\* The clocks of any incidents, under any service levels, turn in the order their
\* statuses allow, and a breach is of a deadline that had passed, unless the call that
\* turns one was overtaken since it read it (services/itsm/slaEngine.service.ts).
THEOREM ClocksAlwaysTurnInOrder == Spec => ClocksTurnInOrder
<1>1. TicketsFollowed /\ [Next]_vars => TicketsFollowed'
  BY DeskFollows
<1>2. TicketsFollowed /\ [Next]_vars => [\A k \in Clocks : ClockTurns(k)]_vars
  BY DeskFollows
<1> QED BY <1>1, <1>2, FollowedInit, PTL DEF Spec, ClocksTurnInOrder

\* Of any tickets the first times are kept, and the choices made by hand, unless the
\* call that writes was overtaken since it read the ticket or is given the time
\* (incidents.service.ts, changes.service.ts).
THEOREM FirstTimesAlwaysKept == Spec => FirstTimesKept
<1>1. TicketsFollowed /\ [Next]_vars => TicketsFollowed'
  BY DeskFollows
<1>2. TicketsFollowed /\ [Next]_vars => [\A n \in Numbers : FirstTimes(n)]_vars
  BY DeskFollows
<1> QED BY <1>1, <1>2, FollowedInit, PTL DEF Spec, FirstTimesKept
=============================================================================
