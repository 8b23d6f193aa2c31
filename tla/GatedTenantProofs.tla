------------------------- MODULE GatedTenantProofs -------------------------
(***************************************************************************)
(* First ApprovalGate's invariants, for any number of requests, approvers, *)
(* concurrent calls and crashes, and any policy; then GatedTenant, which   *)
(* implements both of its components and keeps what each of them keeps,    *)
(* and the gate that holds for any number of staff requests.               *)
(***************************************************************************)
EXTENDS GatedTenant, FiniteSetTheorems, TLAPS

\* What a call knows of the request it is about to write.
CallKnows ==
    \A c \in Calls :
        /\ At(c, "record") =>
              /\ call[c].decides \in Decisions
              /\ call[c].min \in 1..MaxMin
              /\ call[c].seen <= Cardinality(ApprovedBy(call[c].r))
        /\ At(c, "reject") => decision[call[c].r][call[c].by] = "REJECTED"
        /\ At(c, "approve") => ran[call[c].r]
        /\ At(c, "expire") => overdue[call[c].r]

\* Those whose decision completed a quorum approved; nobody has, exactly when
\* no quorum is on record.
PassedApproved ==
    \A r \in Requests :
        /\ passed[r] \subseteq ApprovedBy(r)
        /\ passed[r] = {} <=> laxest[r] = 0

IInv ==
    /\ GateTypeOK
    /\ CallKnows
    /\ PassedApproved
    /\ QuorumBehindExecution
    /\ ClosedForReason

\* The approvals of a request are finitely many.
LEMMA ApprovedByFinite ==
  \A r : IsFiniteSet(ApprovedBy(r)) /\ Cardinality(ApprovedBy(r)) \in Nat
  BY FS_Subset, FS_CardinalityType, GateAssumption DEF ApprovedBy

\* One approver more.
LEMMA OneMore ==
  ASSUME NEW S, IsFiniteSet(S), NEW x
  PROVE  /\ Cardinality(S \cup {x}) \in Nat /\ Cardinality(S) \in Nat
         /\ Cardinality(S \cup {x}) <= Cardinality(S) + 1
         /\ x \notin S => Cardinality(S \cup {x}) = Cardinality(S) + 1
  <1>1. IsFiniteSet(S \cup {x}) /\ Cardinality(S) \in Nat
    BY FS_AddElement, FS_CardinalityType
  <1>2. Cardinality(S \cup {x}) = IF x \in S THEN Cardinality(S) ELSE Cardinality(S) + 1
    BY FS_AddElement
  <1>. QED BY <1>1, <1>2

\* A new gate satisfies the invariant.
LEMMA InitIInv == GateInit => IInv
  <1> SUFFICES ASSUME GateInit PROVE IInv
    OBVIOUS
  <1> USE GateAssumption DEF GateInit
  <1>1. call \in [Calls -> Call]
    BY DEF NoCall, Call
  <1>2. GateTypeOK
    BY <1>1 DEF GateTypeOK, RequestStatus, At, NoCall
  <1>3. CallKnows
    BY DEF CallKnows, At, NoCall
  <1>4. PassedApproved /\ QuorumBehindExecution /\ ClosedForReason
    BY DEF PassedApproved, QuorumBehindExecution, ClosedForReason
  <1>. QED BY <1>2, <1>3, <1>4 DEF IInv

\* What a step leaves as it was: the decisions, the ghosts and what is over.
Keeps == UNCHANGED <<decision, passed, laxest, ran>>

\* A step that keeps them, and touches calls and requests only as its action
\* says, keeps the quorum.
LEMMA KeepsQuorum ==
  PassedApproved /\ QuorumBehindExecution /\ Keeps => PassedApproved' /\ QuorumBehindExecution'
  BY DEF PassedApproved, QuorumBehindExecution, Keeps, ApprovedBy

\* A call that ends leaves nothing to know.
LEMMA ReturnKnows ==
  ASSUME GateTypeOK, CallKnows, NEW c \in Calls, Return(c),
         UNCHANGED <<overdue, decision, ran>>
  PROVE  CallKnows' /\ call' \in [Calls -> Call]
         /\ \A x \in Calls : call'[x].pc # "idle" => call'[x] = call[x]
  BY DEF Return, NoCall, Call, CallKnows, GateTypeOK, At, ApprovedBy

\* Recording a decision keeps the invariant: the one step at which the quorum
\* is counted.
LEMMA DecideRecordStep ==
  ASSUME IInv, NEW c \in Calls, DecideRecord(c)
  PROVE  IInv'
  <1> SUFFICES ASSUME NEW r, r = call[c].r, NEW a, a = call[c].by,
                      NEW d, d = call[c].decides, NEW next, next = AfterDecision(c)
               PROVE  IInv'
    OBVIOUS
  <1> DEFINE New(q) == {u \in Approvers : decision'[q][u] = "APPROVED"}
  <1> USE DEF IInv
  <1>1. /\ r \in Requests /\ a \in Approvers /\ d \in Decisions
        /\ call[c].min \in 1..MaxMin /\ call[c].seen \in Nat
        /\ call[c].seen <= Cardinality(ApprovedBy(r))
        /\ MaxMin \in Nat
    BY GateAssumption DEF DecideRecord, GateTypeOK, CallKnows, At, Call
  <1>2. decision[r][a] = "NONE" /\ decision' = [decision EXCEPT ![r][a] = d]
    BY DEF DecideRecord
  <1>3. next \in {"reject", "execute", "idle"} /\ (next = "reject" <=> d = "REJECTED")
    BY <1>1 DEF AfterDecision, Decisions
  <1>4. next = "execute" => d = "APPROVED" /\ call[c].seen + 1 >= call[c].min
    BY <1>1 DEF AfterDecision, QuorumReached, Decisions
  <1>5. /\ call' = [call EXCEPT ![c] = IF next = "idle" THEN NoCall ELSE [@ EXCEPT !.pc = next]]
        /\ UNCHANGED <<rstatus, overdue, policy, crashes, ran>>
        /\ next = "execute" =>
              /\ passed' = [passed EXCEPT ![r] = @ \cup {a}]
              /\ laxest' = [laxest EXCEPT ![r] = Lower(@, call[c].min)]
        /\ next # "execute" => UNCHANGED <<passed, laxest>>
    BY DEF DecideRecord
  <1>6. /\ \A q \in Requests : q # r => New(q) = ApprovedBy(q)
        /\ ApprovedBy(r) \subseteq New(r)
        /\ d = "APPROVED" => New(r) = ApprovedBy(r) \cup {a}
        /\ a \notin ApprovedBy(r)
    BY <1>1, <1>2 DEF ApprovedBy, GateTypeOK
  <1>7. /\ \A q \in Requests : Cardinality(ApprovedBy(q)) \in Nat /\ Cardinality(New(q)) \in Nat
        /\ \A q \in Requests : Cardinality(ApprovedBy(q)) <= Cardinality(New(q))
        /\ d = "APPROVED" => Cardinality(New(r)) = Cardinality(ApprovedBy(r)) + 1
    <2>1. \A q : IsFiniteSet(ApprovedBy(q)) /\ IsFiniteSet(New(q))
      BY FS_Subset, GateAssumption DEF ApprovedBy
    <2>2. \A q \in Requests : ApprovedBy(q) \subseteq New(q)
      BY <1>6
    <2>. QED BY <1>6, <2>1, <2>2, FS_Subset, FS_CardinalityType, FS_AddElement
  <1>8. Lower(laxest[r], call[c].min) \in 1..MaxMin
    BY <1>1 DEF Lower, GateTypeOK
  <1>9. /\ decision' \in [Requests -> [Approvers -> Decisions \cup {"NONE"}]]
        /\ call' \in [Calls -> Call]
        /\ passed' \in [Requests -> SUBSET Approvers]
        /\ laxest' \in [Requests -> 0..MaxMin]
    <2>1. decision' \in [Requests -> [Approvers -> Decisions \cup {"NONE"}]]
      BY <1>1, <1>2 DEF GateTypeOK
    <2>2. [call[c] EXCEPT !.pc = next] \in Call
      BY <1>3 DEF GateTypeOK, Call
    <2>3. NoCall \in Call
      BY DEF NoCall, Call
    <2>4. call' \in [Calls -> Call]
      BY <1>5, <2>2, <2>3 DEF GateTypeOK
    <2>5. passed' \in [Requests -> SUBSET Approvers] /\ laxest' \in [Requests -> 0..MaxMin]
      BY <1>1, <1>5, <1>8 DEF GateTypeOK
    <2>. QED BY <2>1, <2>4, <2>5
  <1>10. /\ \A x \in Calls : x # c => call'[x] = call[x]
         /\ next = "idle" => call'[c] = NoCall
         /\ next # "idle" => call'[c] = [call[c] EXCEPT !.pc = next]
    BY <1>5 DEF GateTypeOK
  <1>11. /\ call'[c].pc = next
         /\ next # "idle" => call'[c].r = r /\ call'[c].by = a
    <2>1. call[c] \in Call
      BY DEF GateTypeOK
    <2>. QED BY <1>10, <2>1 DEF NoCall, Call
  <1>12. GateTypeOK'
    <2>1. \A x \in Calls :
             /\ call'[x].pc # "idle" => call'[x].r \in Requests
             /\ call'[x].pc \in {"record", "reject", "execute", "approve"} => call'[x].by \in Approvers
      BY <1>1, <1>10, <1>11 DEF GateTypeOK, At
    <2>. QED BY <1>5, <1>9, <2>1 DEF GateTypeOK, policy, At
  <1>13. CallKnows'
    <2> SUFFICES ASSUME NEW x \in Calls
                 PROVE  /\ call'[x].pc = "record" =>
                              /\ call'[x].decides \in Decisions
                              /\ call'[x].min \in 1..MaxMin
                              /\ call'[x].seen <= Cardinality(New(call'[x].r))
                        /\ call'[x].pc = "reject" => decision'[call'[x].r][call'[x].by] = "REJECTED"
                        /\ call'[x].pc = "approve" => ran'[call'[x].r]
                        /\ call'[x].pc = "expire" => overdue'[call'[x].r]
      BY DEF CallKnows, At, ApprovedBy
    <2>1. CASE x = c
      BY <2>1, <1>1, <1>2, <1>3, <1>11 DEF GateTypeOK
    <2>2. CASE x # c
      <3>1. call'[x] = call[x] /\ call[x].seen \in Nat
        BY <2>2, <1>10 DEF GateTypeOK, Call
      <3>2. call[x].pc # "idle" => call[x].r \in Requests
        BY DEF GateTypeOK, At
      <3>3. call[x].pc = "record" => call[x].seen <= Cardinality(New(call[x].r))
        BY <3>1, <3>2, <1>7 DEF CallKnows, At
      <3>4. call[x].pc = "reject" => decision'[call[x].r][call[x].by] = "REJECTED"
        BY <1>1, <1>2, <3>2 DEF CallKnows, At, GateTypeOK
      <3>. QED BY <1>5, <3>1, <3>2, <3>3, <3>4 DEF CallKnows, At
    <2>. QED BY <2>1, <2>2
  <1>14. PassedApproved'
    <2> SUFFICES ASSUME NEW q \in Requests
                 PROVE  passed'[q] \subseteq New(q) /\ (passed'[q] = {} <=> laxest'[q] = 0)
      BY DEF PassedApproved, ApprovedBy
    <2>1. CASE next = "execute" /\ q = r
      BY <2>1, <1>1, <1>4, <1>5, <1>6, <1>8 DEF PassedApproved, GateTypeOK
    <2>2. CASE ~(next = "execute" /\ q = r)
      BY <2>2, <1>1, <1>5, <1>6 DEF PassedApproved, GateTypeOK
    <2>. QED BY <2>1, <2>2
  <1>15. QuorumBehindExecution'
    <2> SUFFICES ASSUME NEW q \in Requests, passed'[q] # {}
                 PROVE  Cardinality(passed'[q]) + laxest'[q] <= Cardinality(New(q)) + 1
      BY DEF QuorumBehindExecution, ApprovedBy
    <2>1. IsFiniteSet(passed[q]) /\ Cardinality(passed[q]) \in Nat /\ laxest[q] \in Nat
      BY FS_Subset, FS_CardinalityType, GateAssumption DEF GateTypeOK
    <2>2. CASE next = "execute" /\ q = r
      <3>1. passed'[q] = passed[q] \cup {a} /\ laxest'[q] = Lower(laxest[q], call[c].min)
        BY <2>2, <1>1, <1>5 DEF GateTypeOK
      <3>2. Cardinality(New(q)) = Cardinality(ApprovedBy(q)) + 1
        BY <2>2, <1>4, <1>7
      <3>3. CASE passed[q] = {}
        <4>1. laxest[q] = 0
          BY <3>3 DEF PassedApproved
        <4>2. Cardinality(passed'[q]) = 1
          BY <3>1, <3>3, FS_Singleton, {} \cup {a} = {a}
        <4>3. laxest'[q] = call[c].min
          BY <3>1, <4>1 DEF Lower
        <4>. QED BY <1>1, <1>4, <1>7, <2>2, <3>2, <4>2, <4>3
      <3>4. CASE passed[q] # {}
        <4>1. Cardinality(passed[q]) + laxest[q] <= Cardinality(ApprovedBy(q)) + 1
          BY <3>4 DEF QuorumBehindExecution
        <4>2. Cardinality(passed'[q]) \in Nat /\ Cardinality(passed'[q]) <= Cardinality(passed[q]) + 1
          BY <2>1, <3>1, OneMore
        <4>3. laxest[q] # 0
          BY <3>4 DEF PassedApproved
        <4>4. laxest'[q] \in Nat /\ laxest'[q] <= laxest[q]
          BY <1>1, <2>1, <3>1, <4>3 DEF Lower
        <4>. QED BY <1>7, <2>1, <3>2, <4>1, <4>2, <4>4
      <3>. QED BY <3>3, <3>4
    <2>3. CASE ~(next = "execute" /\ q = r)
      <3>1. passed'[q] = passed[q] /\ laxest'[q] = laxest[q]
        BY <2>3, <1>1, <1>5 DEF GateTypeOK
      <3>. QED BY <1>7, <2>1, <3>1 DEF QuorumBehindExecution
    <2>. QED BY <2>2, <2>3
  <1>16. ClosedForReason'
    BY <1>1, <1>2, <1>5 DEF ClosedForReason, GateTypeOK
  <1>. QED BY <1>12, <1>13, <1>14, <1>15, <1>16

\* A call that moves on knowing what its new place requires.
LEMMA MoveStep ==
  ASSUME IInv, NEW c \in Calls, NEW v \in Call, call' = [call EXCEPT ![c] = v],
         UNCHANGED <<rstatus, overdue, decision, policy, crashes, passed, laxest>>,
         ran' \in [Requests -> BOOLEAN],
         \A r \in Requests : ran[r] => ran'[r],
         v.pc # "idle" => v.r \in Requests,
         v.pc \in {"record", "reject", "execute", "approve"} => v.by \in Approvers,
         v.pc = "record" =>
            v.decides \in Decisions /\ v.min \in 1..MaxMin /\ v.seen <= Cardinality(ApprovedBy(v.r)),
         v.pc = "reject" => decision[v.r][v.by] = "REJECTED",
         v.pc = "approve" => ran'[v.r],
         v.pc = "expire" => overdue[v.r]
  PROVE  IInv'
  <1> USE DEF IInv
  <1>1. \A x \in Calls : call'[x] = IF x = c THEN v ELSE call[x]
    BY DEF GateTypeOK
  <1>2. GateTypeOK'
    <2>1. call' \in [Calls -> Call]
      BY DEF GateTypeOK
    <2>2. \A x \in Calls :
             /\ call'[x].pc # "idle" => call'[x].r \in Requests
             /\ call'[x].pc \in {"record", "reject", "execute", "approve"} => call'[x].by \in Approvers
      BY <1>1 DEF GateTypeOK, At
    <2>. QED BY <2>1, <2>2 DEF GateTypeOK, policy, At
  <1>3. CallKnows'
    <2> DEFINE Fits(w) == /\ w.decides \in Decisions
                                /\ w.min \in 1..MaxMin
                                /\ w.seen <= Cardinality(ApprovedBy(w.r))
    <2> SUFFICES ASSUME NEW x \in Calls, NEW w, w = call'[x]
                 PROVE  /\ w.pc = "record" => Fits(w)
                        /\ w.pc = "reject" => decision[w.r][w.by] = "REJECTED"
                        /\ w.pc = "approve" => ran'[w.r]
                        /\ w.pc = "expire" => overdue[w.r]
      BY DEF CallKnows, At, ApprovedBy
    <2>1. CASE x = c
      BY <1>1, <2>1
    <2>2. CASE x # c
      <3>1. w = call[x]
        BY <1>1, <2>2
      <3>2. w.pc = "approve" => w.r \in Requests
        BY <3>1 DEF GateTypeOK, At
      <3>. QED BY <3>1, <3>2 DEF CallKnows, At
    <2>. QED BY <2>1, <2>2
  <1>4. PassedApproved' /\ QuorumBehindExecution' /\ ClosedForReason'
    BY DEF PassedApproved, QuorumBehindExecution, ClosedForReason, ApprovedBy
  <1>. QED BY <1>2, <1>3, <1>4

\* Reading a request leaves the call with what it has just seen.
LEMMA DecideReadStep ==
  ASSUME IInv, NEW c \in Calls, NEW r \in Requests, NEW a \in Approvers, NEW d \in Decisions,
         DecideRead(c, r, a, d)
  PROVE  IInv'
  <1>1. Cardinality(ApprovedBy(r)) \in Nat /\ minApprovals \in 1..MaxMin
    BY ApprovedByFinite DEF IInv, GateTypeOK
  <1>2. UNCHANGED <<rstatus, overdue, decision, policy, crashes, passed, laxest, ran>>
    BY DEF DecideRead, ghosts
  <1>3. ran' \in [Requests -> BOOLEAN]
    BY <1>2 DEF IInv, GateTypeOK
  <1>4. CASE overdue[r] /\ call' = [call EXCEPT ![c] = [NoCall EXCEPT !.pc = "expire", !.r = r]]
    <2> DEFINE v == [NoCall EXCEPT !.pc = "expire", !.r = r]
    <2>1. v \in Call /\ v.pc = "expire" /\ v.r = r
      BY DEF NoCall, Call
    <2> HIDE DEF v
    <2>2. call' = [call EXCEPT ![c] = v]
      BY <1>4 DEF v
    <2>. QED BY <1>2, <1>3, <1>4, <2>1, <2>2, MoveStep
  <1>5. CASE call' = [call EXCEPT ![c] = [pc |-> "record", r |-> r, by |-> a, decides |-> d,
                                          seen |-> Cardinality(ApprovedBy(r)), min |-> minApprovals]]
    <2> DEFINE v == [pc |-> "record", r |-> r, by |-> a, decides |-> d,
                     seen |-> Cardinality(ApprovedBy(r)), min |-> minApprovals]
    <2>1. v \in Call /\ v.pc = "record" /\ v.r = r /\ v.by = a /\ v.decides = d
          /\ v.min \in 1..MaxMin /\ v.seen <= Cardinality(ApprovedBy(v.r))
      BY <1>1, GateAssumption DEF Call
    <2> HIDE DEF v
    <2>2. call' = [call EXCEPT ![c] = v]
      BY <1>5 DEF v
    <2>. QED BY <1>2, <1>3, <2>1, <2>2, MoveStep
  <1>. QED BY <1>4, <1>5 DEF DecideRead

\* A call that ends after writing a status, with the reason for it at hand.
LEMMA CloseStep ==
  ASSUME IInv, NEW c \in Calls, NEW s \in RequestStatus, ~At(c, "idle"),
         SetStatus(call[c].r, s), Return(c),
         UNCHANGED <<overdue, decision, policy, crashes, ghosts>>,
         s = "APPROVED" => ran[call[c].r],
         s = "REJECTED" => \E a \in Approvers : decision[call[c].r][a] = "REJECTED",
         s = "EXPIRED" => overdue[call[c].r]
  PROVE  IInv'
  <1> USE DEF IInv
  <1>1. call[c].r \in Requests
    BY DEF GateTypeOK
  <1>2. CallKnows' /\ call' \in [Calls -> Call]
        /\ \A x \in Calls : call'[x].pc # "idle" => call'[x] = call[x]
    BY ReturnKnows DEF ghosts
  <1>3. GateTypeOK'
    BY <1>2 DEF GateTypeOK, SetStatus, policy, ghosts, At
  <1>4. PassedApproved' /\ QuorumBehindExecution'
    BY KeepsQuorum DEF Keeps, ghosts
  <1>5. ClosedForReason'
    BY <1>1 DEF ClosedForReason, SetStatus, GateTypeOK, ghosts
  <1>. QED BY <1>2, <1>3, <1>4, <1>5

\* A call that ends without writing anything.
LEMMA EndStep ==
  ASSUME IInv, NEW c \in Calls, Return(c), crashes' \in 0..MaxCrashes,
         UNCHANGED <<rstatus, overdue, decision, policy, ghosts>>
  PROVE  IInv'
  <1> USE DEF IInv
  <1>1. CallKnows' /\ call' \in [Calls -> Call]
        /\ \A x \in Calls : call'[x].pc # "idle" => call'[x] = call[x]
    BY ReturnKnows DEF ghosts
  <1>2. GateTypeOK'
    BY <1>1 DEF GateTypeOK, policy, ghosts, At
  <1>3. PassedApproved' /\ QuorumBehindExecution'
    BY KeepsQuorum DEF Keeps, ghosts
  <1>4. ClosedForReason'
    BY DEF ClosedForReason, ghosts
  <1>. QED BY <1>1, <1>2, <1>3, <1>4

\* Every step keeps the invariant.
LEMMA NextStep == IInv /\ [GateNext]_gvars => IInv'
  <1> SUFFICES ASSUME IInv, [GateNext]_gvars PROVE IInv'
    OBVIOUS
  <1> USE GateAssumption DEF IInv
  <1>1. ASSUME NEW r \in Requests, Ask(r) PROVE IInv'
    <2>1. GateTypeOK'
      BY <1>1 DEF Ask, SetStatus, GateTypeOK, RequestStatus, policy, ghosts, At
    <2>2. CallKnows'
      BY <1>1 DEF Ask, CallKnows, ghosts, At, ApprovedBy
    <2>3. ClosedForReason'
      BY <1>1 DEF Ask, SetStatus, GateTypeOK, ClosedForReason, ghosts
    <2>. QED BY <1>1, <2>1, <2>2, <2>3, KeepsQuorum DEF Ask, Keeps, ghosts
  <1>2. ASSUME NEW r \in Requests, Lapse(r) PROVE IInv'
    <2>1. GateTypeOK' /\ CallKnows' /\ ClosedForReason'
      BY <1>2 DEF Lapse, GateTypeOK, CallKnows, ClosedForReason, policy, ghosts, At, ApprovedBy
    <2>. QED BY <1>2, <2>1, KeepsQuorum DEF Lapse, Keeps, ghosts
  <1>3. CASE UpdatePolicy
    <2>1. GateTypeOK' /\ CallKnows' /\ ClosedForReason'
      BY <1>3 DEF UpdatePolicy, GateTypeOK, CallKnows, ClosedForReason, ghosts, At, ApprovedBy
    <2>. QED BY <1>3, <2>1, KeepsQuorum DEF UpdatePolicy, Keeps, ghosts
  <1>4. ASSUME NEW c \in Calls, DecideExpire(c) PROVE IInv'
    BY <1>4, CloseStep DEF DecideExpire, CallKnows, RequestStatus, At
  <1>5. ASSUME NEW c \in Calls, DecideReject(c) PROVE IInv'
    <2>1. decision[call[c].r][call[c].by] = "REJECTED" /\ call[c].by \in Approvers
      BY <1>5 DEF DecideReject, CallKnows, GateTypeOK, At
    <2>. QED BY <1>5, <2>1, CloseStep DEF DecideReject, RequestStatus, At
  <1>6. ASSUME NEW c \in Calls, DecideApprove(c) PROVE IInv'
    BY <1>6, CloseStep DEF DecideApprove, CallKnows, RequestStatus, At
  <1>7. ASSUME NEW c \in Calls, CancelWrite(c) PROVE IInv'
    BY <1>7, CloseStep DEF CancelWrite, RequestStatus, At
  <1>8. ASSUME NEW c \in Calls, Execute(c) PROVE IInv'
    <2> DEFINE v == [call[c] EXCEPT !.pc = "approve"]
    <2>1. call[c] \in Call /\ call[c].r \in Requests /\ call[c].by \in Approvers
      BY <1>8 DEF Execute, GateTypeOK, At
    <2>2. v \in Call /\ v.pc = "approve" /\ v.r = call[c].r /\ v.by = call[c].by
      BY <2>1 DEF Call
    <2>3. call' = [call EXCEPT ![c] = v]
          /\ ran' = [ran EXCEPT ![call[c].r] = TRUE]
          /\ UNCHANGED <<rstatus, overdue, decision, policy, crashes, passed, laxest>>
      BY <1>8 DEF Execute, Goto
    <2> HIDE DEF v
    <2>4. /\ ran' \in [Requests -> BOOLEAN] /\ ran'[v.r]
          /\ \A r \in Requests : ran[r] => ran'[r]
      BY <2>1, <2>2, <2>3 DEF GateTypeOK
    <2>. QED BY <2>1, <2>2, <2>3, <2>4, MoveStep
  <1>9. ASSUME NEW c \in Calls, ExecuteFails(c) \/ DecideDuplicate(c) PROVE IInv'
    BY <1>9, EndStep DEF ExecuteFails, DecideDuplicate, GateTypeOK
  <1>10. ASSUME NEW c \in Calls, CutShort(c) PROVE IInv'
    <2>1. crashes' \in 0..MaxCrashes
      BY <1>10 DEF CutShort, GateTypeOK
    <2>. QED BY <1>10, <2>1, EndStep DEF CutShort
  <1>11. ASSUME NEW c \in Calls, NEW r \in Requests, CancelRead(c, r) PROVE IInv'
    <2> DEFINE v == [NoCall EXCEPT !.pc = "cancel", !.r = r]
    <2>1. v \in Call /\ v.pc = "cancel" /\ v.r = r
      BY DEF NoCall, Call
    <2>2. call' = [call EXCEPT ![c] = v]
          /\ UNCHANGED <<rstatus, overdue, decision, policy, crashes, passed, laxest, ran>>
      BY <1>11 DEF CancelRead, ghosts
    <2>3. ran' \in [Requests -> BOOLEAN] /\ \A q \in Requests : ran[q] => ran'[q]
      BY <2>2 DEF GateTypeOK
    <2> HIDE DEF v
    <2>. QED BY <2>1, <2>2, <2>3, MoveStep
  <1>12. CASE ExpireStale
    <2>1. GateTypeOK'
      BY <1>12 DEF ExpireStale, GateTypeOK, RequestStatus, policy, ghosts, At
    <2>2. CallKnows'
      BY <1>12 DEF ExpireStale, CallKnows, ghosts, At, ApprovedBy
    <2>3. ClosedForReason'
      BY <1>12 DEF ExpireStale, Stale, GateTypeOK, ClosedForReason, ghosts
    <2>. QED BY <1>12, <2>1, <2>2, <2>3, KeepsQuorum DEF ExpireStale, Keeps, ghosts
  <1>13. CASE UNCHANGED gvars
    <2>1. GateTypeOK' /\ CallKnows' /\ ClosedForReason'
      BY <1>13 DEF gvars, GateTypeOK, CallKnows, ClosedForReason, policy, ghosts, At, ApprovedBy
    <2>. QED BY <1>13, <2>1, KeepsQuorum DEF gvars, Keeps, ghosts
  <1>. QED BY <1>1, <1>2, <1>3, <1>4, <1>5, <1>6, <1>7, <1>8, <1>9, <1>10, <1>11, <1>12, <1>13,
              DecideReadStep, DecideRecordStep DEF GateNext

\* IInv is an invariant of the specification.
THEOREM Invariance == GateSpec => []IInv
  BY InitIInv, NextStep, PTL DEF GateSpec

\* Type correctness.
THEOREM GateTypeCorrect == GateSpec => []GateTypeOK
  BY Invariance, PTL DEF IInv

\* The executor never runs before the quorum has approved, nor more often
\* than the approvals beyond it allow.
THEOREM QuorumAlwaysBehind == GateSpec => []QuorumBehindExecution
  BY Invariance, PTL DEF IInv

\* A closed request tells the truth about why it was closed.
THEOREM ClosedForItsReason == GateSpec => []ClosedForReason
  BY Invariance, PTL DEF IInv

----------------------------------------------------------------------------

\* Every step of the whole is a step of the gate, or leaves it alone.
LEMMA GateSimulation == [Next]_vars => [GateNext]_gvars
  <1> SUFFICES ASSUME [Next]_vars PROVE [GateNext]_gvars
    OBVIOUS
  <1>1. ASSUME NEW p \in Staff, NEW r \in Requests, AskApproval(p, r) PROVE GateNext
    BY <1>1 DEF AskApproval, GateNext
  <1>2. ASSUME NEW p \in Staff, (\E kind \in T!Closing : PassGate(p, kind)) \/ PerformClosing(p) \/ StaffStep(p)
        PROVE  UNCHANGED gvars
    BY <1>2 DEF PassGate, PerformClosing, StaffStep
  <1>3. ASSUME NEW c \in Calls, ExecutorCheck(c) \/ ExecutorClose(c) PROVE UNCHANGED gvars
    BY <1>3 DEF ExecutorCheck, ExecutorClose
  <1>4. ASSUME NEW c \in Calls,
               ExecutorRefused(c) \/ ExecutorReturns(c) \/ ExecutorThrows(c) \/ CallCutShort(c)
        PROVE  GateNext
    BY <1>4 DEF ExecutorRefused, ExecutorReturns, ExecutorThrows, CallCutShort, GateNext
  <1>5. CASE GateStep
    BY <1>5 DEF GateStep, GateNext, Decisions
  <1>6. CASE Credential
    BY <1>6 DEF Credential
  <1>7. CASE UNCHANGED vars
    BY <1>7 DEF vars
  <1>. QED BY <1>1, <1>2, <1>3, <1>4, <1>5, <1>6, <1>7 DEF Next

\* What the whole is made of keeps its shape.
Shape ==
    /\ op \in [Staff \cup Calls -> [pc : {"idle", "write", "revoke", "steps"},
                                   kind : T!Kinds \cup {"none", "provision"}, step : 0..NumSteps]]
    /\ cleared \in [Staff -> T!Closing \cup {"none"}]

\* Every step of the whole is a step of the tenant, or leaves it alone.
LEMMA TenantSimulation == Shape /\ [Next]_vars => [T!TenantNext]_tenant
  <1> SUFFICES ASSUME Shape, [Next]_vars PROVE [T!TenantNext]_tenant
    OBVIOUS
  <1>1. ASSUME NEW p \in Staff,
               (\E r \in Requests : AskApproval(p, r)) \/ (\E kind \in T!Closing : PassGate(p, kind))
        PROVE  UNCHANGED tenant
    BY <1>1 DEF AskApproval, PassGate
  <1>2. ASSUME NEW p \in Staff, PerformClosing(p)
        PROVE  [T!TenantNext]_tenant
    <2>1. cleared[p] \in T!Kinds
      BY <1>2 DEF PerformClosing, Shape, T!Kinds
    <2>. QED BY <1>2, <2>1 DEF PerformClosing, T!TenantNext
  <1>3. ASSUME NEW p \in Staff, StaffStep(p) PROVE T!TenantNext
    <2>1. {"activate", "reactivate"} \subseteq T!Kinds
      BY DEF T!Kinds
    <2>. QED BY <1>3, <2>1 DEF StaffStep, Work, T!TenantNext
  <1>4. ASSUME NEW c \in Calls, ExecutorCheck(c) PROVE T!TenantNext
    <2>1. Scope \in T!Kinds
      BY GatedAssumption DEF T!Kinds, T!Closing
    <2>. QED BY <1>4, <2>1 DEF ExecutorCheck, T!TenantNext
  <1>5. ASSUME NEW c \in Calls, ExecutorClose(c) \/ ExecutorReturns(c) \/ ExecutorThrows(c)
        PROVE  T!TenantNext
    BY <1>5 DEF ExecutorClose, ExecutorReturns, ExecutorThrows, T!TenantNext
  <1>6. ASSUME NEW c \in Calls, ExecutorRefused(c) \/ CallCutShort(c) PROVE [T!TenantNext]_tenant
    BY <1>6 DEF ExecutorRefused, CallCutShort, T!TenantNext
  <1>7. CASE GateStep
    BY <1>7 DEF GateStep
  <1>8. CASE Credential
    <2>1. Issued \subseteq T!Credentials
      BY GatedAssumption DEF T!Credentials
    <2>. QED BY <1>8, <2>1 DEF Credential, T!TenantNext
  <1>9. CASE UNCHANGED vars
    BY <1>9 DEF vars
  <1>. QED BY <1>1, <1>2, <1>3, <1>4, <1>5, <1>6, <1>7, <1>8, <1>9 DEF Next

\* A step of the tenant keeps the shape of its requests.
LEMMA OpShape ==
  ASSUME Shape, [T!TenantNext]_tenant
  PROVE  op' \in [Staff \cup Calls -> [pc : {"idle", "write", "revoke", "steps"},
                                      kind : T!Kinds \cup {"none", "provision"}, step : 0..NumSteps]]
  <1> USE GatedAssumption DEF Shape, T!TenantAssumption
  <1>1. ASSUME NEW p \in Staff \cup Calls, NEW kind \in T!Kinds, T!CheckStatus(p, kind)
        PROVE  op' \in [Staff \cup Calls -> [pc : {"idle", "write", "revoke", "steps"},
                          kind : T!Kinds \cup {"none", "provision"}, step : 0..NumSteps]]
    BY <1>1 DEF T!CheckStatus, T!Pending
  <1>2. ASSUME NEW p \in Staff \cup Calls,
               \/ T!OpenTenant(p) \/ T!RevokeCredentials(p) \/ T!ProvisionSucceed(p)
               \/ T!ProvisionFail(p) \/ T!CutShort(p) \/ T!CloseTenant(p)
               \/ T!ProvisionBegin(p) \/ T!ProvisionStep(p)
        PROVE  op' \in [Staff \cup Calls -> [pc : {"idle", "write", "revoke", "steps"},
                          kind : T!Kinds \cup {"none", "provision"}, step : 0..NumSteps]]
    <2>1. CASE op' = [op EXCEPT ![p] = T!NoOp]
      BY <2>1 DEF T!NoOp
    <2>2. CASE T!CloseTenant(p)
      BY <2>2 DEF T!CloseTenant
    <2>3. CASE T!ProvisionBegin(p)
      BY <2>3 DEF T!ProvisionBegin
    <2>4. CASE T!ProvisionStep(p)
      BY <2>4 DEF T!ProvisionStep
    <2>. QED BY <1>2, <2>1, <2>2, <2>3, <2>4 DEF T!OpenTenant, T!RevokeCredentials,
                T!ProvisionSucceed, T!ProvisionFail, T!CutShort
  <1>3. ASSUME NEW c \in T!Credentials, T!IssueCredential(c) PROVE op' = op
    BY <1>3 DEF T!IssueCredential
  <1>4. CASE UNCHANGED tenant
    BY <1>4 DEF tenant
  <1>. QED BY <1>1, <1>2, <1>3, <1>4 DEF T!TenantNext

LEMMA ShapeStep == Shape /\ [Next]_vars => Shape'
  <1> SUFFICES ASSUME Shape, [Next]_vars PROVE Shape'
    OBVIOUS
  <1>1. [T!TenantNext]_tenant
    BY TenantSimulation
  <1>2. cleared' \in [Staff -> T!Closing \cup {"none"}]
    BY DEF Shape, Next, vars, own, AskApproval, PassGate, PerformClosing, StaffStep, Work, ExecutorCheck,
           ExecutorClose, ExecutorRefused, ExecutorReturns, ExecutorThrows, CallCutShort,
           GateStep, Credential
  <1>. QED BY <1>1, <1>2, OpShape DEF Shape

LEMMA InitShape == Init => Shape
  BY GatedAssumption DEF Init, Shape, T!TenantInit, T!NoOp, T!TenantAssumption

\* The whole implements the tenant ...
THEOREM RefinesTenant == Spec => ImplementsTenant
  <1>1. Init => T!TenantInit
    BY DEF Init
  <1>2. Shape /\ [Next]_vars => [T!TenantNext]_(T!tvars)
    BY TenantSimulation DEF tenant, T!tvars
  <1>. QED BY InitShape, ShapeStep, <1>1, <1>2, PTL DEF Spec, ImplementsTenant, T!TenantSpec

\* ... and the gate, so that what is proved of the gate holds here too.
THEOREM RefinesGate == Spec => ImplementsGate
  <1>1. Init => GateInit
    BY DEF Init
  <1>. QED BY GateSimulation, <1>1, PTL DEF Spec, ImplementsGate, GateSpec

-----------------------------------------------------------------------------
(* What joins the two *)

\* A lifecycle request of a call is its executor's, which a quorum let in;
\* and a call that is about to write APPROVED has been through it.
CallsRunExecutors ==
    \A c \in Calls :
        /\ op[c].pc # "idle" => At(c, "execute") /\ op[c].kind = Scope
        /\ op[c].pc = "revoke" \/ At(c, "approve") => call[c].r \in enacted
        /\ At(c, "execute") => passed[call[c].r] # {}

\* A request has closed the tenant only after a quorum of its own.
EnactedPassed == \A r \in enacted : r \in Requests /\ passed[r] # {}

\* Staff on their way to a closing in Scope were exempt from the gate.
ExemptOnly ==
    \A p \in Staff :
        cleared[p] = Scope \/ (op[p].pc = "write" /\ op[p].kind = Scope) => exempted

\* Whoever closed the tenant came one way or the other.
ClosedSomehow == tstatus = T!StatusWhenClosed(Scope) => exempted \/ enacted # {}

JInv ==
    /\ Shape
    /\ CallsRunExecutors
    /\ EnactedPassed
    /\ ExemptOnly
    /\ ClosedSomehow
    /\ ApprovedWasEnacted

\* A tenant with no request in sight satisfies the invariant.
LEMMA InitJInv == Init => JInv
  <1> SUFFICES ASSUME Init PROVE JInv
    OBVIOUS
  <1> USE GatedAssumption DEF Init, GateInit, T!TenantInit
  <1>1. CallsRunExecutors
    BY DEF CallsRunExecutors, At, NoCall, T!NoOp
  <1>2. EnactedPassed /\ ApprovedWasEnacted
    BY DEF EnactedPassed, ApprovedWasEnacted
  <1>3. ExemptOnly /\ ClosedSomehow
    BY DEF ExemptOnly, ClosedSomehow, T!NoOp, T!StatusWhenClosed
  <1>. QED BY <1>1, <1>2, <1>3, InitShape DEF JInv

\* A lifecycle step of staff, while the gate and the history stand still.
LEMMA StaffKeeps ==
  ASSUME JInv, NEW p \in Staff,
         UNCHANGED <<gvars, enacted>>,
         \A x \in Staff \cup Calls : x # p => op'[x] = op[x],
         exempted => exempted',
         ExemptOnly', ClosedSomehow', Shape'
  PROVE  JInv'
  <1>1. \A c \in Calls : op'[c] = op[c]
    BY GatedAssumption
  <1>. QED BY <1>1 DEF JInv, CallsRunExecutors, EnactedPassed, ApprovedWasEnacted, gvars, ghosts, At

\* A step of the gate's own, while the tenant stands still: calls may enter
\* the executor, and requests be closed.
LEMMA GateKeeps ==
  ASSUME JInv, UNCHANGED <<tenant, own>>,
         \A r \in Requests : passed[r] # {} => passed'[r] # {},
         \A c \in Calls : op[c].pc # "idle" => call'[c] = call[c],
         \A c \in Calls : At(c, "approve")' => call'[c] = call[c] \/ call'[c].r \in enacted,
         \A c \in Calls : At(c, "execute")' =>
            (call'[c] = call[c] /\ call[c].r \in Requests) \/ passed'[call'[c].r] # {},
         \A r \in Requests : rstatus'[r] = "APPROVED" => rstatus[r] = "APPROVED" \/ r \in enacted
  PROVE  JInv'
  <1> USE DEF JInv, tenant, own
  <1>1. CallsRunExecutors'
    <2> SUFFICES ASSUME NEW c \in Calls
                 PROVE  /\ op[c].pc # "idle" => call'[c].pc = "execute" /\ op[c].kind = Scope
                        /\ op[c].pc = "revoke" \/ call'[c].pc = "approve" => call'[c].r \in enacted
                        /\ call'[c].pc = "execute" => passed'[call'[c].r] # {}
      BY DEF CallsRunExecutors, At
    <2>. QED BY DEF CallsRunExecutors, At
  <1>2. EnactedPassed' /\ ApprovedWasEnacted'
    BY DEF EnactedPassed, ApprovedWasEnacted
  <1>3. ExemptOnly' /\ ClosedSomehow' /\ Shape'
    BY DEF ExemptOnly, ClosedSomehow, Shape
  <1>. QED BY <1>1, <1>2, <1>3

\* What the gate's own steps do to the calls and the requests.
LEMMA GateStepStep ==
  ASSUME IInv, JInv, GateStep
  PROVE  JInv'
  <1> USE DEF IInv, JInv
  <1>0. UNCHANGED <<tenant, own>>
    BY DEF GateStep
  <1>1. CASE UpdatePolicy \/ ExpireStale \/ \E r \in Requests : Lapse(r)
    <2>1. UNCHANGED <<call, passed>>
      BY <1>1 DEF UpdatePolicy, ExpireStale, Lapse, ghosts
    <2>2. \A r \in Requests : rstatus'[r] = "APPROVED" => rstatus[r] = "APPROVED"
      BY <1>1 DEF UpdatePolicy, ExpireStale, Lapse
    <2>3. \A c \in Calls : At(c, "execute") => call[c].r \in Requests
      BY DEF GateTypeOK, At
    <2>. QED BY <1>0, <2>1, <2>2, <2>3, GateKeeps DEF At, CallsRunExecutors
  <1>2. ASSUME NEW c \in Calls, NEW r \in Requests,
               (\E a \in Approvers, d \in Decisions : DecideRead(c, r, a, d)) \/ CancelRead(c, r)
        PROVE  JInv'
    <2>1. /\ UNCHANGED <<rstatus, passed>> /\ op[c].pc = "idle"
          /\ call'[c].pc \notin {"approve", "execute"}
          /\ \A x \in Calls : x # c => call'[x] = call[x]
      <3>1. ASSUME NEW a \in Approvers, NEW d \in Decisions, DecideRead(c, r, a, d)
            PROVE  \E v : v.pc \in {"expire", "record"} /\ call' = [call EXCEPT ![c] = v]
        <4> DEFINE v1 == [NoCall EXCEPT !.pc = "expire", !.r = r]
                   v2 == [pc |-> "record", r |-> r, by |-> a, decides |-> d,
                          seen |-> Cardinality(ApprovedBy(r)), min |-> minApprovals]
        <4>1. v1.pc = "expire" /\ v2.pc = "record"
          BY DEF NoCall
        <4>2. call' = [call EXCEPT ![c] = v1] \/ call' = [call EXCEPT ![c] = v2]
          BY <3>1 DEF DecideRead
        <4> HIDE DEF v1, v2
        <4>. QED BY <4>1, <4>2
      <3>2. ASSUME CancelRead(c, r)
            PROVE  \E v : v.pc = "cancel" /\ call' = [call EXCEPT ![c] = v]
        BY <3>2 DEF CancelRead, NoCall
      <3>3. PICK v : v.pc \in {"expire", "record", "cancel"} /\ call' = [call EXCEPT ![c] = v]
        BY <1>2, <3>1, <3>2
      <3>4. UNCHANGED <<rstatus, passed>> /\ At(c, "idle")
        BY <1>2 DEF DecideRead, CancelRead, ghosts
      <3>. QED BY <3>3, <3>4 DEF GateTypeOK, At, CallsRunExecutors
    <2>2. \A x \in Calls : At(x, "execute") => call[x].r \in Requests
      BY DEF GateTypeOK, At
    <2>. QED BY <1>0, <2>1, <2>2, GateKeeps DEF At, CallsRunExecutors
  <1>3. ASSUME NEW c \in Calls,
               DecideExpire(c) \/ DecideDuplicate(c) \/ DecideReject(c) \/ DecideApprove(c) \/ CancelWrite(c)
        PROVE  JInv'
    <2>1. /\ UNCHANGED passed /\ op[c].pc = "idle"
          /\ call'[c].pc = "idle"
          /\ \A x \in Calls : x # c => call'[x] = call[x]
      BY <1>3 DEF DecideExpire, DecideDuplicate, DecideReject, DecideApprove, CancelWrite, ghosts, At,
                  GateTypeOK, NoCall, CallsRunExecutors, Return
    <2>2. \A r \in Requests : rstatus'[r] = "APPROVED" => rstatus[r] = "APPROVED" \/ r \in enacted
      BY <1>3 DEF DecideExpire, DecideDuplicate, DecideReject, DecideApprove, CancelWrite, SetStatus,
                  At, GateTypeOK, CallsRunExecutors
    <2>3. \A x \in Calls : At(x, "execute") => call[x].r \in Requests
      BY DEF GateTypeOK, At
    <2>. QED BY <1>0, <2>1, <2>2, <2>3, GateKeeps DEF At, CallsRunExecutors
  <1>4. ASSUME NEW c \in Calls, DecideRecord(c) PROVE JInv'
    <2>1. /\ UNCHANGED rstatus /\ op[c].pc = "idle" /\ call[c].r \in Requests
          /\ call[c] \in Call
      BY <1>4 DEF DecideRecord, At, GateTypeOK, CallsRunExecutors
    <2>2. \A x \in Calls : x # c => call'[x] = call[x]
      BY <1>4 DEF DecideRecord, GateTypeOK
    <2>3. call'[c].pc # "approve"
      BY <1>4, <2>1 DEF DecideRecord, AfterDecision, NoCall, GateTypeOK, Call
    <2>4. call'[c].pc = "execute" => call'[c].r = call[c].r /\ AfterDecision(c) = "execute"
      BY <1>4, <2>1 DEF DecideRecord, AfterDecision, NoCall, GateTypeOK, Call
    <2>5. call'[c].pc = "execute" => passed'[call'[c].r] # {}
      <3>1. AfterDecision(c) = "execute" => passed' = [passed EXCEPT ![call[c].r] = @ \cup {call[c].by}]
        BY <1>4 DEF DecideRecord
      <3>2. AfterDecision(c) = "execute" => call[c].by \in passed'[call[c].r]
        BY <2>1, <3>1 DEF GateTypeOK
      <3>. QED BY <2>4, <3>2
    <2>6. \A r \in Requests : passed[r] # {} => passed'[r] # {}
      BY <1>4, <2>1 DEF DecideRecord, GateTypeOK
    <2>7. \A x \in Calls : At(x, "execute") => call[x].r \in Requests
      BY DEF GateTypeOK, At
    <2>. QED BY <1>0, <2>1, <2>2, <2>3, <2>5, <2>6, <2>7, GateKeeps DEF At, CallsRunExecutors
  <1>. QED BY <1>1, <1>2, <1>3, <1>4 DEF GateStep, Decisions

\* Every step of the whole keeps the invariant.
LEMMA JInvStep == IInv /\ JInv /\ [Next]_vars => JInv'
  <1> SUFFICES ASSUME IInv, JInv, [Next]_vars PROVE JInv'
    OBVIOUS
  <1> USE GatedAssumption DEF JInv
  <1>0. Shape'
    BY ShapeStep
  <1>1. ASSUME NEW p \in Staff, NEW r \in Requests, AskApproval(p, r) PROVE JInv'
    <2>1. UNCHANGED <<tenant, own, call, passed>> /\ \A q \in Requests : rstatus'[q] = "APPROVED" => rstatus[q] = "APPROVED"
      BY <1>1 DEF AskApproval, Ask, SetStatus, ghosts, IInv, GateTypeOK
    <2>2. \A c \in Calls : At(c, "execute") => call[c].r \in Requests
      BY DEF IInv, GateTypeOK, At
    <2>. QED BY <2>1, <2>2, GateKeeps DEF At, CallsRunExecutors
  <1>2. ASSUME NEW p \in Staff, NEW kind \in T!Closing, PassGate(p, kind) PROVE JInv'
    <2>1. UNCHANGED <<gvars, tenant, enacted>> /\ (exempted => exempted') /\ (kind = Scope => exempted')
          /\ cleared' = [cleared EXCEPT ![p] = kind]
      BY <1>2 DEF PassGate
    <2>2. ExemptOnly' /\ ClosedSomehow'
      BY <2>1 DEF ExemptOnly, ClosedSomehow, Shape, tenant, T!StatusWhenClosed
    <2>. QED BY <1>0, <2>1, <2>2, StaffKeeps DEF tenant
  <1>3. ASSUME NEW p \in Staff, PerformClosing(p) PROVE JInv'
    <2>1. /\ UNCHANGED <<gvars, exempted, enacted>>
          /\ cleared' = [cleared EXCEPT ![p] = "none"]
          /\ op' = op \/ op' = [op EXCEPT ![p] = T!Pending(cleared[p])]
          /\ tstatus' = tstatus
      BY <1>3 DEF PerformClosing, T!CheckStatus, tenant
    <2>2. ExemptOnly'
      BY <2>1 DEF ExemptOnly, Shape, T!Pending
    <2>3. ClosedSomehow'
      BY <2>1 DEF ClosedSomehow, T!StatusWhenClosed
    <2>. QED BY <1>0, <2>1, <2>2, <2>3, StaffKeeps DEF Shape
  <1>4. ASSUME NEW p \in Staff, StaffStep(p) PROVE JInv'
    <2>1. /\ UNCHANGED <<gvars, own>>
          /\ \A x \in Staff \cup Calls : x # p => op'[x] = op[x]
      BY <1>4 DEF StaffStep, Work, T!CheckStatus, T!OpenTenant, T!CloseTenant, T!RevokeCredentials,
                  T!ProvisionBegin, T!ProvisionStep, T!ProvisionSucceed, T!ProvisionFail, T!CutShort, Shape
    <2>2. op'[p].pc = "write" => op'[p].kind # Scope
      BY <1>4 DEF StaffStep, Work, T!CheckStatus, T!OpenTenant, T!CloseTenant, T!RevokeCredentials,
                  T!ProvisionBegin, T!ProvisionStep, T!ProvisionSucceed, T!ProvisionFail, T!CutShort, Shape,
                  T!NoOp, T!Pending
    <2>3. ExemptOnly'
      BY <2>1, <2>2 DEF ExemptOnly, own
    <2>4. \/ tstatus' = tstatus
          \/ tstatus' \in {"ACTIVE", "FAILED"}
          \/ /\ op[p].pc = "write"
             /\ op[p].kind \in T!Closing
             /\ tstatus' = T!StatusWhenClosed(op[p].kind)
      <3>1. CASE T!CloseTenant(p)
        BY <3>1 DEF T!CloseTenant
      <3>2. CASE T!OpenTenant(p) \/ T!ProvisionFail(p)
        BY <3>2 DEF T!OpenTenant, T!ProvisionFail
      <3>3. CASE ~T!CloseTenant(p) /\ ~T!OpenTenant(p) /\ ~T!ProvisionFail(p)
        BY <1>4, <3>3 DEF StaffStep, Work, T!CheckStatus, T!RevokeCredentials, T!ProvisionBegin,
                          T!ProvisionStep, T!ProvisionSucceed, T!CutShort
      <3>. QED BY <3>1, <3>2, <3>3
    <2>5. ClosedSomehow'
      BY <2>1, <2>4 DEF ClosedSomehow, ExemptOnly, T!StatusWhenClosed, T!Closing, own
    <2>. QED BY <1>0, <2>1, <2>3, <2>5, StaffKeeps DEF own
  <1>5. ASSUME NEW c \in Calls,
               ExecutorCheck(c) \/ ExecutorClose(c)
        PROVE  JInv'
    <2>1. /\ UNCHANGED <<gvars, cleared, exempted>> /\ At(c, "execute") /\ call[c].r \in Requests
          /\ enacted \subseteq enacted' /\ enacted' \subseteq enacted \cup {call[c].r}
      BY <1>5 DEF ExecutorCheck, ExecutorClose, ExecutorReady, T!CloseTenant, CallsRunExecutors, own,
                  IInv, GateTypeOK, At
    <2>2. \A x \in Staff \cup Calls : x # c => op'[x] = op[x]
      BY <1>5 DEF ExecutorCheck, ExecutorClose, T!CheckStatus, T!CloseTenant, Shape
    <2>3. op'[c].kind = Scope /\ (op'[c].pc = "revoke" => call[c].r \in enacted')
      BY <1>5 DEF ExecutorCheck, ExecutorClose, T!CheckStatus, T!CloseTenant, T!Pending, Shape, CallsRunExecutors
    <2>4. CallsRunExecutors'
      BY <2>1, <2>2, <2>3 DEF CallsRunExecutors, gvars, ghosts, At
    <2>5. EnactedPassed' /\ ApprovedWasEnacted'
      BY <2>1 DEF EnactedPassed, ApprovedWasEnacted, gvars, ghosts, CallsRunExecutors
    <2>6. ExemptOnly'
      BY <2>1, <2>2 DEF ExemptOnly
    <2>7. tstatus' = tstatus \/ enacted' # {}
      BY <1>5 DEF ExecutorCheck, ExecutorClose, T!CheckStatus
    <2>8. ClosedSomehow'
      BY <2>1, <2>7 DEF ClosedSomehow, T!StatusWhenClosed
    <2>. QED BY <1>0, <2>4, <2>5, <2>6, <2>8
  <1>6. ASSUME NEW c \in Calls,
               ExecutorRefused(c) \/ ExecutorReturns(c) \/ ExecutorThrows(c) \/ CallCutShort(c)
        PROVE  JInv'
    <2>1. /\ UNCHANGED <<own, rstatus, passed, tstatus>>
          /\ \A x \in Staff \cup Calls : x # c => op'[x] = op[x]
          /\ \A x \in Calls : x # c => call'[x] = call[x]
      BY <1>6 DEF ExecutorRefused, ExecutorReturns, ExecutorThrows, CallCutShort, ExecuteFails, Execute,
                  CutShort, Return, Goto, T!CutShort, T!RevokeCredentials, tenant, ghosts, Shape,
                  IInv, GateTypeOK
    <2>2. op'[c].pc = "idle"
      BY <1>6 DEF ExecutorRefused, ExecutorReturns, ExecutorThrows, CallCutShort, ExecutorReady,
                  T!CutShort, T!RevokeCredentials, T!NoOp, tenant, Shape
    <2>3. call'[c].pc = "idle" \/ (op[c].pc = "revoke" /\ call'[c].pc = "approve" /\ call'[c].r = call[c].r)
      BY <1>6 DEF ExecutorRefused, ExecutorReturns, ExecutorThrows, CallCutShort, ExecuteFails, Execute,
                  CutShort, Return, Goto, NoCall, T!RevokeCredentials, IInv, GateTypeOK, Call
    <2>4. CallsRunExecutors'
      BY <2>1, <2>2, <2>3 DEF CallsRunExecutors, At, own
    <2>5. EnactedPassed' /\ ApprovedWasEnacted'
      BY <2>1 DEF EnactedPassed, ApprovedWasEnacted, own
    <2>6. ExemptOnly' /\ ClosedSomehow'
      BY <2>1 DEF ExemptOnly, ClosedSomehow, own, T!StatusWhenClosed
    <2>. QED BY <1>0, <2>4, <2>5, <2>6
  <1>7. CASE GateStep
    BY <1>7, GateStepStep
  <1>8. CASE Credential
    <2>1. UNCHANGED <<gvars, own, op, tstatus>>
      BY <1>8 DEF Credential, T!IssueCredential
    <2>. QED BY <1>0, <2>1 DEF CallsRunExecutors, EnactedPassed, ExemptOnly, ClosedSomehow,
             ApprovedWasEnacted, gvars, ghosts, own, At, T!StatusWhenClosed
  <1>9. CASE UNCHANGED vars
    BY <1>0, <1>9 DEF vars, tenant, own, gvars, ghosts, CallsRunExecutors, EnactedPassed, ExemptOnly,
                ClosedSomehow, ApprovedWasEnacted, At, T!StatusWhenClosed
  <1>. QED BY <1>1, <1>2, <1>3, <1>4, <1>5, <1>6, <1>7, <1>8, <1>9 DEF Next

\* The gate's invariant and that of the joint hold of the whole.
THEOREM WholeInvariance == Spec => [](IInv /\ JInv)
  <1>1. Init => IInv
    BY InitIInv DEF Init
  <1>2. IInv /\ [Next]_vars => IInv'
    BY GateSimulation, NextStep
  <1>. QED BY <1>1, <1>2, InitJInv, JInvStep, PTL DEF Spec

\* No tenant is closed past the gate, however decisions, executors and other
\* operations on the tenant interleave.
THEOREM GateAlwaysHolds == Spec => []GateHolds
  <1>1. IInv /\ JInv => GateHolds
    <2> SUFFICES ASSUME IInv, JInv, tstatus = T!StatusWhenClosed(Scope), ~exempted
                 PROVE  \E r \in enacted : laxest[r] > 0 /\ Cardinality(ApprovedBy(r)) >= laxest[r]
      BY DEF GateHolds
    <2>1. PICK r \in enacted : TRUE
      BY DEF JInv, ClosedSomehow
    <2>2. r \in Requests /\ passed[r] # {} /\ laxest[r] \in Nat /\ laxest[r] # 0
      BY <2>1, GateAssumption DEF IInv, JInv, EnactedPassed, PassedApproved, GateTypeOK
    <2>3. IsFiniteSet(passed[r]) /\ Cardinality(passed[r]) \in Nat /\ Cardinality(passed[r]) # 0
      BY <2>2, FS_Subset, FS_CardinalityType, FS_EmptySet, GateAssumption DEF IInv, GateTypeOK
    <2>4. Cardinality(passed[r]) + laxest[r] <= Cardinality(ApprovedBy(r)) + 1
      BY <2>2 DEF IInv, QuorumBehindExecution
    <2>5. Cardinality(ApprovedBy(r)) \in Nat
      BY ApprovedByFinite
    <2>. QED BY <2>1, <2>2, <2>3, <2>4, <2>5
  <1>. QED BY <1>1, WholeInvariance, PTL

\* APPROVED is written only of requests that closed the tenant.
THEOREM ApprovedAlwaysEnacted == Spec => []ApprovedWasEnacted
  BY WholeInvariance, PTL DEF JInv

-----------------------------------------------------------------------------
(* What each component keeps, the whole keeps *)

\* TenantLifecycle's theorems, of the lifecycle requests that there are here.
TP == INSTANCE TenantLifecycleProofs WITH Ops <- Staff \cup Calls

\* They are about the same tenant.
LEMMA SameTenant == T!TenantSpec => TP!TenantSpec
  <1>1. T!TenantInit => TP!TenantInit
    BY DEF T!TenantInit, TP!TenantInit, T!NoOp, TP!NoOp
  <1>2. [T!TenantNext]_(T!tvars) => [TP!TenantNext]_(TP!tvars)
    <2> USE DEF T!NoOp, TP!NoOp, T!Closing, TP!Closing, T!Credentials, TP!Credentials
    <2>1. ASSUME NEW p PROVE T!OpenTenant(p) \/ T!CloseTenant(p) => TP!OpenTenant(p) \/ TP!CloseTenant(p)
      BY Zenon DEF T!OpenTenant, TP!OpenTenant, T!CloseTenant, TP!CloseTenant,
                   T!StatusWhenClosed, TP!StatusWhenClosed, T!Ages, TP!Ages
    <2>2. ASSUME NEW p PROVE T!RevokeCredentials(p) => TP!RevokeCredentials(p)
      BY Zenon DEF T!RevokeCredentials, TP!RevokeCredentials, T!RevokedBy, TP!RevokedBy
    <2>3. ASSUME NEW p
          PROVE  /\ T!ProvisionBegin(p) => TP!ProvisionBegin(p)
                 /\ T!ProvisionStep(p) => TP!ProvisionStep(p)
      BY Zenon DEF T!ProvisionBegin, TP!ProvisionBegin, T!ProvisionStep, TP!ProvisionStep
    <2>4. ASSUME NEW p
          PROVE  /\ T!ProvisionSucceed(p) => TP!ProvisionSucceed(p)
                 /\ T!ProvisionFail(p) => TP!ProvisionFail(p)
      BY Zenon DEF T!ProvisionSucceed, TP!ProvisionSucceed, T!StepsDone, TP!StepsDone,
                   T!ProvisionFail, TP!ProvisionFail
    <2>5. ASSUME NEW p, NEW kind PROVE T!CheckStatus(p, kind) => TP!CheckStatus(p, kind)
      BY Zenon DEF T!CheckStatus, TP!CheckStatus, T!Allowed, TP!Allowed, T!Pending, TP!Pending
    <2>6. ASSUME NEW p PROVE T!CutShort(p) => TP!CutShort(p)
      BY Zenon DEF T!CutShort, TP!CutShort
    <2>7. ASSUME NEW c PROVE T!IssueCredential(c) => TP!IssueCredential(c)
      BY Zenon DEF T!IssueCredential, TP!IssueCredential
    <2>8. T!TenantNext => TP!TenantNext
      BY <2>1, <2>2, <2>3, <2>4, <2>5, <2>6, <2>7, Zenon DEF T!TenantNext, TP!TenantNext, T!Kinds, TP!Kinds
    <2>. QED BY <2>8 DEF T!tvars, TP!tvars
  <1>. QED BY <1>1, <1>2, PTL DEF T!TenantSpec, TP!TenantSpec

\* Joined to the gate, executors and staff at once, and a server that dies in the middle of either:
\* a closing still cuts off who was there before, what is COMPLETED is configured, and only a
\* suspension gets past the provisioning check of an activation.
THEOREM GatedTenantStaysSound ==
    Spec => [](T!ClosingCutsOff /\ T!CompletedIsConfigured /\ T!ActiveIsConfigured)
  <1>1. TP!TenantSpec => [](TP!ClosingCutsOff /\ TP!CompletedIsConfigured /\ TP!ActiveIsConfigured)
    BY TP!ClosingCutsOffAll, TP!CompletedMeansConfigured, TP!OnlySuspensionBypasses, GatedAssumption, PTL
       DEF T!TenantAssumption
  <1>2. TP!ClosingCutsOff /\ TP!CompletedIsConfigured /\ TP!ActiveIsConfigured
        => T!ClosingCutsOff /\ T!CompletedIsConfigured /\ T!ActiveIsConfigured
    BY Zenon DEF T!ClosingCutsOff, TP!ClosingCutsOff, T!Revoked, TP!Revoked,
           T!CompletedIsConfigured, TP!CompletedIsConfigured, T!ActiveIsConfigured, TP!ActiveIsConfigured
  <1>. QED BY RefinesTenant, SameTenant, <1>1, <1>2, PTL DEF ImplementsTenant
=============================================================================
