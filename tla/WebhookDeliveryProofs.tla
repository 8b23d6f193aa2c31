----------------------- MODULE WebhookDeliveryProofs -----------------------
(***************************************************************************)
(* Safety of WebhookDelivery for any number of rows, servers and           *)
(* administrators, and any MaxAttempts. The invariants of the rows are not *)
(* inductive by themselves: what a dispatcher is about to write comes from *)
(* its snapshot, so Backed says what each snapshot is worth.               *)
(***************************************************************************)
EXTENDS WebhookDelivery, TLAPS

\* A call under way works on a row that exists.
CallOnRow(p) ==
    call[p].pc # Idle => call[p].d \in Deliveries /\ status[call[p].d] # "ABSENT"

\* The count a call read, and the one it is about to write, are covered by
\* attempts that really took place.
CallBacked(p) ==
    LET c == call[p] IN
    /\ c.pc \in {"post", "ok", "err"} => c.attempts < MaxAttempts + retries
    /\ c.pc = "post" => c.attempts <= tries[c.d]
    /\ c.pc \in {"ok", "err"} => c.attempts < tries[c.d]
    /\ c.pc = "ok" => accepted[c.d]

RowBacked(d) ==
    /\ attempts[d] <= tries[d]
    /\ attempts[d] <= MaxAttempts + retries
    /\ status[d] = "ABSENT" => attempts[d] = 0
    /\ status[d] = "PENDING" => attempts[d] < MaxAttempts + retries

RowsExist ==
    /\ \A e \in Events : \A d \in event[e].queued : status[d] # "ABSENT"
    /\ \A s \in Sweepers : \A d \in batch[s] : status[d] # "ABSENT"

Backed ==
    /\ \A p \in Procs : CallOnRow(p) /\ CallBacked(p)
    /\ \A d \in Deliveries : RowBacked(d)
    /\ RowsExist

IInv ==
    /\ TypeOK
    /\ Backed
    /\ SuccessWasAccepted
    /\ NotGivenUpEarly
    /\ SettledNotScheduled
\* The groups of variables named in UNCHANGED clauses.
USE DEF rows, hooks, jobs, bounds, history
-----------------------------------------------------------------------------
(* How a step moves a call *)

LEMMA GotoMoves ==
    ASSUME call \in [Procs -> Call], NEW p \in Procs, NEW pc \in Pc, Goto(p, pc)
    PROVE  /\ call' \in [Procs -> Call]
           /\ \A x \in Procs : x # p => call'[x] = call[x]
           /\ call'[p].pc = pc
           /\ call'[p].d = call[p].d
           /\ call'[p].attempts = call[p].attempts
<1>1. call[p] \in Call
  OBVIOUS
<1>2. call' = [call EXCEPT ![p] = [call[p] EXCEPT !.pc = pc]]
  BY DEF Goto
<1>3. [call[p] EXCEPT !.pc = pc] \in Call
  BY <1>1 DEF Call
<1> QED
  BY <1>1, <1>2, <1>3 DEF Call

LEMMA ReturnMoves ==
    ASSUME call \in [Procs -> Call], NEW p \in Procs, Return(p)
    PROVE  /\ call' \in [Procs -> Call]
           /\ \A x \in Procs : x # p => call'[x] = call[x]
           /\ call'[p].pc = Idle
BY DEF Return, NoCall, Call, Pc

\* A step that leaves the rows and their history alone has only its calls and
\* its lists of rows to account for.
LEMMA RowsUntouched ==
    ASSUME IInv, TypeOK', RowsExist',
           UNCHANGED <<status, attempts, nextRetry, retries, history>>,
           \A x \in Procs : CallOnRow(x)' /\ CallBacked(x)'
    PROVE  IInv'
<1>1. \A d \in Deliveries : RowBacked(d)'
  BY DEF IInv, Backed, RowBacked
<1>2. SuccessWasAccepted' /\ NotGivenUpEarly' /\ SettledNotScheduled'
  BY DEF IInv, SuccessWasAccepted, NotGivenUpEarly, SettledNotScheduled
<1> QED
  BY <1>1, <1>2 DEF IInv, Backed
-----------------------------------------------------------------------------
(* One lemma per action *)

LEMMA PublishReadKeeps ==
    ASSUME IInv, NEW e \in Events, PublishRead(e)
    PROVE  IInv'
<1>1. TypeOK'
  BY DEF IInv, TypeOK, PublishRead
<1>2. \A x \in Procs : CallOnRow(x)' /\ CallBacked(x)'
  BY DEF IInv, Backed, CallOnRow, CallBacked, PublishRead
<1>3. RowsExist'
  BY DEF IInv, Backed, RowsExist, PublishRead
<1> QED
  BY <1>1, <1>2, <1>3, RowsUntouched DEF PublishRead

LEMMA PublishDispatchKeeps ==
    ASSUME IInv, NEW e \in Events, PublishDispatch(e)
    PROVE  IInv'
<1>1. TypeOK'
  BY DEF IInv, TypeOK, PublishDispatch, Published, Started, Call, Pc, Procs
<1>2. \A x \in Procs : CallOnRow(x)' /\ CallBacked(x)'
  BY DEF IInv, TypeOK, Backed, RowsExist, CallOnRow, CallBacked, PublishDispatch, Started, Idle
<1>3. RowsExist'
  BY DEF IInv, Backed, RowsExist, PublishDispatch, Published
<1> QED
  BY <1>1, <1>2, <1>3, RowsUntouched DEF PublishDispatch

LEMMA PublishAbortKeeps ==
    ASSUME IInv, NEW e \in Events, PublishAbort(e)
    PROVE  IInv'
<1>1. TypeOK'
  BY ConstantsAssumption DEF IInv, TypeOK, PublishAbort, Published
<1>2. \A x \in Procs : CallOnRow(x)' /\ CallBacked(x)'
  BY DEF IInv, Backed, CallOnRow, CallBacked, PublishAbort, Published
<1>3. RowsExist'
  BY DEF IInv, Backed, RowsExist, PublishAbort, Published
<1> QED
  BY <1>1, <1>2, <1>3, RowsUntouched DEF PublishAbort

LEMMA SetWebhookEnabledKeeps ==
    ASSUME IInv, NEW w \in Webhooks, SetWebhookEnabled(w)
    PROVE  IInv'
<1>1. TypeOK'
  BY DEF IInv, TypeOK, SetWebhookEnabled
<1>2. \A x \in Procs : CallOnRow(x)' /\ CallBacked(x)'
  BY DEF IInv, Backed, CallOnRow, CallBacked, SetWebhookEnabled
<1>3. RowsExist'
  BY DEF IInv, Backed, RowsExist, SetWebhookEnabled
<1> QED
  BY <1>1, <1>2, <1>3, RowsUntouched DEF SetWebhookEnabled

LEMMA ReadDeliveryKeeps ==
    ASSUME IInv, NEW p \in Procs, ReadDelivery(p)
    PROVE  IInv'
<1> DEFINE d == call[p].d
<1>1. d \in Deliveries /\ status[d] # "ABSENT" /\ RowBacked(d)
  BY DEF IInv, Backed, CallOnRow, ReadDelivery, At, Idle
<1>2. CASE Return(p)
  BY <1>2, ReturnMoves, RowsUntouched
     DEF IInv, TypeOK, Backed, RowsExist, CallOnRow, CallBacked, ReadDelivery, Idle
<1>3. CASE Goto(p, "disabled")
  BY <1>1, <1>3, GotoMoves, RowsUntouched
     DEF IInv, TypeOK, Pc, Backed, RowsExist, CallOnRow, CallBacked, ReadDelivery
<1>4. CASE /\ status[d] = "PENDING"
           /\ call' = [call EXCEPT ![p] = [pc |-> "post", d |-> d, attempts |-> attempts[d]]]
  <2>1. TypeOK'
    BY <1>1, <1>4 DEF IInv, TypeOK, Call, Pc, ReadDelivery
  <2>2. \A x \in Procs : CallOnRow(x)' /\ CallBacked(x)'
    BY <1>1, <1>4
       DEF IInv, TypeOK, Backed, RowBacked, CallOnRow, CallBacked, ReadDelivery
  <2>3. RowsExist'
    BY DEF IInv, Backed, RowsExist, ReadDelivery
  <2> QED
    BY <2>1, <2>2, <2>3, RowsUntouched DEF ReadDelivery
<1> QED
  BY <1>2, <1>3, <1>4 DEF ReadDelivery

LEMMA SuccessTxFailsKeeps ==
    ASSUME IInv, NEW p \in Procs, SuccessTxFails(p)
    PROVE  IInv'
<1>1. Goto(p, "err")
  BY DEF SuccessTxFails
<1>2. TypeOK'
  BY <1>1, GotoMoves, ConstantsAssumption DEF IInv, TypeOK, Pc, SuccessTxFails
<1>3. \A x \in Procs : CallOnRow(x)' /\ CallBacked(x)'
  BY <1>1, GotoMoves
     DEF IInv, TypeOK, Pc, Backed, CallOnRow, CallBacked, SuccessTxFails, At, Idle
<1>4. RowsExist'
  BY DEF IInv, Backed, RowsExist, SuccessTxFails
<1> QED
  BY <1>2, <1>3, <1>4, RowsUntouched DEF SuccessTxFails

LEMMA AbortKeeps ==
    ASSUME IInv, NEW p \in Procs, Abort(p)
    PROVE  IInv'
<1>1. Return(p)
  BY DEF Abort
<1>2. TypeOK'
  <2>1. batch' \in [Sweepers -> SUBSET Deliveries] /\ sweeping' \in [Sweepers -> BOOLEAN]
    BY DEF IInv, TypeOK, Abort
  <2>2. aborts' \in 0..MaxAborts
    BY ConstantsAssumption DEF IInv, TypeOK, Abort
  <2> QED
    BY <1>1, <2>1, <2>2, ReturnMoves DEF IInv, TypeOK, Abort
<1>3. \A x \in Procs : CallOnRow(x)' /\ CallBacked(x)'
  BY <1>1, ReturnMoves
     DEF IInv, TypeOK, Backed, CallOnRow, CallBacked, Abort, Idle
<1>4. RowsExist'
  BY DEF IInv, Backed, RowsExist, Abort
<1> QED
  BY <1>2, <1>3, <1>4, RowsUntouched DEF Abort

LEMMA SweepStartKeeps ==
    ASSUME IInv, NEW s \in Sweepers, SweepStart(s)
    PROVE  IInv'
<1>1. TypeOK'
  BY DEF IInv, TypeOK, SweepStart, Due, Oldest
<1>2. \A x \in Procs : CallOnRow(x)' /\ CallBacked(x)'
  BY DEF IInv, Backed, CallOnRow, CallBacked, SweepStart
<1>3. RowsExist'
  BY DEF IInv, TypeOK, Backed, RowsExist, SweepStart, Due, Oldest
<1> QED
  BY <1>1, <1>2, <1>3, RowsUntouched DEF SweepStart

LEMMA SweepNextKeeps ==
    ASSUME IInv, NEW s \in Sweepers, SweepNext(s)
    PROVE  IInv'
<1>1. PICK d \in batch[s] :
          /\ batch' = [batch EXCEPT ![s] = @ \ {d}]
          /\ call' = [call EXCEPT ![s] = Started(d)]
  BY DEF SweepNext
<1>2. d \in Deliveries /\ status[d] # "ABSENT" /\ s \in Procs
  BY DEF IInv, TypeOK, Backed, RowsExist, Procs
<1>3. TypeOK'
  BY <1>1, <1>2 DEF IInv, TypeOK, SweepNext, Started, Call, Pc
<1>4. \A x \in Procs : CallOnRow(x)' /\ CallBacked(x)'
  BY <1>1, <1>2
     DEF IInv, TypeOK, Backed, CallOnRow, CallBacked, SweepNext, Started
<1>5. RowsExist'
  BY <1>1 DEF IInv, TypeOK, Backed, RowsExist, SweepNext
<1> QED
  BY <1>3, <1>4, <1>5, RowsUntouched DEF SweepNext

LEMMA SweepEndKeeps ==
    ASSUME IInv, NEW s \in Sweepers, SweepEnd(s)
    PROVE  IInv'
<1>1. TypeOK'
  BY DEF IInv, TypeOK, SweepEnd
<1>2. \A x \in Procs : CallOnRow(x)' /\ CallBacked(x)'
  BY DEF IInv, Backed, CallOnRow, CallBacked, SweepEnd
<1>3. RowsExist'
  BY DEF IInv, Backed, RowsExist, SweepEnd
<1> QED
  BY <1>1, <1>2, <1>3, RowsUntouched DEF SweepEnd

LEMMA RetryReadKeeps ==
    ASSUME IInv, NEW a \in Admins, NEW d \in Deliveries, RetryRead(a, d)
    PROVE  IInv'
<1>1. TypeOK'
  BY DEF IInv, TypeOK, RetryRead, Call, Pc
<1>2. \A x \in Procs : CallOnRow(x)' /\ CallBacked(x)'
  BY DEF IInv, TypeOK, Backed, CallOnRow, CallBacked, RetryRead, Procs
<1>3. RowsExist'
  BY DEF IInv, Backed, RowsExist, RetryRead
<1> QED
  BY <1>1, <1>2, <1>3, RowsUntouched DEF RetryRead

LEMMA RetryFallsDueKeeps ==
    ASSUME IInv, NEW d \in Deliveries, RetryFallsDue(d)
    PROVE  IInv'
<1>1. TypeOK'
  BY DEF IInv, TypeOK, RetryFallsDue
<1>2. Backed'
  BY DEF IInv, Backed, CallOnRow, CallBacked, RowBacked, RowsExist, RetryFallsDue
<1>3. SuccessWasAccepted' /\ NotGivenUpEarly' /\ SettledNotScheduled'
  BY DEF IInv, TypeOK, SuccessWasAccepted, NotGivenUpEarly, SettledNotScheduled,
         RetryFallsDue
<1> QED
  BY <1>1, <1>2, <1>3 DEF IInv

LEMMA PublishQueueKeeps ==
    ASSUME IInv, NEW e \in Events, NEW w \in Webhooks, NEW d \in Deliveries, PublishQueue(e, w, d)
    PROVE  IInv'
<1>1. /\ status[d] = "ABSENT"
      /\ status' = [status EXCEPT ![d] = "PENDING"]
      /\ target' = [target EXCEPT ![d] = w]
      /\ UNCHANGED <<attempts, nextRetry, tries, retries>>
  BY DEF PublishQueue, QueueRow, IsNextRow
<1>2. TypeOK'
  <2>2. event' \in [Events -> [pc : {"new", "queueing", "done"},
                              todo : SUBSET Webhooks, queued : SUBSET Deliveries]]
    BY DEF IInv, TypeOK, PublishQueue
  <2> QED
    BY <1>1, <2>2 DEF IInv, TypeOK, PublishQueue
<1>3. \A x \in Procs : CallOnRow(x)' /\ CallBacked(x)'
  BY <1>1 DEF IInv, TypeOK, Backed, CallOnRow, CallBacked, PublishQueue
<1>4. \A x \in Deliveries : RowBacked(x)'
  BY <1>1, ConstantsAssumption DEF IInv, TypeOK, Backed, RowBacked
<1>5. RowsExist'
  BY <1>1 DEF IInv, TypeOK, Backed, RowsExist, PublishQueue
<1>6. SuccessWasAccepted' /\ NotGivenUpEarly' /\ SettledNotScheduled'
  BY <1>1 DEF IInv, TypeOK, SuccessWasAccepted, NotGivenUpEarly, SettledNotScheduled, PublishQueue
<1> QED
  BY <1>2, <1>3, <1>4, <1>5, <1>6 DEF IInv, Backed

LEMMA TestWebhookKeeps ==
    ASSUME IInv, NEW w \in Webhooks, NEW d \in Deliveries, TestWebhook(w, d)
    PROVE  IInv'
<1>1. /\ status[d] = "ABSENT"
      /\ status' = [status EXCEPT ![d] = "PENDING"]
      /\ target' = [target EXCEPT ![d] = w]
      /\ UNCHANGED <<attempts, nextRetry>>
  BY DEF TestWebhook, QueueRow, IsNextRow
<1>2. TypeOK'
  BY <1>1 DEF IInv, TypeOK, TestWebhook, Started, Call, Pc, Procs
<1>3. \A x \in Procs : CallOnRow(x)' /\ CallBacked(x)'
  BY <1>1 DEF IInv, TypeOK, Backed, CallOnRow, CallBacked, TestWebhook, Started, Procs
<1>4. \A x \in Deliveries : RowBacked(x)'
  BY <1>1, ConstantsAssumption DEF IInv, TypeOK, Backed, RowBacked, TestWebhook
<1>5. RowsExist'
  BY <1>1 DEF IInv, TypeOK, Backed, RowsExist, TestWebhook
<1>6. SuccessWasAccepted' /\ NotGivenUpEarly' /\ SettledNotScheduled'
  BY <1>1 DEF IInv, TypeOK, SuccessWasAccepted, NotGivenUpEarly, SettledNotScheduled, TestWebhook
<1> QED
  BY <1>2, <1>3, <1>4, <1>5, <1>6 DEF IInv, Backed

LEMMA RecordDisabledKeeps ==
    ASSUME IInv, NEW p \in Procs, RecordDisabled(p)
    PROVE  IInv'
<1> DEFINE d == call[p].d
<1>1. Return(p) /\ p \in Procs
  BY DEF RecordDisabled, Procs
<1>2. d \in Deliveries /\ status[d] # "ABSENT"
  BY DEF IInv, Backed, CallOnRow, RecordDisabled, At, Idle
<1>3. TypeOK'
  BY <1>1, <1>2, ReturnMoves
     DEF IInv, TypeOK, RecordDisabled
<1>4. \A x \in Procs : CallOnRow(x)' /\ CallBacked(x)'
  BY <1>1, <1>2, ReturnMoves
     DEF IInv, TypeOK, Backed, CallOnRow, CallBacked, RecordDisabled, Idle
<1>5. \A x \in Deliveries : RowBacked(x)'
  BY <1>2 DEF IInv, TypeOK, Backed, RowBacked, RecordDisabled
<1>6. RowsExist'
  BY DEF IInv, TypeOK, Backed, RowsExist, RecordDisabled
<1>7. SuccessWasAccepted' /\ NotGivenUpEarly' /\ SettledNotScheduled'
  BY <1>2 DEF IInv, TypeOK, SuccessWasAccepted, NotGivenUpEarly, SettledNotScheduled, RecordDisabled
<1> QED
  BY <1>3, <1>4, <1>5, <1>6, <1>7 DEF IInv, Backed

LEMMA PostKeeps ==
    ASSUME IInv, NEW p \in Procs, Post(p)
    PROVE  IInv'
<1> DEFINE d == call[p].d
<1>1. d \in Deliveries /\ status[d] # "ABSENT" /\ CallBacked(p) /\ call[p].attempts \in Nat
  BY DEF IInv, TypeOK, Call, Backed, CallOnRow, Post, At, Idle
<1>2. PICK ok \in BOOLEAN :
          /\ accepted' = [accepted EXCEPT ![d] = @ \/ ok]
          /\ Goto(p, PostOutcome(ok))
  BY DEF Post
<1>3. PostOutcome(ok) \in {"ok", "err"} /\ PostOutcome(ok) \in Pc
  BY DEF PostOutcome, Pc
<1>4. accepted' \in [Deliveries -> BOOLEAN] /\ \A x \in Deliveries : accepted[x] => accepted'[x]
  BY <1>1, <1>2 DEF IInv, TypeOK
<1>5. /\ tries' \in [Deliveries -> Nat]
      /\ tries'[d] = tries[d] + 1
      /\ \A x \in Deliveries : tries'[x] \in {tries[x], tries[x] + 1}
  BY <1>1 DEF IInv, TypeOK, Post
<1>6. TypeOK'
  BY <1>2, <1>3, <1>4, <1>5, GotoMoves DEF IInv, TypeOK, Post
<1>7. \A x \in Procs : CallOnRow(x)' /\ CallBacked(x)'
  <2>1. SUFFICES ASSUME NEW x \in Procs PROVE CallOnRow(x)' /\ CallBacked(x)'
    OBVIOUS
  <2>2. CASE x = p
    <3>1. call'[p].pc = "ok" => accepted'[d]
      BY <1>1, <1>2, <1>3, GotoMoves DEF IInv, TypeOK, PostOutcome
    <3> QED
      BY <1>1, <1>2, <1>3, <1>5, <2>2, <3>1, GotoMoves
         DEF IInv, TypeOK, CallOnRow, CallBacked, Post, At
  <2>3. CASE x # p
    <3>1. call'[x] = call[x] /\ call[x] \in Call /\ CallOnRow(x) /\ CallBacked(x)
      BY <1>2, <1>3, <2>3, GotoMoves DEF IInv, TypeOK, Backed
    <3> QED
      BY <1>4, <1>5, <3>1 DEF IInv, TypeOK, Call, CallOnRow, CallBacked, Idle, Post
  <2> QED
    BY <2>2, <2>3
<1>8. \A x \in Deliveries : RowBacked(x)'
  BY <1>5 DEF IInv, TypeOK, Backed, RowBacked, Post
<1>9. RowsExist'
  BY DEF IInv, TypeOK, Backed, RowsExist, Post
<1>10. SuccessWasAccepted' /\ NotGivenUpEarly' /\ SettledNotScheduled'
  BY <1>4, <1>5, ConstantsAssumption
     DEF IInv, TypeOK, SuccessWasAccepted, NotGivenUpEarly, SettledNotScheduled, Post
<1> QED
  BY <1>6, <1>7, <1>8, <1>9, <1>10 DEF IInv, Backed

LEMMA RecordSuccessKeeps ==
    ASSUME IInv, NEW p \in Procs, RecordSuccess(p)
    PROVE  IInv'
<1> DEFINE d == call[p].d
<1>1. Return(p) /\ p \in Procs
  BY DEF RecordSuccess, Procs
<1>2. /\ d \in Deliveries /\ status[d] # "ABSENT" /\ accepted[d]
      /\ call[p].attempts \in Nat /\ call[p].attempts < tries[d]
      /\ call[p].attempts < MaxAttempts + retries
  BY DEF IInv, TypeOK, Call, Backed, CallOnRow, CallBacked, RecordSuccess, At, Idle
<1>3. TypeOK'
  <2>1. status' \in [Deliveries -> {"ABSENT", "PENDING", "SUCCESS", "FAILED"}]
    BY DEF IInv, TypeOK, RecordSuccess
  <2>2. nextRetry' \in [Deliveries -> {"null", "future", "due"}]
    BY DEF IInv, TypeOK, RecordSuccess
  <2>3. attempts' \in [Deliveries -> Nat]
    BY <1>2 DEF IInv, TypeOK, RecordSuccess
  <2>4. failing' \in [Webhooks -> BOOLEAN]
    BY DEF IInv, TypeOK, RecordSuccess
  <2> QED
    BY <1>1, <2>1, <2>2, <2>3, <2>4, ReturnMoves
       DEF IInv, TypeOK, Pc, RecordSuccess
<1>4. \A x \in Procs : CallOnRow(x)' /\ CallBacked(x)'
  <2>1. \A x \in Deliveries : status'[x] = "ABSENT" => status[x] = "ABSENT"
    BY <1>2 DEF IInv, TypeOK, RecordSuccess
  <2>2. UNCHANGED <<tries, accepted>> /\ retries' >= retries
    BY ConstantsAssumption DEF IInv, TypeOK, RecordSuccess
  <2>3. SUFFICES ASSUME NEW x \in Procs PROVE CallOnRow(x)' /\ CallBacked(x)'
    OBVIOUS
  <2>4. CASE x = p
    BY <1>1, <1>2, <2>1, <2>4, ReturnMoves DEF IInv, TypeOK, Pc, CallOnRow, CallBacked, Idle
  <2>5. CASE x # p
    <3>1. call'[x] = call[x] /\ call[x] \in Call /\ CallOnRow(x) /\ CallBacked(x)
      BY <1>1, <2>5, ReturnMoves DEF IInv, TypeOK, Pc, Backed
    <3>2. retries \in Nat /\ retries' \in Nat
      BY <1>3, ConstantsAssumption DEF IInv, TypeOK
    <3> QED
      BY <2>1, <2>2, <3>1, <3>2, ConstantsAssumption DEF Call, CallOnRow, CallBacked, Idle
  <2> QED
    BY <2>4, <2>5
<1>5. \A x \in Deliveries : RowBacked(x)'
  BY <1>2, ConstantsAssumption DEF IInv, TypeOK, Backed, RowBacked, RecordSuccess
<1>6. RowsExist'
  BY DEF IInv, TypeOK, Backed, RowsExist, RecordSuccess
<1>7. SuccessWasAccepted' /\ NotGivenUpEarly' /\ SettledNotScheduled'
  BY <1>2 DEF IInv, TypeOK, SuccessWasAccepted, NotGivenUpEarly, SettledNotScheduled, RecordSuccess
<1> QED
  BY <1>3, <1>4, <1>5, <1>6, <1>7 DEF IInv, Backed

LEMMA RecordFailureKeeps ==
    ASSUME IInv, NEW p \in Procs, RecordFailure(p)
    PROVE  IInv'
<1> DEFINE d == call[p].d
<1>1. Return(p) /\ p \in Procs
  BY DEF RecordFailure, Procs
<1>2. /\ d \in Deliveries /\ status[d] # "ABSENT"
      /\ call[p].attempts \in Nat /\ call[p].attempts < tries[d]
      /\ call[p].attempts < MaxAttempts + retries
  BY DEF IInv, TypeOK, Call, Backed, CallOnRow, CallBacked, RecordFailure, At, Idle
<1>3. TypeOK'
  <2>1. status' \in [Deliveries -> {"ABSENT", "PENDING", "SUCCESS", "FAILED"}]
    BY DEF IInv, TypeOK, RecordFailure, StatusAfter
  <2>2. nextRetry' \in [Deliveries -> {"null", "future", "due"}]
    BY DEF IInv, TypeOK, RecordFailure, RetryAfter
  <2>3. attempts' \in [Deliveries -> Nat]
    BY <1>2 DEF IInv, TypeOK, RecordFailure
  <2>4. failing' \in [Webhooks -> BOOLEAN]
    BY DEF IInv, TypeOK, RecordFailure
  <2> QED
    BY <1>1, <2>1, <2>2, <2>3, <2>4, ReturnMoves
       DEF IInv, TypeOK, Pc, RecordFailure
<1>4. \A x \in Procs : CallOnRow(x)' /\ CallBacked(x)'
  <2>1. \A x \in Deliveries : status'[x] = "ABSENT" => status[x] = "ABSENT"
    BY <1>2 DEF IInv, TypeOK, RecordFailure, StatusAfter
  <2>2. UNCHANGED <<tries, accepted>> /\ retries' >= retries
    BY ConstantsAssumption DEF IInv, TypeOK, RecordFailure
  <2>3. SUFFICES ASSUME NEW x \in Procs PROVE CallOnRow(x)' /\ CallBacked(x)'
    OBVIOUS
  <2>4. CASE x = p
    BY <1>1, <1>2, <2>1, <2>4, ReturnMoves DEF IInv, TypeOK, Pc, CallOnRow, CallBacked, Idle
  <2>5. CASE x # p
    <3>1. call'[x] = call[x] /\ call[x] \in Call /\ CallOnRow(x) /\ CallBacked(x)
      BY <1>1, <2>5, ReturnMoves DEF IInv, TypeOK, Pc, Backed
    <3>2. retries \in Nat /\ retries' \in Nat
      BY <1>3, ConstantsAssumption DEF IInv, TypeOK
    <3> QED
      BY <2>1, <2>2, <3>1, <3>2, ConstantsAssumption DEF Call, CallOnRow, CallBacked, Idle
  <2> QED
    BY <2>4, <2>5
<1>5. \A x \in Deliveries : RowBacked(x)'
  BY <1>2, ConstantsAssumption
     DEF IInv, TypeOK, Backed, RowBacked, RecordFailure, StatusAfter, Exhausted
<1>6. RowsExist'
  BY DEF IInv, TypeOK, Backed, RowsExist, RecordFailure, StatusAfter
<1>7. SuccessWasAccepted' /\ NotGivenUpEarly' /\ SettledNotScheduled'
  BY <1>2, ConstantsAssumption
     DEF IInv, TypeOK, SuccessWasAccepted, NotGivenUpEarly, SettledNotScheduled,
         RecordFailure, StatusAfter, RetryAfter, Exhausted
<1> QED
  BY <1>3, <1>4, <1>5, <1>6, <1>7 DEF IInv, Backed

LEMMA RetryReopenKeeps ==
    ASSUME IInv, NEW a \in Admins, RetryReopen(a)
    PROVE  IInv'
<1> DEFINE d == call[a].d
<1>1. Goto(a, "start") /\ a \in Procs
  BY DEF RetryReopen, Procs
<1>2. d \in Deliveries /\ status[d] # "ABSENT"
  BY DEF IInv, Backed, CallOnRow, RetryReopen, At, Idle, Procs
<1>3. TypeOK'
  <2>1. status' \in [Deliveries -> {"ABSENT", "PENDING", "SUCCESS", "FAILED"}]
    BY DEF IInv, TypeOK, RetryReopen
  <2>2. nextRetry' \in [Deliveries -> {"null", "future", "due"}]
    BY DEF IInv, TypeOK, RetryReopen
  <2>5. retries' \in 0..MaxRetries
    BY ConstantsAssumption DEF IInv, TypeOK, RetryReopen
  <2> QED
    BY <1>1, <2>1, <2>2, <2>5, GotoMoves
       DEF IInv, TypeOK, Pc, RetryReopen
<1>4. \A x \in Procs : CallOnRow(x)' /\ CallBacked(x)'
  <2>1. \A x \in Deliveries : status'[x] = "ABSENT" => status[x] = "ABSENT"
    BY <1>2 DEF IInv, TypeOK, RetryReopen
  <2>2. UNCHANGED <<tries, accepted>> /\ retries' >= retries
    BY ConstantsAssumption DEF IInv, TypeOK, RetryReopen
  <2>3. SUFFICES ASSUME NEW x \in Procs PROVE CallOnRow(x)' /\ CallBacked(x)'
    OBVIOUS
  <2>4. CASE x = a
    BY <1>1, <1>2, <2>1, <2>4, GotoMoves DEF IInv, TypeOK, Pc, CallOnRow, CallBacked, Idle
  <2>5. CASE x # a
    <3>1. call'[x] = call[x] /\ call[x] \in Call /\ CallOnRow(x) /\ CallBacked(x)
      BY <1>1, <2>5, GotoMoves DEF IInv, TypeOK, Pc, Backed
    <3>2. retries \in Nat /\ retries' \in Nat
      BY <1>3, ConstantsAssumption DEF IInv, TypeOK
    <3> QED
      BY <2>1, <2>2, <3>1, <3>2, ConstantsAssumption DEF Call, CallOnRow, CallBacked, Idle
  <2> QED
    BY <2>4, <2>5
<1>5. \A x \in Deliveries : RowBacked(x)'
  BY <1>2, ConstantsAssumption DEF IInv, TypeOK, Backed, RowBacked, RetryReopen
<1>6. RowsExist'
  BY DEF IInv, TypeOK, Backed, RowsExist, RetryReopen
<1>7. SuccessWasAccepted' /\ NotGivenUpEarly' /\ SettledNotScheduled'
  BY <1>2 DEF IInv, TypeOK, SuccessWasAccepted, NotGivenUpEarly, SettledNotScheduled, RetryReopen
<1> QED
  BY <1>3, <1>4, <1>5, <1>6, <1>7 DEF IInv, Backed
-----------------------------------------------------------------------------
LEMMA InitIInv == Init => IInv
<1> SUFFICES ASSUME Init PROVE IInv
  OBVIOUS
<1>1. TypeOK
  BY ConstantsAssumption DEF Init, TypeOK, NoCall, Call, Pc
<1>2. Backed
  BY ConstantsAssumption
     DEF Init, Backed, CallOnRow, CallBacked, RowBacked, RowsExist, NoCall, Idle
<1> QED
  BY <1>1, <1>2 DEF Init, IInv, SuccessWasAccepted, NotGivenUpEarly, SettledNotScheduled

LEMMA StepIInv == IInv /\ [Next]_vars => IInv'
<1> SUFFICES ASSUME IInv, [Next]_vars PROVE IInv'
  OBVIOUS
<1>1. CASE UNCHANGED vars
  BY <1>1 DEF vars, IInv, TypeOK, Backed, CallOnRow, CallBacked, RowBacked, RowsExist,
              SuccessWasAccepted, NotGivenUpEarly, SettledNotScheduled
<1>2. CASE \E e \in Events :
              \/ PublishRead(e)
              \/ \E w \in Webhooks, d \in Deliveries : PublishQueue(e, w, d)
              \/ PublishDispatch(e)
              \/ PublishAbort(e)
  BY <1>2, PublishReadKeeps, PublishQueueKeeps, PublishDispatchKeeps, PublishAbortKeeps
<1>3. CASE \/ \E w \in Webhooks : SetWebhookEnabled(w)
           \/ \E w \in Webhooks, d \in Deliveries : TestWebhook(w, d)
           \/ \E d \in Deliveries : RetryFallsDue(d)
  BY <1>3, SetWebhookEnabledKeeps, TestWebhookKeeps, RetryFallsDueKeeps
<1>4. CASE \E p \in Procs : DispatchStep(p) \/ SuccessTxFails(p) \/ Abort(p)
  BY <1>4, ReadDeliveryKeeps, RecordDisabledKeeps, PostKeeps, RecordSuccessKeeps,
     RecordFailureKeeps, SuccessTxFailsKeeps, AbortKeeps DEF DispatchStep
<1>5. CASE \E s \in Sweepers : SweepStep(s)
  BY <1>5, SweepStartKeeps, SweepNextKeeps, SweepEndKeeps DEF SweepStep
<1>6. CASE \E a \in Admins : RetryReopen(a) \/ \E d \in Deliveries : RetryRead(a, d)
  BY <1>6, RetryReopenKeeps, RetryReadKeeps
<1> QED
  BY <1>1, <1>2, <1>3, <1>4, <1>5, <1>6 DEF Next

LEMMA InductiveInvariant == Spec => []IInv
BY InitIInv, StepIInv, PTL DEF Spec

\* The columns and program counters keep their types.
THEOREM TypeCorrect == Spec => []TypeOK
<1>1. IInv => TypeOK
  BY DEF IInv
<1> QED
  BY <1>1, InductiveInvariant, PTL

\* Whatever the concurrent dispatchers of a row overwrite, a row recorded
\* SUCCESS was answered 2xx by its destination.
THEOREM SuccessIsTrue == Spec => []SuccessWasAccepted
<1>1. IInv => SuccessWasAccepted
  BY DEF IInv
<1> QED
  BY <1>1, InductiveInvariant, PTL

\* A row recorded FAILED was tried MaxAttempts times, or its webhook was found
\* disabled: lost updates of the counter only ever add attempts.
THEOREM GivingUpIsTrue == Spec => []NotGivenUpEarly
<1>1. IInv => NotGivenUpEarly
  BY DEF IInv
<1> QED
  BY <1>1, InductiveInvariant, PTL

\* A settled row is on no schedule.
THEOREM SettledIsOffSchedule == Spec => []SettledNotScheduled
<1>1. IInv => SettledNotScheduled
  BY DEF IInv
<1> QED
  BY <1>1, InductiveInvariant, PTL

\* The attempts counter exceeds MaxAttempts by at most the manual retries.
THEOREM AttemptsStayBounded == Spec => []AttemptsBounded
<1>1. IInv => AttemptsBounded
  BY DEF IInv, Backed, RowBacked, AttemptsBounded
<1> QED
  BY <1>1, InductiveInvariant, PTL
-----------------------------------------------------------------------------
(* The rows implement an at-least-once queue *)

places == [d \in Deliveries |-> Place(d)]

LEMMA PlaceMoves ==
    ASSUME IInv, NEW d \in Deliveries, NEW v \in {"PENDING", "SUCCESS", "FAILED"},
           status' = [status EXCEPT ![d] = v]
    PROVE  places' = [places EXCEPT ![d] = IF v = "PENDING" THEN "owed" ELSE "out"]
<1>1. \A x \in Deliveries : Place(x)' = IF x = d THEN IF v = "PENDING" THEN "owed" ELSE "out"
                                        ELSE Place(x)
  BY DEF IInv, TypeOK, Place
<1> QED
  BY <1>1 DEF places

\* A row that exists is moved to PENDING, or away from it for a reason.
LEMMA StatusWrite ==
    ASSUME IInv, NEW d \in Deliveries, NEW v \in {"PENDING", "SUCCESS", "FAILED"},
           status[d] # "ABSENT",
           status' = [status EXCEPT ![d] = v],
           v # "PENDING" => Queue!Reason(d),
           UNCHANGED <<tries, accepted, sawDisabled>>
    PROVE  [Queue!Next]_(Queue!vars)
<1>1. places' = [places EXCEPT ![d] = IF v = "PENDING" THEN "owed" ELSE "out"]
  BY PlaceMoves
<1>2. places[d] = IF status[d] = "PENDING" THEN "owed" ELSE "out"
  BY DEF IInv, TypeOK, Place, places
<1>3. CASE v = "PENDING" /\ status[d] # "PENDING"
  <2>1. Queue!Reopen(d)
    BY <1>1, <1>2, <1>3 DEF Queue!Reopen, places
  <2> QED
    BY <2>1 DEF Queue!Next
<1>4. CASE v # "PENDING" /\ status[d] = "PENDING"
  <2>1. Queue!Stop(d)
    BY <1>1, <1>2, <1>4 DEF Queue!Stop, places
  <2> QED
    BY <2>1 DEF Queue!Next
<1>5. CASE (v = "PENDING") = (status[d] = "PENDING")
  <2>1. places' = places
    BY <1>1, <1>2, <1>5 DEF places
  <2> QED
    BY <2>1 DEF Queue!vars, places
<1> QED
  BY <1>3, <1>4, <1>5

LEMMA NewRow ==
    ASSUME IInv, NEW d \in Deliveries, NEW w \in Webhooks, QueueRow(d, w),
           UNCHANGED <<tries, accepted, sawDisabled>>
    PROVE  [Queue!Next]_(Queue!vars)
<1>1. places' = [places EXCEPT ![d] = "owed"] /\ places[d] = "absent"
  BY PlaceMoves DEF QueueRow, IsNextRow, Place, places
<1>2. Queue!Accept(d)
  BY <1>1 DEF Queue!Accept, places
<1> QED
  BY <1>2 DEF Queue!Next

LEMMA DispatchRefines ==
    ASSUME IInv, NEW p \in Procs, DispatchStep(p)
    PROVE  [Queue!Next]_(Queue!vars)
<1> DEFINE d == call[p].d
<1>1. CASE ReadDelivery(p)
  BY <1>1 DEF ReadDelivery, Queue!vars, Place
<1>2. CASE RecordDisabled(p)
  <2>1. d \in Deliveries /\ status[d] # "ABSENT"
    BY <1>2 DEF IInv, Backed, CallOnRow, RecordDisabled, At, Idle
  <2>2. places' = [places EXCEPT ![d] = "out"] /\ places[d] # "absent"
    BY <1>2, <2>1, PlaceMoves DEF RecordDisabled, Place, places
  <2>3. Queue!Excuse(d)
    BY <1>2, <2>2 DEF RecordDisabled, Queue!Excuse, places
  <2> QED
    BY <2>1, <2>3 DEF Queue!Next
<1>3. CASE Post(p)
  <2>1. d \in Deliveries /\ status[d] # "ABSENT"
    BY <1>3 DEF IInv, Backed, CallOnRow, Post, At, Idle
  <2>2. places' = places /\ places[d] # "absent"
    BY <1>3, <2>1 DEF Post, Place, places
  <2>3. Queue!Attempt(d)
    BY <1>3, <2>2 DEF Post, Queue!Attempt, places
  <2> QED
    BY <2>1, <2>3 DEF Queue!Next
<1>4. CASE RecordSuccess(p)
  <2>1. d \in Deliveries /\ status[d] # "ABSENT" /\ accepted[d]
    BY <1>4 DEF IInv, Backed, CallOnRow, CallBacked, RecordSuccess, At, Idle
  <2> QED
    BY <1>4, <2>1, StatusWrite DEF RecordSuccess, Queue!Reason
<1>5. CASE RecordFailure(p)
  <2>1. /\ d \in Deliveries /\ status[d] # "ABSENT"
        /\ call[p].attempts \in Nat /\ tries[d] \in Nat /\ call[p].attempts < tries[d]
    BY <1>5 DEF IInv, TypeOK, Call, Backed, CallOnRow, CallBacked, RecordFailure, At, Idle
  <2>2. Exhausted(call[p].attempts + 1) => tries[d] >= MaxAttempts
    BY <2>1, ConstantsAssumption DEF Exhausted
  <2>3. StatusAfter(call[p].attempts + 1) \in {"PENDING", "FAILED"}
    BY DEF StatusAfter
  <2>4. StatusAfter(call[p].attempts + 1) # "PENDING" => Queue!Reason(d)
    BY <2>2 DEF StatusAfter, Queue!Reason
  <2> QED
    BY <1>5, <2>1, <2>3, <2>4, StatusWrite DEF RecordFailure
<1> QED
  BY <1>1, <1>2, <1>3, <1>4, <1>5 DEF DispatchStep

LEMMA StepRefines == IInv /\ [Next]_vars => [Queue!Next]_(Queue!vars)
<1> SUFFICES ASSUME IInv, [Next]_vars PROVE [Queue!Next]_(Queue!vars)
  OBVIOUS
<1>1. ASSUME UNCHANGED <<status, tries, accepted, sawDisabled>>
      PROVE  [Queue!Next]_(Queue!vars)
  BY <1>1 DEF Queue!vars, Place
<1>2. CASE UNCHANGED vars
  BY <1>1, <1>2 DEF vars
<1>3. CASE \E e \in Events :
              \/ PublishRead(e)
              \/ \E w \in Webhooks, d \in Deliveries : PublishQueue(e, w, d)
              \/ PublishDispatch(e)
              \/ PublishAbort(e)
  BY <1>1, <1>3, NewRow DEF PublishRead, PublishQueue, PublishDispatch, PublishAbort
<1>4. CASE \/ \E w \in Webhooks : SetWebhookEnabled(w)
           \/ \E w \in Webhooks, d \in Deliveries : TestWebhook(w, d)
           \/ \E d \in Deliveries : RetryFallsDue(d)
  BY <1>1, <1>4, NewRow DEF SetWebhookEnabled, TestWebhook, RetryFallsDue
<1>5. CASE \E p \in Procs : DispatchStep(p) \/ SuccessTxFails(p) \/ Abort(p)
  BY <1>1, <1>5, DispatchRefines DEF SuccessTxFails, Abort
<1>6. CASE \E s \in Sweepers : SweepStep(s)
  BY <1>1, <1>6 DEF SweepStep, SweepStart, SweepNext, SweepEnd
<1>7. ASSUME NEW a \in Admins, RetryReopen(a)
      PROVE  [Queue!Next]_(Queue!vars)
  <2>1. call[a].d \in Deliveries /\ status[call[a].d] # "ABSENT"
    BY <1>7 DEF IInv, Backed, CallOnRow, RetryReopen, At, Idle, Procs
  <2> QED
    BY <1>7, <2>1, StatusWrite DEF RetryReopen
<1>8. CASE \E a \in Admins : RetryReopen(a) \/ \E d \in Deliveries : RetryRead(a, d)
  BY <1>1, <1>7, <1>8 DEF RetryRead
<1> QED
  BY <1>2, <1>3, <1>4, <1>5, <1>6, <1>8 DEF Next

\* The delivery rows implement an at-least-once queue, with every dispatcher
\* racing every other: a row leaves PENDING only with an answer, MaxAttempts
\* attempts or a disabled webhook behind it.
THEOREM RowsAreAQueue == Spec => ImplementsAtLeastOnce
<1>1. Init => Queue!Init
  BY DEF Init, Queue!Init, Place
<1> QED
  BY <1>1, StepRefines, InductiveInvariant, PTL DEF Spec, ImplementsAtLeastOnce, Queue!Spec
=============================================================================
