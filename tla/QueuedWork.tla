----------------------------- MODULE QueuedWork ------------------------------
(***************************************************************************)
(* The rows that stand for work to be done and what becomes of it: report  *)
(* jobs, background jobs and e-mail deliveries, which a scheduler in every *)
(* server, requests, and a job that gives up on old deliveries write to    *)
(* (services/saasadmin/reports.service.ts, system-administration.service.ts*)
(* and tenants.service.ts, services/itsm/reports.service.ts,               *)
(* shared/email/index.ts, jobs).  None of the writes looks at the status   *)
(* it replaces: what was read before may have changed.                     *)
(***************************************************************************)
EXTENDS Naturals, Sequences, SequencesExt

CONSTANTS NumRows,      \* bound: rows that are ever created, in the order of their number
          Servers, Calls,
          Batch,        \* how many report jobs a sweep takes: 3 in the code
          MaxCrashes    \* bound: how many times a server or a call is cut short
ASSUME QueuedWorkAssumption == NumRows \in Nat /\ Batch \in Nat \ {0} /\ MaxCrashes \in Nat
Rows == 1..NumRows

VARIABLES row,     \* [kind, scope, key, status, file, old] of each row
          server,  \* each server's report sweep: [pc, batch]
          call,    \* the requests under way: [op, pc, row, result]
          crashes
vars == <<row, server, call, crashes>>

\* scope: who asked for a report; key: the catalog it was chosen from, or whether retryJob
\* knows the type of a background job.
NoRow == [kind |-> "none", scope |-> "none", key |-> "none", status |-> "NONE", file |-> FALSE,
          old |-> FALSE]
NewRow(kind, scope, key, status) ==
    [NoRow EXCEPT !.kind = kind, !.scope = scope, !.key = key, !.status = status]
Idle == [pc |-> "idle", batch |-> <<>>]
NoCall == [op |-> "none", pc |-> "idle", row |-> 0, result |-> "none"]
Final == {"COMPLETED", "FAILED", "CANCELLED", "SENT"}

Init ==
    /\ row = [i \in Rows |-> NoRow]
    /\ server = [s \in Servers |-> Idle]
    /\ call = [c \in Calls |-> NoCall]
    /\ crashes = 0

NextRow(i) == row[i].kind = "none" /\ \A j \in Rows : row[j].kind = "none" => i <= j
Put(i, r) == row' = [row EXCEPT ![i] = r]
SetStatus(i, s) == Put(i, [row[i] EXCEPT !.status = s])
Turn(s, pc) == server' = [server EXCEPT ![s].pc = pc]
Become(c, next) == call' = [call EXCEPT ![c] = next]
Finish(c) == Become(c, NoCall)
At(c, op, pc) == call[c].op = op /\ call[c].pc = pc

-----------------------------------------------------------------------------
\* createReportJob, and what members of organizations ask for: reports of their own catalog,
\* exports of whatever they name.  runReport runs at once and keeps no file.
CreateReport(i, scope, key) ==
    /\ NextRow(i)
    /\ scope = "platform" => key = "platform"
    /\ Put(i, NewRow("report", scope, key, "QUEUED"))
    /\ UNCHANGED <<server, call, crashes>>
RunReport(i) ==
    /\ NextRow(i)
    /\ Put(i, NewRow("run", "platform", "platform", "COMPLETED"))
    /\ UNCHANGED <<server, call, crashes>>

\* processQueuedReportJobs lists the oldest queued jobs, unless the server's last sweep still runs.
Queued == SelectSeq([i \in Rows |-> i], LAMBDA i : row[i].kind = "report" /\ row[i].status = "QUEUED")
SweepStart(s) ==
    /\ server[s] = Idle /\ Queued # <<>>
    /\ server' = [server EXCEPT ![s] = [pc |-> "start", batch |-> SubSeq(Queued, 1, Min({Batch, Len(Queued)}))]]
    /\ UNCHANGED <<row, call, crashes>>

\* processJob: RUNNING, the report, the file, COMPLETED; whatever fails on the way ends in FAILED.
Job(s) == Head(server[s].batch)
Start(s) ==
    /\ server[s].pc = "start"
    /\ SetStatus(Job(s), "RUNNING")
    /\ Turn(s, "execute")
    /\ UNCHANGED <<call, crashes>>
Executes(i) == row[i].key = "platform"   \* executeReport knows the platform's catalog
Execute(s) ==
    /\ server[s].pc = "execute"
    /\ \/ Executes(Job(s)) /\ Turn(s, "store")
       \/ Turn(s, "fail")
    /\ UNCHANGED <<row, call, crashes>>
StoreUnawaited(s) ==   \* a mutation: the write of the file is not waited for
    /\ server[s].pc = "store"
    /\ \/ Put(Job(s), [row[Job(s)] EXCEPT !.file = TRUE])
       \/ UNCHANGED row
    /\ Turn(s, "complete")
    /\ UNCHANGED <<call, crashes>>
Store(s) ==
    /\ server[s].pc = "store"
    /\ \/ Put(Job(s), [row[Job(s)] EXCEPT !.file = TRUE]) /\ Turn(s, "complete")
       \/ UNCHANGED row /\ Turn(s, "fail")
    /\ UNCHANGED <<call, crashes>>
After(batch) == IF Len(batch) = 1 THEN Idle ELSE [pc |-> "start", batch |-> Tail(batch)]
Complete(s) ==
    /\ server[s].pc = "complete"
    /\ \/ /\ SetStatus(Job(s), "COMPLETED")
          /\ server' = [server EXCEPT ![s] = After(@.batch)]
       \/ UNCHANGED row /\ Turn(s, "fail")
    /\ UNCHANGED <<call, crashes>>
Fail(s) ==
    /\ server[s].pc = "fail"
    /\ SetStatus(Job(s), "FAILED")
    /\ server' = [server EXCEPT ![s] = After(@.batch)]
    /\ UNCHANGED <<call, crashes>>

\* A write of the sweep fails, or the server restarts: the rest of the batch is left as it is,
\* and the scheduler is free for the next sweep (execute's finally).
SweepHangs(s) ==   \* a mutation: without the finally the sweep is taken to be running still
    /\ server[s] # Idle /\ crashes < MaxCrashes
    /\ server' = [server EXCEPT ![s] = [pc |-> "running", batch |-> <<>>]]
    /\ crashes' = crashes + 1
    /\ UNCHANGED <<row, call>>
SweepAborts(s) ==
    /\ server[s] # Idle /\ crashes < MaxCrashes
    /\ server' = [server EXCEPT ![s] = Idle]
    /\ crashes' = crashes + 1
    /\ UNCHANGED <<row, call>>

-----------------------------------------------------------------------------
\* cancelExport, cancelRun of an organization, and cancelJob: each looks whether the row may be
\* cancelled, and cancels it.
Cancellable(op, i) ==
    CASE op = "cancelExport" -> row[i].kind = "report" /\ row[i].status = "QUEUED"
      [] op = "cancelRun" -> row[i].scope = "tenant" /\ row[i].status \notin {"COMPLETED", "FAILED"}
      [] op = "cancelJob" -> row[i].kind = "background" /\ row[i].status \notin {"COMPLETED", "CANCELLED"}
CancelRead(c, op, i) ==
    /\ call[c] = NoCall /\ row[i].status \notin {"NONE", "GONE"} /\ Cancellable(op, i)
    /\ Become(c, [op |-> "cancel", pc |-> "write", row |-> i, result |-> "none"])
    /\ UNCHANGED <<row, server, crashes>>
CancelWrite(c) ==
    LET i == call[c].row
    IN  /\ At(c, "cancel", "write")
        /\ IF row[i].status = "GONE" THEN UNCHANGED row ELSE SetStatus(i, "CANCELLED")
        /\ Finish(c)
        /\ UNCHANGED <<server, crashes>>

\* provisionTenant enters a job that is RUNNING and ends it with the provisioning.
ProvisionStart(c, i) ==
    /\ call[c] = NoCall /\ NextRow(i)
    /\ Put(i, NewRow("background", "platform", "known", "RUNNING"))
    /\ Become(c, [op |-> "provision", pc |-> "finish", row |-> i, result |-> "none"])
    /\ UNCHANGED <<server, crashes>>
\* A job of a type retryJob does not know, as they may be entered from outside.
EnterJob(i) ==
    /\ NextRow(i)
    /\ Put(i, NewRow("background", "platform", "unknown", "FAILED"))
    /\ UNCHANGED <<server, call, crashes>>

\* retryJob: the job is queued, its work is done at once, and its outcome is written; a type it
\* does not know stays QUEUED.
RetryRead(c, i) ==
    /\ call[c] = NoCall /\ row[i].kind = "background"
    /\ row[i].status \notin {"RUNNING", "COMPLETED", "GONE"}
    /\ Become(c, [op |-> "retry", pc |-> "queue", row |-> i, result |-> "none"])
    /\ UNCHANGED <<row, server, crashes>>
RetryQueue(c) ==
    LET i == call[c].row
    IN  /\ At(c, "retry", "queue")
        /\ IF row[i].status = "GONE" THEN Finish(c) /\ UNCHANGED row
           ELSE /\ SetStatus(i, "QUEUED")
                /\ Become(c, [call[c] EXCEPT !.pc = "finish"])
        /\ UNCHANGED <<server, crashes>>
Outcomes(c) ==
    IF call[c].op = "retry" /\ row[call[c].row].key = "unknown" THEN {"QUEUED", "FAILED"}
    ELSE {"COMPLETED", "FAILED"}
WorkFinish(c) ==
    LET i == call[c].row
    IN  /\ call[c].op \in {"provision", "retry"} /\ call[c].pc = "finish"
        /\ IF row[i].status = "GONE" THEN UNCHANGED row
           ELSE \E outcome \in Outcomes(c) : SetStatus(i, outcome)
        /\ Finish(c)
        /\ UNCHANGED <<server, crashes>>

\* The maintenance job deletes background jobs that ended 30 days ago.
Cleanup(i) ==
    /\ row[i].kind = "background" /\ row[i].status \in {"COMPLETED", "CANCELLED", "FAILED"}
    /\ SetStatus(i, "GONE")
    /\ UNCHANGED <<server, call, crashes>>

-----------------------------------------------------------------------------
\* sendEmail: a delivery is entered, sent, and its outcome written; without a provider it is
\* entered as SUPPRESSED.  Sending may end well and the write of it fail.
SendStart(c, i, provider) ==
    /\ call[c] = NoCall /\ NextRow(i)
    /\ Put(i, NewRow("delivery", "none", "none", IF provider THEN "QUEUED" ELSE "SUPPRESSED"))
    /\ IF provider THEN Become(c, [op |-> "send", pc |-> "send", row |-> i, result |-> "none"])
       ELSE UNCHANGED call
    /\ UNCHANGED <<server, crashes>>
Send(c) ==
    /\ At(c, "send", "send")
    /\ \E result \in {"SENT", "FAILED"} : Become(c, [call[c] EXCEPT !.pc = "finish", !.result = result])
    /\ UNCHANGED <<row, server, crashes>>
SendFinish(c) ==
    /\ At(c, "send", "finish")
    /\ \/ SetStatus(call[c].row, call[c].result) /\ Finish(c)
       \/ call[c].result = "SENT" /\ Become(c, [call[c] EXCEPT !.result = "FAILED"]) /\ UNCHANGED row
    /\ UNCHANGED <<server, crashes>>
\* A delivery has been queued for 15 minutes, and the notification job gives it up.
GrowsOld(i) ==
    /\ row[i].kind = "delivery" /\ row[i].status = "QUEUED" /\ ~ row[i].old
    /\ Put(i, [row[i] EXCEPT !.old = TRUE])
    /\ UNCHANGED <<server, call, crashes>>
GiveUpStale ==
    /\ \E i \in Rows : row[i].old /\ row[i].status = "QUEUED"
    /\ row' = [i \in Rows |->
          IF row[i].old /\ row[i].status = "QUEUED" THEN [row[i] EXCEPT !.status = "FAILED"] ELSE row[i]]
    /\ UNCHANGED <<server, call, crashes>>

\* A request is cut short by a failing statement or a restart.
CallAborts(c) ==
    /\ call[c] # NoCall /\ crashes < MaxCrashes
    /\ Finish(c)
    /\ crashes' = crashes + 1
    /\ UNCHANGED <<row, server>>

-----------------------------------------------------------------------------
SweepStep(s) == Start(s) \/ Execute(s) \/ Store(s) \/ Complete(s) \/ Fail(s)
CallStep(c) ==
    CancelWrite(c) \/ RetryQueue(c) \/ WorkFinish(c) \/ Send(c) \/ SendFinish(c)
Next ==
    \/ \E s \in Servers : SweepStart(s) \/ SweepStep(s) \/ SweepAborts(s)
    \/ \E c \in Calls :
          \/ CallStep(c) \/ CallAborts(c)
          \/ \E i \in Rows :
                \/ \E op \in {"cancelExport", "cancelRun", "cancelJob"} : CancelRead(c, op, i)
                \/ RetryRead(c, i) \/ ProvisionStart(c, i)
                \/ \E provider \in BOOLEAN : SendStart(c, i, provider)
    \/ \E i \in Rows :
          \/ \E scope, key \in {"platform", "tenant"} : CreateReport(i, scope, key)
          \/ RunReport(i) \/ EnterJob(i) \/ Cleanup(i) \/ GrowsOld(i)
    \/ GiveUpStale

\* The scheduler starts its jobs for as long as a server runs, and time passes.
Fairness ==
    /\ \A s \in Servers : WF_vars(SweepStart(s)) /\ WF_vars(SweepStep(s))
    /\ \A i \in Rows : WF_vars(GrowsOld(i))
    /\ WF_vars(GiveUpStale)
Spec == Init /\ [][Next]_vars /\ Fairness

-----------------------------------------------------------------------------
\* A report that was queued is COMPLETED only with its file: the export that is offered for
\* download is there, whichever sweeps ran it and whatever was cancelled, retried or cut short
\* in between (reports.service.ts:831).
CompletedIsStored ==
    \A i \in Rows : row[i].kind = "report" /\ row[i].status = "COMPLETED" => row[i].file

\* No report job and no delivery stays QUEUED for good, although a sweep may be cut short at any
\* point and a request may end before it has written what came of its mail (jobs/index.ts:87,
\* notification-delivery.job.ts:6).
QueueDrains ==
    \A i \in Rows : row[i].kind \in {"report", "delivery"} /\ row[i].status = "QUEUED" ~>
                     row[i].status # "QUEUED"

\* What the catalog of an organization's reports offers can be run: no sweep takes up a report
\* that executeReport does not know (itsm/reports.service.ts:14).
OfferedReportsRun == \A s \in Servers : server[s].pc = "execute" => Executes(Job(s))
=============================================================================
