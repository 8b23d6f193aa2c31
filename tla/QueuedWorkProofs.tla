--------------------------- MODULE QueuedWorkProofs ---------------------------
(***************************************************************************)
(* CompletedIsStored, for any number of rows, servers, requests, batches   *)
(* and aborts: a sweep that is about to complete a report holds one that   *)
(* has its file, and a file is never lost.                                 *)
(***************************************************************************)
EXTENDS QueuedWork, TLAPS

Row ==
    [kind : {"none", "report", "run", "background", "delivery"},
     scope : {"none", "platform", "tenant"}, key : {"none", "platform", "tenant", "known", "unknown"},
     status : Final \cup {"NONE", "QUEUED", "RUNNING", "SUPPRESSED", "GONE"},
     file : BOOLEAN, old : BOOLEAN]
Call ==
    [op : {"none", "cancel", "provision", "retry", "send"},
     pc : {"idle", "write", "queue", "finish", "send"},
     row : Rows \cup {0}, result : {"none", "SENT", "FAILED"}]

\* A row that is not there yet has nothing.
RowsSound ==
    /\ row \in [Rows -> Row]
    /\ \A i \in Rows : row[i].kind = "none" => row[i].key = "none" /\ ~ row[i].file
    /\ CompletedIsStored

\* A sweep that has produced a report holds one of the platform's catalog, and one that has
\* stored it holds one with a file.
Holds(v) ==
    /\ v = [pc |-> v.pc, batch |-> v.batch]
    /\ v.pc \in {"store", "complete"} /\ Head(v.batch) \in Rows => row[Head(v.batch)].key = "platform"
    /\ v.pc = "complete" /\ Head(v.batch) \in Rows => row[Head(v.batch)].file
ServersSound ==
    /\ server = [s \in Servers |-> server[s]]
    /\ \A s \in Servers : Holds(server[s])

\* The outcome of work is written to a background job; a send ends SENT or FAILED.
Works(k) ==
    /\ k.op \in {"provision", "retry"} => k.row \in Rows /\ row[k.row].kind = "background"
    /\ k.op = "send" /\ k.pc = "finish" => k.result \in {"SENT", "FAILED"}
CallsSound ==
    /\ call \in [Calls -> Call]
    /\ \A c \in Calls : Works(call[c])

IInv == RowsSound /\ ServersSound /\ CallsSound

\* What is known of a row that is there stays as it is.
Grows ==
    \A i \in Rows : row[i].kind # "none" =>
        row'[i].kind = row[i].kind /\ row'[i].key = row[i].key /\ (row[i].file => row'[i].file)

-----------------------------------------------------------------------------
LEMMA RowsKept == ASSUME IInv, UNCHANGED row PROVE RowsSound' /\ Grows
BY DEF IInv, RowsSound, CompletedIsStored, Grows

\* One row is written: a new one, or one that keeps what it is.
LEMMA PutStep ==
    ASSUME IInv, NEW i \in Rows, NEW r \in Row, Put(i, r),
           \/ row[i].kind = "none" /\ r.kind # "none" /\ ~ r.file
           \/ r.kind = row[i].kind /\ r.key = row[i].key
              /\ ((r.file <=> row[i].file) \/ (r.file /\ r.kind # "none")),
           r.kind = "report" /\ r.status = "COMPLETED" => r.file
    PROVE  RowsSound' /\ Grows
<1>1. row' \in [Rows -> Row] /\ row'[i] = r /\ \A j \in Rows \ {i} : row'[j] = row[j]
  BY DEF IInv, RowsSound, Put
<1>2. \A j \in Rows : row[j].kind = "none" => row[j].key = "none" /\ ~ row[j].file
  BY DEF IInv, RowsSound
<1>3. CompletedIsStored'
  BY <1>1 DEF IInv, RowsSound, CompletedIsStored
<1> QED BY <1>1, <1>2, <1>3 DEF RowsSound, Grows

\* A new row; and the status of a row, which need not be one of ours.
LEMMA NewRowStep ==
    ASSUME IInv, NEW i \in Rows, NextRow(i), NEW r \in Row, Put(i, r), r.kind # "none", ~ r.file,
           r.kind = "report" => r.status # "COMPLETED"
    PROVE  RowsSound' /\ Grows
BY PutStep DEF NextRow

LEMMA StatusStep ==
    ASSUME IInv, NEW i, NEW s \in Final \cup {"NONE", "QUEUED", "RUNNING", "SUPPRESSED", "GONE"},
           SetStatus(i, s),
           i \in Rows /\ row[i].kind = "report" /\ s = "COMPLETED" => row[i].file
    PROVE  RowsSound' /\ Grows
<1>1. CASE i \notin Rows
  <2>1. row' = row
    BY <1>1 DEF SetStatus, Put, IInv, RowsSound
  <2> QED BY <2>1, RowsKept
<1>2. CASE i \in Rows
  <2> DEFINE x == [row[i] EXCEPT !.status = s]
  <2>1. row[i] \in Row
    BY <1>2 DEF IInv, RowsSound
  <2>2. x \in Row /\ x.kind = row[i].kind /\ x.key = row[i].key /\ x.file = row[i].file /\ x.status = s
    BY <2>1 DEF Row
  <2>3. Put(i, x)
    BY DEF SetStatus
  <2> HIDE DEF x
  <2>4. PICK r \in Row : r = x
    BY <2>2
  <2>5. Put(i, r)
    BY <2>3, <2>4
  <2>6. r.kind = row[i].kind /\ r.key = row[i].key /\ (r.file <=> row[i].file)
        /\ (r.kind = "report" /\ r.status = "COMPLETED" => r.file)
    BY <1>2, <2>2, <2>4
  <2>7. i \in Rows /\ r \in Row
    BY <1>2, <2>4
  <2> QED BY <2>5, <2>6, <2>7, PutStep
<1> QED BY <1>1, <1>2

\* What a sweep holds and what a call works on stay what they are.
LEMMA StillHolds == ASSUME IInv, Grows, NEW v, Holds(v) PROVE Holds(v)'
BY DEF Holds, Grows, IInv, RowsSound

LEMMA ServersKept == ASSUME IInv, Grows, UNCHANGED server PROVE ServersSound'
BY StillHolds DEF IInv, ServersSound

LEMMA ServerStep ==
    ASSUME IInv, Grows, NEW s \in Servers, NEW v, server' = [server EXCEPT ![s] = v], Holds(v)'
    PROVE  ServersSound'
<1>1. server' = [t \in Servers |-> server'[t]] /\ server'[s] = v
      /\ \A t \in Servers \ {s} : server'[t] = server[t]
  BY DEF IInv, ServersSound
<1>2. \A t \in Servers \ {s} : Holds(server[t])'
  <2> TAKE t \in Servers \ {s}
  <2>1. PICK w : w = server[t]
    OBVIOUS
  <2>2. Holds(w)
    BY <2>1 DEF IInv, ServersSound
  <2>3. Holds(w)'
    BY <2>2, StillHolds
  <2> QED BY <1>1, <2>1, <2>3 DEF Holds
<1>3. Holds(server[s])'
  BY <1>1 DEF Holds
<1> QED BY <1>1, <1>2, <1>3 DEF ServersSound

\* A server that turns to work where nothing is claimed of what it holds.
LEMMA FreeTurn ==
    ASSUME IInv, Grows, NEW s \in Servers, NEW v,
           v = [pc |-> v.pc, batch |-> v.batch], v.pc \notin {"store", "complete"},
           server' = [server EXCEPT ![s] = v]
    PROVE  ServersSound'
<1>1. Holds(v)'
  BY DEF Holds
<1> QED BY <1>1, ServerStep

LEMMA TurnIs ==
    ASSUME IInv, NEW s \in Servers, NEW pc, Turn(s, pc)
    PROVE  server' = [server EXCEPT ![s] = [pc |-> pc, batch |-> server[s].batch]]
<1>1. server[s] = [pc |-> server[s].pc, batch |-> server[s].batch]
  BY DEF IInv, ServersSound, Holds
<1>2. PICK p, b : server[s] = [pc |-> p, batch |-> b] /\ b = server[s].batch
  BY <1>1
<1>3. [server[s] EXCEPT !.pc = pc] = [pc |-> pc, batch |-> b]
  BY <1>2
<1>4. server' = [server EXCEPT ![s] = [server[s] EXCEPT !.pc = pc]]
  BY DEF Turn
<1> QED BY <1>2, <1>3, <1>4

LEMMA CallsKept == ASSUME IInv, Grows, UNCHANGED call PROVE CallsSound'
BY DEF IInv, CallsSound, Works, Grows

LEMMA CallStepKeeps ==
    ASSUME IInv, Grows, NEW c \in Calls, NEW k \in Call, Become(c, k), Works(k)'
    PROVE  CallsSound'
<1>1. call' \in [Calls -> Call] /\ call'[c] = k /\ \A d \in Calls \ {c} : call'[d] = call[d]
  BY DEF IInv, CallsSound, Become
<1>2. \A d \in Calls : Works(call[d])'
  BY <1>1 DEF IInv, CallsSound, Works, Grows
<1> QED BY <1>1, <1>2 DEF CallsSound

LEMMA FinishKeeps == ASSUME IInv, Grows, NEW c \in Calls, Finish(c) PROVE CallsSound'
<1>1. NoCall \in Call /\ NoCall.op = "none"
  BY DEF NoCall, Call
<1>2. PICK k \in Call : k = NoCall
  BY <1>1
<1>3. Works(k)' /\ Become(c, k)
  BY <1>1, <1>2 DEF Works, Finish
<1> QED BY <1>3, CallStepKeeps

-----------------------------------------------------------------------------
LEMMA CreateReportStep ==
    ASSUME IInv, NEW i \in Rows, NEW scope \in {"platform", "tenant"},
           NEW key \in {"platform", "tenant"}, CreateReport(i, scope, key)
    PROVE  IInv'
<1> DEFINE x == NewRow("report", scope, key, "QUEUED")
<1>1. x \in Row /\ x.kind = "report" /\ ~ x.file /\ x.status = "QUEUED"
  BY DEF NewRow, NoRow, Row
<1>2. Put(i, x) /\ NextRow(i) /\ UNCHANGED <<server, call>>
  BY DEF CreateReport
<1> HIDE DEF x
<1>3. PICK r \in Row : r = x
  BY <1>1
<1>4. RowsSound' /\ Grows
  BY <1>1, <1>2, <1>3, NewRowStep
<1> QED BY <1>2, <1>4, ServersKept, CallsKept DEF IInv

LEMMA RunReportStep == ASSUME IInv, NEW i \in Rows, RunReport(i) PROVE IInv'
<1> DEFINE x == NewRow("run", "platform", "platform", "COMPLETED")
<1>1. x \in Row /\ x.kind = "run" /\ ~ x.file
  BY DEF NewRow, NoRow, Row, Final
<1>2. Put(i, x) /\ NextRow(i) /\ UNCHANGED <<server, call>>
  BY DEF RunReport
<1> HIDE DEF x
<1>3. PICK r \in Row : r = x
  BY <1>1
<1>4. RowsSound' /\ Grows
  BY <1>1, <1>2, <1>3, NewRowStep
<1> QED BY <1>2, <1>4, ServersKept, CallsKept DEF IInv

LEMMA EnterJobStep == ASSUME IInv, NEW i \in Rows, EnterJob(i) PROVE IInv'
<1> DEFINE x == NewRow("background", "platform", "unknown", "FAILED")
<1>1. x \in Row /\ x.kind = "background" /\ ~ x.file
  BY DEF NewRow, NoRow, Row, Final
<1>2. Put(i, x) /\ NextRow(i) /\ UNCHANGED <<server, call>>
  BY DEF EnterJob
<1> HIDE DEF x
<1>3. PICK r \in Row : r = x
  BY <1>1
<1>4. RowsSound' /\ Grows
  BY <1>1, <1>2, <1>3, NewRowStep
<1> QED BY <1>2, <1>4, ServersKept, CallsKept DEF IInv

LEMMA SweepStartStep == ASSUME IInv, NEW s \in Servers, SweepStart(s) PROVE IInv'
<1> DEFINE b == SubSeq(Queued, 1, Min({Batch, Len(Queued)}))
           x == [pc |-> "start", batch |-> b]
<1>1. server' = [server EXCEPT ![s] = x] /\ UNCHANGED <<row, call>>
  BY DEF SweepStart
<1> HIDE DEF b
<1>2. x = [pc |-> x.pc, batch |-> x.batch] /\ x.pc = "start"
  OBVIOUS
<1> HIDE DEF x
<1>3. PICK v : v = x
  OBVIOUS
<1>4. RowsSound' /\ Grows
  BY <1>1, RowsKept
<1>5. ServersSound'
  BY <1>1, <1>2, <1>3, <1>4, FreeTurn
<1> QED BY <1>1, <1>4, <1>5, CallsKept DEF IInv

\* A turn of a sweep that claims nothing, whatever becomes of the row.
LEMMA TurnStep ==
    ASSUME IInv, RowsSound', Grows, UNCHANGED call, NEW s \in Servers,
           NEW pc, pc \notin {"store", "complete"}, Turn(s, pc)
    PROVE  IInv'
<1> DEFINE x == [pc |-> pc, batch |-> server[s].batch]
<1>1. server' = [server EXCEPT ![s] = x] /\ x = [pc |-> x.pc, batch |-> x.batch] /\ x.pc = pc
  BY TurnIs
<1> HIDE DEF x
<1>2. PICK v : v = x
  OBVIOUS
<1>3. ServersSound'
  BY <1>1, <1>2, FreeTurn
<1> QED BY <1>3, CallsKept DEF IInv

\* The row of a sweep that goes on to write its status, and the rest of the batch.
LEMMA AfterStep ==
    ASSUME IInv, RowsSound', Grows, UNCHANGED call, NEW s \in Servers,
           server' = [server EXCEPT ![s] = After(@.batch)]
    PROVE  IInv'
<1> DEFINE x == After(server[s].batch)
<1>1. server' = [server EXCEPT ![s] = x]
  BY DEF IInv, ServersSound
<1>2. x = [pc |-> x.pc, batch |-> x.batch] /\ x.pc \in {"idle", "start"}
  BY DEF After, Idle
<1> HIDE DEF x
<1>3. PICK v : v = x
  OBVIOUS
<1>4. ServersSound'
  BY <1>1, <1>2, <1>3, FreeTurn
<1> QED BY <1>4, CallsKept DEF IInv

-----------------------------------------------------------------------------
LEMMA StartStep == ASSUME IInv, NEW s \in Servers, Start(s) PROVE IInv'
<1>1. SetStatus(Job(s), "RUNNING") /\ Turn(s, "execute") /\ UNCHANGED call
  BY DEF Start
<1>2. PICK i : i = Job(s)
  OBVIOUS
<1>3. RowsSound' /\ Grows
  BY <1>1, <1>2, StatusStep
<1> QED BY <1>1, <1>3, TurnStep

\* Of the platform's catalog, or the report fails.
LEMMA ExecuteStep == ASSUME IInv, NEW s \in Servers, Execute(s) PROVE IInv'
<1>1. UNCHANGED <<row, call>> /\ RowsSound' /\ Grows
  BY RowsKept DEF Execute
<1>2. CASE Turn(s, "fail")
  BY <1>1, <1>2, TurnStep
<1>3. CASE Executes(Job(s)) /\ Turn(s, "store")
  <2> DEFINE x == [pc |-> "store", batch |-> server[s].batch]
  <2>1. server' = [server EXCEPT ![s] = x] /\ x = [pc |-> x.pc, batch |-> x.batch]
        /\ x.pc = "store" /\ x.batch = server[s].batch
    BY <1>3, TurnIs
  <2> HIDE DEF x
  <2>2. PICK v : v = x
    OBVIOUS
  <2>3. row[Head(v.batch)].key = "platform"
    BY <1>3, <2>1, <2>2 DEF Executes, Job
  <2>4. v = [pc |-> v.pc, batch |-> v.batch] /\ v.pc = "store"
    BY <2>1, <2>2
  <2>5. Holds(v)
    BY <2>3, <2>4 DEF Holds
  <2>6. ServersSound'
    BY <1>1, <2>1, <2>2, <2>5, StillHolds, ServerStep
  <2> QED BY <1>1, <2>6, CallsKept DEF IInv
<1> QED BY <1>2, <1>3 DEF Execute

LEMMA StoreStep == ASSUME IInv, NEW s \in Servers, Store(s) PROVE IInv'
<1>1. CASE UNCHANGED row /\ Turn(s, "fail")
  BY <1>1, RowsKept, TurnStep DEF Store
<1>2. CASE Put(Job(s), [row[Job(s)] EXCEPT !.file = TRUE]) /\ Turn(s, "complete")
  <2>1. PICK i : i = Job(s)
    OBVIOUS
  <2>2. i \in Rows => row[i].key = "platform"
    BY <2>1 DEF IInv, ServersSound, Holds, Store, Job
  <2>3. RowsSound' /\ Grows /\ (i \in Rows => row'[i].key = "platform" /\ row'[i].file)
    <3>1. CASE i \notin Rows
      <4>1. row' = row
        BY <1>2, <2>1, <3>1 DEF Put, IInv, RowsSound
      <4> QED BY <3>1, <4>1, RowsKept
    <3>2. CASE i \in Rows
      <4> DEFINE x == [row[i] EXCEPT !.file = TRUE]
      <4>1. row[i] \in Row /\ row[i].kind # "none"
        BY <2>2, <3>2 DEF IInv, RowsSound
      <4>2. x \in Row /\ x.kind = row[i].kind /\ x.key = row[i].key /\ x.file = TRUE
        BY <4>1 DEF Row
      <4>3. Put(i, x)
        BY <1>2, <2>1
      <4> HIDE DEF x
      <4>4. PICK r \in Row : r = x
        BY <4>2
      <4>5. Put(i, r) /\ r.kind = row[i].kind /\ r.key = row[i].key /\ r.file /\ r.kind # "none"
        BY <4>1, <4>2, <4>3, <4>4
      <4>6. RowsSound' /\ Grows
        BY <3>2, <4>4, <4>5, PutStep
      <4>7. row'[i] = r
        BY <3>2, <4>5 DEF Put, IInv, RowsSound
      <4> QED BY <2>2, <3>2, <4>5, <4>6, <4>7
    <3> QED BY <3>1, <3>2
  <2> DEFINE y == [pc |-> "complete", batch |-> server[s].batch]
  <2>4. server' = [server EXCEPT ![s] = y] /\ y = [pc |-> y.pc, batch |-> y.batch]
        /\ y.pc = "complete" /\ y.batch = server[s].batch
    BY <1>2, TurnIs
  <2> HIDE DEF y
  <2>5. PICK v : v = y
    OBVIOUS
  <2>6. v = [pc |-> v.pc, batch |-> v.batch] /\ v.pc = "complete" /\ Head(v.batch) = i
    BY <2>1, <2>4, <2>5 DEF Job
  <2>7. Holds(v)'
    BY <2>3, <2>6 DEF Holds
  <2>8. ServersSound'
    BY <2>3, <2>4, <2>5, <2>7, ServerStep
  <2> QED BY <2>3, <2>8, CallsKept DEF IInv, Store
<1> QED BY <1>1, <1>2 DEF Store

LEMMA CompleteStep == ASSUME IInv, NEW s \in Servers, Complete(s) PROVE IInv'
<1>1. CASE UNCHANGED row /\ Turn(s, "fail")
  BY <1>1, RowsKept, TurnStep DEF Complete
<1>2. CASE SetStatus(Job(s), "COMPLETED") /\ server' = [server EXCEPT ![s] = After(@.batch)]
  <2>1. PICK i : i = Job(s)
    OBVIOUS
  <2>2. i \in Rows => row[i].file
    BY <2>1 DEF IInv, ServersSound, Holds, Complete, Job
  <2>3. SetStatus(i, "COMPLETED") /\ "COMPLETED" \in Final
    BY <1>2, <2>1 DEF Final
  <2>4. RowsSound' /\ Grows
    BY <2>2, <2>3, StatusStep
  <2> QED BY <1>2, <2>4, AfterStep DEF Complete
<1> QED BY <1>1, <1>2 DEF Complete

LEMMA FailStep == ASSUME IInv, NEW s \in Servers, Fail(s) PROVE IInv'
<1>1. SetStatus(Job(s), "FAILED") /\ "FAILED" \in Final
  BY DEF Fail, Final
<1>2. PICK i : i = Job(s)
  OBVIOUS
<1>3. RowsSound' /\ Grows
  BY <1>1, <1>2, StatusStep
<1> QED BY <1>3, AfterStep DEF Fail

LEMMA SweepAbortsStep == ASSUME IInv, NEW s \in Servers, SweepAborts(s) PROVE IInv'
<1>1. server' = [server EXCEPT ![s] = Idle] /\ UNCHANGED <<row, call>>
  BY DEF SweepAborts
<1>2. PICK v : v = Idle
  OBVIOUS
<1>3. v = [pc |-> v.pc, batch |-> v.batch] /\ v.pc = "idle"
  BY <1>2 DEF Idle
<1>4. RowsSound' /\ Grows
  BY <1>1, RowsKept
<1>5. ServersSound'
  BY <1>1, <1>2, <1>3, <1>4, FreeTurn
<1> QED BY <1>1, <1>4, <1>5, CallsKept DEF IInv

-----------------------------------------------------------------------------
\* A call takes up work it may end: of a background job, or none.
LEMMA TakesUp ==
    ASSUME IInv, RowsSound', Grows, UNCHANGED server, NEW c \in Calls,
           NEW k \in Call, Become(c, k), Works(k)'
    PROVE  IInv'
BY ServersKept, CallStepKeeps DEF IInv

LEMMA Finishes ==
    ASSUME IInv, RowsSound', Grows, UNCHANGED server, NEW c \in Calls, Finish(c)
    PROVE  IInv'
BY ServersKept, FinishKeeps DEF IInv

LEMMA CancelReadStep ==
    ASSUME IInv, NEW c \in Calls, NEW op, NEW i \in Rows, CancelRead(c, op, i) PROVE IInv'
<1>1. [op |-> "cancel", pc |-> "write", row |-> i, result |-> "none"] \in Call
  BY DEF Call
<1>2. PICK k \in Call : k = [op |-> "cancel", pc |-> "write", row |-> i, result |-> "none"]
  BY <1>1
<1>3. Works(k)' /\ Become(c, k) /\ UNCHANGED <<row, server>>
  BY <1>2 DEF Works, CancelRead
<1> QED BY <1>3, RowsKept, TakesUp

LEMMA CancelWriteStep == ASSUME IInv, NEW c \in Calls, CancelWrite(c) PROVE IInv'
<1>1. PICK i : i = call[c].row
  OBVIOUS
<1>2. "CANCELLED" \in Final
  BY DEF Final
<1>3. RowsSound' /\ Grows
  BY <1>1, <1>2, RowsKept, StatusStep DEF CancelWrite
<1> QED BY <1>3, Finishes DEF CancelWrite

LEMMA ProvisionStartStep ==
    ASSUME IInv, NEW c \in Calls, NEW i \in Rows, ProvisionStart(c, i) PROVE IInv'
<1> DEFINE x == NewRow("background", "platform", "known", "RUNNING")
           y == [op |-> "provision", pc |-> "finish", row |-> i, result |-> "none"]
<1>1. x \in Row /\ x.kind = "background" /\ ~ x.file
  BY DEF NewRow, NoRow, Row
<1>2. y \in Call /\ y.row = i /\ y.op = "provision"
  BY DEF Call
<1>3. Put(i, x) /\ NextRow(i) /\ Become(c, y) /\ UNCHANGED server
  BY DEF ProvisionStart
<1> HIDE DEF x, y
<1>4. PICK r \in Row : r = x
  BY <1>1
<1>5. PICK k \in Call : k = y
  BY <1>2
<1>6. RowsSound' /\ Grows
  BY <1>1, <1>3, <1>4, NewRowStep
<1>7. row'[i].kind = "background"
  BY <1>1, <1>3 DEF Put, IInv, RowsSound
<1>8. Works(k)' /\ Become(c, k)
  BY <1>2, <1>3, <1>5, <1>7 DEF Works
<1> QED BY <1>3, <1>6, <1>8, TakesUp

LEMMA RetryReadStep ==
    ASSUME IInv, NEW c \in Calls, NEW i \in Rows, RetryRead(c, i) PROVE IInv'
<1>1. [op |-> "retry", pc |-> "queue", row |-> i, result |-> "none"] \in Call
  BY DEF Call
<1>2. PICK k \in Call : k = [op |-> "retry", pc |-> "queue", row |-> i, result |-> "none"]
  BY <1>1
<1>3. Works(k)' /\ Become(c, k) /\ UNCHANGED <<row, server>>
  BY <1>2 DEF Works, RetryRead
<1> QED BY <1>3, RowsKept, TakesUp

LEMMA RetryQueueStep == ASSUME IInv, NEW c \in Calls, RetryQueue(c) PROVE IInv'
<1>1. PICK i : i = call[c].row
  OBVIOUS
<1>2. RowsSound' /\ Grows
  BY <1>1, RowsKept, StatusStep DEF RetryQueue
<1>3. CASE Finish(c)
  BY <1>2, <1>3, Finishes DEF RetryQueue
<1>4. CASE Become(c, [call[c] EXCEPT !.pc = "finish"])
  <2> DEFINE y == [call[c] EXCEPT !.pc = "finish"]
  <2>1. call[c] \in Call /\ Works(call[c]) /\ call[c].op = "retry"
    BY DEF IInv, CallsSound, RetryQueue, At
  <2>2. y \in Call /\ y.op = call[c].op /\ y.row = call[c].row
    BY <2>1 DEF Call
  <2>3. Become(c, y)
    BY <1>4
  <2> HIDE DEF y
  <2>4. PICK k \in Call : k = y
    BY <2>2
  <2>5. Works(k)
    BY <2>1, <2>2, <2>4 DEF Works
  <2>6. Works(k)'
    BY <1>2, <2>5 DEF Works, Grows
  <2> QED BY <1>2, <2>3, <2>4, <2>6, TakesUp DEF RetryQueue
<1> QED BY <1>3, <1>4 DEF RetryQueue

\* The outcome goes to a background job, whatever else has been written to it.
LEMMA WorkFinishStep == ASSUME IInv, NEW c \in Calls, WorkFinish(c) PROVE IInv'
<1>1. PICK i : i = call[c].row
  OBVIOUS
<1>2. i \in Rows /\ row[i].kind = "background"
  BY <1>1 DEF WorkFinish, IInv, CallsSound, Works
<1>3. Outcomes(c) \subseteq Final \cup {"QUEUED"}
  BY DEF Outcomes, Final
<1>4. RowsSound' /\ Grows
  BY <1>1, <1>2, <1>3, RowsKept, StatusStep DEF WorkFinish
<1> QED BY <1>4, Finishes DEF WorkFinish

LEMMA SendStartStep ==
    ASSUME IInv, NEW c \in Calls, NEW i \in Rows, NEW provider \in BOOLEAN, SendStart(c, i, provider)
    PROVE  IInv'
<1> DEFINE x == NewRow("delivery", "none", "none", IF provider THEN "QUEUED" ELSE "SUPPRESSED")
           y == [op |-> "send", pc |-> "send", row |-> i, result |-> "none"]
<1>1. x \in Row /\ x.kind = "delivery" /\ ~ x.file
  BY DEF NewRow, NoRow, Row
<1>2. y \in Call /\ y.op = "send" /\ y.pc = "send"
  BY DEF Call
<1>3. Put(i, x) /\ NextRow(i) /\ UNCHANGED server /\ (Become(c, y) \/ UNCHANGED call)
  BY DEF SendStart
<1> HIDE DEF x, y
<1>4. PICK r \in Row : r = x
  BY <1>1
<1>5. PICK k \in Call : k = y
  BY <1>2
<1>6. RowsSound' /\ Grows
  BY <1>1, <1>3, <1>4, NewRowStep
<1>7. Works(k)'
  BY <1>2, <1>5 DEF Works
<1>8. CASE Become(c, y)
  BY <1>3, <1>5, <1>6, <1>7, <1>8, TakesUp
<1>9. CASE UNCHANGED call
  BY <1>3, <1>6, <1>9, ServersKept, CallsKept DEF IInv
<1> QED BY <1>3, <1>8, <1>9

\* A call that goes on sending, or has another result to write.
LEMMA SendsOn ==
    ASSUME IInv, NEW c \in Calls, call[c].op = "send", NEW pc \in {"send", "finish"},
           NEW result \in {"SENT", "FAILED"}, UNCHANGED <<row, server>>,
           Become(c, [call[c] EXCEPT !.pc = pc, !.result = result])
    PROVE  IInv'
<1> DEFINE y == [call[c] EXCEPT !.pc = pc, !.result = result]
<1>1. y \in Call /\ y.op = "send" /\ y.result = result
  BY DEF Call, IInv, CallsSound
<1> HIDE DEF y
<1>2. PICK k \in Call : k = y
  BY <1>1
<1>3. Works(k)'
  BY <1>1, <1>2 DEF Works
<1>4. Become(c, k)
  BY <1>2 DEF y
<1> QED BY <1>3, <1>4, RowsKept, TakesUp

LEMMA SendStep == ASSUME IInv, NEW c \in Calls, Send(c) PROVE IInv'
BY SendsOn DEF Send, At

LEMMA SendFinishStep == ASSUME IInv, NEW c \in Calls, SendFinish(c) PROVE IInv'
<1>1. call[c] \in Call /\ call[c].op = "send" /\ call[c].pc = "finish"
  BY DEF SendFinish, At, IInv, CallsSound
<1>2. CASE SetStatus(call[c].row, call[c].result) /\ Finish(c)
  <2>1. PICK i : i = call[c].row
    OBVIOUS
  <2>2. PICK result \in {"SENT", "FAILED"} : result = call[c].result
    BY <1>1 DEF IInv, CallsSound, Works
  <2>3. SetStatus(i, result) /\ result \in Final /\ result # "COMPLETED"
    BY <1>2, <2>1, <2>2 DEF Final
  <2>4. RowsSound' /\ Grows
    BY <2>3, StatusStep
  <2> QED BY <1>2, <2>4, Finishes DEF SendFinish
<1>3. CASE call[c].result = "SENT" /\ Become(c, [call[c] EXCEPT !.result = "FAILED"]) /\ UNCHANGED row
  <2>1. [call[c] EXCEPT !.result = "FAILED"] = [call[c] EXCEPT !.pc = "finish", !.result = "FAILED"]
    BY <1>1 DEF Call
  <2> QED BY <1>1, <1>3, <2>1, SendsOn DEF SendFinish
<1> QED BY <1>2, <1>3 DEF SendFinish

LEMMA CallAbortsStep == ASSUME IInv, NEW c \in Calls, CallAborts(c) PROVE IInv'
BY RowsKept, Finishes DEF CallAborts

-----------------------------------------------------------------------------
\* The maintenance and notification jobs.
LEMMA CleanupStep == ASSUME IInv, NEW i \in Rows, Cleanup(i) PROVE IInv'
<1>1. RowsSound' /\ Grows
  BY StatusStep DEF Cleanup
<1> QED BY <1>1, ServersKept, CallsKept DEF Cleanup, IInv

LEMMA GrowsOldStep == ASSUME IInv, NEW i \in Rows, GrowsOld(i) PROVE IInv'
<1> DEFINE x == [row[i] EXCEPT !.old = TRUE]
<1>1. row[i] \in Row /\ row[i].kind = "delivery"
  BY DEF IInv, RowsSound, GrowsOld
<1>2. x \in Row /\ x.kind = row[i].kind /\ x.key = row[i].key /\ (x.file <=> row[i].file)
  BY <1>1 DEF Row
<1>3. Put(i, x)
  BY DEF GrowsOld
<1> HIDE DEF x
<1>4. PICK r \in Row : r = x
  BY <1>2
<1>5. RowsSound' /\ Grows
  BY <1>1, <1>2, <1>3, <1>4, PutStep
<1> QED BY <1>5, ServersKept, CallsKept DEF GrowsOld, IInv

LEMMA GiveUpStaleStep == ASSUME IInv, GiveUpStale PROVE IInv'
<1> DEFINE given(i) == IF row[i].old /\ row[i].status = "QUEUED"
                       THEN [row[i] EXCEPT !.status = "FAILED"] ELSE row[i]
<1>1. row' = [i \in Rows |-> given(i)] /\ UNCHANGED <<server, call>>
  BY DEF GiveUpStale
<1>2. ASSUME NEW i \in Rows
      PROVE  /\ given(i) \in Row /\ given(i).kind = row[i].kind /\ given(i).key = row[i].key
             /\ (given(i).file <=> row[i].file)
             /\ given(i).status = "COMPLETED" => row[i].status = "COMPLETED"
  <2>1. row[i] \in Row
    BY DEF IInv, RowsSound
  <2> QED BY <2>1 DEF Row, Final
<1> HIDE DEF given
<1>3. row' \in [Rows -> Row]
  BY <1>1, <1>2
<1>4. \A i \in Rows : /\ row'[i].kind = row[i].kind /\ row'[i].key = row[i].key
                      /\ (row'[i].file <=> row[i].file)
                      /\ row'[i].status = "COMPLETED" => row[i].status = "COMPLETED"
  BY <1>1, <1>2
<1>5. RowsSound' /\ Grows
  BY <1>3, <1>4 DEF RowsSound, CompletedIsStored, Grows, IInv
<1> QED BY <1>1, <1>5, ServersKept, CallsKept DEF IInv

LEMMA WorkInit == Init => IInv
<1> SUFFICES ASSUME Init PROVE IInv
  OBVIOUS
<1>1. RowsSound
  <2>1. NoRow \in Row /\ NoRow.kind = "none" /\ NoRow.key = "none" /\ ~ NoRow.file
    BY DEF NoRow, Row
  <2> QED BY <2>1 DEF Init, RowsSound, CompletedIsStored
<1>2. ServersSound
  BY DEF Init, ServersSound, Holds, Idle
<1>3. CallsSound
  <2>1. NoCall \in Call /\ NoCall.op = "none"
    BY DEF NoCall, Call
  <2> QED BY <2>1 DEF Init, CallsSound, Works
<1> QED BY <1>1, <1>2, <1>3 DEF IInv

LEMMA WorkNext == IInv /\ [Next]_vars => IInv'
<1> SUFFICES ASSUME IInv, [Next]_vars PROVE IInv'
  OBVIOUS
<1>1. ASSUME NEW s \in Servers, SweepStart(s) \/ SweepStep(s) \/ SweepAborts(s) PROVE IInv'
  BY <1>1, SweepStartStep, StartStep, ExecuteStep, StoreStep, CompleteStep, FailStep,
     SweepAbortsStep DEF SweepStep
<1>2. ASSUME NEW c \in Calls, CallStep(c) \/ CallAborts(c) PROVE IInv'
  BY <1>2, CancelWriteStep, RetryQueueStep, WorkFinishStep, SendStep, SendFinishStep,
     CallAbortsStep DEF CallStep
<1>3. ASSUME NEW c \in Calls, NEW i \in Rows,
             \/ \E op \in {"cancelExport", "cancelRun", "cancelJob"} : CancelRead(c, op, i)
             \/ RetryRead(c, i) \/ ProvisionStart(c, i)
             \/ \E provider \in BOOLEAN : SendStart(c, i, provider)
      PROVE  IInv'
  BY <1>3, CancelReadStep, RetryReadStep, ProvisionStartStep, SendStartStep
<1>4. ASSUME NEW i \in Rows,
             \/ \E scope, key \in {"platform", "tenant"} : CreateReport(i, scope, key)
             \/ RunReport(i) \/ EnterJob(i) \/ Cleanup(i) \/ GrowsOld(i)
      PROVE  IInv'
  BY <1>4, CreateReportStep, RunReportStep, EnterJobStep, CleanupStep, GrowsOldStep
<1>5. CASE UNCHANGED vars
  BY <1>5, RowsKept, ServersKept, CallsKept DEF vars, IInv
<1> QED BY <1>1, <1>2, <1>3, <1>4, <1>5, GiveUpStaleStep DEF Next

\* A queued report is COMPLETED only with its file, for any number of rows, servers, requests
\* and aborts, although neither sweeps nor requests look at the status they replace
\* (processJob, services/saasadmin/reports.service.ts).
THEOREM CompletedAlwaysStored == Spec => []CompletedIsStored
<1>1. IInv => CompletedIsStored
  BY DEF IInv, RowsSound
<1> QED BY <1>1, WorkInit, WorkNext, PTL DEF Spec
=============================================================================
