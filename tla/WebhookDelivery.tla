--------------------------- MODULE WebhookDelivery ---------------------------
(***************************************************************************)
(* Outbound webhooks of the platform: events are turned into delivery rows *)
(* (shared/events), rows are posted by dispatchDelivery                    *)
(* (shared/webhooks/dispatcher), and the same row may be dispatched by the *)
(* publisher itself, by the retry job of any server instance, by a test    *)
(* and by an administrator's manual retry (services/saasadmin/webhooks).   *)
(* Nothing claims a row: every dispatcher reads it, posts, and writes by   *)
(* id what it computed from the row it read.                               *)
(***************************************************************************)
EXTENDS Naturals, FiniteSets

CONSTANTS
    Webhooks,       \* rows of Webhook
    Events,         \* calls of publishEvent
    Sweepers,       \* server instances, each with its own webhook-retry job
    Admins,         \* administrators' requests that retry a delivery
    NoWebhook,      \* target of a delivery row that does not exist yet
    MaxDeliveries,  \* bound on the delivery rows created
    MaxAttempts,    \* env.WEBHOOK_MAX_ATTEMPTS
    BatchLimit,     \* the limit the job passes to processPendingWebhookDeliveries
    MaxRetries,     \* bound on manual retries
    MaxAborts       \* bound on calls cut short by a crash or a database error

\* Delivery rows in the order of createdAt.
Deliveries == 1..MaxDeliveries

\* A delivery's own process is the dispatch its creator starts at once.
Procs == Deliveries \cup Sweepers \cup Admins

ASSUME ConstantsAssumption ==
    /\ MaxDeliveries \in Nat
    /\ MaxAttempts \in Nat \ {0}
    /\ BatchLimit \in Nat \ {0}
    /\ MaxRetries \in Nat
    /\ MaxAborts \in Nat
    /\ NoWebhook \notin Webhooks
    /\ Sweepers \cap Deliveries = {}
    /\ Admins \cap Deliveries = {}
    /\ Sweepers \cap Admins = {}

VARIABLES
    status,       \* WebhookDelivery.status, "ABSENT" before the row exists
    attempts,     \* WebhookDelivery.attempts
    nextRetry,    \* WebhookDelivery.nextRetryAt: null, in the future, or past
    target,       \* WebhookDelivery.webhookId
    enabled,      \* Webhook.isEnabled
    failing,      \* Webhook.failureCount > 0
    event,        \* progress of each publishEvent call
    call,         \* progress of each dispatchDelivery call
    batch,        \* ids a running sweep has still to dispatch
    sweeping,     \* job.running of the webhook-retry job
    retries,      \* manual retries made
    aborts,       \* calls cut short
    tries,        \* history: attempts to post the delivery that came to an end
    accepted,     \* history: the destination answered 2xx to some attempt
    sawDisabled   \* history: some dispatch found the webhook disabled

rows    == <<status, attempts, nextRetry, target>>
hooks   == <<enabled, failing>>
jobs    == <<batch, sweeping>>
bounds  == <<retries, aborts>>
history == <<tries, accepted, sawDisabled>>
vars    == <<rows, hooks, event, call, jobs, bounds, history>>

Idle == "idle"
Pc == {Idle, "retry", "start", "disabled", "post", "ok", "err"}
Call == [pc : Pc, d : Deliveries \cup {0}, attempts : Nat]

\* No call under way, and a call about to read its row.
NoCall == [pc |-> Idle, d |-> 0, attempts |-> 0]
Started(d) == [pc |-> "start", d |-> d, attempts |-> 0]

Init ==
    /\ status = [d \in Deliveries |-> "ABSENT"]
    /\ attempts = [d \in Deliveries |-> 0]
    /\ nextRetry = [d \in Deliveries |-> "null"]
    /\ target = [d \in Deliveries |-> NoWebhook]
    /\ enabled \in [Webhooks -> BOOLEAN]
    /\ failing = [w \in Webhooks |-> FALSE]
    /\ event = [e \in Events |-> [pc |-> "new", todo |-> {}, queued |-> {}]]
    /\ call = [p \in Procs |-> NoCall]
    /\ batch = [s \in Sweepers |-> {}]
    /\ sweeping = [s \in Sweepers |-> FALSE]
    /\ retries = 0
    /\ aborts = 0
    /\ tries = [d \in Deliveries |-> 0]
    /\ accepted = [d \in Deliveries |-> FALSE]
    /\ sawDisabled = [d \in Deliveries |-> FALSE]
-----------------------------------------------------------------------------
(* Creating delivery rows *)

\* The row the next create gets: the first that does not exist.
IsNextRow(d) ==
    /\ status[d] = "ABSENT"
    /\ \A x \in 1..(d - 1) : status[x] # "ABSENT"

\* queueWebhookDelivery: a PENDING row with the column defaults.
QueueRow(d, w) ==
    /\ IsNextRow(d)
    /\ status' = [status EXCEPT ![d] = "PENDING"]
    /\ target' = [target EXCEPT ![d] = w]
    /\ UNCHANGED <<attempts, nextRetry>>

\* publishEvent reads the enabled webhooks; which of them subscribe to the
\* event is up to their eventKeys.
PublishRead(e) ==
    /\ event[e].pc = "new"
    /\ \E subscribed \in SUBSET {w \in Webhooks : enabled[w]} :
          event' = [event EXCEPT ![e] = [pc |-> "queueing", todo |-> subscribed, queued |-> {}]]
    /\ UNCHANGED <<rows, hooks, call, jobs, bounds, history>>

\* One turn of its loop: the row of one subscribed webhook.
PublishQueue(e, w, d) ==
    /\ event[e].pc = "queueing"
    /\ w \in event[e].todo
    /\ QueueRow(d, w)
    /\ event' = [event EXCEPT ![e] = [pc |-> "queueing", todo |-> @.todo \ {w},
                                        queued |-> @.queued \cup {d}]]
    /\ UNCHANGED <<hooks, call, jobs, bounds, history>>

Published == [pc |-> "done", todo |-> {}, queued |-> {}]

\* Every row is queued: all are dispatched at once, without waiting.
PublishDispatch(e) ==
    /\ event[e].pc = "queueing"
    /\ event[e].todo = {}
    /\ call' = [p \in Procs |-> IF p \in event[e].queued
                                THEN Started(p)
                                ELSE call[p]]
    /\ event' = [event EXCEPT ![e] = Published]
    /\ UNCHANGED <<rows, hooks, jobs, bounds, history>>

\* A create that fails, or a crash: the error is swallowed and the rows
\* queued so far are left for the sweep.
PublishAbort(e) ==
    /\ event[e].pc = "queueing"
    /\ aborts < MaxAborts
    /\ aborts' = aborts + 1
    /\ event' = [event EXCEPT ![e] = Published]
    /\ UNCHANGED <<rows, hooks, call, jobs, retries, history>>

\* testWebhook queues a row for any webhook, enabled or not, and dispatches it.
TestWebhook(w, d) ==
    /\ QueueRow(d, w)
    /\ call' = [call EXCEPT ![d] = Started(d)]
    /\ UNCHANGED <<hooks, event, jobs, bounds, history>>

\* setWebhookEnabled, and updateWebhook with isEnabled.
SetWebhookEnabled(w) ==
    /\ enabled' = [enabled EXCEPT ![w] = ~@]
    /\ UNCHANGED <<rows, failing, event, call, jobs, bounds, history>>
-----------------------------------------------------------------------------
(* dispatchDelivery, step by step between its awaits *)

At(p, pc) == call[p].pc = pc
Goto(p, pc) == call' = [call EXCEPT ![p].pc = pc]
Return(p) == call' = [call EXCEPT ![p] = NoCall]

\* The row and its webhook are read; a row that is not PENDING is left alone.
ReadDelivery(p) ==
    LET d == call[p].d IN
    /\ At(p, "start")
    /\ \/ /\ status[d] # "PENDING"
          /\ Return(p)
       \/ /\ status[d] = "PENDING"
          /\ ~enabled[target[d]]
          /\ Goto(p, "disabled")
       \/ /\ status[d] = "PENDING"
          /\ enabled[target[d]]
          /\ call' = [call EXCEPT ![p] = [pc |-> "post", d |-> d, attempts |-> attempts[d]]]
    /\ UNCHANGED <<rows, hooks, event, jobs, bounds, history>>

\* The webhook was disabled when read: the row fails without an attempt.
RecordDisabled(p) ==
    LET d == call[p].d IN
    /\ At(p, "disabled")
    /\ status' = [status EXCEPT ![d] = "FAILED"]
    /\ nextRetry' = [nextRetry EXCEPT ![d] = "null"]
    /\ sawDisabled' = [sawDisabled EXCEPT ![d] = TRUE]
    /\ Return(p)
    /\ UNCHANGED <<attempts, target, hooks, event, jobs, bounds, tries, accepted>>

\* Mutant: the answer's status unread.
PostOutcomeUnchecked(ok) == IF ok \in BOOLEAN THEN "ok" ELSE "err"

\* The attempt ends: a 2xx answer, or any other end (another status, a
\* timeout, a refused address, a secret that does not decrypt).
PostOutcome(ok) == IF ok THEN "ok" ELSE "err"

Post(p) ==
    LET d == call[p].d IN
    /\ At(p, "post")
    /\ tries' = [tries EXCEPT ![d] = @ + 1]
    /\ \E ok \in BOOLEAN :
          /\ accepted' = [accepted EXCEPT ![d] = @ \/ ok]
          /\ Goto(p, PostOutcome(ok))
    /\ UNCHANGED <<rows, hooks, event, jobs, bounds, sawDisabled>>

\* The transaction after a 2xx answer.
RecordSuccess(p) ==
    LET d == call[p].d IN
    /\ At(p, "ok")
    /\ status' = [status EXCEPT ![d] = "SUCCESS"]
    /\ attempts' = [attempts EXCEPT ![d] = call[p].attempts + 1]
    /\ nextRetry' = [nextRetry EXCEPT ![d] = "null"]
    /\ failing' = [failing EXCEPT ![target[d]] = FALSE]
    /\ Return(p)
    /\ UNCHANGED <<target, enabled, event, jobs, bounds, history>>

\* That transaction stands inside the try: its failure is taken for a
\* failed attempt.
SuccessTxFails(p) ==
    /\ At(p, "ok")
    /\ aborts < MaxAborts
    /\ aborts' = aborts + 1
    /\ Goto(p, "err")
    /\ UNCHANGED <<rows, hooks, event, jobs, retries, history>>

\* Mutants: one attempt too few, one too many.
ExhaustedEarly(n) == n + 1 >= MaxAttempts
ExhaustedLate(n) == n > MaxAttempts

Exhausted(n) == n >= MaxAttempts
StatusAfter(n) == IF Exhausted(n) THEN "FAILED" ELSE "PENDING"
RetryAfter(n) == IF Exhausted(n) THEN "null" ELSE "future"

\* The transaction of the catch block.
RecordFailure(p) ==
    LET d == call[p].d
        n == call[p].attempts + 1
    IN
    /\ At(p, "err")
    /\ status' = [status EXCEPT ![d] = StatusAfter(n)]
    /\ attempts' = [attempts EXCEPT ![d] = n]
    /\ nextRetry' = [nextRetry EXCEPT ![d] = RetryAfter(n)]
    /\ failing' = [failing EXCEPT ![target[d]] = TRUE]
    /\ Return(p)
    /\ UNCHANGED <<target, enabled, event, jobs, bounds, history>>

\* A crash of the server, or a database error that dispatchDelivery does not
\* catch: the call ends with nothing more written. A sweep loses its batch.
Abort(p) ==
    /\ ~At(p, Idle)
    /\ aborts < MaxAborts
    /\ aborts' = aborts + 1
    /\ Return(p)
    /\ batch' = [s \in Sweepers |-> IF s = p THEN {} ELSE batch[s]]
    /\ sweeping' = [s \in Sweepers |-> IF s = p THEN FALSE ELSE sweeping[s]]
    /\ UNCHANGED <<rows, hooks, event, retries, history>>
-----------------------------------------------------------------------------
(* The webhook-retry job *)

\* The backoff of a failed attempt passes.
RetryFallsDue(d) ==
    /\ nextRetry[d] = "future"
    /\ nextRetry' = [nextRetry EXCEPT ![d] = "due"]
    /\ UNCHANGED <<status, attempts, target, hooks, event, call, jobs, bounds, history>>

\* Mutant: the clause for rows that were never tried is forgotten.
DueOnlyRetries == {d \in Deliveries : status[d] = "PENDING" /\ nextRetry[d] = "due"}

Due == {d \in Deliveries : status[d] = "PENDING" /\ nextRetry[d] \in {"null", "due"}}

\* The oldest rows of a set, at most BatchLimit of them.
Oldest(S) == {d \in S : Cardinality({x \in S : x < d}) < BatchLimit}

\* processPendingWebhookDeliveries lists the ids; execute runs a job only
\* while it is not running already. (A pass with nothing due changes nothing.)
SweepStart(s) ==
    /\ ~sweeping[s]
    /\ Due # {}
    /\ batch' = [batch EXCEPT ![s] = Oldest(Due)]
    /\ sweeping' = [sweeping EXCEPT ![s] = TRUE]
    /\ UNCHANGED <<rows, hooks, event, call, bounds, history>>

\* Its loop dispatches them one after the other, oldest first.
SweepNext(s) ==
    /\ sweeping[s]
    /\ At(s, Idle)
    /\ \E d \in batch[s] :
          /\ \A x \in batch[s] : d <= x
          /\ batch' = [batch EXCEPT ![s] = @ \ {d}]
          /\ call' = [call EXCEPT ![s] = Started(d)]
    /\ UNCHANGED <<rows, hooks, event, sweeping, bounds, history>>

SweepEnd(s) ==
    /\ sweeping[s]
    /\ At(s, Idle)
    /\ batch[s] = {}
    /\ sweeping' = [sweeping EXCEPT ![s] = FALSE]
    /\ UNCHANGED <<rows, hooks, event, call, batch, bounds, history>>
-----------------------------------------------------------------------------
(* retryWebhookDelivery *)

\* The row is read and must be FAILED ...
RetryRead(a, d) ==
    /\ At(a, Idle)
    /\ retries < MaxRetries
    /\ status[d] = "FAILED"
    /\ call' = [call EXCEPT ![a] = [pc |-> "retry", d |-> d, attempts |-> 0]]
    /\ UNCHANGED <<rows, hooks, event, jobs, bounds, history>>

\* ... and is then reopened by id, whatever it is by now, and dispatched. The
\* attempts already counted stay.
RetryReopen(a) ==
    LET d == call[a].d IN
    /\ At(a, "retry")
    /\ retries < MaxRetries
    /\ retries' = retries + 1
    /\ status' = [status EXCEPT ![d] = "PENDING"]
    /\ nextRetry' = [nextRetry EXCEPT ![d] = "null"]
    /\ Goto(a, "start")
    /\ UNCHANGED <<attempts, target, hooks, event, jobs, aborts, history>>
-----------------------------------------------------------------------------
\* One step of a dispatch already under way.
DispatchStep(p) ==
    \/ ReadDelivery(p)
    \/ RecordDisabled(p)
    \/ Post(p)
    \/ RecordSuccess(p)
    \/ RecordFailure(p)

SweepStep(s) == SweepStart(s) \/ SweepNext(s) \/ SweepEnd(s)

Next ==
    \/ \E e \in Events :
          \/ PublishRead(e)
          \/ \E w \in Webhooks, d \in Deliveries : PublishQueue(e, w, d)
          \/ PublishDispatch(e)
          \/ PublishAbort(e)
    \/ \E w \in Webhooks : SetWebhookEnabled(w)
    \/ \E w \in Webhooks, d \in Deliveries : TestWebhook(w, d)
    \/ \E p \in Procs : DispatchStep(p) \/ SuccessTxFails(p) \/ Abort(p)
    \/ \E d \in Deliveries : RetryFallsDue(d)
    \/ \E s \in Sweepers : SweepStep(s)
    \/ \E a \in Admins : RetryReopen(a) \/ \E d \in Deliveries : RetryRead(a, d)

Spec == Init /\ [][Next]_vars

\* setInterval keeps starting the job, awaits come back (fetch is aborted
\* after WEBHOOK_TIMEOUT_MS) and clocks advance. Nothing obliges a publisher
\* or an administrator to do anything.
Fairness ==
    /\ \A p \in Procs : WF_vars(DispatchStep(p))
    /\ \A s \in Sweepers : WF_vars(SweepStep(s))
    /\ \A d \in Deliveries : WF_vars(RetryFallsDue(d))

FairSpec == Spec /\ Fairness
-----------------------------------------------------------------------------
(* Properties *)

\* Every variable keeps to the columns and program counters of the code.
TypeOK ==
    /\ status \in [Deliveries -> {"ABSENT", "PENDING", "SUCCESS", "FAILED"}]
    /\ attempts \in [Deliveries -> Nat]
    /\ nextRetry \in [Deliveries -> {"null", "future", "due"}]
    /\ target \in [Deliveries -> Webhooks \cup {NoWebhook}]
    /\ enabled \in [Webhooks -> BOOLEAN]
    /\ failing \in [Webhooks -> BOOLEAN]
    /\ event \in [Events -> [pc : {"new", "queueing", "done"},
                             todo : SUBSET Webhooks, queued : SUBSET Deliveries]]
    /\ call \in [Procs -> Call]
    /\ batch \in [Sweepers -> SUBSET Deliveries]
    /\ sweeping \in [Sweepers -> BOOLEAN]
    /\ retries \in 0..MaxRetries
    /\ aborts \in 0..MaxAborts
    /\ tries \in [Deliveries -> Nat]
    /\ accepted \in [Deliveries -> BOOLEAN]
    /\ sawDisabled \in [Deliveries -> BOOLEAN]

\* A delivery recorded SUCCESS really was answered 2xx, whichever dispatcher
\* recorded it and whatever the others wrote meanwhile.
SuccessWasAccepted ==
    \A d \in Deliveries : status[d] = "SUCCESS" => accepted[d]

\* No dispatcher gives a delivery up early: a FAILED row was tried
\* MaxAttempts times in truth, however many counts of concurrent dispatchers
\* were lost, unless its webhook was found disabled.
NotGivenUpEarly ==
    \A d \in Deliveries :
        status[d] = "FAILED" => sawDisabled[d] \/ tries[d] >= MaxAttempts

\* A settled row is on nobody's schedule: its nextRetryAt is null. The two
\* columns are written by four handlers that know nothing of each other.
SettledNotScheduled ==
    \A d \in Deliveries : status[d] \in {"SUCCESS", "FAILED"} => nextRetry[d] = "null"

\* The attempts counter passes MaxAttempts only by manual retries, and by one
\* for each: neither lost updates nor late writes push it further.
AttemptsBounded ==
    \A d \in Deliveries : attempts[d] <= MaxAttempts + retries

\* A row that is queued is in the end settled for good, even when its
\* publisher dies before dispatching it and however the late writes of
\* concurrent dispatchers reopen it, as long as some server keeps sweeping.
EventuallySettledForGood ==
    \A d \in Deliveries :
        status[d] = "PENDING" ~> [](status[d] \in {"SUCCESS", "FAILED"})

\* The rows are an at-least-once queue of messages: whatever dispatchers do to
\* each other, a row leaves PENDING only for a reason.
Place(d) ==
    CASE status[d] = "ABSENT" -> "absent"
      [] status[d] = "PENDING" -> "owed"
      [] OTHER -> "out"

Queue == INSTANCE AtLeastOnce WITH
    Messages <- Deliveries, Limit <- MaxAttempts,
    place <- [d \in Deliveries |-> Place(d)],
    tried <- tries, answered <- accepted, excused <- sawDisabled

ImplementsAtLeastOnce == Queue!Spec
=============================================================================
