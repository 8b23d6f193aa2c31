# Verification of the ITSM backend

TLA+ models of the backend in `src/` (Express, Prisma on PostgreSQL, Redis), the
TLC runs that check them on small instances, and TLAPS proofs of what holds for
every size. `PROJECT.json` lists the runs, the mutants that show that each
property can fail, the source lines of every definition, the hazards and the
theorems.

## The system

One Node process per server; several servers may share a database. Requests and
background jobs interleave at every `await`. Almost every handler has the same
shape: it reads a row, checks what it read, and then writes *by id*, with no
condition on what the row has become. Transactions exist, but only as batches
of writes; nothing is locked, nothing is claimed. This is where most of the
hazards come from, and what the models keep: every `await` at which another
request can get in between is a step of its own.

| Component | State | Operations | Interacts with | What must hold |
|---|---|---|---|---|
| Outbound webhooks (`shared/webhooks`, `shared/events`, `services/saasadmin/webhooks`) | `Webhook`, `WebhookDelivery` | publish, queue, dispatch, sweep, test, retry, enable | every service publishes events; the scheduler sweeps | a queued row settles; SUCCESS is true; no row given up early |
| Job scheduler (`jobs/`) | in-process `running` flags, timers | start, execute, stop | webhooks, approvals, sessions, reports, email | at most one run of a job per server; jobs keep running |
| Tenant lifecycle (`services/saasadmin/tenants`) | `Tenant.status`, `provisioningStatus`, `TenantProvisioning`, `BackgroundJob` | create, provision, activate, suspend, reactivate, archive | approvals, sessions, API keys, events | an ACTIVE tenant is provisioned; closing cuts off credentials |
| Platform approvals (`services/saasadmin/approvals`) | `ApprovalPolicy`, `ApprovalRequest`, `ApprovalDecision` | evaluate, decide, cancel, expire | tenant operations run inside `decideRequest` | no execution without the quorum; a request closes for its reason |
| Sessions and sign-in (`services/auth`) | `User`, `Session`, recovery codes, reset tokens | sign in, verify MFA, rotate, revoke, reset | tenants, staff, middleware | revocation revokes; a code is used once; the lock holds |
| Authorization caches (`tenant-access`, `authenticate`, Redis) | cached permission sets, 60 s | load, invalidate | roles, memberships | a revoked permission goes away |
| Platform staff, tenant users and roles | role assignments, memberships, invitations | assign, remove, suspend, invite, accept | sessions, caches | somebody keeps the last administrator's role |
| Reports and background job records | `ReportJob`, `BackgroundJob` | queue, run, cancel, retry | scheduler, storage, provisioning | a COMPLETED report has its file; nothing stays QUEUED |
| Email and notification log | delivery log | queue, send, give up | all services | nothing stays QUEUED |
| Tenant approvals (`services/itsm/approvals`) | `TenantApprovalRequest`, decisions | ask, decide, cancel, delete | policies | APPROVED means enough approvals |
| SLA engine | `TicketSlaInstance` | start, pause, resume, meet, breach | incidents | a clock turns in its order |
| Incidents, problems, changes, requests, numbering | ticket rows | create, assign, escalate, resolve, decide, implement, ... | SLA engine | first times stay; unique numbers |
| Record services of an organization (some sixty: catalog, CMDB, assets, teams, departments, ...) | rows, owners, default flags | create, update, delete, revive, set default, list | the HTTP surface | what is offered is answered; checked values stay apart; children keep parents; one default |
| Support tickets (`services/saasadmin/support`, `services/itsm/support`) | `SupportTicket`, `SupportQueue` | create, reply, assign, resolve, close, reopen | the platform's staff and the organizations write the same rows | dates follow the status; numbers follow each other; what is done stays done |
| HTTP surface and permission catalog | mounts, routes, roles' grants, the maintenance setting and its cache | route, authenticate, authorize, gate | everything | every route is reached by whom it is meant for, and by nobody else |
| Platform editors, platform knowledge, dashboards | one row at a time | create, update, list | | scoping |

Hard behaviour: concurrent requests on one row (all of them), crashes between
two writes (webhooks, provisioning, reports), timeouts and retries (webhooks,
email), jobs of several servers on the same rows (webhooks, reports, expiry),
decisions counted from a stale read (approvals), a guard that counts and then
writes (last administrator, `assertUnique`), caches filled from a stale read,
field names and permission codes that only meet at run time. `hazards` in
`PROJECT.json` gives each with its line.

## Modules

| Module | Models |
|---|---|
| `WebhookDelivery` | delivery rows and everybody who dispatches them |
| `AtLeastOnce` | what a queue of outbound messages promises; `WebhookDelivery` implements it |
| `TenantLifecycle` | one tenant, its provisioning and concurrent staff requests |
| `ApprovalGate` | approval requests, decisions, cancellation, expiry, changing policy |
| `GatedTenant` | the two composed: suspension or archiving behind the gate, executors inside `decideRequest` |
| `Accounts` | one staff account: sign-in, second factor, sessions, reset, and the operations that close it |
| `Authorization` | who holds which role on one side of the system, invitations, and the cache of what a user may do |
| `QueuedWork` | report jobs, background jobs and e-mail deliveries, the sweeps of several servers, cancelling and retrying |
| `Routing` | what route files are written with: layers, routers, mounts |
| `PlatformRoutes`, `OrganizationRoutes`, `ApiMounts` | every router and mount of `src/src/routes`, in their order; in `ApiMounts` also what of a request's way does not change: places, the path meant for a route, who holds which code |
| `Permissions` | the two catalogs, the system roles and what they are granted |
| `RouteFacts` | what the tables of routes and roles keep to, stated of each route; the theorems about `HttpSurface` rest on it |
| `HttpSurface` | a request on its way through gate, mounts, middleware, layers and permission check |
| `RecordContracts` | what a record service is made of: table, bodies, configuration |
| `OrganizationTables`, `OrganizationInputs`, `OrganizationRecords` | the tables, validators and services of an organization's records |
| `Records` | one of these services and one of its checks, under concurrent calls |
| `SupportTickets` | the tickets that the platform's staff and the organizations work on, and their numbers |
| `Numbering` | what numbers promise: given out one after the other, or once each, and never taken back; `SupportTickets` implements it |
| `RecordServices` | these two side by side |
| `ConcurrentCalls` | calls that read a row, await, and write by id; a clock |
| `SlaEngine`, `Tickets`, `TenantApprovals` | the clocks of an incident; the four kinds of tickets; an organization's approvals: each on top of `ConcurrentCalls` |
| `ServiceDesk` | these three composed |
| `MC...` | the instances TLC checks; they only add symmetry sets and sets of callers |
| `...Proofs` | the theorems of the module they are named after; `GatedTenantProofs` has those of the gate as well, `AuthorizationProofs` those of `HttpSurface`, `RecordsProofs` those of the support tickets |

### Correspondence with the code

*WebhookDelivery.* `status`, `attempts`, `nextRetry`, `target` are the columns of
`WebhookDelivery`; `nextRetryAt` is abstracted to null, in the future, or past,
since only that comparison is ever made. `call[p]` is one activation of
`dispatchDelivery`: its program counter and the `attempts` it read, because the
code computes every write from that read. A row's own process is the dispatch
its creator starts (`publishEvent` without waiting, `testWebhook` waiting); the
other processes are the job of each server and the administrators' retries.
`Post` is the request and everything that can go wrong in the `try`; an answer
that arrives is remembered in the history variable `accepted`. Which webhooks
subscribe to an event is up to their `eventKeys`, so any subset of the enabled
ones. Backoff is "some time passes" (`RetryFallsDue`): nothing depends on how
much. The failure count of a webhook is only tested for being zero by anyone.

*TenantLifecycle.* `op[p]` is a staff request between its check and its writes.
`performTenantSuspend` and `performTenantArchive` update the status in one step
and revoke in a later one, so a crash or another request fits in between.
Credentials are abstracted to their kind (session, API key) and to whether they
were issued before or since the last closing. The six provisioning steps are
`NumSteps` upserts in order; `configured` is how many sets of defaults exist.
`ProvisionBegin` covers the three creates of `provisionTenant` before its `try`.

*ApprovalGate.* `call[c]` is a `decideRequest` or `cancelRequest` with what it
read: the approvals it saw (`seen`) and the policy's `minApprovals` (`min`).
The three queries behind Prisma's `include` are one step. The policy is one row
whose quorum and flag may change at any time. An executor is one step here
(`Execute`, `ExecuteFails`), and several in `GatedTenant`. The seven days of
`expiresAt` are `Lapse`.

*GatedTenant* instantiates `TenantLifecycle` for staff requests and for the
calls that run an executor. `AskApproval` and `PassGate` are the two ways
through `evaluateApproval`; `PerformClosing` is the call of
`performTenantSuspend` or `performTenantArchive` after it, with its own read.
`ExecutorCheck`, `ExecutorClose` and `ExecutorReturns` are the same operation
inside `decideRequest`; an error of the operation is an error of the decision.

*Accounts.* `call[c]` is one request about the account, with what it has read:
the session (`s`) or recovery code (`k`) it will write by id, the authentication
methods it will put into the session (`strong`: "mfa" is among them) and
`mfaEnabled` as it saw it. Each of its program counters stands before one write
or one more read, so that another request fits in between; what a handler reads
in a row before its first write, without branching on it, is one step.
Sessions are numbered as they are created; `state` tells a rotation's revocation
from every other. `stale`, `forked`, `doubled` and `cut` are history: a request
or session from before the last closing; a session or code that two requests
held at once; a closing whose revocation of the sessions never ran. The
properties are exact in these terms: they say which interleavings a promise
does not survive, and that nothing else breaks it. Left out because they only
keep sign-ins away: the counter of failed passwords and the lock, the expiry of
challenge tokens. A reset token is there for whoever asks. One row stands for
the ten recovery codes created together.

*Authorization.* `realm` says which side is modelled: the platform's staff
(`staff.service.ts`, `saasadmin/roles.service.ts`, `loadPermissions`) or the
members of one organization (`tenantadmin`, `tenant-access.service.ts`); the two
are written in the same way and mostly share their actions. `call[c]` is one
operation, a step for each statement it awaits: reading what it changes, counting
the other administrators, the write (a transaction is one step), and then the
deletion of the cached entries, all at once or of one user. The codes of staff are
loaded whatever their status, those of a membership only while it is ACTIVE
(`Loadable`). `Abort` may follow any step. `missed` is history: an entry that a change should have deleted and
did not, because it was put after the deletion or the call was cut short.

*QueuedWork.* `row[i]` is a `ReportJob`, a `BackgroundJob` or an e-mail delivery;
`scope` and `key` say which catalog a report's key comes from. `server[s]` is a
server's sweep: the batch it has read, and how far it is with the first report of
it (start, execute, store, complete or fail). `call[c]` is a request: cancelling,
retrying, provisioning, sending. A server or a call may be cut short at any step.

*HttpSurface.* The route tables are the calls of the route files in their order,
with path segments as strings, parameters as ":", and the codes each
`authorize` or `requireTenantPermission` names. One request is under way at a
time, because nothing in this part is shared but the maintenance setting and its
cached copy, which outlive requests. Every route is asked for, with every method
it has, by a caller of each kind. `AltersOthers` says what a handler may change of
what others have made: only for the few that the limited roles come to is it
told apart whether a handler changes nothing (`Computing`), adds a row of the
caller's own (`Adding`) or looks who is asking (`CancelOfApproval`); every other
handler behind a method other than GET counts as changing others' data.
`target` is the route the request was meant for, so that one shadowed by another
shows. Rate limits, headers and the
formatting of answers are left out; bodies are valid.

*Records.* `OrganizationRecords` states for each service what its configuration
says: the table, the bodies of its routes, what lists may be searched, sorted and
filtered by, what the service adds to a body, what `assertUnique` and its like
look for and among which rows, who owns whom and who looks, what may be the
default. `Records` runs one service and one of its checks: a call is its look-ups
(`phase` "checked") and its write by id, with the unique index of the table
behind it. Values are numbers; `Value` joins what a check over several columns
compares. `removed` says whether the service has a way to delete: the platform's
support queues, for one, have none. `torn` (written by a call another one had
overtaken), `named`, `partly` and `narrow` (the check was given, or read, only part) and `claimed`
are history, in terms of which the properties are exact.

*SupportTickets.* `support[t]` is a `SupportTicket`: its status, whether its two
dates are set, and its number, with the series it belongs to (`SUP` of the
platform, `ST` of the organizations). `work[a]` is one call with what it read:
the count a number is computed from, the attempt a retry is at, or the status
that a write by id follows from. An organization's `transition` asks for no
status and is one step. `torn` (the status was written by a call that had read
another one), `made` and `failed` are history. No statement of either service
writes PENDING, so no ticket has it. To `Numbering` a create is a single step:
the counting before it and the tries that find their number taken are stutters,
and `platform`, `organizations` and `filed` are the numbers that the rows have
and how many rows there are. A year's numbers are followed; replies,
assignees and edited columns are data. `RecordServices` puts the support tickets
beside the record services they share their queues and their database with.

*ServiceDesk.* `ConcurrentCalls` has the shape nearly all handlers share: `Start`
with what was read, `Write` by id, which marks every other call `overtaken`.
`Tickets` has each operation of the four services as a function from the row as
read to the row as written, applied by the step that writes; an incident's
creation goes on to assign the lead of a team and starts the clocks without
waiting (`StartClocks`, or `NoClocks` when that is lost). `SlaEngine` keeps the
two clocks of an incident in minutes. `TenantApprovals` has `decide` in its four
awaited parts: the request and the policy, the decision, the re-read of all
decisions, the status they add up to.

## Runs

Every passing run ends with no error. Deadlock is checked wherever a system is
followed that never stops; in `MCAuthorization`, `MCQueuedWork`, `MCRecords` and
`MCServiceDesk` it is not, because there requests may simply cease to come: rows
and calls are bounded, and a system with nothing left to do is no error. The
violation run checks one statement the code makes about itself, and TLC shows the
run that contradicts it.

| Run | Shows | Bounds |
|---|---|---|
| `MCWebhookDelivery` | rows tell the truth (`SuccessWasAccepted`, `NotGivenUpEarly`, `AttemptsBounded`) and implement `AtLeastOnce` | one row with its publisher, a sweeper and two manual retries, one call cut short: enough for three dispatchers of one row to overlap and for one of them, or the publisher, to die at any step |
| `MCWebhookLiveness` | every queued row settles for good | two rows and a batch of one, so that one can be starved by the other; the publisher is never obliged to go on |
| `MCTenantLifecycle` | `ClosingCutsOff`, `CompletedIsConfigured`, `ActiveIsConfigured` | three requests at once, two steps, one cut short |
| `MCApprovalGate` | `QuorumBehindExecution`, `ClosedForReason`; every request closes | three approvers, two calls, quorum one or two, one crash |
| `MCGatedTenant` | `GateHolds`, `ApprovedWasEnacted`; the composition implements the gate and the tenant | an archiving, one member of staff, one approver, one call, credentials, a crash and a failing statement: the smallest instance in which somebody works on the tenant while an executor does; larger ones are covered by the proofs |
| `MCAccounts` | `ClosedMeansLate`, `OneSuccessor`, `OneAdmission`, `RotationKeepsSignedIn`, `OnlyStaleReopens` | two requests at once, three sessions, one set of recovery codes, one request cut short: two rotations of one session, or two sign-ins by one code, and a closing in between |
| `MCHttpSurface` | `OwnRouteReached`, `SidesApart`, `LimitedRolesAlterNothing`, `MaintenanceEndsFromListed` | all 811 routes and 82 mounts; a caller for each kind of account, the platform owner from a listed address and from another, and the roles described as limited. The one route by which these can change what others have made (see below) is named in the property |
| `MCAuthorization` | `EntriesFollowChanges`, `LastAdministratorGuarded`, `RevokedAdmitsNobody` | two users, so that each can be the other's guard; two calls, the administrators' role and one more, one code, three changes, either side. It also evaluates `RouteFacts`, which has no state of its own, on all 811 routes |
| `MCQueuedWork` | `CompletedIsStored`; `QueueDrains` | two rows of whatever kind, two servers that may take both, one request, two things cut short |
| `MCReportsOffered` (violation) | a report that an organization is offered fails in every run | one row, one server |
| `MCRecords` | `NothingOfferedFails`, `KeysApart`, `ChildrenKeepParents`, `DefaultStandsAlone`; `DatesFollowStatus`, `RefusedByOthers`, `DoneUntilReopened`; the numbers implement `Numbering` | each service and each of its checks; three rows and one owner, two values, two callers, four calls: a parent, a child and a third row to clash with, and one call within another. Four support tickets of either series, two requests that are alike, five calls, two attempts at a number: enough for a create to be overtaken at each of its attempts and for a write to be overtaken by two transitions |
| `MCServiceDesk` | `ApprovedByEnough`, `FirstTimesKept`, `ClocksTurnInOrder` | two callers, four calls, one ticket of each kind in turn, three minutes and targets of one, so that both clocks may be overdue in one sweep; two approvers and a policy asking for one or two |

Bounds in guards: `MaxDeliveries` rows, `MaxRetries` manual retries, `MaxAborts`,
`MaxCuts` and `MaxCrashes` calls cut short, `MaxChanges`, `MaxCalls` and
`MaxSupportCalls` calls begun, `NumRows` rows of work, `MaxTime` minutes. They
end the counting, nothing else: each bounded event may happen at any point. In `Accounts`, a
request that may create a session is begun only while a row is left for it
(`RoomForSession`), so that the bound never stops it half way, and recovery
codes beyond `MaxCodes` are never used. The quorum of the platform's approvals is
bounded by `MaxMin`, ten in `createApprovalPolicySchema`.

### Fairness

Webhooks: `setInterval` keeps starting the job and a call under way comes back,
since `fetch` is aborted after `WEBHOOK_TIMEOUT_MS`; so weak fairness of each
dispatch, of each sweep and of the clock. One assumption is in this: the timer
is cleared before the body is read (`dispatcher.ts:68`), so a destination that
never ends its body would hold the sweep for ever. Publishers and
administrators get no fairness: a publisher that crashed is one that stopped.

Approvals: time passes, and the maintenance job runs. Calls get no fairness,
because an executor may hang, and nobody is obliged to decide.

Queued work: every server goes on starting its sweep and goes on with the one
under way (`SweepStart`, `SweepStep`), a delivery grows old (`GrowsOld`) and the
notification job runs (`GiveUpStale`). Requests get no fairness: a sender that
died leaves its delivery to the job.

## Proofs

| Theorem | Establishes |
|---|---|
| `WebhookDeliveryProofs`: `TypeCorrect`, `SuccessIsTrue`, `GivingUpIsTrue`, `SettledIsOffSchedule`, `AttemptsStayBounded` | the safety of the rows for any number of rows, servers, administrators and attempts |
| `RowsAreAQueue` | the rows implement `AtLeastOnce` |
| `TenantLifecycleProofs`: `TenantTypeCorrect`, `ClosingCutsOffAll`, `CompletedMeansConfigured`, `OnlySuspensionBypasses` | the tenant for any number of requests and steps |
| `GatedTenantProofs`: `GateTypeCorrect`, `QuorumAlwaysBehind`, `ClosedForItsReason` | the gate for any number of requests, approvers and calls |
| `GatedTenantProofs`: `RefinesTenant`, `RefinesGate`, `GateAlwaysHolds`, `ApprovedAlwaysEnacted` | the composition implements both parts, and what holds only of the whole |
| `GatedTenantStaysSound` | so it keeps what the tenant keeps alone, by the theorems of `TenantLifecycleProofs` |
| `AccountsProofs`: `AccountTypeCorrect`, `ClosedIsLate`, `Succession`, `Admission`, `StaleReopening`, `Rotation` | the account for any number of requests, sessions, codes and crashes |
| `AuthorizationProofs`: `EntriesFollow`, `LastAdministrator`, `RevokedStaysOut` | cache, last administrator and invitations for any number of users, roles, codes and calls |
| `SidesAlwaysApart`, `MaintenanceAlwaysEndsFromListed` | what a request on its way has been let through, for any callers and roles |
| `OwnRouteAlwaysReached`, `LimitedRolesNeverAlter` | a request gets to its own route, and whoever is entitled to it too; a limited role changes nothing of others' but an export that is queued, for any callers |
| `QueuedWorkProofs`: `CompletedAlwaysStored` | a completed report has its file, for any number of rows, servers, requests and aborts |
| `ServiceDeskProofs`: `ApprovedAlwaysByEnough`, `ClocksAlwaysTurnInOrder`, `FirstTimesAlwaysKept` | an organization's approvals, clocks and tickets for any number of them, of approvers, minutes and calls |
| `RecordsProofs`: `KeysAlwaysApart`, `ChildrenAlwaysKeepParents`, `DefaultAlwaysStandsAlone` | any of the record services, for any rows, values and callers |
| `NothingOfferedEverFails` | what a route of a record service offers is answered, save what is known not to be |
| `DatesAlwaysFollow`, `NumbersAlwaysFollow`, `AlwaysRefusedByOthers`, `DoneStaysDone` | the support tickets, for any number of tickets, requests and attempts |
| `NumbersAreGivenOut` | the support tickets implement `Numbering` |
| `ServicesRunBoth` | the two side by side run as they do alone, so the theorems carry over to what `MCRecords` checks |

Each follows from an inductive invariant. The properties alone are not
inductive because a handler writes what it computed from an old read; the
strengthening says what each such read is still worth when it is written.

* Webhooks (`Backed`): the count a dispatcher holds is covered by attempts that
  really took place, and a dispatcher about to record a success saw one. A row
  is PENDING only below the limit, manual retries aside. This is why losing
  counts never gives a row up early.
* Tenant (`StepsLeave`, `OpeningIsChecked`, `CutOffOrPending`): a provisioning
  under way has left the defaults of its steps so far; a request about to open
  the tenant checked it; what was there before a closing is gone, or the request
  that will revoke it is still under way.
* Gate (`CallKnows`, `PassedApproved`): approvals only grow, so the number a call
  saw is still a lower bound when it decides; whoever completed a quorum
  approved. The step that adds a decision is where cardinalities come in.
* Composition (`CallsRunExecutors`, `EnactedPassed`, `ExemptOnly`,
  `ClosedSomehow`): a tenant is closed by somebody exempt or by an executor, and
  an executor only runs in a call that completed a quorum. The two refinements
  carry the invariants of the parts over to the whole; that the tenant of the
  theorems is the tenant of the composition is `SameTenant`, action by action.
* Account (`RequestInv`, `ForkInv`, `DoubleInv`): every sign-in or reopening under
  way on a closed account is stale, since none begins there; a session or code
  is claimed by its successor, or by the request about to issue one, only once
  it is revoked or used, so a second claim can only come from a request that
  held it before. A rotation signs nobody out (`KeepInv`): a rotation hands on
  the methods of its session, so the only one that ends without a successor,
  unless cut short, is that of a session without a second factor on an account
  that has enrolled one since.
* Authorization (`CallsSound`, `MembersSound`): every call has read what it says
  it has, nobody is put back outside the organization, and a role once made is
  never unmade; so a load that puts an entry which is out of date was overtaken
  by a change, and that change, or what became of it, is on record. The
  last-administrator theorem rests on what a call that counted still knows.
* HTTP surface (`SurfaceInv`): a request in a router, or handled, is within a mount
  it begins with and whose middleware let it through; one that is past the gate
  during maintenance may pass it. That no role can hold the wildcard, or a role
  of an organization a code of the platform, is proved from the catalogs.
* Its own route (`WayInv`, `OnItsWay`): a request that is meant for a route has
  never come past it. It is before the route's mount; or in a mount before it,
  which the path happens to begin with; or in the route's own router, before the
  route. No handler there takes it, and no middleware on the way asks for more
  than that of its own mount. This much of the tables is assumed, in
  `RouteFacts`, route by route (`MountsAssumption`, `MiddlewareAssumption`,
  `RoutesAssumption`, `LimitedAssumption`): closed statements about 811 routes,
  which TLC evaluates. What is proved is what they come to for a request that is
  routed step by step.
* Queued work (`RowsSound`, `ServersSound`, `CallsSound`): rows keep what they are
  and never lose a file, and a sweep about to write COMPLETED has stored one,
  whatever others wrote meanwhile.
* Service desk (`Kept`, `Knows`): whoever is recorded as APPROVED once approved,
  the minimum a call holds is at least the least that ever stood, and a call that
  computed APPROVED counted that many. So a slow write may reopen or reverse a
  request, but not approve one too early. For the tickets and clocks
  (`TicketsInv`, `Followed`): a call that nobody overtook still holds the row as it
  stands, so what its write does to that row is what the operation does to the row
  it read; every other write is one the properties excuse.
* Records (`Stands`, `Seen`, `IndexHolds`): an owner that a call has looked at
  stands, a key that a check has looked for is free, unless another write came in
  between and marked the call. The index never fails. What every contract keeps to
  (`Kept`) is proved of each of the 59 services from its table, its bodies and its
  configuration (`EachKept`), and nothing is assumed of them.
* Support tickets (`SupportInv`, `Knows`): the platform's numbers are 1 to n, and a
  create has never counted and tried further than n; so it takes n + 1 or finds
  its number taken, and what it found taken was made since it counted. An
  organization's create that nobody of its series overtook has counted at least
  every number of it. So a create is one step of `Numbering`, and every other step
  leaves the numbers alone (`SameNumbers`). A date and a status disagree only where a write by id said
  so itself (`torn`).

Assumptions are those named in the modules: bounds are naturals, the sets of
processes are disjoint, approvers and tickets are finitely many, a caller has a
role of its own side (`CallersAssumption`), and the four statements about routes
above. The type invariants of the components, that a settled delivery is not
scheduled (`SettledIsOffSchedule`), and that the platform's numbers have no gap
(`NumbersAlwaysFollow`, part of the invariant under `NumbersAreGivenOut`), are
proved and no part of a run.

Model-checked only: liveness (`EventuallySettledForGood`, `EveryRequestCloses`,
`QueueDrains`: it rests on ENABLED, which the prover does not handle), and the
violation. Every other property of a run is a theorem. The facts of the route
tables in `RouteFacts` are evaluated, not proved: the tables are built by
concatenating sequences, whose lengths and places the provers do not compute at
this size.

## Where the code departs from what it says

Met while modelling. The models have what the code does, and the properties are
stated so as to hold of it. Only the first has a run of its own.

* `TENANT_REPORTS` (`itsm/reports.service.ts:13`) offers reports that
  `executeReport` (`saasadmin/reports.service.ts:553`) does not know: each of
  them ends FAILED, as do the exports of an organization. `MCReportsOffered`.
* `slaEngine.service.ts:166` says the response clock stops "when the first
  qualifying human response is recorded"; assignment and resolution record that
  response and leave the clock running, so the next sweep breaches an incident
  that was answered in time. Nothing completes a resolution clock.
* `schema.prisma:3755` says of `pausedDuration` "minutes excluded under permitted
  pauses"; a resumption does not move `deadlineAt`, so they are not excluded. Two
  resumptions at once count a pause twice. Business calendars are not read.
* Filters on a flag (`pinned`, `isEnabled`, `isDefault`), the status of CI
  relationships and business calendars, and every list of custom fields that
  searches or sorts by `label` or `sortOrder` name what Prisma refuses
  (`KnownUnanswered` in `Records`).
* Some checks before a write read live rows only, or part of the columns, over an
  index that also holds deleted rows: CI relationships, customer sites, webhooks
  and integrations of an organization answer 409 from the index.
* Only a department that is its own parent is refused, so two moves close a
  circle; a catalog category may own itself. `setDefault` under READ COMMITTED,
  and a creation with `isDefault`, can leave two defaults.
* "Only failed deliveries can be retried." (`webhooks.service.ts:420`) is decided
  by a stale read; a delivery that succeeded meanwhile is reopened.
* Suspending a tenant that was never provisioned, and reactivating it, leads past
  the check of `tenants.service.ts:413`; an archived tenant comes back as ACTIVE
  by way of a provisioning (`tenants.service.ts:292`).
* An executor may run for a request that was cancelled or rejected meanwhile
  (`approvals.service.ts:343`); `approverRoleIds` only filters a listing.
* In an organization's approvals a slow write may reopen or reverse a request,
  cancelling looks at no status, `expiresAt` and the policy's `isEnabled` are
  never read. No operation of a ticket looks at its status, and what a change's
  approvals say binds nobody.
* The platform's security auditor has "Read-only access to security, audit and
  administrative reporting surfaces." (`catalog.ts:406`), and holds
  `admin.reports.export`, which also opens `DELETE admin/reports/exports/:exportId`
  (`saasadmin/reports.routes.ts:59`). `cancelExport` (`saasadmin/reports.service.ts:899`)
  looks the export up by its id alone, so the auditor can cancel whatever export is
  queued, of anybody's and of an organization's too; an organization's own
  `cancelRun` does ask for its tenant. `LimitedRolesAlterNothing` excepts this route
  by name and holds of no other. The auditor also asks for exports, and the analyst
  with "Read-only visibility" (`catalog.ts:441`) runs reports and cancels approvals
  it asked for: rows of their own, which the property does not count.
* Some roles are granted codes that open nothing: no route asks for those of field
  jobs, work logs, escalations or assigned work, and a field engineer, who is to
  "upload evidence" (`tenant-catalog.ts:1117`), is given `attachments.create` where
  the route asks for `attachments.upload`. An employee "tracks their own requests"
  (`tenant-catalog.ts:1147`), but the lists of requests are the whole organization's.
* `removeRoleMember` (`tenantadmin/roles.service.ts:624`) takes the last
  administrator's role without the guard of every other way.
* A report that was running when its server went down stays RUNNING, and a
  background job of a type `retryJob` does not know stays QUEUED; nothing takes
  them up.
* Nobody holds the wildcard permission that the maintenance gate lets through, so
  maintenance ends only from a listed address or through an old copy of the
  setting.

## Not modelled

Per component in `PROJECT.json`. In short: creation, editing and secret rotation
of webhooks and the SSRF check of a URL; a tenant's profile, impersonation and
health; listings beyond what they offer; the counter of failed sign-ins and reset
tokens; versions and publication of catalog items and workflows; the platform's
editors and knowledge base; what reports compute; the network
calls of providers and integrations; audit records and security events, which are
written after the fact and swallow their errors; the text of any message. Formats
and lengths in validators, rate limits and dashboards hold no state another step
reads.

## Plan

1. The rest of `Accounts`: failed sign-ins and the lock, reset tokens, pending
   enrollments; its composition with `TenantLifecycle`, whose `IssueCredential`
   it refines.
2. Versions and publication of catalog items and workflows.
3. The platform's editors and knowledge base as record services, on top of
   `RecordContracts`; the pure validators of definitions as operators against a
   reference.
4. Theorems: lemmas on `Routing` (a mount whose base no earlier mount begins with
   takes its own requests), from which `RouteFacts` would follow for tables
   without overlap; abstract specifications of the last administrator and of the
   report queue, as there are of the deliveries and the numbers.
