# Formal models of cashp

TLA+ models of the parts of cashp whose correctness depends on the order in
which things happen, with TLC configurations for small instances and TLAPS
proofs for the general case.  Source paths are relative to the repository
(`src/nodes` is the Go package); `PROJECT.json` maps every definition to the
lines it stands for.

## 1. The system

cashp is a hosting panel: one or more panel processes over a shared database,
and an agent on every managed host.

| part | packages | kind of state |
|---|---|---|
| scheduler | `scheduler` | in-memory task table, a JSON state file, a lock file shared by a cluster |
| node fleet | `nodes`, `agent` | node rows, credentials, task rows; a polling loop on every host |
| billing | `billing` | subscriptions, invoices, payment attempts, webhook events; tasks, tenants and provider webhooks all write them |
| cluster | `database` | heartbeats, expiring locks, a primary lease |
| notifications | `notify`, `notifysvc` | deduplication claims, a delivery queue, channel states |
| support | `support` | tickets (nine states), chat sessions, sweeps |
| identity | `auth`, `security`, `guard` | sessions, tokens, lockout; stateless checks |
| workloads | `orchestrator`, `dbservice`, `hosting`, `hostpkg` | rows mirrored onto container, database and web servers |
| upkeep | `backup`, `update`, `tlsmgr`, `geoip`, `cache`, `overlay` | files replaced by renames, retention, expiry |
| surface | `server`, `api`, `graphql`, `web`, `admin`, `client`, `config`, `i18n`, ... | request handling and rendering |

The scheduler drives the periodic work of the other parts (node sweep and
reaper, renewals, dunning, webhook retries, notification retries).  The parts
meet in database rows, which are written either by `UpdateVersioned` (a stale
writer changes nothing and gets an error) or by plain statements.

`main.go` of this revision starts the scheduler and the notifications only.
`nodes`, `agent` and `billing` are complete libraries; the HTTP layer between
the agent's transport and `nodes` is not in the repository, and `NodeTasks`
takes it to call `Authenticate`, `Claim` and `Report` once per request.
Likewise nothing but tests calls the cluster primitives of `database` and their
wrappers in `nodes/cluster.go`, except for `RemoveNode`.
The same holds of the services of `auth`, `orchestrator`, `backup` and `tlsmgr`, which
nothing but tests constructs.

## 2. Conventions

* A row that is read and then written with `UpdateVersioned` (or with an
  `UPDATE ... WHERE version = ?`) is one atomic step when nothing between the
  two has an effect: a write that lost the race affects no row and the handler
  returns an error, which is the same as not having taken the step.  A handler
  with several writes is split at every one of them; where what was read
  matters later, a `fresh` flag or set records who still holds the current
  version, and every write empties it.  A `...Fail` or `Dies` action ends a
  handler at any step: a conflict, a database error and a crash look alike to
  the stored state.
* Time is replaced by the questions the code asks of it (is the backoff over,
  has the deadline passed, how long has the node been silent) unless a
  property is about dates (`Scheduler`, `Subscriptions`).
* A comment that begins with `Mutant:` marks an operator that is not part of the
  model: it is a plausible bug that the named property must catch.
* The properties of section 6 state what a comment of the code says and are
  violated by what the code does.

## 3. Modules

| module | code | what it is |
|---|---|---|
| `NodeView` | `src/nodes` | what the task queue needs to know of a node: schedulable, withdrawn, credential, progress of a drain or a removal |
| `NodeRegistry` | `src/nodes/state.go`, `enroll.go` | the detailed registry; implements `NodeView` |
| `NodeTasks` | `src/nodes/dispatch.go`, `src/agent/reporter`, `src/agent/transport` | dispatch, claim, report, reaper, and the agent loop, over `NodeView` |
| `TaskLock` | `src/scheduler/lock.go`, `scheduler.go` | the cluster lock file, system call by system call, under `execute` and `Stop` |
| `Scheduler` | `src/scheduler/scheduler.go`, `state.go` | one task: dispatch, retry with backoff, saves, shutdown, crash, catch-up |
| `Cluster` | `src/database/cluster.go` | membership, the lease of the primary, a named lock with an expiry |
| `BillingStates` | `src/billing/state.go` | the transition tables of subscriptions and invoices |
| `Subscriptions` | `src/billing/subscriptions.go`, `dunning.go` | one subscription under its tenant, renewal and dunning tasks and recovery by webhook |
| `Charges` | `src/billing/payments.go`, `webhook.go`, `invoices.go`, `providers.go` | one invoice charged through several providers, statement by statement |
| `Documents` | `src/billing/invoices.go` | document numbers, issuing, the account balance and credit notes, statement by statement |
| `Accounts` | `src/auth` (users, organizations, invitations) | names, seats, roles and owners, which no unique key protects |
| `Domains` | `src/auth` (custom domains) | claim, verification, approval, suspension and the periodic checks |
| `Credentials` | `src/auth` (sessions, second factor, lockout) | one account under logins, enrolments and revocations at once |
| `Notify` | `src/notify/dispatch.go`, `store.go` | deduplication, the delivery queue, retries and giving up |
| `NotifyChannel` | `src/notify/state.go`, `channel.go` | the states of one channel under tests and sends |
| `Tickets` | `src/support` (tickets, SLA, sweeps) | the nine states of a ticket and every handler and sweep that moves it |
| `Chats` | `src/support` (chat, agents) | sessions, support mode, escalation and the reaper |
| `KnowledgeBase` | `src/support/kb.go` | articles and the index that is rebuilt from an earlier listing |
| `SupportShelf` | `src/support/canned.go`, `admin.go`, `attachments.go` | scopes of canned responses; an attachment and its file |
| `Workloads` | `src/orchestrator` | engines, the handlers that drive them, the record kept beside them |
| `Instances` | `src/dbservice` (instances, upgrade) | record, container and volume of managed databases |
| `Engines` | `src/dbservice` (credentials, databases) | accounts inside one instance and the rows that record them |
| `Dumps` | `src/dbservice/backup.go` | artifacts and the rows that list them |
| `Apps` | `src/hosting/paas.go` | releases, their trees and workloads |
| `Sites` | `src/hosting/web.go`, `apply.go`, `domain.go` | activation of generated files by write, check, reload and restore |
| `Zones` | `src/hosting/dns.go` | rows, serial, zone file and include |
| `Mail` | `src/hosting/mail.go` | a mail domain and the maps that three services read |
| `FleetPart` | | the registry and its run properties, under names of its own: shared by `MCHosting` and `NodeTasksProofs` |
| `MCNodeTasks`, `MCTaskLock`, `MCSubscriptions`, `MCCharges`, `MCDocuments` | | symmetry and constant definitions for TLC |
| `MCControl` | | `Cluster` and `Scheduler`, which share no state, explored one at a time |
| `Parts`, `MCTenants`, `MCHosting` | | groups of components that share no state, explored one at a time |
| `NodeTasksProofs`, `ControlProofs`, `SubscriptionsProofs`, `ChargesProofs`, `DocumentsProofs` | | TLAPS proofs (section 5) |
| `AccessProofs`, `NoticeProofs`, `SupportProofs` | | TLAPS proofs, and the groups of components `MCTenants` is made of |

**Node fleet.** `NodeRegistry` has one record per node (lifecycle state,
schedulable flag, silence), its credential, and the program counters of the
operations that take several statements: `Drain`, `Remove`, and a contact of
an agent that authenticated before the row changed.  `NodeTasks` has the task
rows, the requests the panel is serving and the loop of every agent.  A request
may be answered after the agent gave up on it, its answer may be lost, and the
agent may restart; `runs` records what agents really executed.  The task queue
is composed with `NodeView` rather than with the registry, which keeps it small;
that the registry implements the view is checked in the run `hosting` and proved
in `NodeTasksProofs` (`ViewOf` is the refinement mapping).

**Scheduler and cluster.** `Scheduler` keeps the memory and the disk image of one
task's state.  `TaskLock` splits `FileLocker.Acquire` at its system calls (`O_EXCL`
create, read, truncating open, write), because a reader between two of them
sees an empty record and takes it for an expired lock.  In `Cluster` rows hold
what is left of a lease instead of its date, so the clocks of the nodes are taken
to agree.  `ElectPrimary` is split between its read and its write (`stand`, and
`outdated` when the lease was written in between).  It runs at the default
isolation of the database: the constant `Serial` says whether a transaction with
an outdated read is refused.  That is so with SQLite, which this code opens with
immediate transactions; it is not so with a database that defaults to read
committed.  `won` and `sure` are history: what is left of the lease a node or a
user was told it has.

**Billing.** `Subscriptions` counts days; invoices are a sequence; the renewal
and dunning tasks are jobs with a program counter that work on a row they read
earlier.  `Charges` follows `ChargeInvoice` over the provider order that the
health checks produced, with a payment-attempt ledger, the money each provider
took, and webhook deliveries that arrive before, during and after the call.
`Documents` has calls that each draft and issue an invoice or write a credit
note; `begun` and `spent` are history that only the properties read.

**Tenants.** In these modules a handler reads and checks its rows in one step and
then has a list of statements that it runs one by one (`worker`), each computed
from what it read.  `UpdateTicket` and `UpdateArticle` compare a version
(`fresh`); the chat row, the account row and the delivery row are written without
one.  The query of the retry task is `Listed` in `Notify`: at most `Batch` due
rows, oldest first, and nothing reserves them for the one who reads them; the
sweeps of `Tickets` and `Domains` go through the rows they listed in any order.
`proven`, `tries`, `fate`, `passed`, `public`, `replied` and `tickets` record what
happened outside the row, so that a property can compare the row with it.

**Hosting.** Here a handler changes an engine, a file or a repository and then a
row, or the other way round.  `lost` records that a call failed in a way the code
does not repair, `overlap` that two handlers of the same object ran at once:
several guarantees hold only where neither happened, and the properties say so.

## 4. Runs

| run | bounds | what it shows |
|---|---|---|
| `task_queue` | 1 task, 2 attempts, 2 requests | budget, order of attempts, success means executed, terminal rows stay |
| `task_batch` | 2 tasks in a poll, fairness | no task stays claimed for ever, although a failed report drops the rest of a batch |
| `task_lock` | 2 nodes with 2 goroutines | no node runs a cluster-wide task twice at once |
| `task_lock_live` | 2 nodes, fairness | the task is run again and again while a node stays up |
| `subscription` | 3 days, a period of 1, 2 invoices, fairness | expired is final; a cancellation takes effect |
| `renewals` | 2 renewal tasks, 4 days, a period of 2 | a paid plan and the access of a cancelled subscription last until the end of the period, every period has an invoice |
| `charges` | 2 callers with one key, 1 webhook handler, 2 providers | every try is in the ledger, an attempt marked as succeeded took money, no payment is recorded that was not taken, one key takes money once without failover |
| `charged_twice` | violation | failover after a timeout takes the money twice |
| `documents` | 3 calls, 2 turns, 1 unit of account credit | numbers are unique, an allocation is refused only when overtaken in every turn, what is credited is backed by a note or by the balance |
| `control` | 2 nodes, 2 users of a lock, ttl 2, `Serial`; period 3, delay 2, 2 retries, 6 instants | one primary, a live lease is not preempted, the lock excludes, a late release is harmless; next run within a period, no hot loop, the disk has what memory has |
| `tenants` | each component with 2 requests at once | stored rows agree with themselves; what a row says happened did happen and what it claims was proven; deliveries and channels are accounted for; statuses move along their tables; the sweep closes old tickets only; rules between rows hold while requests do not overlap |
| `hosting` | each component with 1 or 2 handlers | rows and resources come and go together, what is served is what is stored, the serial of a zone advances, rules between rows hold while handlers do not overlap; the registry implements `NodeView` and the sweep spares withdrawn nodes |

*Groups.*  `MCTenants` and `MCHosting` instantiate components that share no state
and explore them one after the other: `part` is chosen in the initial state, and
the variables of the other components are `"-"` (in `MCHosting` the variables `s1`,
`s2`, ... are those of the chosen component, and the registry rests in its initial
state while another one is explored).  The state spaces add up instead of
multiplying, and a property of the run is the conjunction of what the components
promise on one theme.  `MCTenants` takes its components in three groups, each with
a specification of its own in the module that proves its properties: `AccessSpec`,
`NoticeSpec`, `SupportSpec`.

| run | part |
|---|---|
| `tenants` | `A` Accounts, `D` Domains, `S` Credentials, `N` Notify, `Ch` NotifyChannel, `T` Tickets, `L` Chats, `K` KnowledgeBase, `H` SupportShelf |
| `hosting` | `R` NodeRegistry, `W` Workloads, `I` Instances, `E` Engines, `U` Dumps, `P` Apps, `S` Sites, `Z` Zones, `M` Mail |

*Why the bounds are enough.*  Each handler is short, and the races are between
two of its statements and one other actor.  Two attempts distinguish a first,
a later and a last one; two requests let a late answer meet a fresh one; two
tasks make a batch with a rest to be dropped; two goroutines on each of two
nodes are the fewest in which a node competes with itself and with another.
Three days with a period and a grace of one cover a trial, a renewal, a second
renewal, and a payment that fails and runs out of grace; two days in a period
tell apart its middle and its end in `renewals`.  Two providers and two callers
are needed for failover and for a repeated key; `MaxEvents` bounds how often a
provider tells its news.  Three calls let two invoices race for a number or for
the balance while a third call finds the result.  A ttl of two units has a fresh,
an older and a lapsed lease.  In the groups one or two objects and two requests
are enough for a write that overtakes another; where `hosting` has one handler
the properties are about failures between two statements, and what two handlers
can do to each other is in section 6.  With one delivery in `tenants` the limit
`Batch` never cuts the list short; the proof of `DeliveryAccounted` covers any
number of deliveries and any limit.

*Symmetry* is used over requests, nodes and goroutines, renewal tasks, callers,
calls and the workers of `tenants`, in runs that check safety only.

*Deadlock* is checked except in the billing runs and in the groups, which end when
a bounded clock, list or supply of identifiers does.

*Fairness.*  `task_batch` assumes the reaper (a scheduled task) and the clock.
`task_lock_live` assumes goroutines are scheduled, the clock advances and
system calls do not fail every time (strong fairness on the calls that can
fail).  `subscription` assumes that days pass, that every run of the renewal task
ends, and that its steps do not fail each time it is run.  Nothing is assumed
of agents, tenants, operators or providers.  The other runs check safety only: no
code schedules the elections of `Cluster`, for one, so no fairness would be
justified.

## 5. Proofs

The proofs hold for every value of the constants: any number of nodes, tasks,
calls, renewals, deliveries or sessions, and any bound on the clocks.

* `NodeTasksProofs`: `TypeCorrect`, `BudgetKept`, `SuccessWasExecuted`,
  `TerminalStays`, `ExecutedInOrder`.  The invariant is `TypeOK /\ AttemptBudget /\
  SucceededWasRun /\ AgentLink`.  Success alone is not inductive: a report is
  believed when it arrives, so the proof has to know that a report in flight is
  about the head of a batch that was executed before it was sent, also after
  the agent gave up on an earlier request.  `AgentLink` says so.
  `AttemptsRunInOrder` rests on `OrderLink`: an attempt that an agent holds
  (`Held`) and has yet to execute (`Unrun`) is later than every one it executed,
  wherever the claim that brings it is: being answered, under way, or in the
  rest of a batch.
  For `NodeRegistry`: `RegistryTypeCorrect`; `RegistryImplementsView`, the
  refinement, in which each action of the registry is shown to be one action of
  `NodeView` on the same node or to leave the view alone; `WithdrawnSpared`.
* `ControlProofs`.
  For `Cluster`: `TypeCorrect`, `LockExcludes` and `LateReleaseHarmless` with any
  database; `PrimaryUnique` and `NoPreemption` under the assumption `Serial`.  A
  row covers what its users were told (`LockCovers`, `LeaseCovers`); for the lease
  the proof also needs that a read which is not outdated still holds
  (`ReadHolds`).
  For `Scheduler`: `SchedulerTypeCorrect`, `NeverPostponed`, `BackoffAlways`,
  `CrashSafe`.  The properties and `finished <= now` are inductive together
  (`ScheduleInv`); the arithmetic of the retry delay is a lemma.
  `TypesKept` puts the two together for `MCControl`.
  For `TaskLock`: `LockTypeCorrect`, `OneRunPerNode`.  `OnePerNode` is strengthened by
  `Flagged`: a goroutine anywhere in `execute` has set the running flag, as long as
  `Stop` has not given up waiting for it.
* `SubscriptionsProofs`: `TypeCorrect`, `PeriodsInvoiced`, `ExpiredStays`,
  `DowngradeWaits`, `CancellationWaits`.  The invariant relates the row (`RowOK`),
  what each renewal or dunning job read (`JobsOK`) and the invoices.  Period ends
  are days of one cycle, and no day of a cycle lies between two that are a period
  apart; so a renewal that overtook another either finds the version changed or
  starts where the other one ended.  The action properties follow from one step
  predicate, `StepOK`.
* `ChargesProofs`: `TypeCorrect`, `EveryTryShown`, `SucceededIsTaken`,
  `KeyChargedOnce`.  The invariant follows a caller (`CallerOK`), a delivery
  (`DeliveryOK`) and a row of the ledger (`RowOK`) through their statements; a
  provider that took or may have taken money has a row (`Shown`), no two calls hold
  the attempt of one key (`Alone`), and without failover only the first provider of
  the order is charged (`FirstOnly`).
  `CreditedWasTaken` is `NothingInvented` as long as deliveries are handled one at a
  time and the sets are finite.  It is a counting argument: what is paid, and what is being recorded, are together at most the
  attempts marked as succeeded, and these map one to one to what providers took.
* `DocumentsProofs`: `TypeCorrect`, `NoNumberTwice`, `GivesUpWhenOvertaken`,
  `CreditHasBacking`.  The first three rest on `TypeOK /\ Numbering /\ Turns`: a
  number that was given out lies behind the counter of its scope, so the next
  compare-and-set gives a new one; every lost turn moved the counter on.  The
  fourth is about sums: what an invoice is credited is at most the sum of the notes
  against it that are not still to be applied (`Counted`, `SumOf`) and of what was
  taken from the balance for it (`Backing`); a note has the amount that its call
  is going to apply (`Held`).
* `AccessProofs`: `ClaimsProven`, that is `ClaimsAreProven` of `tenants`.
  For `Accounts`: `InvitationSpentOnce`.  `AcceptOrgInvite` reads an invitation,
  counts its use and inserts the seat in three statements, any of which may be the
  last.  `InviteInv` says that a use is counted before a seat is made of it, that a
  handler which has counted one is the only one that will seat a member for it
  (`OneRedeems`), and what the statements a handler has yet to run refer to
  (`Redeems`).
  For `Domains`: `ServedWasProven`.  The stored row and every statement that a
  handler or the sweep has still to run make no claim that a lookup did not show
  (`Proven`, `Claims`); what was seen stays seen, so the order of the statements
  and of the rows of a sweep does not matter.
  For `Credentials`: `FactorIsProven`, `LockoutKept`.  A handler writes back the
  row it read, so the invariant `SoundInv` says of every row a handler is going
  to write, and not only of the stored one, that its second factor is one for
  which a code was presented and that its failures are fewer than the threshold,
  at which the account is locked and they are counted from zero again.
* `NoticeProofs`: `NoticesKept`, that is `NoticesAccounted` of `tenants`.
  For `Notify`: `DeliveriesAccounted`.  Two workers may attempt one delivery, so the
  invariant accounts for the stored row (`RowAccounted`), for the copies in the
  list a retry read (`EntryAccounted`) and for the completion a worker is about to
  write (`JobAccounted`), and attempts only grow (`Grown`).
  For `NotifyChannel`: `ServiceTellsStreak`, by the invariant `InStep` that ties the
  state to the failures in a row.
* `SupportProofs`: `RowsWhole`, `ClaimsBacked`, `MovesKept`, `SweepSpares`, that is
  the two invariants and the two action properties of `tenants` on support.
  For `Tickets`: `TicketsAreWhole`, `TicketMoves`.  A handler computes the rows it is
  going to write, each from the one before, and every write compares the version.
  The invariant says that the first of them follows the stored row by an edge of
  the table, as long as nobody else has written it, and each later one its
  predecessor (`Chained`); that a stamped response comes after the message
  (`Answered`); and that the sweep, of which there is one at a time, looks before
  it warns (`WarnsOnce`).
  For `Chats`: `SessionsAreWhole`, `EscalationHasTicket`, although rows are written
  back without a version: every copy a handler holds is whole (`WholeRows`) and an
  escalated copy is backed by a ticket (`Backed`).
  For `KnowledgeBase`: `IndexedWasPublished`, `ArticlesMoveAlongEdges`.
  For `SupportShelf`: `AttachmentHasFile`, `CannedScope`.

The three groups are proved from their parts: as long as `part` names a component,
the steps of the group are steps of that component, so the group specification
implies its specification (`AccessParts`, `SupportParts`).

*Assumptions.*  `NodeTasks`, `TaskLock`, `Cluster`, `Scheduler`, `Subscriptions`,
`Charges` and `Documents` state theirs as `ASSUME`s (non-empty or finite sets, positive
budgets and periods; that powers of two are positive, which the provers do not
know), and so do the three groups: the empty id is no organization, every set of
domains and every set of tickets has a number of elements, the lockout
threshold is positive, the backoff is a sequence of naturals and the batch a
natural, the thresholds of a channel are in order, no agent has the name that
stands for none, and there are finitely many chats.  TLC evaluates them in the runs.

*Only model-checked.*  The liveness properties (`NotHeldForever`, `NeverWedged`,
`CancellationTakesEffect`), which are out of the prover's reach.  `RulesKeptAlone` of
`tenants`: its caps count the rows of `Accounts`, `Domains` and `Credentials` under the
condition that no two handlers overlapped, and none of them is proved.  The
properties of `hosting` but for those of the registry: nothing is proved
yet about `Workloads`, `Instances`, `Engines`, `Dumps`, `Apps`, `Sites`, `Zones` and `Mail`.
`NothingInvented` does not hold with two deliveries at once (section 6).

## 6. Known disagreements between comments and code

The violation run is described in `PROJECT.json`.  The following were found in the
same way.  Each is a property of the named module that the model violates; to
see the steps, put the property into the configuration of the run (in `tenants`
and `hosting`, the component's property through its instance).

| run | property | code | the comment it contradicts |
|---|---|---|---|
| `hosting` (`R`) | `ContactKeepsDrained` | `nodes/state.go:170` a contact that read the row earlier brings back a drained node | `:132` |
| `hosting` (`R`) | `MaintenanceSuppressesSweep` | `nodes/state.go:405` the sweep reclassifies a node put in maintenance after its read | `:185` |
| `hosting` (`R`) | `RemovedIsRevoked` | `nodes/state.go:318` a removal can leave a live credential | `nodes/nodes.go:81` |
| `task_queue` | `DrainedReceivesNoDispatch` | `nodes/dispatch.go:362` a task is inserted after the drain | `nodes/nodes.go:79` |
| `task_batch`, 2 attempts | `DrainedWorkEnds` | `nodes/dispatch.go:622` a reaped task of a drained node is queued again and stays so | `nodes/state.go:257` |
| `task_lock` | `ReleasesOnlyOwn` | `scheduler/lock.go:120` the file is removed after another node took it | `:26` |
| `task_lock` | `ExactlyOneNode` | `scheduler/lock.go:83` the file exists before its record does; a second node takes it for expired | `:18` |
| `control` | `MissedIsKept` | `scheduler/scheduler.go:379` a crash after the save in `Start` loses a missed run | `schedule.go:5` |
| `control` | `InterruptedIsRetried` | `scheduler/scheduler.go:379` an interrupted task waits for its next regular time | `:460` |
| `control`, not `Serial` | `LeaseNotPreempted` | `database/cluster.go:519` the claim deletes a lease another node took after the read | `:473` |
| `control` | `NoDuplicateExecution` | `database/cluster.go:468` a function that outlives the ttl runs beside the next one | `:461` |
| `renewals` | `OnlyEntitledRenewed` | `billing/subscriptions.go:597` a subscription cancelled at once is renewed | `:595` |
| `renewals` | `EdgesOnly` | `billing/subscriptions.go:409` resuming takes an edge the table lacks | `state.go:41` |
| `subscription` | `GraceRunsOut` | `billing/dunning.go:164` the end of the grace period is not stored | `:94` |
| `renewals` | `PeriodInvoicedOnce` | `billing/dunning.go:309` two renewals invoice the same period | `:253` |
| `subscription` | `PaidRecovers` | `billing/payments.go:355` a subscription paid inline stays past due | `webhook.go:160` |
| `charges` | `PaidIsClosed` | `billing/invoices.go:552` a paid invoice stays issued, the table has no edge | `:505` |
| `charges`, 2 deliveries | `NothingInvented` | `billing/webhook.go:172` two events of one charge are both recorded as payments | |
| `documents` | `NotCreditedBeyondTotal` | `billing/invoices.go:616` the amount is checked against a row that changes before the note is applied | `:617` |
| `documents` | `CreditSpentOnce` | `billing/invoices.go:483` two invoices consume the same credit | `:476` |

In the groups, each property quotes above its definition the comment it is taken
from:

| part | properties | comments |
|---|---|---|
| `T` | `ResolutionOwned`, `ClockStartsAtSubmit`, `DraftHasNoAgent`; `ReopenedIsDrained` under `FairSpec` | `support/state.go:84`, `tickets.go:253`, `:125`; `state.go` on REOPENED |
| `L` | `AcceptedOnce` (two agents), `EndedStaysEnded`, `BelowCeiling` (two chats) | `support/chat.go:241`, `:328`, `:27` |
| `K` | `SlugsUnique`, `IndexIsCurrent` | `support/kb.go:88`, `service.go:74` |
| `H` | `EveryResponseVisible` | `support/models.go:62` |
| `N` | `SentStaysSent` | `notify/dispatch.go:426` |
| `A` | `NeverOwnerless` | `auth/service_org.go:269` |
| `D` | `NamesUnique`, `ActiveIsVerified`, `ChecksCapped` | `auth/service_domain.go:52`, `store_domain.go:119`, `service_domain.go:121` |
| `W` | `RemovedIsGone`, `IndexedExists`, `StateIsCurrent` | `orchestrator/store.go:50`, `:74`, `:38` |
| `I` | `DestroyedStays` (two handlers), `ProvisionLeavesNothing`, `NeverFailed` (`MayFail` and `InPlace` false) | `dbservice/model.go:139`, `dbservice.go` on `Provision`, `upgrade.go:45` |
| `E` | `RevokedStays`, `IssuedOpens`, `GrantRecorded` | `dbservice/credentials.go:190`, `:69`, `model.go` on the grant |
| `U` | `ListedIsRestorable` | `dbservice/backup.go:150` |
| `P` | `InProgressIsTrue`, `TreesAreOwn` (two handlers) | `hosting/paas.go:402`, `:391` |
| `S` | `ServedIsStoredAlways`, `OwnedAlways` (both with two handlers) | `hosting/web.go:200`, `store.go:159` |
| `Z` | `IncludeResyncs`, `ChangeIsSeen` | `hosting/dns.go` on the resync, `:862` |
| `M` | `SignedHasKey`, `RecordsPublished`, `LastPublishWins` (two handlers) | `hosting/mail.go` on `CreateMailDomain`, `:497` |

## 7. Not modelled

Within the modelled components: a run that finishes after `Stop` timed out, cron
expressions that never match and the overflow of the backoff shift
(`Scheduler`); the paused state no operation enters, and dunning of several
invoices in a pass (`Subscriptions`); refunds and payment methods
(`Charges`); drafts edited or issued by several callers (`Documents`); heartbeats
and metrics of the agent (`NodeTasks`).  Queries, logging, audit rows and
notifications are left out everywhere.

`PROJECT.json` lists every other component with the reason: request routing,
rendering, command lines of external tools and cryptography have no state a
model checker would add to; the rest is planned.  The models stand for about a
ninth of the lines of the implementation, most of which is of that kind.

## 8. Plan

1. `Refunds`: refunds inline and by webhook, over `Charges` and `Documents`.
2. `NodeEnroll`: one-time tokens and rekeying, composed with `NodeRegistry`.
3. The limiter of `security`.
4. `update`, `backup`, `tlsmgr`: files at the granularity of renames, with crashes
   (`update/install.go:256`).
5. `cache` and `overlay`: their lifecycles.
6. Pure algorithms against a reference definition: proration and rounding, quota
   decisions, cron `Next`, retention, usage roll-up.
7. Proofs for the components of `hosting`, first `Sites` (restore after a failed
   reload), and for `RulesKeptAlone` of `tenants`.
