# TLA+ models of payment-sandbox

This directory specifies the parts of payment-sandbox that carry its guarantees,
checks them with TLC on small instances and proves the central ones with TLAPS
for every instance. `PROJECT.json` lists, for every definition, the source lines
it stands for; it also lists the runs, the mutants, the hazards, the findings
and the theorems. Paths below are relative to `src/internal/`.

## The system

| Part | State | Operations | Talks to |
| --- | --- | --- | --- |
| Payment aggregate (`payment/domain`) | status, amount, authorized, captured, refunded, version | New, Authorize, Fail, Cancel, Capture, Refund, Validate | — |
| Commands, repository, ledger (`payment/application`, `payment/adapters/sqlite`, `app/payment_events.go`) | `payments`, `payment_events` | find, compare-and-swap save, append event with causation, reconstruct | one transaction per command; creates delivery jobs |
| HTTP endpoints and idempotency (`payment/adapters/http`, `idempotency`) | `idempotency_records` | transactional and idempotent middleware: reserve, replay, complete | wraps the commands in their transaction |
| Scheduler (`scheduler`) | `scheduler_jobs`, `scheduler_job_audit`; per loop: batch, held job | Save, FindExecutable, Acquire, Tick, Execute, persistFailure | handlers for webhooks and saga messages |
| Retry policy (`scheduler/domain/retry_policy.go`) | — | Decide | called by the worker |
| Virtual clock (`platform/clock`, `platform/persistence/sqlite`) | stored time, visible time, mutex, the one connection | Advance, Now, Load, Save | read by commands inside their transaction |
| Payment saga (`paymentworkflow`) | `saga_instances` | StartWithPayload, Handle, PaymentExecutor.Execute | provider, payment commands, scheduler jobs |
| Providers (`provider`) | — | Authorize, Capture, Refund, Cancel, ExecuteAsync | called by the executor |
| Webhook delivery (`webhook`) | `webhook_endpoints`, `webhook_delivery_audit` | register, deliver, record start, record outcome | scheduler, remote receiver |
| Replay (`replay`) | `replay_scenarios`; per execution: payments, jobs, sagas and a clock of its own, in memory | save, execute, compare | providers, payment commands, saga, worker, all on the private stores |
| Administration (`administration`) | — (reads) | timeline, diagnostics, runtime history, webhook audit, advance time | payments, ledgers, clock |
| Runtime sequence (`platform/persistence/sqlite/runtime_sequence.go`) | one counter | next number, in the transaction that inserts the row | rows of the three ledgers |
| API, configuration, logging, migrations, `cmd` | — | start-up and routing | — |

What is hard about it: two clocks (virtual business time, which only an
administrator moves, and operational time); leases that expire under a running
handler; crashes between statements that are not in one transaction; clients
that retry; one database connection that everybody waits for; asynchronous
outcomes that come back as messages; readers that put an answer together from
several statements; replays that must agree although their jobs live in a map. The `hazards` of `PROJECT.json` give the
line where each of these bites and the properties that watch it.

In the composed application nothing but the replay runner
(`replay/application/runner.go:179`) starts a saga; the orchestrator's handler is
registered with the runtime's worker all the same, so `Saga` models the durable
adapters it is wired to.

## Modules

**`Scheduler`** — rows with lease, generation and attempt count; any number of
loops. `Tick` reads both clocks, `Find` runs the query of `FindExecutable`
against the business time that was read, `Acquire` leases the next member of the
batch against the operational time that was read. `RejectUnknown`,
`ExhaustSpent`, `Start`, `HandlerSucceeds`, `HandlerFails` and `SaveOutcome` are
`Worker.Execute`, cut at its statements. `Publish` saves a job that is due now: a
delivery, or the message of a saga's step. `Defer` is a running handler that
publishes an operation its provider deferred: one of the ids `AsyncJobs`, which
name provider and payment only and come back whenever the payment is deferred
again, due later by one of `Deferrals`.
`StatementFails` and `Crash` end an iteration or the whole batch with the
statement rolled back. A handler is one step with an arbitrary result: what a
handler does is the business of the modules below. Payloads, types and owners
are left out; audit entries have no time columns and are a set.

**`Payment`** — the aggregate's commands as functions to a payment or an error.

**`PaymentApi`** (extends `Payment`) — the endpoints, one action per statement of
the request's transaction: `Begin`, `Reserve`, `Command`, `Publish`, `Schedule`
(once per endpoint), `Complete`, `Commit`. `Rollback` may happen at any of them
and stands for a failed statement, a disconnect, a crash and every response of
500 or above (so also for `Release`). The connection pool has size one, hence one
open transaction. `Fail` has no route; it comes unkeyed from workflows.

**`PaymentService`** — the abstract specification: an accepted command changes
the payment, appends its event and creates its deliveries in one step.
`PaymentApi!AtomicService` is the refinement, with the committed tables as the
mapping.

**`VirtualClock`** — `Advance` is `Lock`, `StoreTime`, `Unlock` (or
`StoreFails`); a command is `BeginTx`, `Now`, `CommitTx`, or `Disconnect` if its
context can be cancelled. `Crash` restarts from the stored time.

**`Workflow`** (extends `Payment`) — the saga as functions: how an instance
advances and compensates, the payment command of a step, and when a step is
recognised as already applied. `Saga` and `Replay` both run it.

**`Saga`** (extends `Workflow`) — one saga on one payment, on the durable stores.
`StartSaga` and `StartPublishes` are the two writes of `StartWithPayload`. `Take`,
`FindSaga`, `FindPayment`, `AskProvider`, `ApplyCommand` / `FailPayment` /
`PublishAsync`, `SaveSaga`, `PublishCurrent`, `FinishJob` are one delivery of a
message, cut wherever a crash leaves something behind. Jobs keep status and
attempts; a lease left by a crash is a job that is due again. `StatementFails` is
an error of the database, or a cancelled context, at any of these statements: the
attempt fails, or its outcome is not stored. The history `lost` says that a crash
or an error came between saving the saga and publishing its message. `Client...` are HTTP
commands on the same payment. A provider answers from the set the run gives it.

**`Provider`** — what a configured provider answers to an operation: profiles, the
seeded choice, the delay of a deferred authorization, refused amounts, the
registered ids.

**`Replay`** (extends `Workflow`, `Provider`) — one stored scenario and its
executions. `Create` parses, validates and saves a request under a free id (an
amount the domain refuses silently becomes no amount, as in the handler);
`Execute` reads it back and builds the private world, a record `run`;
`CreatePayment`, `Operate`, `AdvanceTime`, `ExecuteAsync` and `StartPaymentSaga`
are the commands. A saga command is followed by two ticks: `FindExecutable`
chooses any list the sort may leave of the map's due jobs, `Dispatch` executes a
member, whose job may have been replaced since, and `EndTick` goes on or ends the
command. What a command does is a function from run to run (`Created`, `Operated`,
`Resumed`, `Started`; `Dispatched` for a member of a batch), and so is what its
handlers do (`Apply`, `HandleSaga`, `HandleAsync`, `Executed`); they keep the
changes made before an error. `Finish` returns the result two executions are
compared by. Job ids are tuples, ordered by `IdBefore` as their strings are. The
history `promised` collects the times each payment was deferred to in this run.

**`WebhookDelivery`** — one delivery job whose attempts may overlap, because a
lease expires under a slow attempt. The scheduler is used as `Scheduler` shows
it: attempt numbers are unique and outcomes of overtaken attempts are fenced off.
The receiver is part of `Send`.

**`Administration`** (extends `WebhookDelivery`) — commands, the clock and the
delivery of the first event as writers, an administrator as reader. The rows of
`business_events`, `scheduler_job_audit` and `webhook_delivery_audit` are one
sequence, `log`, indexed by the runtime sequence number they take in their
transaction. Each reader is the script of its statements, run one by one while
writers go on; only the runtime history holds the connection from `BeginHistory`
to `CommitHistory`. A row is not changed after it is inserted, except the outcome
of a delivery, so what a listing saw is the length of the log and the outcomes at
that moment. The payment exists from the start; there is one reader at a time,
and readers do not affect each other or the writers. The delivery jobs of later
events are followed up to their scheduling. Leasing a job and starting its attempt
are one step here, with both snapshots; `Scheduler` cuts them apart.

**`RetryPolicy`** — `ExponentialBackoffPolicy.Decide` with one action per
iteration, over a signed integer type of a given width.

`MCScheduler`, `MCPaymentApi`, `MCSaga`, `MCReplay` and `MCRetryPolicy` hold the
values of function- and set-valued constants, and the symmetry of the scheduler
loops. `SchedulerProofs`, `PaymentProofs`, `SagaProofs`, `VirtualClockProofs`,
`AdministrationProofs` (with those of `WebhookDelivery`), `ReplayProofs` and
`RetryPolicyProofs` hold the theorems; `PaymentLemmas` holds what is proved of the
aggregate's commands and of a saga's rows, which `PaymentProofs`, `SagaProofs` and
`ReplayProofs` use. The inductive invariant of a module is its last section; the
values a saga's row can have are at the end of `Workflow`.

A definition whose comment begins "Mutant of" is a plausible wrong version of a
mapped definition. It is used by nothing; substituting it must break the property
`PROJECT.json` names.

## Runs

Passing runs, with the number of distinct states:

| Run | Shows | States |
| --- | --- | --- |
| `Scheduler_Safety` | two loops, one job, one fault: leases exclude, attempts are unique, budgeted and audited, late saves change nothing | 204k (symmetry) |
| `Scheduler_Single` | the deployed single loop, whose handlers defer operations: a retry waits for its delay; due jobs and leases expired on both clocks are taken, beside a job of unknown type | 189k |
| `PaymentApi_Commands` | all command sequences on a payment of two units, with retried, duplicated and conflicting keys and failures anywhere: valid rows, exact ledger, reconstruction, stable replay, atomicity (refinement) | 1.03M |
| `VirtualClock_Safety` | ledger time is monotone and durable under restarts; no caller is stuck if clients give up | 2k |
| `Saga_Safety` | any provider, one crash, one failing statement, HTTP clients: the outcome matches the payment, one capture, in order; a saga ends or shows an exhausted job unless publishing its next message was interrupted | 435k |
| `Administration_Views` | two overlapping attempts of a delivery, a second command and moving time beside a reader: the audit is truthful and final, a timeline explains the payment it shows, diagnostics show no future event, the runtime history is one moment | 1.72M |
| `Replay_Scenarios` | 36k scenarios of up to five commands on two payments, executed twice: both executions agree, deferred work waits and is not lost, a finished saga matches its payment | 455k |
| `RetryPolicy_Backoff` | every policy and attempt over five bits | 8.5k |

Runs that are expected to fail, each for a sentence of the documentation or of a
comment that the code does not keep:

| Run | What TLC finds |
| --- | --- |
| `Scheduler_Recovery` | the query compares leases with business time, so a dead worker's job waits until an administrator advances time, however long its lease has expired |
| `VirtualClock_Worker` | `Advance` holds the mutex and waits for the connection, a worker's command holds the connection and waits for the mutex |
| `Saga_LostStep` | a crash between the saga row and its next message leaves the saga without a job |
| `Saga_Redelivery` | a rejected authorization delivered twice is not recognised; the saga stays running |

Some properties of the passing runs are weaker than the documentation, because
the code is. `acquire` does not look at `next_attempt_at` again. `BackoffIsKept`
holds for retries, and for the one loop the application runs; a job that was never
tried may be early even there: a saga step that is retried in the same batch as
the operation it deferred defers it again under the same id, and the loop leases it
all the same (adr-0010:1029 has eligibility compared with virtual time). In `Replay`
the same happens within a tick, with the provider `stripe`, whose operations sort
after the saga's messages: the replacement runs a minute early. `DeferredWaits` is
therefore about the earliest time a payment was deferred to (and about payments the
scenario does not already give as authorized). A timeline is two reads without a
transaction: `TimelineCoversState` says that no change of the payment shown is
unexplained, and nothing stronger is true, since events committed between the two
reads are shown beside the older payment. `SagaSettles` excuses a saga whose next
message was not published, by a crash or by an ordinary error: the retry finds
another step current, acknowledges the old message (`orchestrator.go:87`), and the
saga stalls with no exhausted job to show it.

Two more limits are recorded as hazards. The message of an asynchronous operation
has no amount, so a deferred capture or refund fails on every attempt (the
built-in providers defer authorizations only); `SagaSettles` then rests on the
exhausted job. A deferred operation is named by provider and payment only: when a
command and a saga both defer a payment, the later job replaces the earlier one.
`DeferredIsKept` says that the authorization survives this; the saga whose
continuation was replaced is left at its step.

### Bounds

Clocks stop at `MaxTime`, 3 or 4: long enough for a lease of one unit to expire
twice and for a retry to be scheduled and taken, so two takeovers of one job
occur. `MaxFaults`, `MaxCrashes` and `MaxErrors` are 1: each property is about what
one failure leaves behind, and the failure may be anywhere; in `Saga` a crash and an
error of the provider or of a statement may meet. One deferral of one unit is
enough to put a due operation off. Two scheduler loops are enough for takeover, late save
and stale batch; the proofs cover any number. `MaxAttempts` is 2 or 3 (the
application uses 3), so first, middle and last attempt differ. Amounts up to two
units give partial captures and refunds. `MaxVersion` of `Saga` is the longest
saga: authorize, capture, two compensations. Five-bit durations have every edge
of cap and overflow. `Replay` has two payments, of two units, so that jobs of two
payments meet in one tick; five commands are enough to defer a payment twice, by a
command and by a saga, let time pass and resume it; `BatchSize` 2 is the smallest
in which one member of a batch replaces another. `Administration` has two versions
and two times, so that a command, an advance or an attempt can fall between any
two statements of a reader; its proofs cover any number. Its constraint
`UntilAnswered` explores nothing after an answer, which is checked: reading
changes nothing the writers see, so what follows is also reached without it. `BatchSize` is 1 or 2 where the application uses 100; a batch
full of jobs of unknown type is a listed hazard and is not checked.

### Fairness

`Scheduler!FairSpec`: each loop's own steps are weakly fair (`app.go` ticks every
100 ms, and every statement returns) and operational time passes. Virtual time is
not fair: nothing advances it but an administrator. `VirtualClock!FairSpec`:
strong fairness of a caller's steps, because Go's mutex and the connection pool
queue their waiters; `ImpatientSpec` adds that HTTP clients give up.
`Saga!FairSpec`: the worker and the starting call go on. Retries and
asynchronous operations of a saga are due in virtual time, so this one does
assume an administrator who keeps advancing it. Crashes, errors, rollbacks and
clients are never fair.

Deadlock checking is off where the modelled part really ends: a saga, a delivery
and what is shown of it, one call of `Decide`, and the run that shows everyone
waiting for everyone.

## Proofs

Constants are assumed to be what the constructors enforce (`SchedulerAssumption`,
`VirtualClockAssumption`, `WebhookDeliveryAssumption`, `AdministrationAssumption`,
`RetryPolicyAssumption`, `PaymentApiAssumption`, `SagaAssumption`, `ReplayAssumption`); TLC evaluates each on its runs.

*Scheduler.* None of the safety properties is inductive. `SchedulerInv` adds what
makes them so: a held job is never newer than its row, and agrees with it in
status and attempts as long as its generation is current (`HeldInv`); attempts
above the stored count have not run (`RowInv`); a loop about to call the handler
is alone with its attempt number and audited (`RunInv`); what is about to be
saved is justified (`OutcomeInv`). Then a save either carries the current
generation, and the row is the holder's own, or it changes nothing. Proved from
it, for any number of jobs and loops: `TypeCorrectness`, `LeaseExclusion`,
`AttemptNumbersAreUnique`, `RetryBudget`, `SettlementHasCause`, `AuditIsComplete`,
and the action properties `Monotonicity` and `Fencing`. `RetriesWait`, that a failed
job is leased again only once its delay has passed (`BackoffIsKept`), assumes a
single loop (`OneLoop`). Its invariant `DueInv` says that what is left of a batch is
listed once, is not the job in hand and, where it has been tried before, is due. A
producer may save any id again with any due time, but what it writes is a job that
was never tried; only the loop's own retry puts off a job that was, and that is
the job in hand.

*Payments.* Each command keeps `Valid` (one lemma per command). `ApiInv` says that
an open transaction has changed nothing or has made exactly its own command's
change to what is still the committed state (`WorkInv`); a commit then publishes
one valid command result. Hence `StoredPaymentsAreValid` and `CommitsMoveForward`
for any requests, ids and amounts.

Ledger and keys need more. `StoreInv` describes the copy an open transaction works
on, statement by statement: at each of its points it is a function of the committed
tables and the request, namely the committed state with the reservation, the
command's row, its event and its deliveries added so far (`EffectInv`,
`ReservationInv`). `LedgerInv` says the events of a payment are one per version,
the newest showing the row; `KeyInv` ties every record to the replies given for it
and to the command it let through. A rollback drops the copy, and a commit
publishes a copy that has everything, which is why failures anywhere are harmless.
Hence `LedgerIsComplete`, `RepliesAreStable`, `KeysApplyOnce`, `ReservationsEnd` and
`SuccessesAreDurable`. `LedgerReconstructs` follows from the ledger: recorded times never
fall from one version to the next (a conjunct of `LedgerInv`), so exactly n events
sort at or before the event of version n, the sorted list is the list by versions,
and its last member shows the row. `RefinesService` is the refinement
of `PaymentService`: a commit of a recorded command is its `Accept` step, every
other step leaves the committed tables the mapping reads alone.

*Saga.* A row of a saga has one of seven values (`SagaRows`): the workflow never
refunds, since only a completed capture calls for it and the saga is over then. `SagaInv` says that a worker that has loaded a saga and not yet saved it
holds a copy equal to the row, that the step it handles is the row's, and that
what it has decided already shows in the payment (`WorkInv`), through whatever HTTP
clients do to the payment in between; and that a capture made shows in the payment
even while the row still says otherwise, so that the redelivered step is recognised.
Hence `OutcomeIsInPayment`, `CapturesOnce` and the action property
`SagaIsMonotonic`, for any outcomes of the provider, amounts, clients, attempts
and crashes.

*Virtual clock.* `ClockInv` orders last event, pending stamps, visible and stored
time, using who holds the mutex and the connection. Hence `CommittedTimes` and
`LedgerTimeIsMonotone`.

*Webhook delivery.* `DeliveryInv` ties each attempt's place in the handler to its
audit row, its receiver and the job's count. Hence `AuditIsTruthful` and
`AuditOutcomesStay` for any budget.

*Administration.* `ObservedDelivery`: every step of the composition is a step of
`WebhookDelivery` or leaves it alone, so the delivery's theorems hold in it
(`ObservedAudit`). The properties of the answers need two more invariants.
`LedgerInv`: every row has its cause before it in the log, and whatever the
payment and the delivery have been through is in the log. `ViewInv`: what a reader
of each kind has got, by the statements it has left; inside its transaction the
history is up to date, because nobody else gets the connection. The argument is
one lemma, `EveryStepGrows`: no step takes back a row, a version, a time or a
success, and what it adds it explains; what a reader has seen therefore stays true
(`ShownStays`), and each statement is one case of `ReadersKeepViews`. Hence
`TimelineExplainsPayment`, `DiagnosticsTime` and `HistoryCausality` for any number
of commands, times and attempts.

*Retry policy.* `LoopInv`: the running delay is positive and within the cap. Hence
`BackoffWithinCap` for every width and policy. `BackoffInv`: the running delay is
the initial one times a power of two, one doubling per iteration. The loop stops
early only when one more doubling would pass the cap, and powers of two grow, so
the closed form is beyond the cap too: `DecideIsClosedForm`. The induction over
exponents is by least counterexample, from the library's theorem that the naturals
are well-founded; the same argument shows that `PowerOfTwo`, a recursive function,
satisfies its recursion.

*Replay.* `ReplayInv` describes a run (`Sound`): the only jobs are a payment's
deferred operation and the messages of its saga's first two steps, and each agrees with
the payment and the saga's row (`PaymentInv`). In particular a capture message
carries the amount of the saga it belongs to, although starting a saga again
replaces its row and its first message but not its second; and a job under the
operation's id is pending as long as its payment is, because it can only fail or
complete by taking the payment out of pending. `PromiseInv` adds that the job's due
time is one that was promised, and that a promised time has come as soon as the
operation is in a batch or the payment is authorized. Each function from run to run
is shown to keep `Sound` once (one lemma each), and each action then follows. Hence
`SagasMatchPayments`, `DeferralsWait` and `DeferralsAreKept`, for any payments,
scenarios, providers, seeds and batch sizes.

`ReplaysAgree` compares two executions, so no invariant of one run gives it. The
argument is determinism, in `ReplayProofs`: ids of jobs are totally ordered
(`IdsAreOrdered`), hence so are jobs by due time and id (`JobsAreOrdered`), hence two
lists the sort may leave differ nowhere, since at the first index where they did
one of them would be out of order (`OneBatch`), hence a run has one successor
(`OneCourse`). Two paths from the same stored scenario coincide, by the first index
at which they differ (`PathsCoincide`), and a path ends where it has no successor
(`EndsAgree`). `CourseInv` says that the run under way is on a path of the stored
scenario and that every result is the end of one (`CourseInvariance`); the row under
an id never changes once it is there. Hence `ExecutionsAgree`. Without the tie-break
by id in the sort, `JobsAreOrdered` is false and the run finds two executions that
differ.

Only model-checked: the liveness properties (`DueJobsAreTaken`,
`ExpiredLeasesAreTaken`, `EveryCallReturns`, `SagaSettles`), since fairness and
ENABLED are out of the proof system's reach, and the runs that are expected to
fail.

## Not modelled

- Routing, authentication, request decoding and JSON rendering; configuration,
  logging, observability, version, `cmd`: they keep no state the properties could
  speak of. Of the composition root only the scheduler loop and the shutdown are
  modelled.
- Migrations: the schema's constraints are in the state of the modules.
- The in-memory adapters of payments and sagas: `Replay` uses them as plain maps.
- URL validation and the list routes of webhook endpoints, the HTTP client.
- `NoRetryPolicy` and `FixedDelayPolicy`, which have no loop, and which the
  application does not compose (replay runs jobs with no retry, which `Replay`
  has).
- The canned scenarios of `replay/scenarios`, which are values; the run
  enumerates their commands and more.
- Cancelled contexts inside a replay, which end it with an error, and the wording
  of the report of differences.

## Plan

Done, in this order: scheduler, payments with their abstract service, virtual
clock, saga, webhook delivery, retry policy; provider, replay, administration with
the runtime sequence; theorems for the safety properties of all of them.

Next:

1. `Saga` over `Scheduler`'s leases, so that overlapping deliveries of one saga
   message are covered, and liveness of the delivery (every delivery is
   eventually decided).
2. The scheduler's table and fence as a small abstract queue that
   `WebhookDelivery` and `Saga` rely on, with `Scheduler` refining it.
