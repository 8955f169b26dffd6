------------------------------- MODULE Replay -------------------------------
(***************************************************************************)
(* Stored scenarios and their replay.  A scenario is stored once under its *)
(* id.  Executing it builds a private world of payments, jobs, sagas and   *)
(* virtual time, runs the commands in order, and returns what became of    *)
(* the payments, or the first error.                                       *)
(*                                                                         *)
(* The private job repository is a Go map, iterated in no particular       *)
(* order; a saga is driven by two ticks of the runtime's scheduler over    *)
(* that map; and its jobs share their ids with whatever a provider defers. *)
(***************************************************************************)
EXTENDS Workflow, Provider, FiniteSets

CONSTANTS
    PaymentIds,   \* payments, numbered in the order of their ids
    Requests,     \* scenarios a client may post
    Rivals,       \* scenarios posted later under the id already taken
    BatchSize,    \* jobs one tick takes
    MaxRuns       \* executions of the stored scenario

\* Ids of jobs: what a provider defers is named "<provider>:<payment>:async", a
\* saga's message "saga:<payment>:<step>:<version>".
AsyncId(p) == <<"async", p>>
MessageId(p, s) == <<"saga", p, s.step, s.version>>
Operations == ({"async"} \X PaymentIds)
              \cup ({"saga"} \X PaymentIds \X SagaSteps \X (Nat \ {0}))

\* What a scenario may say; a command names a payment, or 0 for none.
Commands == [type : STRING, pay : PaymentIds \cup {0}, amount : Int,
             currency : STRING \cup {"none"}, duration : Int,
             operation : Operations \cup {<<>>}]
Scenarios == [provider : STRING, profile : STRING, seed : Nat,
              payments : [PaymentIds -> Payments \cup {NoPayment}],
              commands : Seq(Commands)]

ASSUME ReplayAssumption ==
    /\ PaymentIds \subseteq Nat \ {0}
    /\ Requests \cup Rivals \subseteq Scenarios
    /\ BatchSize \in Nat \ {0}
    /\ MaxRuns \in Nat

VARIABLES
    stored,    \* the replay_scenarios row, or NoScenario
    run,       \* the execution under way, or NoRun
    results,   \* what the executions so far returned
    promised   \* history: the times each payment was deferred to in this run

vars == <<stored, run, results, promised>>

-----------------------------------------------------------------------------
(* Scenarios.                                                              *)

NoScenario == [provider |-> "none"]

\* mustMoney: an amount NewMoney refuses is silently no amount at all.
Parsed(c) ==
    IF MoneyError(c.amount, c.currency) = "none" THEN c
    ELSE [c EXCEPT !.amount = 0, !.currency = "none"]

NoMoney(c) == c.amount = 0 /\ c.currency = "none"

\* Command.Validate.
ValidCommand(c) ==
    CASE c.type \in {"create_payment", "start_payment_saga", "capture", "refund"} ->
           c.pay # 0 /\ c.amount > 0 /\ MoneyError(c.amount, c.currency) = "none"
      [] c.type \in {"authorize", "cancel"} -> c.pay # 0 /\ NoMoney(c)
      [] c.type = "advance_time" -> c.pay = 0 /\ NoMoney(c) /\ c.duration > 0
      [] c.type = "execute_async" -> c.pay = 0 /\ NoMoney(c) /\ c.operation # <<>>
      [] OTHER -> FALSE

\* Scenario.Validate, on the request as it was parsed.
ValidScenario(s) ==
    /\ \A p \in PaymentIds : s.payments[p] = NoPayment \/ Valid(s.payments[p])
    /\ \A n \in DOMAIN s.commands : ValidCommand(s.commands[n])

FromRequest(s) == [s EXCEPT !.commands = [n \in DOMAIN s.commands |-> Parsed(s.commands[n])]]

\* toDomain: amounts are checked again when a row is read back.
Decodes(s) ==
    \A n \in DOMAIN s.commands :
        NoMoney(s.commands[n]) \/ MoneyError(s.commands[n].amount, s.commands[n].currency) = "none"

-----------------------------------------------------------------------------
(* The world of one execution.                                             *)

\* The order of the ids as strings: of the providers only stripe comes after
\* "saga".
StepRank == [authorize |-> 0, cancel |-> 1, capture |-> 2, refund |-> 3]
IdBefore(cfg, a, b) ==
    IF a[1] # b[1] THEN (a[1] = "saga") = (cfg.id = "stripe")
    ELSE IF a[2] # b[2] THEN a[2] < b[2]
    ELSE /\ a[1] = "saga"
         /\ IF a[3] # b[3] THEN StepRank[a[3]] < StepRank[b[3]] ELSE a[4] < b[4]

\* NewJob: a saga message, or a provider's deferred operation, due at a time.
JobOf(type, step, money, due) ==
    [status |-> "pending", type |-> type, step |-> step, money |-> money, due |-> due]
Nothing == <<0, "none">>

NoRun == [phase |-> "none"]
NewRun(s) ==
    [phase |-> "command",                                 \* what is done next
     cfg |-> Configure(s.provider, s.profile, s.seed),
     commands |-> s.commands,
     index |-> 1,                                         \* of the current command
     pays |-> s.payments,
     sagas |-> [p \in PaymentIds |-> [saga |-> NoSaga, money |-> Nothing]],
     jobs |-> <<>>,                                       \* the job map
     clock |-> 0,
     ops |-> <<>>,                                        \* deferred operations to report
     ticks |-> 0,                                         \* ticks left of this command
     batch |-> <<>>,                                      \* jobs left of this tick
     err |-> "none"]

\* scenarioJobRepository.Save puts a job under its id, whatever was there.
PutJob(r, id, job) ==
    [r EXCEPT !.jobs = [k \in DOMAIN r.jobs \cup {id} |-> IF k = id THEN job ELSE r.jobs[k]]]

\* Mutant of FoundInOrder: jobs that are due at the same time stay in map order.
FoundInMapOrder(r, a, b) == r.jobs[a].due < r.jobs[b].due

\* The order FindExecutable sorts by.
FoundInOrder(r, a, b) ==
    \/ r.jobs[a].due < r.jobs[b].due
    \/ r.jobs[a].due = r.jobs[b].due /\ IdBefore(r.cfg, a, b)

\* FindExecutable: the lists the sort may leave of the pending jobs that are
\* due, cut off at the batch size.
Batches(r) ==
    LET due == {id \in DOMAIN r.jobs : r.jobs[id].status = "pending" /\ r.jobs[id].due <= r.clock}
        size == IF Cardinality(due) < BatchSize THEN Cardinality(due) ELSE BatchSize
    IN  {b \in [1..size -> due] :
           /\ \A i, j \in 1..size : i < j => b[i] # b[j] /\ ~FoundInOrder(r, b[j], b[i])
           /\ \A i \in 1..size, id \in due : (\A j \in 1..size : b[j] # id) => ~FoundInOrder(r, id, b[i])}

Raise(r, e) == [r EXCEPT !.err = e]

\* A payment command stores its result, or fails.
Changed(r, p, res) ==
    IF res.err = "none" THEN [r EXCEPT !.pays[p] = res.pay] ELSE Raise(r, res.err)

\* Mutant of Apply: deferred work is reported and not scheduled.
ApplyReportsOnly(r, op, p, amount, currency, outcome) ==
    IF outcome = "pending" THEN r
    ELSE Changed(r, p, IF outcome = "failed" THEN Fail(r.pays[p])
                       ELSE CommandOf(r.pays[p], op, amount, currency))

\* apply: what an answer of the provider does to the payment.
Apply(r, op, p, amount, currency, outcome) ==
    CASE outcome = "succeeded" -> Changed(r, p, CommandOf(r.pays[p], op, amount, currency))
      [] outcome = "pending" ->
           PutJob(r, AsyncId(p), JobOf("provider.async", op, Nothing, r.clock + Delay(r.cfg)))
      [] outcome = "failed" /\ op = "authorize" -> Changed(r, p, Fail(r.pays[p]))
      [] OTHER -> Raise(r, "provider_failed")

\* Handle saves the advanced saga and publishes its current step.
SagaAdvances(r, p, out) ==
    LET s == Advanced(r.sagas[p].saga, out)
        saved == [r EXCEPT !.sagas[p].saga = s]
    IN  IF Open(s)
        THEN PutJob(saved, MessageId(p, s), JobOf("saga.step", s.step, r.sagas[p].money, r.clock))
        ELSE saved

\* handleSaga: the orchestrator and the executor, on the private stores.
HandleSaga(r, id) ==
    LET p == id[2]
        step == r.jobs[id].step
        money == r.jobs[id].money
        out == IF id[1] = "async" THEN AsyncOutcome ELSE Outcome(r.cfg, step)
        applied == Changed(r, p, IF out = "failed" THEN Fail(r.pays[p])
                                 ELSE CommandOf(r.pays[p], step, money[1], money[2]))
    IN  IF SagaTerminal(r.sagas[p].saga) \/ r.sagas[p].saga.step # step THEN r
        ELSE IF r.pays[p] = NoPayment THEN Raise(r, "not_found")
        ELSE IF StepAlreadyApplied(r.pays[p], step, money[1]) THEN SagaAdvances(r, p, "succeeded")
        ELSE IF step = "capture" /\ AmountRefused(r.pays[p].currency, money[1], money[2])
        THEN Raise(r, "operation_amount")
        ELSE IF out = "pending"
        THEN PutJob(r, AsyncId(p), JobOf("saga.step", step, Nothing, r.clock + Delay(r.cfg)))
        ELSE IF applied.err # "none" THEN applied
        ELSE SagaAdvances(applied, p, out)

\* handleAsync: the provider resumes the operation; the job names no amount.
HandleAsync(r, id) == Apply(r, r.jobs[id].step, id[2], 0, "none", AsyncOutcome)

\* Acquire and Worker.Execute: the job now under the id is leased, which only a
\* pending one allows, its handler is run and its status saved.
Executed(r, id) ==
    LET after == IF r.jobs[id].type = "saga.step" THEN HandleSaga(r, id) ELSE HandleAsync(r, id)
        status == IF after.err = "none" THEN "completed" ELSE "failed"
    IN  IF r.jobs[id].status # "pending" THEN Raise(r, "job_transition")
        ELSE PutJob(after, id, [r.jobs[id] EXCEPT !.status = status])

-----------------------------------------------------------------------------
Init ==
    /\ stored = NoScenario
    /\ run = NoRun
    /\ results = <<>>
    /\ promised = [p \in PaymentIds |-> {}]

\* Repository.Save: a valid scenario is stored under a free id.
Save(s) == IF stored = NoScenario /\ ValidScenario(s) THEN s ELSE stored

\* POST /admin/scenarios.
Create(s) ==
    /\ stored' = Save(FromRequest(s))
    /\ UNCHANGED <<run, results, promised>>

\* What an execution returns: an error with its command, or the state reached.
ErrorResult(e, n) == [err |-> e, index |-> n, time |-> 0, pays |-> <<>>, ops |-> <<>>]
ResultOf(r) ==
    IF r.err # "none" THEN ErrorResult(r.err, r.index)
    ELSE [err |-> "none", index |-> r.index, time |-> r.clock, pays |-> r.pays, ops |-> r.ops]

\* The scenario is read back, validated and its provider resolved.
Runnable(s) == Decodes(s) /\ ValidScenario(s) /\ s.provider \in Registered

\* POST /admin/scenarios/{id}/execute.
Execute ==
    /\ stored # NoScenario /\ run = NoRun /\ Len(results) < MaxRuns
    /\ IF Runnable(stored)
       THEN run' = NewRun(stored) /\ UNCHANGED results
       ELSE results' = Append(results, ErrorResult("scenario", 0)) /\ UNCHANGED run
    /\ UNCHANGED <<stored, promised>>

\* When r says a payment's authorization will be resumed: in the operations it
\* reports and in the job under the operation's id.
DeferredTo(r, p) ==
    {r.ops[n].due : n \in {k \in DOMAIN r.ops : r.ops[k].pay = p}}
    \cup {r.jobs[id].due : id \in DOMAIN r.jobs \cap {AsyncId(p)}}

\* The run becomes r, and the history notes what r defers.
Becomes(r) ==
    /\ run' = r
    /\ promised' = [p \in PaymentIds |-> promised[p] \cup DeferredTo(r, p)]
    /\ UNCHANGED <<stored, results>>

\* The command is over: the next one follows, or the error ends the run.
Proceed(r) == IF r.err = "none" THEN [r EXCEPT !.phase = "command", !.index = @ + 1]
            ELSE [r EXCEPT !.phase = "failed"]

Current == run.commands[run.index]
At(types) == run.phase = "command" /\ run.index <= Len(run.commands) /\ Current.type \in types

\* create_payment.
Created(r, c) ==
    IF r.pays[c.pay] # NoPayment THEN Raise(r, "already_exists")
    ELSE Changed(r, c.pay, New(c.amount, c.currency))

CreatePayment ==
    /\ At({"create_payment"})
    /\ Becomes(Proceed(Created(run, Current)))

\* authorize, capture, refund, cancel: the provider is asked, then the payment
\* changed; operations it defers are scheduled and reported.
Operated(r, c) ==
    LET out == Outcome(r.cfg, c.type)
        applied == Apply(r, c.type, c.pay, c.amount, c.currency, out)
    IN  IF r.pays[c.pay] = NoPayment THEN Raise(r, "not_found")
        ELSE IF /\ c.type \in {"capture", "refund"}
                /\ AmountRefused(r.pays[c.pay].currency, c.amount, c.currency)
        THEN Raise(r, "operation_amount")
        ELSE IF out = "pending"
        THEN [applied EXCEPT !.ops = Append(@, [pay |-> c.pay, type |-> c.type,
                                                due |-> applied.clock + Delay(applied.cfg)])]
        ELSE applied

Operate ==
    /\ At({"authorize", "capture", "refund", "cancel"})
    /\ Becomes(Proceed(Operated(run, Current)))

AdvanceTime ==
    /\ At({"advance_time"})
    /\ Becomes(Proceed([run EXCEPT !.clock = @ + Current.duration]))

\* Mutant of Resumed: an operation runs before its time.
ResumedAnyTime(r, id) ==
    IF id \notin DOMAIN r.jobs THEN Raise(r, "async_not_found") ELSE Executed(r, id)

\* execute_async: a pending operation has to be due.
Resumed(r, id) ==
    IF id \notin DOMAIN r.jobs THEN Raise(r, "async_not_found")
    ELSE IF r.jobs[id].status = "pending" /\ r.jobs[id].due > r.clock
    THEN Raise(r, "async_not_due")
    ELSE Executed(r, id)

ExecuteAsync ==
    /\ At({"execute_async"})
    /\ Becomes(Proceed(Resumed(run, Current.operation)))

\* start_payment_saga: the saga and its first message, then two ticks.
Started(r, p, money) ==
    LET begun == [r EXCEPT !.sagas[p] = [saga |-> NewSaga, money |-> money],
                           !.ticks = 2, !.phase = "find"]
    IN  PutJob(begun, MessageId(p, NewSaga), JobOf("saga.step", "authorize", money, begun.clock))

StartPaymentSaga ==
    /\ At({"start_payment_saga"})
    /\ Becomes(Started(run, Current.pay, <<Current.amount, Current.currency>>))

FindExecutable ==
    /\ run.phase = "find"
    /\ \E b \in Batches(run) :
         Becomes([run EXCEPT !.batch = b, !.phase = "dispatch", !.ticks = @ - 1])

\* A member that fails does not stop the tick, but it will fail the command.
Dispatched(r) ==
    LET after == Executed(Raise(r, "none"), Head(r.batch)) IN
    [after EXCEPT !.batch = Tail(r.batch), !.err = IF r.err = "none" THEN @ ELSE r.err]

Dispatch ==
    /\ run.phase = "dispatch" /\ run.batch # <<>>
    /\ Becomes(Dispatched(run))

EndTick ==
    /\ run.phase = "dispatch" /\ run.batch = <<>>
    /\ Becomes(IF run.err = "none" /\ run.ticks > 0 THEN [run EXCEPT !.phase = "find"]
               ELSE Proceed(run))

\* Run returns.
Finish ==
    /\ run.phase = "failed" \/ (run.phase = "command" /\ run.index > Len(run.commands))
    /\ results' = Append(results, ResultOf(run))
    /\ run' = NoRun
    /\ promised' = [p \in PaymentIds |-> {}]
    /\ UNCHANGED stored

Next ==
    \/ \E s \in (IF stored = NoScenario THEN Requests ELSE Rivals) : Create(s)
    \/ Execute \/ CreatePayment \/ Operate \/ AdvanceTime \/ ExecuteAsync
    \/ StartPaymentSaga \/ FindExecutable \/ Dispatch \/ EndTick \/ Finish

Spec == Init /\ [][Next]_vars

-----------------------------------------------------------------------------
(* What replay promises.                                                   *)

\* Compare: payments and deferred operations by id, and the virtual time.
OperationsById(res) ==
    [p \in {res.ops[n].pay : n \in DOMAIN res.ops} |->
       LET last == CHOOSE n \in DOMAIN res.ops :
                     res.ops[n].pay = p /\ \A k \in DOMAIN res.ops : k > n => res.ops[k].pay # p
       IN  res.ops[last]]
Equivalent(a, b) ==
    /\ OperationsById(a) = OperationsById(b)
    /\ a.time = b.time
    /\ a.pays = b.pays

\* Executing a stored scenario again gives an equivalent result, or the same
\* error at the same command, whatever order Go's maps are iterated in and
\* whatever was posted under its id in the meantime.
ReplaysAgree ==
    \A m, n \in DOMAIN results :
        /\ results[m].err = results[n].err
        /\ results[m].index = results[n].index
        /\ Equivalent(results[m], results[n])

Deferred(p) ==
    run # NoRun /\ promised[p] # {}

\* The scenario itself gives the payment as one that was authorized.
GivenAuthorized(p) == stored.payments[p].authorized > 0

\* A payment whose authorization the provider deferred is not authorized before
\* the earliest time it was deferred to, whether a command, a tick or a saga
\* resumes it.
DeferredWaits ==
    \A p \in PaymentIds :
        Deferred(p) /\ run.pays[p].authorized > 0 /\ ~GivenAuthorized(p) =>
            \E t \in promised[p] : t <= run.clock

\* A deferred authorization is never lost: as long as its payment is pending, a
\* job that will authorize it waits under the operation's id, even when a
\* saga and a command have deferred the same payment and share that id.
DeferredIsKept ==
    \A p \in PaymentIds :
        Deferred(p) /\ run.pays[p].status = "pending" =>
            /\ AsyncId(p) \in DOMAIN run.jobs
            /\ run.jobs[AsyncId(p)].status = "pending"
            /\ run.jobs[AsyncId(p)].type = "saga.step" => run.sagas[p].saga.step = "authorize"

\* A saga is over only when its payment shows it, also when commands of the
\* scenario changed the payment or started the saga again.
SagaMatchesPayment ==
    run # NoRun => \A p \in PaymentIds :
        LET s == run.sagas[p] IN
        /\ s.saga.status = "completed" => run.pays[p].captured >= s.money[1]
        /\ s.saga.status = "failed" => run.pays[p].status = "failed"

-----------------------------------------------------------------------------
(* The inductive invariant behind these properties.                        *)

Defers(cfg) == Outcome(cfg, "authorize") = "pending"

\* The jobs there can be for a payment, and what they and the rest of a run are.
StartId(p) == MessageId(p, NewSaga)
CaptureId(p) == MessageId(p, Capturing)
JobIds == UNION {{AsyncId(p), StartId(p), CaptureId(p)} : p \in PaymentIds}
Money == Int \X (Currencies \cup {"none"})
Jobs == [status : {"pending", "completed", "failed"}, type : {"saga.step", "provider.async"},
         step : {"authorize", "capture"}, money : Money, due : Nat]
Ops == [pay : PaymentIds, type : {"authorize"}, due : Nat]
ReplayRows == {NoSaga, NewSaga, Capturing, Completed, Rejected}

RunType(r) ==
    /\ r = [phase |-> r.phase, cfg |-> r.cfg, commands |-> r.commands, index |-> r.index,
            pays |-> r.pays, sagas |-> r.sagas, jobs |-> r.jobs, clock |-> r.clock,
            ops |-> r.ops, ticks |-> r.ticks, batch |-> r.batch, err |-> r.err]
    /\ r.phase \in {"command", "find", "dispatch", "failed"}
    /\ r.cfg.seed \in Nat
    /\ r.commands \in Seq(Commands)
    /\ \A n \in DOMAIN r.commands : ValidCommand(r.commands[n])
    /\ r.index \in Nat \ {0}
    /\ r.clock \in Nat
    /\ r.pays \in [PaymentIds -> Payments \cup {NoPayment}]
    /\ r.sagas \in [PaymentIds -> [saga : ReplayRows, money : Money]]
    /\ DOMAIN r.jobs \subseteq JobIds /\ IsFiniteSet(DOMAIN r.jobs)
    /\ \A id \in DOMAIN r.jobs : r.jobs[id] \in Jobs
    /\ r.batch \in Seq(DOMAIN r.jobs)
    /\ r.ops \in Seq(Ops)
    /\ \A n \in DOMAIN r.ops : AsyncId(r.ops[n].pay) \in DOMAIN r.jobs

\* A payment with its saga and its jobs: the saga is where the payment allows
\* it to be, a capture message carries the amount of the saga it belongs to,
\* and a deferred authorization waits for as long as it can succeed.
PaymentInv(r, p) ==
    LET y == r.pays[p]
        s == r.sagas[p].saga
    IN  /\ y = NoPayment \/ Valid(y)
        /\ s \in {Capturing, Completed} => y \in Payments /\ y.status # "pending"
        /\ s = Completed => y.captured >= r.sagas[p].money[1]
        /\ s = Rejected => y.status = "failed"
        /\ AsyncId(p) \in DOMAIN r.jobs =>
             LET j == r.jobs[AsyncId(p)] IN
             /\ Defers(r.cfg) /\ y \in Payments
             /\ j.step = "authorize"
             /\ j.type = "saga.step" => s # NoSaga
             /\ y.status = "pending" => j.status = "pending"
        /\ StartId(p) \in DOMAIN r.jobs =>
             LET j == r.jobs[StartId(p)] IN
             j.type = "saga.step" /\ j.step = "authorize" /\ s # NoSaga
        /\ CaptureId(p) \in DOMAIN r.jobs =>
             LET j == r.jobs[CaptureId(p)] IN
             /\ j.type = "saga.step" /\ j.step = "capture" /\ s # NoSaga
             /\ s = Capturing => j.money = r.sagas[p].money

Sound(r) == RunType(r) /\ \A p \in PaymentIds : PaymentInv(r, p)

\* What has been promised for a payment, and when it is being resumed.
PromiseInv(p) ==
    LET come == \E t \in promised[p] : t <= run.clock IN
    /\ promised[p] # {} => AsyncId(p) \in DOMAIN run.jobs
    /\ AsyncId(p) \in DOMAIN run.jobs => run.jobs[AsyncId(p)].due \in promised[p]
    /\ \A n \in DOMAIN run.batch : run.batch[n] = AsyncId(p) => come
    /\ Defers(run.cfg) /\ run.pays[p].authorized > 0 /\ ~GivenAuthorized(p) => come

ReplayInv ==
    /\ stored = NoScenario \/ stored \in Scenarios
    /\ run # NoRun =>
         /\ stored \in Scenarios
         /\ Sound(run)
         /\ \A p \in PaymentIds : PromiseInv(p)
    /\ promised = [p \in PaymentIds |-> promised[p]]
    /\ \A p \in PaymentIds : promised[p] \subseteq Nat
    /\ run = NoRun => \A p \in PaymentIds : promised[p] = {}
=============================================================================
