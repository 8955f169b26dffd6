-------------------------------- MODULE Saga --------------------------------
(***************************************************************************)
(* The payment saga: the orchestrator that advances a persisted workflow   *)
(* one message at a time, the executor that runs a step against provider   *)
(* and payment, and the scheduler jobs that carry the messages.            *)
(*                                                                         *)
(* Saga row, payment and jobs are written by separate statements, so the   *)
(* worker may die between any two of them; the job it was running is then  *)
(* taken up again until its attempts are spent.  Payment commands of HTTP  *)
(* clients interleave with the worker.  One saga, on one payment.          *)
(***************************************************************************)
EXTENDS Workflow

CONSTANTS
    Amount,          \* the payment's amount
    CaptureAmount,   \* the amount in the saga's payload
    Currency,        \* the currency of both
    Outcomes,        \* outcomes a provider may give to a step
    AsyncOutcomes,   \* outcomes it may give to a step's asynchronous operation
    ClientAmounts,   \* amounts HTTP clients capture and refund; {} for no clients
    MaxAttempts,     \* attempt budget of a job
    MaxErrors,       \* bound on errors of provider and statements
    MaxCrashes       \* bound on crashes of the worker

Results == {"succeeded", "failed", "pending", "error"}

ASSUME SagaAssumption ==
    /\ Amount \in Nat \ {0}
    /\ CaptureAmount \in 1..Amount
    /\ Currency \in Currencies
    /\ Outcomes \in [SagaSteps -> SUBSET Results]
    /\ AsyncOutcomes \in [SagaSteps -> SUBSET Results]
    /\ ClientAmounts \subseteq Nat
    /\ MaxAttempts \in Nat \ {0}
    /\ MaxErrors \in Nat
    /\ MaxCrashes \in Nat

VARIABLES
    pay,      \* the payment row
    saga,     \* the saga_instances row, or NoSaga
    jobs,     \* scheduler jobs by message id: status and attempts
    starter,  \* progress of the call that starts the saga
    work,     \* what the worker is doing, or Idle
    captures, \* history: captures the saga itself applied
    errors,   \* history: errors of providers and statements so far
    crashes,  \* history: crashes so far
    lost      \* history: a saved step's message was not published

vars == <<pay, saga, jobs, starter, work, captures, errors, crashes, lost>>

-----------------------------------------------------------------------------
\* Message ids: saga, step and version, or the id of an asynchronous operation.
\* Providers choose the latter; here it is one id per deferred step.
MaxVersion == 5
Messages == [step : SagaSteps, version : 1..MaxVersion, async : {FALSE}]
            \cup [step : SagaSteps, version : {0}, async : {TRUE}]
MessageOf(s) == [step |-> s.step, version |-> s.version, async |-> FALSE]
AsyncMessage(step) == [step |-> step, version |-> 0, async |-> TRUE]

NoJob == [status |-> "absent", attempts |-> 0]
NewJob == [status |-> "pending", attempts |-> 0]
Idle == [pc |-> "idle", msg |-> AsyncMessage("authorize"), saga |-> NoSaga, out |-> "none"]

\* The amount the executor decodes: an asynchronous operation carries none.
Input(m) == IF m.async THEN 0 ELSE CaptureAmount
InputCurrency(m) == IF m.async THEN "none" ELSE Currency

-----------------------------------------------------------------------------
Init ==
    /\ pay = New(Amount, Currency).pay
    /\ saga = NoSaga
    /\ jobs = [m \in Messages |-> NoJob]
    /\ starter = "ready"
    /\ work = Idle
    /\ captures = 0
    /\ errors = 0
    /\ crashes = 0
    /\ lost = FALSE

\* Publisher.Publish saves a new job: it replaces one that never ran, is
\* dropped when that one has completed, and is refused while it is at work.
PublishRefused(m) == jobs[m].attempts > 0 /\ jobs[m].status # "completed"
Published(m) == IF jobs[m].attempts = 0 THEN [jobs EXCEPT ![m] = NewJob] ELSE jobs

\* StartWithPayload saves the saga, then publishes its first message.
StartSaga ==
    /\ starter = "ready"
    /\ saga = NoSaga
    /\ saga' = NewSaga
    /\ starter' = "saved"
    /\ UNCHANGED <<pay, jobs, work, captures, errors, crashes, lost>>

StartPublishes ==
    /\ starter = "saved"
    /\ jobs' = Published(MessageOf(NewSaga))
    /\ starter' = "done"
    /\ UNCHANGED <<pay, saga, work, captures, errors, crashes, lost>>

\* The worker starts an attempt of a due job, or gives a spent one up.
Take(m) ==
    /\ work.pc = "idle"
    /\ jobs[m].status = "pending"
    /\ \/ /\ jobs[m].attempts < MaxAttempts
          /\ jobs' = [jobs EXCEPT ![m] = [status |-> "running", attempts |-> @.attempts + 1]]
          /\ work' = [Idle EXCEPT !.pc = "taken", !.msg = m]
       \/ /\ jobs[m].attempts = MaxAttempts
          /\ jobs' = [jobs EXCEPT ![m].status = "exhausted"]
          /\ UNCHANGED work
    /\ UNCHANGED <<pay, saga, starter, captures, errors, crashes, lost>>

\* The worker goes to `pc' and nothing else happens.
Goto(pc) ==
    /\ work' = [work EXCEPT !.pc = pc]
    /\ UNCHANGED <<pay, saga, jobs, starter, captures, errors, crashes, lost>>

Decide(out) ==
    /\ work' = [work EXCEPT !.pc = "decided", !.out = out]
    /\ UNCHANGED <<saga, jobs, starter, errors, crashes, lost>>

\* Mutant of FindSaga: a saga that is over is executed again.
FindSagaEvenOver ==
    /\ work.pc = "taken"
    /\ \/ saga.step # work.msg.step /\ Goto("handled")
       \/ /\ saga.step = work.msg.step
          /\ work' = [work EXCEPT !.pc = "loaded", !.saga = saga]
          /\ UNCHANGED <<pay, saga, jobs, starter, captures, errors, crashes, lost>>

\* Handle reads the saga: a message of another step is acknowledged unexecuted.
FindSaga ==
    /\ work.pc = "taken"
    /\ \/ /\ SagaTerminal(saga) \/ saga.step # work.msg.step
          /\ Goto("handled")
       \/ /\ ~SagaTerminal(saga) /\ saga.step = work.msg.step
          /\ work' = [work EXCEPT !.pc = "loaded", !.saga = saga]
          /\ UNCHANGED <<pay, saga, jobs, starter, captures, errors, crashes, lost>>

\* The executor reads the payment ...
FindPayment ==
    /\ work.pc = "loaded"
    /\ \/ /\ StepAlreadyApplied(pay, work.msg.step, Input(work.msg))
          /\ Decide("succeeded")
          /\ UNCHANGED <<pay, captures>>
       \/ /\ ~StepAlreadyApplied(pay, work.msg.step, Input(work.msg))
          /\ Goto("asking")

\* ... asks the provider ...
AskProvider ==
    /\ work.pc = "asking"
    /\ \E out \in IF work.msg.async THEN AsyncOutcomes[work.msg.step]
                                    ELSE Outcomes[work.msg.step] :
         \/ /\ out = "error" /\ errors < MaxErrors
            /\ errors' = errors + 1
            /\ work' = [work EXCEPT !.pc = "failed"]
            /\ UNCHANGED <<pay, saga, jobs, starter, captures, crashes, lost>>
         \/ out = "pending" /\ Goto("pending")
         \/ out = "succeeded" /\ Goto("applying")
         \/ out = "failed" /\ work.msg.step = "authorize" /\ Goto("rejecting")
         \/ /\ out = "failed" /\ work.msg.step # "authorize"
            /\ Decide("failed")
            /\ UNCHANGED <<pay, captures>>

\* ... and runs the step's payment command, in a transaction of its own.
ApplyCommand ==
    /\ work.pc = "applying"
    /\ LET r == CommandOf(pay, work.msg.step, Input(work.msg), InputCurrency(work.msg)) IN
       \/ /\ r.err = "none"
          /\ pay' = r.pay
          /\ captures' = captures + (IF work.msg.step = "capture" THEN 1 ELSE 0)
          /\ Decide("succeeded")
       \/ /\ r.err # "none"
          /\ Goto("failed")

\* Mutant of FailPayment: the rejection is not applied to the payment.
FailPaymentSkipped ==
    /\ work.pc = "rejecting"
    /\ Decide("failed")
    /\ UNCHANGED <<pay, captures>>

\* A rejected authorization fails the payment first.
FailPayment ==
    /\ work.pc = "rejecting"
    /\ \/ /\ Fail(pay).err = "none"
          /\ pay' = Fail(pay).pay
          /\ Decide("failed")
          /\ UNCHANGED captures
       \/ /\ Fail(pay).err # "none"
          /\ Goto("failed")

\* Handle publishes the operation a pending outcome came with.
PublishAsync ==
    /\ work.pc = "pending"
    /\ \/ /\ PublishRefused(AsyncMessage(work.msg.step))
          /\ Goto("failed")
       \/ /\ ~PublishRefused(AsyncMessage(work.msg.step))
          /\ jobs' = Published(AsyncMessage(work.msg.step))
          /\ work' = [work EXCEPT !.pc = "handled"]
          /\ UNCHANGED <<pay, saga, starter, captures, errors, crashes, lost>>

\* Handle saves the saga behind its version, unless a compensation failed ...
SaveSaga ==
    /\ work.pc = "decided"
    /\ LET s == Advanced(work.saga, work.out)
           saved == /\ ~(work.saga.status = "compensating" /\ work.out = "failed")
                    /\ saga.version = s.version - 1
       IN  /\ saga' = IF saved THEN s ELSE saga
           /\ work' = [work EXCEPT !.saga = s,
                          !.pc = IF ~saved THEN "failed"
                                 ELSE IF Open(s) THEN "publish" ELSE "handled"]
    /\ UNCHANGED <<pay, jobs, starter, captures, errors, crashes, lost>>

\* Mutant of PublishCurrent: the next message is forgotten.
PublishNothing == work.pc = "publish" /\ Goto("handled")

\* ... and publishes the message of the step that is now current.
PublishCurrent ==
    /\ work.pc = "publish"
    /\ LET m == MessageOf(work.saga) IN
       /\ jobs' = Published(m)
       /\ work' = [work EXCEPT !.pc = IF PublishRefused(m) THEN "failed" ELSE "handled"]
    /\ UNCHANGED <<pay, saga, starter, captures, errors, crashes, lost>>

\* The worker stores what became of the attempt.
FinishJob ==
    /\ work.pc \in {"handled", "failed"}
    /\ jobs' = [jobs EXCEPT ![work.msg].status =
                  IF work.pc = "handled" THEN "completed"
                  ELSE IF jobs[work.msg].attempts < MaxAttempts
                  THEN "pending" ELSE "exhausted"]
    /\ work' = Idle
    /\ UNCHANGED <<pay, saga, starter, captures, errors, crashes, lost>>

\* The process dies; the lease of the job it was running expires and the job
\* is due again.  A call that was starting the saga is not repeated.
Crash ==
    /\ crashes < MaxCrashes
    /\ work.pc # "idle" \/ starter = "saved"
    /\ crashes' = crashes + 1
    /\ jobs' = [jobs EXCEPT ![work.msg].status = IF work.pc = "idle" THEN @ ELSE "pending"]
    /\ starter' = IF starter = "saved" THEN "done" ELSE starter
    /\ work' = Idle
    /\ lost' = (lost \/ work.pc = "publish" \/ starter = "saved")
    /\ UNCHANGED <<pay, saga, captures, errors>>

\* A statement of the database fails, or its context has been cancelled: the
\* attempt fails, or its outcome is not stored and its lease runs out, or the
\* call that saved the new saga returns an error.
StatementFails ==
    /\ errors < MaxErrors
    /\ errors' = errors + 1
    /\ \/ /\ work.pc \in {"taken", "loaded", "applying", "rejecting", "pending",
                          "decided", "publish"}
          /\ work' = [work EXCEPT !.pc = "failed"]
          /\ lost' = (lost \/ work.pc = "publish")
          /\ UNCHANGED <<jobs, starter>>
       \/ /\ work.pc \in {"handled", "failed"}
          /\ jobs' = [jobs EXCEPT ![work.msg].status = "pending"]
          /\ work' = Idle
          /\ UNCHANGED <<starter, lost>>
       \/ /\ starter = "saved"
          /\ starter' = "done"
          /\ lost' = TRUE
          /\ UNCHANGED <<jobs, work>>
    /\ UNCHANGED <<pay, saga, captures, crashes>>

\* A payment command of an HTTP client, in its own transaction.
Client(r) ==
    /\ ClientAmounts # {}
    /\ r.err = "none"
    /\ pay' = r.pay
    /\ UNCHANGED <<saga, jobs, starter, work, captures, errors, crashes, lost>>

ClientCaptures == \E a \in ClientAmounts : Client(Capture(pay, a, Currency))
ClientRefunds == \E a \in ClientAmounts : Client(Refund(pay, a, Currency))

WorkerStep ==
    \/ \E m \in Messages : Take(m)
    \/ FindSaga \/ FindPayment \/ AskProvider \/ ApplyCommand \/ FailPayment
    \/ PublishAsync \/ SaveSaga \/ PublishCurrent \/ FinishJob

Next ==
    \/ StartSaga \/ StartPublishes
    \/ WorkerStep
    \/ Crash \/ StatementFails
    \/ Client(Authorize(pay)) \/ Client(Cancel(pay)) \/ ClientCaptures \/ ClientRefunds

Spec == Init /\ [][Next]_vars

\* The worker keeps taking due jobs and running them, and the call that started
\* the saga goes on.  A job's retries and asynchronous operations are due in
\* virtual time, so this assumes an administrator who keeps advancing it.
FairSpec == Spec /\ WF_vars(WorkerStep) /\ WF_vars(StartPublishes)

-----------------------------------------------------------------------------
(* What the saga promises.                                                 *)

\* A saga is over only when the payment shows it: completed with its amount
\* captured, or failed with the payment failed or its authorization undone.
OutcomeMatchesPayment ==
    /\ saga.status = "completed" => pay.captured >= CaptureAmount
    /\ saga.status = "failed" => pay.status \in {"failed", "cancelled"}

\* However often its messages are delivered, the saga captures once at most,
\* and never before its authorization step has been recorded.
SagaCapturesOnce ==
    /\ captures <= 1
    /\ captures > 0 => \E n \in DOMAIN saga.completed : saga.completed[n] = "authorize"

\* A saga row moves by one version at a time and is final once it is over.
SagaMovesForward ==
    [][saga' # saga => ~SagaTerminal(saga) /\ saga'.version = saga.version + 1]_vars

\* Whatever fails, a saga that was started ends, or one of its jobs is given up
\* for an operator to see.  One interruption stalls it unnoticed: a crash or an
\* error after the saga is saved and before its next message is published, as
\* the retry finds another step current and acknowledges its message.
SagaSettles ==
    saga.status = "running" ~>
        SagaTerminal(saga) \/ lost \/ \E m \in Messages : jobs[m].status = "exhausted"

\* When nothing is being executed, the current step of an unfinished saga has
\* a job waiting: the job was created together with the state that needs it.
NextStepIsScheduled ==
    Open(saga) /\ work = Idle /\ starter = "done" =>
        \E m \in Messages : m.step = saga.step /\ jobs[m].status = "pending"

\* Redelivering the message of a rejected authorization ends the saga.
FailedPaymentEndsSaga == pay.status = "failed" ~> SagaTerminal(saga)

-----------------------------------------------------------------------------
(* The inductive invariant behind the safety properties.                   *)

\* Where the worker is when it holds an unfinished saga.
Holding == {"loaded", "asking", "applying", "rejecting", "pending", "decided"}
WorkShape == [pc : Holding \cup {"idle", "taken", "publish", "handled", "failed"},
              msg : Messages, saga : SagaRows, out : {"none", "succeeded", "failed"}]

\* The worker's copy of the saga is the row, and what it has decided already
\* shows in the payment.
WorkInv ==
    /\ work \in WorkShape
    /\ work.pc \in Holding =>
         work.saga = saga /\ ~SagaTerminal(saga) /\ saga.step = work.msg.step
    /\ work.pc = "rejecting" => work.msg.step = "authorize"
    /\ work.pc \in {"asking", "applying"} /\ work.msg.step = "capture" /\ ~work.msg.async =>
         captures = 0
    /\ work.pc = "decided" => work.out \in {"succeeded", "failed"}
    /\ work.pc = "decided" /\ work.out = "succeeded" =>
         /\ work.msg.step = "capture" => pay.captured >= CaptureAmount
         /\ work.msg.step = "cancel" => pay.status = "cancelled"
    /\ work.pc = "decided" /\ work.out = "failed" /\ work.msg.step = "authorize" =>
         pay.status = "failed"

SagaInv ==
    /\ pay \in Payments /\ Valid(pay)
    /\ saga \in SagaRows
    /\ saga = NoSaga =>
         starter = "ready" /\ work.pc = "idle" /\ \A m \in Messages : jobs[m].status = "absent"
    /\ captures \in {0, 1}
    /\ captures = 1 =>
         pay.captured >= CaptureAmount /\ saga \in {Capturing, Completed, Cancelling, Undone}
    /\ OutcomeMatchesPayment
    /\ WorkInv
=============================================================================
