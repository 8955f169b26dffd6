------------------------------ MODULE Workflow ------------------------------
(***************************************************************************)
(* The payment workflow of a saga as functions: how an instance advances,  *)
(* which payment command a step stands for, and when a step is recognised  *)
(* as already applied.  The durable orchestrator and the replay runner     *)
(* both run it.                                                            *)
(***************************************************************************)
EXTENDS Payment, Sequences

SagaSteps == {"authorize", "capture", "refund", "cancel"}

NoSaga == [status |-> "absent", step |-> "authorize", completed |-> <<>>,
           compensation |-> <<>>, version |-> 0]
NewSaga == [NoSaga EXCEPT !.status = "running", !.version = 1]

SagaTerminal(s) == s.status \in {"completed", "failed"}
Open(s) == s.status \in {"running", "compensating"}

\* compensationFor, on the steps completed so far.
CompensationFor(completed) ==
    IF \E n \in DOMAIN completed : completed[n] = "capture" THEN <<"refund", "cancel">>
    ELSE IF \E n \in DOMAIN completed : completed[n] = "authorize" THEN <<"cancel">>
    ELSE <<>>

ApplySuccess(s) ==
    [status |-> IF s.step = "capture" THEN "completed" ELSE s.status,
     step |-> IF s.step = "authorize" THEN "capture" ELSE s.step,
     completed |-> Append(s.completed, s.step),
     compensation |-> s.compensation,
     version |-> s.version + 1]

BeginCompensation(s) ==
    LET steps == CompensationFor(s.completed) IN
    [status |-> IF steps = <<>> THEN "failed" ELSE "compensating",
     step |-> IF steps = <<>> THEN s.step ELSE Head(steps),
     completed |-> s.completed,
     compensation |-> steps,
     version |-> s.version + 1]

ApplyCompensationSuccess(s) ==
    LET rest == Tail(s.compensation) IN
    [status |-> IF rest = <<>> THEN "failed" ELSE s.status,
     step |-> IF rest = <<>> THEN s.step ELSE Head(rest),
     completed |-> s.completed,
     compensation |-> rest,
     version |-> s.version + 1]

\* Mutant of StepAlreadyApplied: a capture is never recognised.
StepAppliedUnlessCapture(p, step, amount) ==
    CASE step = "authorize" -> p.authorized = p.amount
      [] step = "cancel" -> p.status = "cancelled"
      [] OTHER -> FALSE

\* Mutant of StepAlreadyApplied: any captured amount will do.
StepAppliedInPart(p, step, amount) ==
    CASE step = "authorize" -> p.authorized = p.amount
      [] step = "capture" -> p.captured > 0
      [] step = "refund" -> p.refunded > 0
      [] step = "cancel" -> p.status = "cancelled"

\* stepAlreadyApplied: a redelivered step is recognised by the payment's state.
StepAlreadyApplied(p, step, amount) ==
    CASE step = "authorize" -> p.authorized = p.amount
      [] step = "capture" -> amount > 0 /\ p.captured >= amount
      [] step = "refund" -> amount > 0 /\ p.refunded >= amount
      [] step = "cancel" -> p.status = "cancelled"

\* The payment command of a step, and of its rejection by the provider.
CommandOf(p, step, amount, currency) ==
    LET money == MoneyError(amount, currency) IN
    CASE step = "authorize" -> Authorize(p)
      [] step = "cancel" -> Cancel(p)
      [] step = "capture" /\ money = "none" -> Capture(p, amount, currency)
      [] step = "refund" /\ money = "none" -> Refund(p, amount, currency)
      [] OTHER -> Error(money)

\* The instance Handle saves, from the one it loaded and the outcome.
Advanced(s, out) ==
    IF s.status = "compensating" THEN ApplyCompensationSuccess(s)
    ELSE IF out = "succeeded" THEN ApplySuccess(s)
    ELSE BeginCompensation(s)

-----------------------------------------------------------------------------
\* The rows a saga goes through.
SagaRow(status, step, completed, compensation, version) ==
    [status |-> status, step |-> step, completed |-> completed,
     compensation |-> compensation, version |-> version]
Capturing == SagaRow("running", "capture", <<"authorize">>, <<>>, 2)
Completed == SagaRow("completed", "capture", <<"authorize", "capture">>, <<>>, 3)
Rejected == SagaRow("failed", "authorize", <<>>, <<>>, 2)
Cancelling == SagaRow("compensating", "cancel", <<"authorize">>, <<"cancel">>, 3)
Undone == SagaRow("failed", "cancel", <<"authorize">>, <<>>, 4)
SagaRows == {NoSaga, NewSaga, Capturing, Completed, Rejected, Cancelling, Undone}
=============================================================================
