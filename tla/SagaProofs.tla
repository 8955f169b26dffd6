----------------------------- MODULE SagaProofs -----------------------------
(***************************************************************************)
(* The safety of the saga: for any provider, any amounts, any number of    *)
(* attempts and crashes, and any clients on the same payment.              *)
(***************************************************************************)
EXTENDS Saga, PaymentLemmas

-----------------------------------------------------------------------------
(* The payment commands of the saga's messages.                            *)

\* A step's command keeps the payment valid and moves it forward; a capture
\* captures the saga's amount and only the message of the step itself does it.
LEMMA StepCommand ==
    ASSUME NEW p \in Payments, Valid(p), NEW m \in Messages,
           m.step \in {"authorize", "capture", "cancel"},
           CommandOf(p, m.step, Input(m), InputCurrency(m)).err = "none"
    PROVE  LET n == CommandOf(p, m.step, Input(m), InputCurrency(m)).pay
           IN  /\ n \in Payments /\ Valid(n) /\ Forward(p, n)
               /\ m.step = "capture" => ~m.async /\ n.captured >= CaptureAmount
               /\ m.step = "cancel" => n.status = "cancelled"
<1> DEFINE a == Input(m)
           c == InputCurrency(m)
           r == CommandOf(p, m.step, a, c)
<1>1. a \in Int /\ CaptureAmount \in Nat
  BY SagaAssumption DEF Input
<1>2. CASE m.step = "authorize"
  <2>1. r = Authorize(p)
    BY <1>2 DEF CommandOf
  <2> QED
    BY <1>2, <2>1, AuthorizeKeepsValid
<1>3. CASE m.step = "cancel"
  <2>1. r = Cancel(p)
    BY <1>3 DEF CommandOf
  <2> QED
    BY <1>1, <1>3, <2>1, CancelKeepsValid, CommandEffects
<1>4. CASE m.step = "capture"
  <2>1. r = Capture(p, a, c)
    BY <1>4 DEF CommandOf, Error
  <2>2. r.pay \in Payments /\ Valid(r.pay) /\ Forward(p, r.pay)
    BY <1>1, <2>1, CaptureKeepsValid
  <2>3. a > 0 /\ r.pay.captured = p.captured + a
    BY <1>1, <2>1, CommandEffects
  <2>4. ~m.async /\ a = CaptureAmount
    BY <2>3 DEF Input
  <2>5. p.captured \in Int /\ p.captured >= 0
    BY DEF Payments, Valid
  <2>6. r.pay.captured >= CaptureAmount
    BY <1>1, <2>3, <2>4, <2>5
  <2> HIDE DEF r
  <2> QED
    BY <1>4, <2>2, <2>4, <2>6 DEF r
<1> QED
  BY <1>2, <1>3, <1>4

-----------------------------------------------------------------------------
(* The steps keep the invariant.                                           *)

\* The worker only ever works on a saga that was started, and what it holds is
\* one of the unfinished rows.
LEMMA HeldRow ==
    ASSUME SagaInv, work.pc \in Holding
    PROVE  /\ saga \in {NewSaga, Capturing, Cancelling} /\ work.saga = saga
           /\ work.msg \in Messages
           /\ work.msg.step = saga.step
           /\ work.msg.step \in {"authorize", "capture", "cancel"}
           /\ (work.msg.step = "authorize") <=> (saga = NewSaga)
           /\ (work.msg.step = "capture") <=> (saga = Capturing)
           /\ (work.msg.step = "cancel") <=> (saga = Cancelling)
<1>1. work.saga = saga /\ ~SagaTerminal(saga) /\ saga.step = work.msg.step /\ work.msg \in Messages
  BY DEF SagaInv, WorkInv, WorkShape
<1>2. saga \in SagaRows /\ saga # NoSaga
  BY DEF SagaInv, Holding
<1>3. saga \in {NewSaga, Capturing, Cancelling}
  BY <1>1, <1>2, UnfinishedRows
<1> QED
  BY <1>1, <1>3, RowFacts

\* The worker's record after a change of its fields.
LEMMA WorkFields ==
    ASSUME work \in WorkShape, NEW pc, NEW out
    PROVE  /\ work' = [work EXCEPT !.pc = pc] =>
                /\ work'.pc = pc /\ work'.msg = work.msg /\ work'.saga = work.saga
                /\ work'.out = work.out
                /\ pc \in Holding \cup {"publish", "handled", "failed"} => work' \in WorkShape
           /\ work' = [work EXCEPT !.pc = pc, !.out = out] =>
                /\ work'.pc = pc /\ work'.msg = work.msg /\ work'.saga = work.saga
                /\ work'.out = out
                /\ pc \in Holding /\ out \in {"succeeded", "failed"} => work' \in WorkShape
BY DEF WorkShape

\* A valid payment that moves forward keeps what the saga relies on: captured
\* amounts never shrink, and failed and cancelled payments never change.
LEMMA PaymentMoves ==
    ASSUME SagaInv, pay' \in Payments, Valid(pay'), Forward(pay, pay'),
           UNCHANGED <<saga, jobs, starter, work, captures>>
    PROVE  SagaInv'
<1>1. /\ pay.captured \in Int /\ pay'.captured \in Int /\ pay.captured <= pay'.captured
      /\ pay.status \notin {"failed", "cancelled"}
      /\ CaptureAmount \in Int
  BY SagaAssumption DEF SagaInv, Forward, Payments, TerminalStatuses
<1>2. pay.captured >= CaptureAmount => pay'.captured >= CaptureAmount
  BY <1>1
<1>3. OutcomeMatchesPayment'
  BY <1>1, <1>2 DEF SagaInv, OutcomeMatchesPayment
<1>4. WorkInv'
  BY <1>1, <1>2 DEF SagaInv, WorkInv
<1> QED
  BY <1>2, <1>3, <1>4 DEF SagaInv

\* The worker moves on to a place where nothing is asked of it.
LEMMA GotoKeeps ==
    ASSUME SagaInv, work.pc # "idle", NEW pc \in {"handled", "failed", "pending"}, Goto(pc),
           pc = "pending" => work.pc \in Holding
    PROVE  SagaInv'
<1>1. /\ work' = [work EXCEPT !.pc = pc]
      /\ UNCHANGED <<pay, saga, jobs, starter, captures>>
  BY DEF Goto
<1>2. work'.pc = pc /\ work'.msg = work.msg /\ work'.saga = work.saga /\ work' \in WorkShape
  BY <1>1, WorkFields DEF SagaInv, WorkInv, Holding
<1>3. WorkInv'
  BY <1>1, <1>2 DEF SagaInv, WorkInv, Holding
<1>4. saga # NoSaga
  BY DEF SagaInv
<1> QED
  BY <1>1, <1>3, <1>4 DEF SagaInv, OutcomeMatchesPayment

\* The worker decides without touching the payment.
LEMMA DecideKeeps ==
    ASSUME SagaInv, work.pc \in Holding, NEW out \in {"succeeded", "failed"}, Decide(out),
           UNCHANGED <<pay, captures>>,
           out = "succeeded" /\ work.msg.step = "capture" => pay.captured >= CaptureAmount,
           out = "succeeded" /\ work.msg.step = "cancel" => pay.status = "cancelled",
           out = "failed" => work.msg.step # "authorize"
    PROVE  SagaInv'
<1>1. /\ work' = [work EXCEPT !.pc = "decided", !.out = out]
      /\ UNCHANGED <<pay, saga, jobs, starter, captures>>
  BY DEF Decide
<1>2. /\ work'.pc = "decided" /\ work'.msg = work.msg /\ work'.saga = work.saga
      /\ work'.out = out /\ work' \in WorkShape
  BY <1>1, WorkFields DEF SagaInv, WorkInv, Holding
<1>3. WorkInv'
  BY <1>1, <1>2 DEF SagaInv, WorkInv, Holding
<1>4. saga # NoSaga
  BY DEF SagaInv, Holding
<1> QED
  BY <1>1, <1>3, <1>4 DEF SagaInv, OutcomeMatchesPayment

\* FindSaga: the worker's copy is the row it has just read.
LEMMA FindSagaKeeps == ASSUME SagaInv, FindSaga PROVE SagaInv'
<1>1. work.pc = "taken" /\ saga # NoSaga /\ work \in WorkShape
  BY DEF FindSaga, SagaInv, WorkInv
<1>2. CASE Goto("handled")
  BY <1>1, <1>2, GotoKeeps
<1>3. CASE /\ ~SagaTerminal(saga) /\ saga.step = work.msg.step
           /\ work' = [work EXCEPT !.pc = "loaded", !.saga = saga]
           /\ UNCHANGED <<pay, saga, jobs, starter, captures>>
  <2>1. saga \in SagaRows
    BY DEF SagaInv
  <2>2. work'.pc = "loaded" /\ work'.msg = work.msg /\ work'.saga = saga /\ work' \in WorkShape
    BY <1>1, <1>3, <2>1 DEF WorkShape, Holding
  <2>3. WorkInv'
    BY <1>3, <2>2 DEF WorkInv
  <2> QED
    BY <1>1, <1>3, <2>3 DEF SagaInv, OutcomeMatchesPayment
<1> QED
  BY <1>2, <1>3 DEF FindSaga

\* FindPayment: a step that shows in the payment is not asked for again, so a
\* capture that is asked for has not been applied.
LEMMA FindPaymentKeeps == ASSUME SagaInv, FindPayment PROVE SagaInv'
<1>1. work.pc = "loaded" /\ work.pc \in Holding /\ saga # NoSaga /\ work \in WorkShape
  BY DEF FindPayment, SagaInv, WorkInv, Holding
<1>2. CaptureAmount \in Nat /\ CaptureAmount > 0
  BY SagaAssumption
<1>3. CASE /\ StepAlreadyApplied(pay, work.msg.step, Input(work.msg))
           /\ Decide("succeeded") /\ UNCHANGED <<pay, captures>>
  <2>1. work.msg.step = "capture" => pay.captured >= CaptureAmount
    BY <1>2, <1>3 DEF StepAlreadyApplied, Input
  <2>2. work.msg.step = "cancel" => pay.status = "cancelled"
    BY <1>3 DEF StepAlreadyApplied
  <2> QED
    BY <1>1, <1>3, <2>1, <2>2, DecideKeeps
<1>4. CASE ~StepAlreadyApplied(pay, work.msg.step, Input(work.msg)) /\ Goto("asking")
  <2>1. work.msg.step = "capture" /\ ~work.msg.async => captures = 0
    BY <1>2, <1>4 DEF StepAlreadyApplied, Input, SagaInv
  <2>2. work' = [work EXCEPT !.pc = "asking"] /\ UNCHANGED <<pay, saga, jobs, starter, captures>>
    BY <1>4 DEF Goto
  <2>3. work'.pc = "asking" /\ work'.msg = work.msg /\ work'.saga = work.saga /\ work' \in WorkShape
    BY <1>1, <2>2, WorkFields DEF Holding
  <2>4. WorkInv'
    BY <1>1, <2>1, <2>2, <2>3 DEF SagaInv, WorkInv
  <2> QED
    BY <1>1, <2>2, <2>4 DEF SagaInv, OutcomeMatchesPayment
<1> QED
  BY <1>3, <1>4 DEF FindPayment

\* AskProvider: every answer, at every step.
LEMMA AskProviderKeeps == ASSUME SagaInv, AskProvider PROVE SagaInv'
<1>1. work.pc = "asking" /\ work.pc \in Holding /\ saga # NoSaga /\ work \in WorkShape
  BY DEF AskProvider, SagaInv, WorkInv, Holding
<1>2. CASE work' = [work EXCEPT !.pc = "failed"] /\ UNCHANGED <<pay, saga, jobs, starter, captures>>
  <2>1. work'.pc = "failed" /\ work' \in WorkShape
    BY <1>1, <1>2, WorkFields
  <2>2. WorkInv'
    BY <2>1 DEF WorkInv, Holding
  <2> QED
    BY <1>1, <1>2, <2>2 DEF SagaInv, OutcomeMatchesPayment
<1>3. CASE Goto("pending")
  BY <1>1, <1>3, GotoKeeps
<1>4. ASSUME NEW pc \in {"applying", "rejecting"}, Goto(pc),
             pc = "rejecting" => work.msg.step = "authorize"
      PROVE  SagaInv'
  <2>1. work' = [work EXCEPT !.pc = pc] /\ UNCHANGED <<pay, saga, jobs, starter, captures>>
    BY <1>4 DEF Goto
  <2>2. work'.pc = pc /\ work'.msg = work.msg /\ work'.saga = work.saga /\ work' \in WorkShape
    BY <1>1, <2>1, WorkFields DEF Holding
  <2>3. WorkInv'
    BY <1>1, <1>4, <2>1, <2>2 DEF SagaInv, WorkInv
  <2> QED
    BY <1>1, <2>1, <2>3 DEF SagaInv, OutcomeMatchesPayment
<1>5. CASE work.msg.step # "authorize" /\ Decide("failed") /\ UNCHANGED <<pay, captures>>
  BY <1>1, <1>5, DecideKeeps
<1> QED
  BY <1>2, <1>3, <1>4, <1>5 DEF AskProvider

\* ApplyCommand: the payment shows the step that was decided, and a capture is
\* the saga's first.
LEMMA ApplyCommandKeeps == ASSUME SagaInv, ApplyCommand PROVE SagaInv'
<1> DEFINE m == work.msg
           r == CommandOf(pay, m.step, Input(m), InputCurrency(m))
<1>1. work.pc = "applying" /\ work.pc \in Holding /\ saga # NoSaga /\ work \in WorkShape
  BY DEF ApplyCommand, SagaInv, WorkInv, Holding
<1>2. CASE Goto("failed")
  BY <1>1, <1>2, GotoKeeps
<1>3. CASE /\ r.err = "none" /\ pay' = r.pay
           /\ captures' = captures + (IF m.step = "capture" THEN 1 ELSE 0)
           /\ Decide("succeeded")
  <2>1. m \in Messages /\ m.step \in {"authorize", "capture", "cancel"}
        /\ (m.step = "capture" <=> saga = Capturing)
    BY <1>1, HeldRow
  <2>2. /\ pay' \in Payments /\ Valid(pay') /\ Forward(pay, pay')
        /\ m.step = "capture" => ~m.async /\ pay'.captured >= CaptureAmount
        /\ m.step = "cancel" => pay'.status = "cancelled"
    BY <1>3, <2>1, StepCommand DEF SagaInv
  <2>3. m.step = "capture" => captures = 0 /\ captures' = 1
    BY <1>1, <1>3, <2>2 DEF SagaInv, WorkInv
  <2>4. m.step # "capture" => captures' = captures
    BY <1>3 DEF SagaInv
  <2>5. work' = [work EXCEPT !.pc = "decided", !.out = "succeeded"]
        /\ UNCHANGED <<saga, jobs, starter>>
    BY <1>3 DEF Decide
  <2>6. /\ work'.pc = "decided" /\ work'.msg = m /\ work'.saga = work.saga
        /\ work'.out = "succeeded" /\ work' \in WorkShape
    BY <1>1, <2>5, WorkFields DEF Holding
  <2>7. /\ pay.captured \in Int /\ pay'.captured \in Int /\ pay.captured <= pay'.captured
        /\ pay.status \notin {"failed", "cancelled"} /\ CaptureAmount \in Int
    BY <2>2, SagaAssumption DEF SagaInv, Forward, Payments, TerminalStatuses
  <2>8. WorkInv'
    BY <1>1, <2>2, <2>5, <2>6 DEF SagaInv, WorkInv
  <2>9. OutcomeMatchesPayment'
    BY <2>5, <2>7 DEF SagaInv, OutcomeMatchesPayment
  <2>10. captures' \in {0, 1}
    BY <2>3, <2>4 DEF SagaInv
  <2>11. captures' = 1 => pay'.captured >= CaptureAmount
                          /\ saga' \in {Capturing, Completed, Cancelling, Undone}
    BY <2>1, <2>2, <2>3, <2>4, <2>5, <2>7 DEF SagaInv
  <2> QED
    BY <1>1, <2>2, <2>5, <2>8, <2>9, <2>10, <2>11 DEF SagaInv
<1> QED
  BY <1>2, <1>3 DEF ApplyCommand

\* FailPayment: the rejection of an authorization is in the payment before the
\* saga knows of it.
LEMMA FailPaymentKeeps == ASSUME SagaInv, FailPayment PROVE SagaInv'
<1>1. /\ work.pc = "rejecting" /\ work.pc \in Holding /\ saga # NoSaga /\ work \in WorkShape
      /\ work.msg.step = "authorize"
  BY DEF FailPayment, SagaInv, WorkInv, Holding
<1>2. CASE Goto("failed")
  BY <1>1, <1>2, GotoKeeps
<1>3. CASE Fail(pay).err = "none" /\ pay' = Fail(pay).pay /\ Decide("failed") /\ UNCHANGED captures
  <2>1. pay' \in Payments /\ Valid(pay') /\ Forward(pay, pay')
    BY <1>3, FailKeepsValid DEF SagaInv
  <2>2. pay'.status = "failed"
    <3>1. 0 \in Int /\ pay \in Payments
      BY DEF SagaInv
    <3> QED
      BY <1>3, <3>1, CommandEffects
  <2>3. work' = [work EXCEPT !.pc = "decided", !.out = "failed"] /\ UNCHANGED <<saga, jobs, starter>>
    BY <1>3 DEF Decide
  <2>4. /\ work'.pc = "decided" /\ work'.msg = work.msg /\ work'.saga = work.saga
        /\ work'.out = "failed" /\ work' \in WorkShape
    BY <1>1, <2>3, WorkFields DEF Holding
  <2>5. /\ pay.captured \in Int /\ pay'.captured \in Int /\ pay.captured <= pay'.captured
        /\ pay.status \notin {"failed", "cancelled"} /\ CaptureAmount \in Int
    BY <2>1, SagaAssumption DEF SagaInv, Forward, Payments, TerminalStatuses
  <2>6. WorkInv'
    BY <1>1, <2>2, <2>3, <2>4 DEF SagaInv, WorkInv
  <2>7. OutcomeMatchesPayment'
    BY <2>3, <2>5 DEF SagaInv, OutcomeMatchesPayment
  <2>8. captures' = 1 => pay'.captured >= CaptureAmount
    BY <1>3, <2>5 DEF SagaInv
  <2> QED
    BY <1>1, <1>3, <2>1, <2>3, <2>6, <2>7, <2>8 DEF SagaInv
<1> QED
  BY <1>2, <1>3 DEF FailPayment

\* SaveSaga: the row moves on to what the payment already shows.
LEMMA SaveSagaKeeps ==
    ASSUME SagaInv, SaveSaga
    PROVE  SagaInv' /\ (saga' # saga => ~SagaTerminal(saga) /\ saga'.version = saga.version + 1)
<1> DEFINE s == Advanced(work.saga, work.out)
           saved == /\ ~(work.saga.status = "compensating" /\ work.out = "failed")
                    /\ saga.version = s.version - 1
           pc == IF ~saved THEN "failed" ELSE IF Open(s) THEN "publish" ELSE "handled"
<1>1. /\ work.pc = "decided" /\ work.pc \in Holding /\ work \in WorkShape
      /\ work.out \in {"succeeded", "failed"}
  BY DEF SaveSaga, SagaInv, WorkInv, Holding
<1>2. /\ saga \in {NewSaga, Capturing, Cancelling} /\ work.saga = saga
      /\ (work.msg.step = "authorize") <=> (saga = NewSaga)
      /\ (work.msg.step = "capture") <=> (saga = Capturing)
      /\ (work.msg.step = "cancel") <=> (saga = Cancelling)
  BY <1>1, HeldRow
<1>3. s = IF saga = Cancelling THEN Undone
          ELSE IF saga = NewSaga THEN (IF work.out = "succeeded" THEN Capturing ELSE Rejected)
          ELSE (IF work.out = "succeeded" THEN Completed ELSE Cancelling)
  BY <1>1, <1>2, AdvancedRows
<1>4. s \in SagaRows /\ s # NoSaga
  BY <1>3, RowFacts DEF SagaRows
<1>5. /\ saga' = (IF saved THEN s ELSE saga)
      /\ work' = [work EXCEPT !.saga = s, !.pc = pc]
      /\ UNCHANGED <<pay, jobs, starter, captures>>
  BY DEF SaveSaga
<1>6. /\ work.out = "succeeded" /\ saga = Capturing => pay.captured >= CaptureAmount
      /\ work.out = "succeeded" /\ saga = Cancelling => pay.status = "cancelled"
      /\ work.out = "failed" /\ saga = NewSaga => pay.status = "failed"
  BY <1>1, <1>2 DEF SagaInv, WorkInv
<1>7. saved /\ saga = Cancelling => work.out = "succeeded"
  BY <1>1, <1>2, RowFacts
<1>8. ~SagaTerminal(saga)
  BY <1>2, RowFacts DEF SagaTerminal
<1>9. saved => s.version = saga.version + 1
  BY <1>2, <1>3, RowFacts
<1> HIDE DEF s, saved
<1>10. work'.pc = pc /\ work' \in WorkShape
  BY <1>1, <1>4, <1>5 DEF WorkShape
<1>11. WorkInv'
  BY <1>10 DEF WorkInv, Holding
<1>12. OutcomeMatchesPayment'
  <2>1. CASE ~saved
    BY <1>5, <2>1 DEF SagaInv, OutcomeMatchesPayment
  <2>2. CASE saved
    BY <1>1, <1>2, <1>3, <1>5, <1>6, <1>7, <2>2, RowFacts DEF OutcomeMatchesPayment
  <2> QED
    BY <2>1, <2>2
<1>13. captures = 1 => saga' \in {Capturing, Completed, Cancelling, Undone}
  <2>1. captures = 1 => saga # NewSaga
    BY RowFacts DEF SagaInv
  <2> QED
    BY <1>2, <1>3, <1>5, <2>1 DEF SagaInv
<1>14. saga' \in SagaRows /\ saga' # NoSaga
  BY <1>2, <1>4, <1>5, RowFacts DEF SagaRows
<1> QED
  BY <1>5, <1>8, <1>9, <1>11, <1>12, <1>13, <1>14 DEF SagaInv

\* The worker is idle, or has just taken a message.
LEMMA UnboundWork ==
    /\ Idle.pc = "idle" /\ Idle \in WorkShape
    /\ \A m \in Messages :
         [Idle EXCEPT !.pc = "taken", !.msg = m] \in WorkShape
         /\ [Idle EXCEPT !.pc = "taken", !.msg = m].pc = "taken"
<1>1. AsyncMessage("authorize") \in Messages
  BY DEF AsyncMessage, Messages, SagaSteps
<1>2. Idle \in WorkShape /\ Idle.pc = "idle"
  BY <1>1 DEF Idle, WorkShape, SagaRows
<1> QED
  BY <1>2 DEF WorkShape

\* A worker that holds no saga asks nothing of the rest.
LEMMA WorkReleased ==
    ASSUME SagaInv, saga # NoSaga, UNCHANGED <<pay, saga, captures>>,
           work' \in WorkShape, work'.pc \notin Holding
    PROVE  SagaInv'
<1>1. WorkInv'
  BY DEF WorkInv, Holding
<1> QED
  BY <1>1 DEF SagaInv, OutcomeMatchesPayment

\* The invariant holds initially.
LEMMA InitSagaInv == Init => SagaInv
<1> SUFFICES ASSUME Init PROVE SagaInv
  OBVIOUS
<1>1. /\ pay = New(Amount, Currency).pay /\ saga = NoSaga /\ starter = "ready" /\ work = Idle
      /\ captures = 0 /\ \A m \in Messages : jobs[m].status = "absent"
  BY DEF Init, NoJob
<1>2. pay \in Payments /\ Valid(pay)
  <2>1. Amount \in Int /\ Amount > 0 /\ Currency \in Currencies
    BY SagaAssumption
  <2>2. New(Amount, Currency).err = "none"
    BY <2>1 DEF New, Ok
  <2> QED
    BY <1>1, <2>1, <2>2, NewIsValid
<1>3. WorkInv
  BY <1>1, UnboundWork DEF WorkInv, Holding
<1>4. OutcomeMatchesPayment
  BY <1>1, RowFacts DEF OutcomeMatchesPayment
<1>5. saga \in SagaRows
  BY <1>1 DEF SagaRows
<1>6. starter = "ready" /\ work.pc = "idle" /\ \A m \in Messages : jobs[m].status = "absent"
  BY <1>1, UnboundWork
<1>7. captures \in {0, 1} /\ captures # 1
  BY <1>1
<1> QED
  BY <1>2, <1>3, <1>4, <1>5, <1>6, <1>7 DEF SagaInv

\* Every step keeps the invariant and moves the saga's row forward, if at all.
LEMMA NextSagaInv ==
    ASSUME SagaInv, [Next]_vars
    PROVE  /\ SagaInv'
           /\ saga' # saga => ~SagaTerminal(saga) /\ saga'.version = saga.version + 1
<1>1. CASE StartSaga
  <2>1. /\ saga = NoSaga /\ saga' = NewSaga /\ UNCHANGED <<pay, work, captures>>
        /\ work.pc = "idle" /\ captures = 0 /\ work \in WorkShape
    BY <1>1, RowFacts DEF StartSaga, SagaInv, WorkInv
  <2>2. NewSaga # NoSaga /\ NewSaga \in SagaRows /\ ~SagaTerminal(NoSaga)
        /\ NewSaga.version = NoSaga.version + 1
    BY RowFacts DEF SagaRows, SagaTerminal
  <2>3. WorkInv'
    BY <2>1 DEF WorkInv, Holding
  <2>4. OutcomeMatchesPayment'
    BY <2>1, RowFacts DEF OutcomeMatchesPayment
  <2> QED
    BY <2>1, <2>2, <2>3, <2>4 DEF SagaInv
<1>2. CASE StartPublishes
  <2>1. saga # NoSaga /\ UNCHANGED <<pay, saga, work, captures>>
    BY <1>2 DEF StartPublishes, SagaInv
  <2>2. WorkInv'
    BY <2>1 DEF SagaInv, WorkInv
  <2> QED
    BY <2>1, <2>2 DEF SagaInv, OutcomeMatchesPayment
<1>3. ASSUME NEW m \in Messages, Take(m) PROVE SagaInv' /\ saga' = saga
  <2>1. saga # NoSaga /\ work \in WorkShape /\ work.pc = "idle"
        /\ UNCHANGED <<pay, saga, captures>>
    BY <1>3 DEF Take, SagaInv, WorkInv
  <2>2. work' = work \/ work' = [Idle EXCEPT !.pc = "taken", !.msg = m]
    BY <1>3 DEF Take
  <2>3. work' \in WorkShape /\ work'.pc \notin Holding
    BY <2>1, <2>2, UnboundWork DEF Holding
  <2> QED
    BY <2>1, <2>3, WorkReleased
<1>4. CASE FindSaga
  BY <1>4, FindSagaKeeps DEF FindSaga, Goto
<1>5. CASE FindPayment
  BY <1>5, FindPaymentKeeps DEF FindPayment, Goto, Decide
<1>6. CASE AskProvider
  BY <1>6, AskProviderKeeps DEF AskProvider, Goto, Decide
<1>7. CASE ApplyCommand
  BY <1>7, ApplyCommandKeeps DEF ApplyCommand, Goto, Decide
<1>8. CASE FailPayment
  BY <1>8, FailPaymentKeeps DEF FailPayment, Goto, Decide
<1>9. CASE PublishAsync
  <2>1. work.pc = "pending" /\ saga # NoSaga /\ work \in WorkShape
    BY <1>9 DEF PublishAsync, SagaInv, WorkInv
  <2>2. UNCHANGED <<pay, saga, captures>> /\ \E pc \in {"failed", "handled"} : work' = [work EXCEPT !.pc = pc]
    BY <1>9 DEF PublishAsync, Goto
  <2>3. work' \in WorkShape /\ work'.pc \notin Holding
    BY <2>1, <2>2, WorkFields DEF Holding
  <2> QED
    BY <2>1, <2>2, <2>3, WorkReleased
<1>10. CASE SaveSaga
  BY <1>10, SaveSagaKeeps
<1>11. CASE PublishCurrent
  <2>1. work.pc = "publish" /\ saga # NoSaga /\ work \in WorkShape
    BY <1>11 DEF PublishCurrent, SagaInv, WorkInv
  <2>2. UNCHANGED <<pay, saga, captures>> /\ \E pc \in {"failed", "handled"} : work' = [work EXCEPT !.pc = pc]
    BY <1>11 DEF PublishCurrent
  <2>3. work' \in WorkShape /\ work'.pc \notin Holding
    BY <2>1, <2>2, WorkFields DEF Holding
  <2> QED
    BY <2>1, <2>2, <2>3, WorkReleased
<1>12. CASE FinishJob \/ Crash
  <2>1. saga # NoSaga
    BY <1>12 DEF FinishJob, Crash, SagaInv
  <2>2. UNCHANGED <<pay, saga, captures>> /\ work' = Idle
    BY <1>12 DEF FinishJob, Crash
  <2> QED
    BY <2>1, <2>2, UnboundWork, WorkReleased DEF Holding
<1>13. CASE StatementFails
  <2>1. /\ saga # NoSaga /\ work \in WorkShape
        /\ UNCHANGED <<pay, saga, captures>>
    BY <1>13 DEF StatementFails, SagaInv, WorkInv
  <2>2. CASE work' = [work EXCEPT !.pc = "failed"]
    <3>1. work' \in WorkShape /\ work'.pc = "failed"
      BY <2>1, <2>2, WorkFields
    <3> QED
      BY <2>1, <3>1, WorkReleased DEF Holding
  <2>3. CASE work' = Idle
    BY <2>1, <2>3, UnboundWork, WorkReleased DEF Holding
  <2>4. CASE work' = work
    <3>1. WorkInv'
      BY <2>1, <2>4 DEF SagaInv, WorkInv
    <3> QED
      BY <2>1, <3>1 DEF SagaInv, OutcomeMatchesPayment
  <2> QED
    BY <1>13, <2>1, <2>2, <2>3, <2>4 DEF StatementFails
<1>14. ASSUME NEW r, Client(r), r.pay \in Payments, Valid(r.pay), Forward(pay, r.pay)
       PROVE  SagaInv' /\ saga' = saga
  BY <1>14, PaymentMoves DEF Client
<1>15. pay \in Payments /\ Valid(pay) /\ ClientAmounts \subseteq Int
  BY SagaAssumption DEF SagaInv
<1>16. CASE Client(Authorize(pay))
  <2>1. Authorize(pay).err = "none"
    BY <1>16 DEF Client
  <2> QED
    BY <1>14, <1>15, <1>16, <2>1, AuthorizeKeepsValid
<1>17. CASE Client(Cancel(pay))
  <2>1. Cancel(pay).err = "none"
    BY <1>17 DEF Client
  <2> QED
    BY <1>14, <1>15, <1>17, <2>1, CancelKeepsValid
<1>18. CASE ClientCaptures
  <2>1. PICK a \in ClientAmounts : Client(Capture(pay, a, Currency))
    BY <1>18 DEF ClientCaptures
  <2>2. Capture(pay, a, Currency).err = "none" /\ a \in Int
    BY <1>15, <2>1 DEF Client
  <2> QED
    BY <1>14, <1>15, <2>1, <2>2, CaptureKeepsValid
<1>19. CASE ClientRefunds
  <2>1. PICK a \in ClientAmounts : Client(Refund(pay, a, Currency))
    BY <1>19 DEF ClientRefunds
  <2>2. Refund(pay, a, Currency).err = "none" /\ a \in Int
    BY <1>15, <2>1 DEF Client
  <2> QED
    BY <1>14, <1>15, <2>1, <2>2, RefundKeepsValid
<1>20. CASE UNCHANGED vars
  BY <1>20 DEF vars, SagaInv, OutcomeMatchesPayment, WorkInv
<1> QED
  BY <1>1, <1>2, <1>3, <1>4, <1>5, <1>6, <1>7, <1>8, <1>9, <1>10, <1>11, <1>12, <1>13, <1>16,
     <1>17, <1>18, <1>19, <1>20
  DEF Next, WorkerStep

\* The invariant holds throughout.
THEOREM SagaInvariance == Spec => []SagaInv
<1>1. SagaInv /\ [Next]_vars => SagaInv'
  BY NextSagaInv
<1> QED
  BY <1>1, InitSagaInv, PTL DEF Spec

\* For any provider, any crashes and any clients on the same payment, a saga is
\* over only when the payment shows it.
THEOREM OutcomeIsInPayment == Spec => []OutcomeMatchesPayment
<1>1. SagaInv => OutcomeMatchesPayment
  BY DEF SagaInv
<1> QED
  BY <1>1, SagaInvariance, PTL

\* However often a message is delivered, the saga captures once at most, and
\* only after its authorization step was recorded.
THEOREM CapturesOnce == Spec => []SagaCapturesOnce
<1>1. \A s \in {Capturing, Completed, Cancelling, Undone} :
        \E n \in DOMAIN s.completed : s.completed[n] = "authorize"
  <2>1. /\ Capturing.completed = <<"authorize">> /\ Cancelling.completed = <<"authorize">>
        /\ Undone.completed = <<"authorize">>
    BY Fields DEF Capturing, Cancelling, Undone
  <2>2. Completed.completed = <<"authorize", "capture">>
    BY Fields DEF Completed
  <2>3. 1 \in DOMAIN <<"authorize">> /\ <<"authorize">>[1] = "authorize"
    OBVIOUS
  <2>4. 1 \in DOMAIN <<"authorize", "capture">> /\ <<"authorize", "capture">>[1] = "authorize"
    OBVIOUS
  <2> QED
    BY <2>1, <2>2, <2>3, <2>4
<1>2. SagaInv => SagaCapturesOnce
  BY <1>1 DEF SagaInv, SagaCapturesOnce
<1> QED
  BY <1>2, SagaInvariance, PTL

\* A saga row moves by one version at a time and is final once it is over.
THEOREM SagaIsMonotonic == Spec => SagaMovesForward
<1>1. SagaInv /\ [Next]_vars =>
        [saga' # saga => ~SagaTerminal(saga) /\ saga'.version = saga.version + 1]_vars
  BY NextSagaInv
<1> QED
  BY <1>1, SagaInvariance, PTL DEF Spec, SagaMovesForward
=============================================================================
