--------------------------- MODULE PaymentLemmas ---------------------------
(***************************************************************************)
(* What the commands of the payment aggregate do to a payment: they keep   *)
(* it valid and move it forward.  And the rows a saga goes through.        *)
(***************************************************************************)
EXTENDS Workflow, SequenceTheorems, TLAPS

\* How an accepted command moves a payment.
Forward(p, n) ==
    /\ n.version = p.version + 1
    /\ p.status \notin TerminalStatuses
    /\ p.captured <= n.captured
    /\ p.refunded <= n.refunded

\* The empty row is not a payment.
LEMMA NoPaymentIsNone == NoPayment \notin Payments
BY DEF NoPayment, Payments, Statuses

\* A payment built field by field; its fields, its type and its effect.
Row(status, amount, currency, authorized, captured, refunded, version) ==
    [status |-> status, amount |-> amount, currency |-> currency, authorized |-> authorized,
     captured |-> captured, refunded |-> refunded, version |-> version]

\* domain.New makes a valid payment at version one.
LEMMA NewIsValid ==
    ASSUME NEW a \in Int, NEW c \in Currencies, New(a, c).err = "none"
    PROVE  /\ New(a, c).pay \in Payments
           /\ Valid(New(a, c).pay)
           /\ Forward(NoPayment, New(a, c).pay)
<1> DEFINE n == Row("pending", a, c, 0, 0, 0, 1)
<1>1. a > 0 /\ New(a, c).pay = n
  <2> DEFINE m == [NoPayment EXCEPT !.status = "pending", !.amount = a, !.currency = c,
                                    !.version = 1]
  <2>1. a > 0 /\ New(a, c) = Ok(m)
    BY DEF New, Error
  <2>2. m = [[[[NoPayment EXCEPT !.status = "pending"] EXCEPT !.amount = a]
                 EXCEPT !.currency = c] EXCEPT !.version = 1]
    OBVIOUS
  <2>3. [NoPayment EXCEPT !.status = "pending"] = Row("pending", 0, "none", 0, 0, 0, 0)
    BY DEF NoPayment, Row
  <2>4. [Row("pending", 0, "none", 0, 0, 0, 0) EXCEPT !.amount = a]
          = Row("pending", a, "none", 0, 0, 0, 0)
    BY DEF Row
  <2>5. [Row("pending", a, "none", 0, 0, 0, 0) EXCEPT !.currency = c]
          = Row("pending", a, c, 0, 0, 0, 0)
    BY DEF Row
  <2>6. [Row("pending", a, c, 0, 0, 0, 0) EXCEPT !.version = 1] = n
    BY DEF Row
  <2>7. m = n
    BY <2>2, <2>3, <2>4, <2>5, <2>6
  <2> QED
    BY <2>1, <2>7 DEF Ok
<1>2. n \in Payments
  BY DEF Row, Payments, Statuses
<1>3. Valid(n)
  BY <1>1 DEF Row, Valid, Consistent, Statuses
<1>4. Forward(NoPayment, n)
  BY DEF Row, Forward, NoPayment, TerminalStatuses
<1> QED
  BY <1>1, <1>2, <1>3, <1>4

\* Payment.Authorize keeps a payment valid and moves it forward.
LEMMA AuthorizeKeepsValid ==
    ASSUME NEW p \in Payments, Valid(p), Authorize(p).err = "none"
    PROVE  Authorize(p).pay \in Payments /\ Valid(Authorize(p).pay) /\ Forward(p, Authorize(p).pay)
<1> DEFINE s == "authorized"
           n == Row(s, p.amount, p.currency, p.amount, p.captured, p.refunded, p.version + 1)
<1>1. p.status = "pending" /\ Authorize(p).pay = n
  BY DEF Authorize, Ok, Error, Payments, Row
<1>2. n \in Payments
  BY DEF Row, Payments, Statuses
<1>3. Valid(n)
  BY <1>1 DEF Row, Payments, Valid, Consistent, Statuses
<1>4. Forward(p, n)
  BY <1>1 DEF Row, Payments, Valid, Forward, TerminalStatuses
<1> QED
  BY <1>1, <1>2, <1>3, <1>4

\* Payment.Fail keeps a payment valid and moves it forward.
LEMMA FailKeepsValid ==
    ASSUME NEW p \in Payments, Valid(p), Fail(p).err = "none"
    PROVE  Fail(p).pay \in Payments /\ Valid(Fail(p).pay) /\ Forward(p, Fail(p).pay)
<1> DEFINE s == "failed"
           n == Row(s, p.amount, p.currency, p.authorized, p.captured, p.refunded, p.version + 1)
<1>1. p.status = "pending" /\ Fail(p).pay = n
  BY DEF Fail, Ok, Error, Payments, Row
<1>2. n \in Payments
  BY DEF Row, Payments, Statuses
<1>3. Valid(n)
  BY <1>1 DEF Row, Payments, Valid, Consistent, Statuses
<1>4. Forward(p, n)
  BY <1>1 DEF Row, Payments, Valid, Forward, TerminalStatuses
<1> QED
  BY <1>1, <1>2, <1>3, <1>4

\* Payment.Cancel keeps a payment valid and moves it forward.
LEMMA CancelKeepsValid ==
    ASSUME NEW p \in Payments, Valid(p), Cancel(p).err = "none"
    PROVE  Cancel(p).pay \in Payments /\ Valid(Cancel(p).pay) /\ Forward(p, Cancel(p).pay)
<1> DEFINE s == "cancelled"
           n == Row(s, p.amount, p.currency, p.authorized, p.captured, p.refunded, p.version + 1)
<1>1. p.status = "authorized" /\ Cancel(p).pay = n
  BY DEF Cancel, Ok, Error, Payments, Row
<1>2. n \in Payments
  BY DEF Row, Payments, Statuses
<1>3. Valid(n)
  BY <1>1 DEF Row, Payments, Valid, Consistent, Statuses
<1>4. Forward(p, n)
  BY <1>1 DEF Row, Payments, Valid, Forward, TerminalStatuses
<1> QED
  BY <1>1, <1>2, <1>3, <1>4

\* Payment.Capture keeps a payment valid and moves it forward.
LEMMA CaptureKeepsValid ==
    ASSUME NEW p \in Payments, NEW a \in Int, NEW c, Valid(p), Capture(p, a, c).err = "none"
    PROVE  Capture(p, a, c).pay \in Payments /\ Valid(Capture(p, a, c).pay) /\ Forward(p, Capture(p, a, c).pay)
<1> DEFINE s == IF p.captured + a = p.authorized THEN "captured" ELSE "partially_captured"
           n == Row(s, p.amount, p.currency, p.authorized, p.captured + a, p.refunded, p.version + 1)
<1>1. /\ p.status \in {"authorized", "partially_captured"}
      /\ a > 0 /\ a <= p.authorized - p.captured
      /\ Capture(p, a, c).pay = n
  <2> DEFINE m == [p EXCEPT !.captured = p.captured + a,
                            !.status = s, !.version = p.version + 1]
  <2>1. /\ p.status \in {"authorized", "partially_captured"}
        /\ ~(a <= 0 \/ a > p.authorized - p.captured)
        /\ Capture(p, a, c) = Ok(m)
    BY DEF Capture, Error
  <2>2. m = n
    <3> HIDE DEF s
    <3>1. p = Row(p.status, p.amount, p.currency, p.authorized, p.captured, p.refunded, p.version)
      BY DEF Payments, Row
    <3>2. [Row(p.status, p.amount, p.currency, p.authorized, p.captured, p.refunded, p.version)
             EXCEPT !.captured = p.captured + a]
            = Row(p.status, p.amount, p.currency, p.authorized, p.captured + a, p.refunded, p.version)
      BY DEF Row
    <3>3. [Row(p.status, p.amount, p.currency, p.authorized, p.captured + a, p.refunded, p.version)
             EXCEPT !.status = s]
            = Row(s, p.amount, p.currency, p.authorized, p.captured + a, p.refunded, p.version)
      BY DEF Row
    <3>4. [Row(s, p.amount, p.currency, p.authorized, p.captured + a, p.refunded, p.version)
             EXCEPT !.version = p.version + 1]
            = Row(s, p.amount, p.currency, p.authorized, p.captured + a, p.refunded, p.version + 1)
      BY DEF Row
    <3>5. [p EXCEPT !.captured = p.captured + a, !.status = s, !.version = p.version + 1]
            = [[[p EXCEPT !.captured = p.captured + a] EXCEPT !.status = s] EXCEPT !.version = p.version + 1]
      OBVIOUS
    <3> QED
      BY <3>1, <3>2, <3>3, <3>4, <3>5
  <2>3. a > 0 /\ a <= p.authorized - p.captured
    BY <2>1 DEF Payments
  <2> QED
    BY <2>1, <2>2, <2>3 DEF Ok
<1>2. n \in Payments
  BY DEF Row, Payments, Statuses
<1>3. Valid(n)
  BY <1>1 DEF Row, Payments, Valid, Consistent, Statuses
<1>4. Forward(p, n)
  BY <1>1 DEF Row, Payments, Valid, Forward, TerminalStatuses
<1> QED
  BY <1>1, <1>2, <1>3, <1>4

\* Payment.Refund keeps a payment valid and moves it forward.
LEMMA RefundKeepsValid ==
    ASSUME NEW p \in Payments, NEW a \in Int, NEW c, Valid(p), Refund(p, a, c).err = "none"
    PROVE  Refund(p, a, c).pay \in Payments /\ Valid(Refund(p, a, c).pay) /\ Forward(p, Refund(p, a, c).pay)
<1> DEFINE s == IF p.refunded + a = p.captured THEN "refunded" ELSE "partially_refunded"
           n == Row(s, p.amount, p.currency, p.authorized, p.captured, p.refunded + a, p.version + 1)
<1>1. /\ p.status \in {"captured", "partially_refunded"}
      /\ a > 0 /\ a <= p.captured - p.refunded
      /\ Refund(p, a, c).pay = n
  <2> DEFINE m == [p EXCEPT !.refunded = p.refunded + a,
                            !.status = s, !.version = p.version + 1]
  <2>1. /\ p.status \in {"captured", "partially_refunded"}
        /\ ~(a <= 0 \/ a > p.captured - p.refunded)
        /\ Refund(p, a, c) = Ok(m)
    BY DEF Refund, Error
  <2>2. m = n
    <3> HIDE DEF s
    <3>1. p = Row(p.status, p.amount, p.currency, p.authorized, p.captured, p.refunded, p.version)
      BY DEF Payments, Row
    <3>2. [Row(p.status, p.amount, p.currency, p.authorized, p.captured, p.refunded, p.version)
             EXCEPT !.refunded = p.refunded + a]
            = Row(p.status, p.amount, p.currency, p.authorized, p.captured, p.refunded + a, p.version)
      BY DEF Row
    <3>3. [Row(p.status, p.amount, p.currency, p.authorized, p.captured, p.refunded + a, p.version)
             EXCEPT !.status = s]
            = Row(s, p.amount, p.currency, p.authorized, p.captured, p.refunded + a, p.version)
      BY DEF Row
    <3>4. [Row(s, p.amount, p.currency, p.authorized, p.captured, p.refunded + a, p.version)
             EXCEPT !.version = p.version + 1]
            = Row(s, p.amount, p.currency, p.authorized, p.captured, p.refunded + a, p.version + 1)
      BY DEF Row
    <3>5. [p EXCEPT !.refunded = p.refunded + a, !.status = s, !.version = p.version + 1]
            = [[[p EXCEPT !.refunded = p.refunded + a] EXCEPT !.status = s] EXCEPT !.version = p.version + 1]
      OBVIOUS
    <3> QED
      BY <3>1, <3>2, <3>3, <3>4, <3>5
  <2>3. a > 0 /\ a <= p.captured - p.refunded
    BY <2>1 DEF Payments
  <2> QED
    BY <2>1, <2>2, <2>3 DEF Ok
<1>2. n \in Payments
  BY DEF Row, Payments, Statuses
<1>3. Valid(n)
  BY <1>1 DEF Row, Payments, Valid, Consistent, Statuses
<1>4. Forward(p, n)
  BY <1>1 DEF Row, Payments, Valid, Forward, TerminalStatuses
<1> QED
  BY <1>1, <1>2, <1>3, <1>4

-----------------------------------------------------------------------------
(* The rows of a saga.                                                     *)

\* The row a saga starts with, field by field.
LEMMA NewSagaRow == NewSaga = SagaRow("running", "authorize", <<>>, <<>>, 1)
<1>1. NoSaga = SagaRow("absent", "authorize", <<>>, <<>>, 0)
  BY DEF NoSaga, SagaRow
<1>2. [SagaRow("absent", "authorize", <<>>, <<>>, 0) EXCEPT !.status = "running"]
        = SagaRow("running", "authorize", <<>>, <<>>, 0)
  BY DEF SagaRow
<1>3. [SagaRow("running", "authorize", <<>>, <<>>, 0) EXCEPT !.version = 1]
        = SagaRow("running", "authorize", <<>>, <<>>, 1)
  BY DEF SagaRow
<1>4. NewSaga = [[NoSaga EXCEPT !.status = "running"] EXCEPT !.version = 1]
  BY DEF NewSaga
<1> QED
  BY <1>1, <1>2, <1>3, <1>4

\* The fields of a row.
LEMMA Fields ==
    ASSUME NEW status, NEW step, NEW completed, NEW compensation, NEW version
    PROVE  LET s == SagaRow(status, step, completed, compensation, version)
           IN  /\ s.status = status /\ s.step = step /\ s.completed = completed
               /\ s.compensation = compensation /\ s.version = version
BY DEF SagaRow

\* The list of steps after the second one.
LEMMA BothSteps == Append(<<"authorize">>, "capture") = <<"authorize", "capture">>
<1> DEFINE a == Append(<<"authorize">>, "capture")
           b == <<"authorize", "capture">>
<1>1. a \in Seq({"authorize", "capture"}) /\ Len(a) = 2 /\ a[1] = "authorize" /\ a[2] = "capture"
  OBVIOUS
<1>2. b \in Seq({"authorize", "capture"}) /\ Len(b) = 2 /\ b[1] = "authorize" /\ b[2] = "capture"
  OBVIOUS
<1>3. \A i \in 1..2 : i = 1 \/ i = 2
  OBVIOUS
<1> HIDE DEF a, b
<1>4. \A i \in 1..Len(a) : a[i] = b[i]
  BY <1>1, <1>2, <1>3
<1>5. a = b
  BY <1>1, <1>2, <1>4, SeqEqual
<1> QED
  BY <1>5 DEF a, b

\* A finished step moves the saga on.
LEMMA AppliedRows ==
    /\ ApplySuccess(NewSaga) = Capturing
    /\ ApplySuccess(Capturing) = Completed
<1>1. ApplySuccess(NewSaga) = Capturing
  <2>1. /\ NewSaga.status = "running" /\ NewSaga.step = "authorize" /\ NewSaga.completed = <<>>
        /\ NewSaga.compensation = <<>> /\ NewSaga.version = 1
    BY NewSagaRow, Fields
  <2>2. Append(<<>>, "authorize") = <<"authorize">> /\ 1 + 1 = 2
    OBVIOUS
  <2> QED
    BY <2>1, <2>2 DEF ApplySuccess, Capturing, SagaRow
<1>2. ApplySuccess(Capturing) = Completed
  <2>1. /\ Capturing.status = "running" /\ Capturing.step = "capture"
        /\ Capturing.completed = <<"authorize">>
        /\ Capturing.compensation = <<>> /\ Capturing.version = 2
    BY Fields DEF Capturing
  <2>2. 2 + 1 = 3
    OBVIOUS
  <2> QED
    BY <2>1, <2>2, BothSteps DEF ApplySuccess, Completed, SagaRow
<1> QED
  BY <1>1, <1>2

\* A rejected step ends the saga or makes it undo its authorization.
LEMMA CompensatedRows ==
    /\ BeginCompensation(NewSaga) = Rejected
    /\ BeginCompensation(Capturing) = Cancelling
    /\ ApplyCompensationSuccess(Cancelling) = Undone
<1>1. BeginCompensation(NewSaga) = Rejected
  <2>1. /\ NewSaga.status = "running" /\ NewSaga.step = "authorize" /\ NewSaga.completed = <<>>
        /\ NewSaga.version = 1
    BY NewSagaRow, Fields
  <2>2. CompensationFor(<<>>) = <<>> /\ 1 + 1 = 2
    BY DEF CompensationFor
  <2> QED
    BY <2>1, <2>2 DEF BeginCompensation, Rejected, SagaRow
<1>2. BeginCompensation(Capturing) = Cancelling
  <2>1. /\ Capturing.completed = <<"authorize">> /\ Capturing.version = 2
    BY Fields DEF Capturing
  <2>2. /\ CompensationFor(<<"authorize">>) = <<"cancel">> /\ Head(<<"cancel">>) = "cancel"
        /\ <<"cancel">> # <<>> /\ 2 + 1 = 3
    BY DEF CompensationFor
  <2> QED
    BY <2>1, <2>2 DEF BeginCompensation, Cancelling, SagaRow
<1>3. ApplyCompensationSuccess(Cancelling) = Undone
  <2>1. /\ Cancelling.step = "cancel" /\ Cancelling.completed = <<"authorize">>
        /\ Cancelling.compensation = <<"cancel">> /\ Cancelling.version = 3
    BY Fields DEF Cancelling
  <2>2. Tail(<<"cancel">>) = <<>> /\ 3 + 1 = 4
    OBVIOUS
  <2> QED
    BY <2>1, <2>2 DEF ApplyCompensationSuccess, Undone, SagaRow
<1> QED
  BY <1>1, <1>2, <1>3

\* What the proofs need to know of each row.
LEMMA RowFacts ==
    /\ NoSaga.status = "absent" /\ NoSaga.step = "authorize" /\ NoSaga.version = 0
    /\ NewSaga.status = "running" /\ NewSaga.step = "authorize" /\ NewSaga.version = 1
    /\ Capturing.status = "running" /\ Capturing.step = "capture" /\ Capturing.version = 2
    /\ Completed.status = "completed" /\ Completed.step = "capture" /\ Completed.version = 3
    /\ Rejected.status = "failed" /\ Rejected.step = "authorize" /\ Rejected.version = 2
    /\ Cancelling.status = "compensating" /\ Cancelling.step = "cancel" /\ Cancelling.version = 3
    /\ Undone.status = "failed" /\ Undone.step = "cancel" /\ Undone.version = 4
<1>1. NoSaga.status = "absent" /\ NoSaga.step = "authorize" /\ NoSaga.version = 0
  BY DEF NoSaga
<1>2. NewSaga.status = "running" /\ NewSaga.step = "authorize" /\ NewSaga.version = 1
  BY NewSagaRow, Fields
<1>3. Capturing.status = "running" /\ Capturing.step = "capture" /\ Capturing.version = 2
  BY Fields DEF Capturing
<1>4. Completed.status = "completed" /\ Completed.step = "capture" /\ Completed.version = 3
  BY Fields DEF Completed
<1>5. Rejected.status = "failed" /\ Rejected.step = "authorize" /\ Rejected.version = 2
  BY Fields DEF Rejected
<1>6. Cancelling.status = "compensating" /\ Cancelling.step = "cancel" /\ Cancelling.version = 3
  BY Fields DEF Cancelling
<1>7. Undone.status = "failed" /\ Undone.step = "cancel" /\ Undone.version = 4
  BY Fields DEF Undone
<1> QED
  BY <1>1, <1>2, <1>3, <1>4, <1>5, <1>6, <1>7

\* An unfinished saga that was started is at one of three rows.
LEMMA UnfinishedRows ==
    ASSUME NEW s \in SagaRows, ~SagaTerminal(s), s # NoSaga
    PROVE  s \in {NewSaga, Capturing, Cancelling}
BY RowFacts DEF SagaRows, SagaTerminal

\* Advancing an unfinished saga.
LEMMA AdvancedRows ==
    ASSUME NEW s \in {NewSaga, Capturing, Cancelling}, NEW out \in {"succeeded", "failed"}
    PROVE  Advanced(s, out) =
             IF s = Cancelling THEN Undone
             ELSE IF s = NewSaga THEN (IF out = "succeeded" THEN Capturing ELSE Rejected)
             ELSE (IF out = "succeeded" THEN Completed ELSE Cancelling)
<1>1. NewSaga # Cancelling /\ Capturing # Cancelling /\ Capturing # NewSaga
  BY RowFacts
<1>2. CASE s = Cancelling
  BY <1>2, RowFacts, CompensatedRows DEF Advanced
<1>3. CASE s = NewSaga
  BY <1>1, <1>3, RowFacts, CompensatedRows, AppliedRows DEF Advanced
<1>4. CASE s = Capturing
  BY <1>1, <1>4, RowFacts, CompensatedRows, AppliedRows DEF Advanced
<1> QED
  BY <1>2, <1>3, <1>4

-----------------------------------------------------------------------------
(* The payment commands of a saga.                                         *)

\* What the commands a saga gives leave in the payment.
LEMMA CommandEffects ==
    ASSUME NEW p \in Payments, NEW a \in Int, NEW c
    PROVE  /\ Cancel(p).err = "none" => Cancel(p).pay.status = "cancelled"
           /\ Fail(p).err = "none" => Fail(p).pay.status = "failed"
           /\ Capture(p, a, c).err = "none" =>
                a > 0 /\ Capture(p, a, c).pay.captured = p.captured + a
<1>1. Cancel(p).err = "none" => Cancel(p).pay.status = "cancelled"
  BY DEF Cancel, Ok, Error, Payments
<1>2. Fail(p).err = "none" => Fail(p).pay.status = "failed"
  BY DEF Fail, Ok, Error, Payments
<1>3. ASSUME Capture(p, a, c).err = "none"
      PROVE  a > 0 /\ Capture(p, a, c).pay.captured = p.captured + a
  <2> DEFINE s == IF p.captured + a = p.authorized THEN "captured" ELSE "partially_captured"
             n == p.captured + a
             v == p.version + 1
             m == [p EXCEPT !.captured = n, !.status = s, !.version = v]
  <2>1. ~(a <= 0) /\ Capture(p, a, c) = Ok(m)
    BY <1>3 DEF Capture, Error
  <2> HIDE DEF s, n, v
  <2>2. m.captured = n
    BY DEF Payments
  <2> HIDE DEF m
  <2> QED
    BY <2>1, <2>2 DEF Ok, n
<1> QED
  BY <1>1, <1>2, <1>3
=============================================================================
