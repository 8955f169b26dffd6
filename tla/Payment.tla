------------------------------ MODULE Payment ------------------------------
(***************************************************************************)
(* The payment aggregate: its commands as functions from a payment to a    *)
(* result, which carries either the changed payment or the error that left *)
(* it as it was.                                                           *)
(***************************************************************************)
EXTENDS Integers

CONSTANT Currencies      \* the three-letter codes in use

NoPayment == [status |-> "absent", amount |-> 0, currency |-> "none",
              authorized |-> 0, captured |-> 0, refunded |-> 0, version |-> 0]

Statuses == {"pending", "authorized", "partially_captured", "captured",
             "partially_refunded", "refunded", "failed", "cancelled"}

TerminalStatuses == {"failed", "cancelled", "refunded"}

Payments == [status : Statuses, amount : Int, currency : Currencies,
             authorized : Int, captured : Int, refunded : Int, version : Nat]

Ok(p) == [err |-> "none", pay |-> p]
Error(e) == [err |-> e, pay |-> NoPayment]

-----------------------------------------------------------------------------
\* NewMoney: the error of an amount in a currency, or "none".
MoneyError(amount, currency) ==
    IF amount < 0 THEN "money"
    ELSE IF currency \notin Currencies THEN "currency"
    ELSE "none"

New(amount, currency) ==
    IF amount <= 0 THEN Error("money")
    ELSE Ok([NoPayment EXCEPT !.status = "pending", !.amount = amount,
                              !.currency = currency, !.version = 1])

Authorize(p) ==
    IF p.status # "pending" THEN Error("transition")
    ELSE Ok([p EXCEPT !.status = "authorized", !.authorized = p.amount,
                      !.version = p.version + 1])

\* Mutant of Fail: at any time.
FailAnyTime(p) == Ok([p EXCEPT !.status = "failed", !.version = p.version + 1])

Fail(p) ==
    IF p.status # "pending" THEN Error("transition")
    ELSE Ok([p EXCEPT !.status = "failed", !.version = p.version + 1])

Cancel(p) ==
    IF p.status # "authorized" THEN Error("transition")
    ELSE Ok([p EXCEPT !.status = "cancelled", !.version = p.version + 1])

\* Mutant of Capture: earlier captures are not subtracted.
CaptureUpToAuthorized(p, amount, currency) ==
    IF p.status \notin {"authorized", "partially_captured"} THEN Error("transition")
    ELSE IF amount <= 0 \/ amount > p.authorized THEN Error("captured_amount")
    ELSE Ok([p EXCEPT !.captured = p.captured + amount,
                      !.status = IF p.captured + amount = p.authorized
                                 THEN "captured" ELSE "partially_captured",
                      !.version = p.version + 1])

Capture(p, amount, currency) ==
    IF p.status \notin {"authorized", "partially_captured"} THEN Error("transition")
    ELSE IF currency # p.currency THEN Error("currency")
    ELSE IF amount <= 0 \/ amount > p.authorized - p.captured THEN Error("captured_amount")
    ELSE Ok([p EXCEPT !.captured = p.captured + amount,
                      !.status = IF p.captured + amount = p.authorized
                                 THEN "captured" ELSE "partially_captured",
                      !.version = p.version + 1])

Refund(p, amount, currency) ==
    IF p.status \notin {"captured", "partially_refunded"} THEN Error("transition")
    ELSE IF currency # p.currency THEN Error("currency")
    ELSE IF amount <= 0 \/ amount > p.captured - p.refunded THEN Error("refunded_amount")
    ELSE Ok([p EXCEPT !.refunded = p.refunded + amount,
                      !.status = IF p.refunded + amount = p.captured
                                 THEN "refunded" ELSE "partially_refunded",
                      !.version = p.version + 1])

-----------------------------------------------------------------------------
\* validateLifecycleConsistency: the amounts each status allows.
Consistent(p) ==
    /\ p.status \in {"pending", "failed"} =>
         p.authorized = 0 /\ p.captured = 0 /\ p.refunded = 0
    /\ p.status \notin {"pending", "failed"} => p.authorized = p.amount
    /\ p.status \in {"authorized", "cancelled"} => p.captured = 0 /\ p.refunded = 0
    /\ p.status = "partially_captured" =>
         p.captured > 0 /\ p.captured < p.authorized /\ p.refunded = 0
    /\ p.status = "captured" => p.captured = p.authorized /\ p.refunded = 0
    /\ p.status = "partially_refunded" =>
         p.captured = p.authorized /\ p.refunded > 0 /\ p.refunded < p.captured
    /\ p.status = "refunded" => p.captured = p.authorized /\ p.refunded = p.captured

\* PaymentState.Validate, applied to every payment read back from storage.
Valid(p) ==
    /\ p.status \in Statuses
    /\ p.version # 0
    /\ p.amount > 0
    /\ p.authorized >= 0 /\ p.authorized <= p.amount
    /\ p.captured >= 0 /\ p.captured <= p.authorized
    /\ p.refunded >= 0 /\ p.refunded <= p.captured
    /\ Consistent(p)

\* writePaymentError: the response code of an error.
HttpStatus(err) ==
    CASE err = "not_found" -> 404
      [] err \in {"transition", "captured_amount", "refunded_amount", "version_conflict"} -> 409
      [] err \in {"money", "currency"} -> 400
      [] OTHER -> 500
=============================================================================
