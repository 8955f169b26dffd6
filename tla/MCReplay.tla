------------------------------ MODULE MCReplay ------------------------------
EXTENDS Replay

Cmd(type, p, amount) ==
    [type |-> type, pay |-> p, amount |-> amount,
     currency |-> IF amount = 0 THEN "none" ELSE "EUR", duration |-> 0, operation |-> <<>>]
Advance(d) == [Cmd("advance_time", 0, 0) EXCEPT !.duration = d]
Resume(id) == [Cmd("execute_async", 0, 0) EXCEPT !.operation = id]

Configuration(id, profile, seed) == [provider |-> id, profile |-> profile, seed |-> seed]
Scenario(cfg, payments, commands) ==
    [provider |-> cfg.provider, profile |-> cfg.profile, seed |-> cfg.seed,
     payments |-> payments, commands |-> commands]

PendingPayment == New(2, "EUR").pay
BothPending == [p \in PaymentIds |-> PendingPayment]
OnePending == [p \in PaymentIds |-> IF p = 1 THEN PendingPayment ELSE NoPayment]
OneAuthorized == [OnePending EXCEPT ![1] = Authorize(PendingPayment).pay]

\* Providers that defer authorizations, sorting before and after "saga".
Deferring == {Configuration("fake", "pending_authorize", 0),
              Configuration("stripe", "seeded", 5)}
Others == {Configuration("adyen", "", 0), Configuration("stripe", "seeded", 6),
           Configuration("fake", "fail_authorize", 0), Configuration("fake", "seeded", 1),
           Configuration("stripe", "seeded", 11)}

\* Sagas, commands and resumed operations on one payment, another one deferred
\* next to it.
Interplay == {Cmd("start_payment_saga", 1, 2), Cmd("authorize", 1, 0), Cmd("authorize", 2, 0),
              Advance(1), Resume(AsyncId(1)), Cmd("cancel", 1, 0), Cmd("capture", 1, 1)}

\* The lifecycle of a payment.
Lifecycle == {Cmd("create_payment", 2, 2), Cmd("start_payment_saga", 1, 1),
              Cmd("authorize", 1, 0), Cmd("capture", 1, 1), Cmd("capture", 1, 2),
              Cmd("refund", 1, 2), Cmd("cancel", 1, 0), Cmd("cancel", 2, 0)}

\* Requests that are refused, or accepted with an amount that is no amount.
Odd == {<<Cmd("capture", 1, 0)>>, <<Cmd("authorize", 1, 2)>>, <<Advance(0)>>,
        <<Resume(<<>>)>>, <<Cmd("authorize", 0, 0)>>, <<Cmd("unknown", 1, 0)>>,
        <<[Cmd("authorize", 1, 2) EXCEPT !.currency = "XXX"]>>,
        <<Cmd("start_payment_saga", 2, 1)>>, <<Resume(AsyncId(1))>>,
        <<Cmd("authorize", 1, 0), Cmd("start_payment_saga", 1, 2), Advance(1),
          Resume(<<"saga", 1, "capture", 2>>)>>,
        <<Cmd("authorize", 1, 0), [Cmd("capture", 1, 1) EXCEPT !.currency = "USD"]>>}

MCRequests ==
    {Scenario(cfg, BothPending, cs) : cfg \in Deferring, cs \in [1..5 -> Interplay]}
    \cup {Scenario(cfg, OnePending, cs) : cfg \in Others, cs \in [1..3 -> Lifecycle]}
    \cup {Scenario(cfg, OnePending, cs) : cfg \in Deferring \cup Others, cs \in Odd}
    \cup {Scenario(cfg, OneAuthorized, cs) : cfg \in Deferring \cup Others, cs \in [1..2 -> Interplay]}
    \cup {Scenario(Configuration("unknown", "", 0), OnePending, <<Advance(1)>>)}

MCRivals == {Scenario(Configuration("adyen", "", 0), OnePending, <<Cmd("authorize", 1, 0)>>)}
=============================================================================
