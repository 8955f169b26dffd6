---------------------------- MODULE MCPaymentApi ----------------------------
EXTENDS PaymentApi

Request(op, amount, currency, key) ==
    [op |-> op, id |-> "p1", amount |-> amount, currency |-> currency, key |-> key]

\* The lifecycle of one payment of two units, captured and refunded in parts,
\* with keys reused for retries, for other amounts and for other operations.
LifecycleRequests == {
    Request("create", 2, "EUR", "k1"), Request("create", 0, "EUR", "k1"),
    Request("authorize", 0, "EUR", "-"),
    Request("capture", 1, "EUR", "k1"), Request("capture", 1, "EUR", "k2"),
    Request("capture", 2, "EUR", "k1"), Request("capture", 1, "USD", "-"),
    Request("refund", 1, "EUR", "-"), Request("refund", 2, "EUR", "-"),
    Request("cancel", 0, "EUR", "-"), Request("fail", 0, "EUR", "-")}
=============================================================================
