--------------------------- MODULE PaymentService ---------------------------
(***************************************************************************)
(* What the payment endpoints promise, without transactions, idempotency   *)
(* records or failures: a command that is accepted changes the payment,    *)
(* records its event and schedules a delivery of it to every registered    *)
(* endpoint, all in one step.                                              *)
(***************************************************************************)
EXTENDS Payment

CONSTANTS Ids, Endpoints, Amounts

VARIABLES payments, events, jobs, endpoints, clock

vars == <<payments, events, jobs, endpoints, clock>>

\* The commands of the aggregate with the type of the event each produces.
Result(type, p, amount, currency) ==
    CASE type = "payment.created" -> New(amount, currency)
      [] type = "payment.authorized" -> Authorize(p)
      [] type = "payment.failed" -> Fail(p)
      [] type = "payment.cancelled" -> Cancel(p)
      [] type = "payment.captured" -> Capture(p, amount, currency)
      [] type = "payment.refunded" -> Refund(p, amount, currency)

EventTypes == {"payment.created", "payment.authorized", "payment.failed",
               "payment.cancelled", "payment.captured", "payment.refunded"}

Init ==
    /\ payments = [i \in Ids |-> NoPayment]
    /\ events = {}
    /\ jobs = {}
    /\ endpoints = {}
    /\ clock = 1

\* An accepted command.  Creation needs an unused id, every other command an
\* existing payment; each event is caused by the one before it.
Accept(i, type, amount, currency) ==
    LET r == Result(type, payments[i], amount, currency)
        e == [id |-> i, type |-> type, version |-> r.pay.version, at |-> clock,
              cause |-> payments[i].version, snapshot |-> r.pay]
    IN  /\ (type = "payment.created") <=> (payments[i] = NoPayment)
        /\ r.err = "none"
        /\ payments' = [payments EXCEPT ![i] = r.pay]
        /\ events' = events \cup {e}
        /\ jobs' = jobs \cup {[id |-> i, type |-> type, version |-> r.pay.version,
                               endpoint |-> ep, at |-> clock] : ep \in endpoints}
        /\ UNCHANGED <<endpoints, clock>>

RegisterEndpoint(ep) ==
    /\ endpoints' = endpoints \cup {ep}
    /\ UNCHANGED <<payments, events, jobs, clock>>

Advance ==
    /\ clock' = clock + 1
    /\ UNCHANGED <<payments, events, jobs, endpoints>>

Next ==
    \/ \E i \in Ids, type \in EventTypes, amount \in Amounts, currency \in Currencies :
         Accept(i, type, amount, currency)
    \/ \E ep \in Endpoints : RegisterEndpoint(ep)
    \/ Advance

Spec == Init /\ [][Next]_vars
=============================================================================
