--------------------------- MODULE PaymentProofs ---------------------------
(***************************************************************************)
(* Proofs about the payment endpoints, whatever the clients send and       *)
(* wherever a request fails: stored payments stay valid and move forward,  *)
(* the ledger matches and reconstructs them, a key lets one command        *)
(* through and is answered alike for ever, and a request is one atomic     *)
(* step of PaymentService or none.                                         *)
(***************************************************************************)
EXTENDS PaymentApi, PaymentLemmas, FiniteSetTheorems

-----------------------------------------------------------------------------
(* The requests.                                                           *)

\* An accepted request computes a storable payment one step ahead of the
\* stored one; a creation only where nothing is stored.
LEMMA OutcomeMovesForward ==
    ASSUME NEW d, NEW q \in Requests,
           d.payments \in [Ids -> Payments \cup {NoPayment}],
           Storable(d.payments[q.id]),
           Outcome(d, q).err = "none"
    PROVE  /\ q.id \in Ids
           /\ Outcome(d, q).pay \in Payments
           /\ Valid(Outcome(d, q).pay)
           /\ Forward(d.payments[q.id], Outcome(d, q).pay)
<1> DEFINE p == d.payments[q.id]
           r == Execute(d, q)
<1>1. q.id \in Ids /\ q.amount \in Int /\ q.op \in Ops
  BY PaymentApiAssumption
<1>2. Outcome(d, q) = r /\ r.err = "none" /\ Savable(d, q.id, r.pay)
  BY DEF Outcome, Error
<1>3. CASE q.op = "create"
  <2>1. r = New(q.amount, q.currency) /\ q.currency \in Currencies
    BY <1>2, <1>3 DEF Execute, CreatePayment, MoneyError, Error
  <2>2. r.pay \in Payments /\ Valid(r.pay) /\ Forward(NoPayment, r.pay)
    BY <1>1, <1>2, <2>1, NewIsValid
  <2>3. r.pay.version = 1
    BY <2>2 DEF Forward, NoPayment
  <2>4. p = NoPayment
    <3>1. CASE p.version = 0
      BY <3>1 DEF Storable, Valid
    <3>2. CASE p.version # 0
      BY <1>2, <2>3, <3>2 DEF Savable
    <3> QED
      BY <3>1, <3>2
  <2> QED
    BY <1>1, <1>2, <2>2, <2>4
<1>4. CASE q.op # "create"
  <2> DEFINE found == Find(d, q.id)
  <2>1. found.err = "none"
    BY <1>1, <1>2, <1>4 DEF Execute, Ops, AuthorizePayment, FailPayment, CancelPayment,
       CapturePayment, RefundPayment
  <2>2. found.pay = p /\ p \in Payments /\ Valid(p)
    BY <2>1 DEF Find, Storable, Ok, Error
  <2>3. CASE q.op = "authorize"
    <3>1. r = Authorize(p)
      BY <2>1, <2>2, <2>3 DEF Execute, AuthorizePayment
    <3> QED
      BY <1>1, <1>2, <2>2, <3>1, AuthorizeKeepsValid
  <2>4. CASE q.op = "fail"
    <3>1. r = Fail(p)
      BY <2>1, <2>2, <2>4 DEF Execute, FailPayment
    <3> QED
      BY <1>1, <1>2, <2>2, <3>1, FailKeepsValid
  <2>5. CASE q.op = "cancel"
    <3>1. r = Cancel(p)
      BY <2>1, <2>2, <2>5 DEF Execute, CancelPayment
    <3> QED
      BY <1>1, <1>2, <2>2, <3>1, CancelKeepsValid
  <2>6. CASE q.op = "capture"
    <3>1. r = Capture(p, q.amount, q.currency)
      BY <1>2, <2>1, <2>2, <2>6 DEF Execute, CapturePayment, Error
    <3> QED
      BY <1>1, <1>2, <2>2, <3>1, CaptureKeepsValid
  <2>7. CASE q.op = "refund"
    <3>1. r = Refund(p, q.amount, q.currency)
      BY <1>2, <2>1, <2>2, <2>7 DEF Execute, RefundPayment, Error
    <3> QED
      BY <1>1, <1>2, <2>2, <3>1, RefundKeepsValid
  <2> QED
    BY <1>1, <1>4, <2>3, <2>4, <2>5, <2>6, <2>7 DEF Ops
<1> QED
  BY <1>3, <1>4

\* What a transaction leaves in its copy of the payments is storable and
\* ahead of what is committed.
LEMMA WorkMovesForward ==
    ASSUME ApiInv, tx # NoTx
    PROVE  \A i \in Ids : /\ Storable(tx.work.payments[i])
                          /\ tx.work.payments[i] # db.payments[i] =>
                                Forward(db.payments[i], tx.work.payments[i])
<1> USE DEF ApiInv
<1>1. CASE tx.work.payments = db.payments
  BY <1>1
<1>2. CASE Outcome(db, tx.req).err = "none"
           /\ tx.work.payments = [db.payments EXCEPT ![tx.req.id] = Outcome(db, tx.req).pay]
  <2>1. tx.req \in Requests /\ tx.req.id \in Ids
    BY PaymentApiAssumption DEF TxShape
  <2>2. db.payments \in [Ids -> Payments \cup {NoPayment}]
    BY DEF DbShape
  <2> DEFINE n == Outcome(db, tx.req).pay
  <2>3. n \in Payments /\ Valid(n) /\ Forward(db.payments[tx.req.id], n)
    BY <1>2, <2>1, <2>2, OutcomeMovesForward
  <2> HIDE DEF n
  <2> QED
    BY <1>2, <2>2, <2>3 DEF Storable, n
<1> QED
  BY <1>1, <1>2 DEF WorkInv
\* The invariant holds initially.
LEMMA InitApiInv == Init => ApiInv
<1> SUFFICES ASSUME Init PROVE ApiInv
  OBVIOUS
<1>1. db.payments = [i \in Ids |-> NoPayment] /\ DbShape(db)
  BY DEF Init, DbShape
<1>2. tx = NoTx
  BY DEF Init
<1> QED
  BY <1>1, <1>2 DEF ApiInv, Storable

\* A step of a transaction that leaves its copy of the payments alone, and
\* does not go back to the command, keeps the invariant.
LEMMA QuietStep ==
    ASSUME ApiInv, tx # NoTx, UNCHANGED db, NEW st \in Steps, NEW w,
           DbShape(w), w.payments = tx.work.payments,
           NEW event, NEW todo, NEW resp,
           tx' = [step |-> st, req |-> tx.req, work |-> w, event |-> event, todo |-> todo,
                  resp |-> resp],
           tx.step \in {"reserve", "command"} \/ st \notin {"reserve", "command"}
    PROVE  ApiInv'
<1>1. /\ tx'.step = st /\ tx'.req = tx.req /\ tx'.work = w
      /\ tx'.event = event /\ tx'.todo = todo /\ tx'.resp = resp
  OBVIOUS
<1>2. TxShape /\ WorkInv
  BY DEF ApiInv
<1>3. TxShape'
  BY <1>1, <1>2 DEF TxShape
<1>4. WorkInv'
  <2>1. CASE tx.work.payments = db.payments
    BY <1>1, <2>1 DEF WorkInv
  <2>2. CASE /\ tx.step \notin {"reserve", "command"}
             /\ Outcome(db, tx.req).err = "none"
             /\ tx.work.payments = [db.payments EXCEPT ![tx.req.id] = Outcome(db, tx.req).pay]
    <3>1. Outcome(db', tx'.req) = Outcome(db, tx.req)
      BY <1>1
    <3> QED
      BY <1>1, <2>2, <3>1 DEF WorkInv
  <2> QED
    BY <1>2, <2>1, <2>2 DEF WorkInv
<1> QED
  BY <1>3, <1>4 DEF ApiInv

\* Every step keeps the invariant.
LEMMA NextApiInv == ApiInv /\ [Next]_vars => ApiInv'
<1> SUFFICES ASSUME ApiInv, [Next]_vars PROVE ApiInv'
  OBVIOUS
<1>0. NoTx.step = "none" /\ "none" \notin Steps
  BY DEF NoTx, Steps
<1>1. ASSUME NEW q \in Requests, Begin(q) PROVE ApiInv'
  <2>1. db' = db /\ DbShape(db)
    BY <1>1 DEF Begin, ApiInv
  <2>2. tx'.step \in Steps /\ tx'.req = q /\ tx'.work = db
    BY <1>1 DEF Begin, Steps
  <2>3. TxShape'
    BY <1>1, <2>1, <2>2 DEF Begin, TxShape
  <2>4. WorkInv'
    BY <2>1, <2>2 DEF WorkInv
  <2> QED
    BY <2>1, <2>3, <2>4 DEF ApiInv
<1>2. CASE Reserve
  <2> DEFINE k == ScopeKey(tx.req)
             rec == [status |-> "processing", body |-> Body(tx.req), resp |-> NoResponse]
             w == [tx.work EXCEPT !.records = [tx.work.records EXCEPT ![k] = rec]]
             old == IF tx.work.records[k].body = Body(tx.req)
                       /\ tx.work.records[k].status = "completed"
                    THEN tx.work.records[k].resp ELSE Conflict
  <2>1. tx # NoTx /\ TxShape /\ UNCHANGED db /\ tx.step = "reserve"
    BY <1>0, <1>2 DEF Reserve, ApiInv
  <2>2. DbShape(w) /\ w.payments = tx.work.payments
    BY <2>1 DEF TxShape, DbShape
  <2>3. CASE tx' = [tx EXCEPT !.step = "command", !.work.records[k] = rec]
    <3> HIDE DEF k, rec
    <3>1. tx' = [step |-> "command", req |-> tx.req, work |-> w, event |-> tx.event,
                 todo |-> tx.todo, resp |-> tx.resp]
      BY <2>1, <2>3 DEF TxShape
    <3> QED
      BY <2>1, <2>2, <3>1, QuietStep DEF Steps
  <2>4. CASE tx' = [tx EXCEPT !.step = "commit", !.resp = old]
    <3> HIDE DEF old
    <3>1. tx' = [step |-> "commit", req |-> tx.req, work |-> tx.work, event |-> tx.event,
                 todo |-> tx.todo, resp |-> old]
      BY <2>1, <2>4 DEF TxShape
    <3> QED
      BY <2>1, <3>1, QuietStep DEF Steps, TxShape
  <2> QED
    BY <1>2, <2>3, <2>4 DEF Reserve
<1>3. CASE Command
  <2> DEFINE q == tx.req
             r == Outcome(tx.work, q)
  <2>1. tx # NoTx /\ TxShape /\ UNCHANGED db /\ tx.step = "command"
    BY <1>0, <1>3 DEF Command, ApiInv
  <2>2. tx.work.payments = db.payments /\ DbShape(tx.work) /\ q \in Requests
    BY <2>1 DEF ApiInv, WorkInv, TxShape
  <2>3. CASE r.err = "none" /\ tx' = [tx EXCEPT !.step = "publish", !.work.payments[q.id] = r.pay,
                                                !.resp = Success(q.op, r.pay)]
    <3> DEFINE n == r.pay
               sent == Success(q.op, n)
               w == [tx.work EXCEPT !.payments = [tx.work.payments EXCEPT ![q.id] = n]]
    <3>1. Storable(tx.work.payments[q.id]) /\ q.id \in Ids
      BY <2>2, PaymentApiAssumption DEF ApiInv
    <3>2. n \in Payments
      BY <2>2, <2>3, <3>1, OutcomeMovesForward DEF DbShape
    <3>3. r = Outcome(db, q)
      BY <2>2 DEF Outcome, Execute, Savable, CreatePayment, AuthorizePayment, FailPayment,
         CancelPayment, CapturePayment, RefundPayment, Find
    <3> HIDE DEF n, sent
    <3>4. tx' = [step |-> "publish", req |-> q, work |-> w, event |-> tx.event,
                 todo |-> tx.todo, resp |-> sent]
      BY <2>1, <2>3 DEF TxShape, n, sent
    <3>5. DbShape(w) /\ w.payments = [db.payments EXCEPT ![q.id] = n]
      BY <2>2, <3>1, <3>2 DEF DbShape
    <3> HIDE DEF w
    <3>6. tx'.step = "publish" /\ tx'.req = q /\ tx'.work = w
      BY <3>4
    <3>7. TxShape'
      BY <2>2, <3>4, <3>5 DEF TxShape, Steps
    <3>8. WorkInv'
      <4>1. Outcome(db', tx'.req) = r
        BY <2>1, <3>3, <3>6
      <4> QED
        BY <2>1, <2>3, <3>5, <3>6, <4>1 DEF WorkInv, n
    <3> QED
      BY <2>1, <3>7, <3>8 DEF ApiInv
  <2>4. CASE tx' = [tx EXCEPT !.step = Answered, !.resp = Failure(r.err)]
    <3> DEFINE sent == Failure(r.err)
    <3>1. Answered \in Steps \ {"reserve", "command"}
      BY DEF Answered, Steps
    <3> HIDE DEF sent
    <3>2. tx' = [step |-> Answered, req |-> tx.req, work |-> tx.work, event |-> tx.event,
                 todo |-> tx.todo, resp |-> sent]
      BY <2>1, <2>4 DEF TxShape, sent
    <3> QED
      BY <2>1, <2>2, <3>1, <3>2, QuietStep
  <2> QED
    BY <1>3, <2>3, <2>4 DEF Command
<1>4. CASE Publish
  <2> DEFINE e == NewEvent(tx.work, tx.req.op, tx.req.id, tx.resp.pay, clock)
             st == IF tx.work.endpoints = {} THEN Answered ELSE "schedule"
             w == [tx.work EXCEPT !.events = tx.work.events \cup {e}]
  <2>1. tx # NoTx /\ TxShape /\ UNCHANGED db
    BY <1>0, <1>4 DEF Publish, ApiInv
  <2>2. st \in Steps \ {"reserve", "command"}
    BY DEF Answered, Steps
  <2>3. tx' = [tx EXCEPT !.event = {e}, !.work.events = @ \cup {e},
                         !.todo = tx.work.endpoints, !.step = st]
    BY <1>4 DEF Publish
  <2> HIDE DEF e, st
  <2>4. tx' = [step |-> st, req |-> tx.req, work |-> w, event |-> {e},
               todo |-> tx.work.endpoints, resp |-> tx.resp]
    BY <2>1, <2>3 DEF TxShape
  <2>5. DbShape(w) /\ w.payments = tx.work.payments
    BY <2>1 DEF TxShape, DbShape
  <2> QED
    BY <2>1, <2>2, <2>4, <2>5, QuietStep
<1>5. CASE Schedule
  <2>1. tx # NoTx /\ TxShape /\ UNCHANGED db
    BY <1>0, <1>5 DEF Schedule, ApiInv
  <2>2. PICK ep \in tx.todo, e \in tx.event :
          tx' = [tx EXCEPT !.todo = @ \ {ep},
                   !.work.jobs = {k \in @ : ~SameJobId(Delivery(e, ep), k)} \cup {Delivery(e, ep)},
                   !.step = IF tx.todo = {ep} THEN Answered ELSE "schedule"]
    BY <1>5 DEF Schedule
  <2> DEFINE js == {k \in tx.work.jobs : ~SameJobId(Delivery(e, ep), k)} \cup {Delivery(e, ep)}
             st == IF tx.todo = {ep} THEN Answered ELSE "schedule"
             w == [tx.work EXCEPT !.jobs = js]
  <2>3. st \in Steps \ {"reserve", "command"}
    BY DEF Answered, Steps
  <2>4. tx' = [tx EXCEPT !.todo = tx.todo \ {ep}, !.work.jobs = js, !.step = st]
    BY <2>2
  <2> HIDE DEF js, st
  <2>5. tx' = [step |-> st, req |-> tx.req, work |-> w, event |-> tx.event,
               todo |-> tx.todo \ {ep}, resp |-> tx.resp]
    BY <2>1, <2>4 DEF TxShape
  <2>6. DbShape(w) /\ w.payments = tx.work.payments
    BY <2>1 DEF TxShape, DbShape
  <2> QED
    BY <2>1, <2>3, <2>5, <2>6, QuietStep
<1>6. CASE Complete
  <2> DEFINE k == ScopeKey(tx.req)
             rec == [status |-> "completed", body |-> Body(tx.req), resp |-> tx.resp]
             w == [tx.work EXCEPT !.records = [tx.work.records EXCEPT ![k] = rec]]
  <2>1. tx # NoTx /\ TxShape /\ UNCHANGED db
    BY <1>0, <1>6 DEF Complete, ApiInv
  <2>2. tx' = [tx EXCEPT !.step = "commit", !.work.records[k] = rec]
    BY <1>6 DEF Complete
  <2>3. DbShape(w) /\ w.payments = tx.work.payments
    BY <2>1 DEF TxShape, DbShape
  <2> HIDE DEF k, rec
  <2>4. tx' = [step |-> "commit", req |-> tx.req, work |-> w, event |-> tx.event,
               todo |-> tx.todo, resp |-> tx.resp]
    BY <2>1, <2>2 DEF TxShape
  <2> QED
    BY <2>1, <2>3, <2>4, QuietStep DEF Steps
<1>7. CASE Commit
  <2>1. tx # NoTx /\ tx' = NoTx /\ db' = tx.work
    BY <1>0, <1>7 DEF Commit
  <2>2. DbShape(tx.work)
    BY <2>1 DEF ApiInv, TxShape
  <2> QED
    BY <2>1, <2>2, WorkMovesForward DEF ApiInv
<1>8. CASE Rollback
  BY <1>8 DEF Rollback, ApiInv
<1>9. ASSUME NEW ep \in Endpoints, RegisterEndpoint(ep) PROVE ApiInv'
  <2>1. tx' = NoTx /\ DbShape(db)
    BY <1>9 DEF RegisterEndpoint, ApiInv
  <2>2. db' = [db EXCEPT !.endpoints = db.endpoints \cup {ep}]
    BY <1>9 DEF RegisterEndpoint
  <2>3. db'.payments = db.payments /\ DbShape(db)'
    BY <2>1, <2>2 DEF DbShape
  <2> QED
    BY <2>1, <2>3 DEF ApiInv
<1>10. CASE AdvanceClock
  BY <1>10 DEF AdvanceClock, ApiInv
<1>11. CASE UNCHANGED vars
  <2>1. db' = db /\ tx' = tx
    BY <1>11 DEF vars
  <2> QED
    BY <2>1 DEF ApiInv, TxShape, WorkInv
<1> QED
  BY <1>1, <1>2, <1>3, <1>4, <1>5, <1>6, <1>7, <1>8, <1>9, <1>10, <1>11 DEF Next

\* The invariant holds throughout.
THEOREM ApiInvariance == Spec => []ApiInv
BY InitApiInv, NextApiInv, PTL DEF Spec

\* Every stored payment passes PaymentState.Validate, whatever requests are
\* sent and wherever they fail: FindByID never meets a row it must refuse.
THEOREM StoredPaymentsAreValid == Spec => []PaymentsValid
<1>1. ApiInv => PaymentsValid
  BY DEF ApiInv, PaymentsValid, Storable
<1> QED
  BY <1>1, ApiInvariance, PTL

\* A commit moves a payment by one version, forward in its amounts, and never
\* touches a failed, cancelled or refunded one.
THEOREM CommitsMoveForward == Spec => PaymentsMoveForward
<1>1. ASSUME ApiInv, [Next]_vars, NEW i \in Ids, db'.payments[i] # db.payments[i]
      PROVE  Forward(db.payments[i], db'.payments[i])
  <2>1. CASE Commit
    <3>1. tx # NoTx /\ db' = tx.work
      BY <2>1 DEF Commit, NoTx
    <3> QED
      BY <1>1, <3>1, WorkMovesForward
  <2>2. ASSUME NEW ep \in Endpoints, RegisterEndpoint(ep) PROVE db'.payments = db.payments
    <3>1. db' = [db EXCEPT !.endpoints = db.endpoints \cup {ep}] /\ DbShape(db)
      BY <1>1, <2>2 DEF RegisterEndpoint, ApiInv
    <3> QED
      BY <3>1 DEF DbShape
  <2>3. CASE db' = db
    BY <1>1, <2>3
  <2> QED
    BY <1>1, <2>1, <2>2, <2>3 DEF Next, Begin, Reserve, Command, Publish, Schedule, Complete,
       Rollback, AdvanceClock, vars
<1>2. ApiInv /\ [Next]_vars =>
        [\A i \in Ids : LET p == db.payments[i]
                            n == db.payments'[i]
                        IN  n # p => /\ n.version = p.version + 1
                                     /\ p.status \notin TerminalStatuses
                                     /\ p.captured <= n.captured
                                     /\ p.refunded <= n.refunded]_vars
  BY <1>1 DEF Forward
<1> QED
  BY <1>2, ApiInvariance, PTL DEF Spec, PaymentsMoveForward
-----------------------------------------------------------------------------
(* The event of a request.                                                 *)

\* What LedgerMatchesPayments says of one payment, event by event.
LedgerOf(d, i) ==
    /\ \A e \in d.events : e.id = i => e.version \in 1..d.payments[i].version
    /\ \A n \in 1..d.payments[i].version : \E e \in d.events : e.id = i /\ e.version = n
    /\ \A e, f \in d.events : e.id = i /\ f.id = i /\ e.version = f.version => e = f
    /\ \A e \in d.events : e.id = i =>
         /\ e.cause = e.version - 1
         /\ e.version = d.payments[i].version => e.snapshot = d.payments[i]

\* The invariant is the ledger of every payment.
LEMMA LedgerByPayment == LedgerMatchesPayments <=> \A i \in Ids : LedgerOf(db, i)
<1>1. ASSUME NEW i \in Ids
      PROVE  {e.version : e \in EventsOf(i)} = 1..db.payments[i].version <=>
               /\ \A e \in db.events : e.id = i => e.version \in 1..db.payments[i].version
               /\ \A n \in 1..db.payments[i].version :
                    \E e \in db.events : e.id = i /\ e.version = n
  BY DEF EventsOf
<1>2. ASSUME NEW i \in Ids
      PROVE  /\ \A e, f \in EventsOf(i) : e.version = f.version => e = f
             /\ \A e \in EventsOf(i) :
                  /\ e.cause = e.version - 1
                  /\ e.version = db.payments[i].version => e.snapshot = db.payments[i]
             <=>
             /\ \A e, f \in db.events : e.id = i /\ f.id = i /\ e.version = f.version => e = f
             /\ \A e \in db.events : e.id = i =>
                  /\ e.cause = e.version - 1
                  /\ e.version = db.payments[i].version => e.snapshot = db.payments[i]
  BY DEF EventsOf
<1> QED
  BY <1>1, <1>2 DEF LedgerMatchesPayments, LedgerOf

\* A request that will be accepted is about a row of its own, the next version.
LEMMA ResultIsNext ==
    ASSUME ApiInv, tx # NoTx, Result.err = "none"
    PROVE  /\ tx.req \in Requests /\ tx.req.id \in Ids
           /\ Result.pay \in Payments /\ Valid(Result.pay)
           /\ db.payments[tx.req.id].version \in Nat
           /\ Result.pay.version = db.payments[tx.req.id].version + 1
<1>1. tx.req \in Requests /\ db.payments \in [Ids -> Payments \cup {NoPayment}]
  BY DEF ApiInv, TxShape, DbShape
<1>2. tx.req.id \in Ids
  BY <1>1, PaymentApiAssumption
<1>3. Storable(db.payments[tx.req.id])
  BY <1>2 DEF ApiInv
<1>4. Result.pay \in Payments /\ Valid(Result.pay) /\ Forward(db.payments[tx.req.id], Result.pay)
  BY <1>1, <1>3, OutcomeMovesForward DEF Result
<1>5. db.payments[tx.req.id].version \in Nat
  BY <1>1, <1>2 DEF Payments, NoPayment
<1> QED
  BY <1>1, <1>2, <1>4, <1>5 DEF Forward

\* The event of an accepted request: the next version, caused by the last one.
LEMMA ItsEventIsNext ==
    ASSUME ApiInv, LedgerInv, tx # NoTx, Result.err = "none"
    PROVE  /\ ItsEvent.id = tx.req.id
           /\ ItsEvent.type = EventType(tx.req.op)
           /\ ItsEvent.version = db.payments[tx.req.id].version + 1
           /\ ItsEvent.at = clock
           /\ ItsEvent.cause = db.payments[tx.req.id].version
           /\ ItsEvent.snapshot = Result.pay
<1> DEFINE id == tx.req.id
           v == db.payments[id].version
           lower == {e.version : e \in {f \in db.events : f.id = id /\ f.version < Result.pay.version}}
<1>1. id \in Ids /\ v \in Nat /\ Result.pay.version = v + 1
  BY ResultIsNext
<1>2. LedgerOf(db, id)
  BY <1>1, LedgerByPayment DEF LedgerInv
<1>3. lower = 1..v
  BY <1>1, <1>2 DEF LedgerOf
<1>4. Causation(db, id, Result.pay.version) = v
  <2>1. CASE v = 0
    BY <1>3, <2>1 DEF Causation
  <2>2. CASE v # 0
    <3>1. v \in 1..v /\ \A w \in 1..v : w <= v
      BY <1>1, <2>2
    <3>2. \A u \in 1..v : (\A w \in 1..v : w <= u) => u = v
      BY <3>1
    <3>3. Causation(db, id, Result.pay.version) = CHOOSE u \in 1..v : \A w \in 1..v : w <= u
      BY <1>3, <3>1 DEF Causation
    <3> HIDE DEF v
    <3> QED
      BY <3>1, <3>2, <3>3
  <2> QED
    BY <2>1, <2>2
<1> QED
  BY <1>1, <1>4 DEF ItsEvent, NewEvent

\* The ledger invariant depends on three tables and the clock only.
LEMMA LedgerStays ==
    ASSUME LedgerInv, clock' = clock, db'.payments = db.payments, db'.events = db.events,
           db'.jobs = db.jobs
    PROVE  LedgerInv'
BY DEF LedgerInv, LedgerMatchesPayments, EventsOf

\* Committing a request's row together with its event and deliveries keeps the
\* ledger in step with the payments.
LEMMA LedgerGrows ==
    ASSUME ApiInv, LedgerInv, tx # NoTx, Result.err = "none", clock' = clock,
           db'.payments = [db.payments EXCEPT ![tx.req.id] = Result.pay],
           db'.events = db.events \cup {ItsEvent},
           db'.jobs = db.jobs \cup {Delivery(ItsEvent, ep) : ep \in db.endpoints}
    PROVE  LedgerInv'
<1> DEFINE id == tx.req.id
           v == db.payments[id].version
           p == Result.pay
           e == ItsEvent
<1>1. /\ id \in Ids /\ v \in Nat
      /\ p \in Payments /\ Valid(p) /\ p.version = v + 1
      /\ db.payments \in [Ids -> Payments \cup {NoPayment}]
  BY ResultIsNext DEF ApiInv, DbShape
<1>2. /\ e.id = id /\ e.version = v + 1 /\ e.at = clock /\ e.cause = v /\ e.snapshot = p
  BY ItsEventIsNext
<1>3. /\ db'.payments[id] = p
      /\ \A i \in Ids \ {id} : db'.payments[i] = db.payments[i]
  BY <1>1
<1>4. \A i \in Ids : LedgerOf(db, i)
  BY LedgerByPayment DEF LedgerInv
<1> HIDE DEF p, e
<1>5. db'.events = db.events \cup {e}
  BY DEF e
<1>6. ASSUME NEW i \in Ids PROVE LedgerOf(db', i)
  <2>1. CASE i # id
    <3>1. db'.payments[i] = db.payments[i] /\ \A f \in db'.events : f.id = i <=> f \in db.events /\ f.id = i
      BY <1>2, <1>3, <1>5, <2>1
    <3> QED
      BY <1>4, <1>5, <3>1 DEF LedgerOf
  <2>2. CASE i = id
    <3> DEFINE Own == {f \in db.events : f.id = id}
    <3>1. /\ \A f \in Own : f.version \in 1..v /\ f.cause = f.version - 1
          /\ \A n \in 1..v : \E f \in Own : f.version = n
          /\ \A f, g \in Own : f.version = g.version => f = g
      BY <1>1, <1>4 DEF LedgerOf
    <3>2. \A f \in db'.events : f.id = id => f \in Own \/ f = e
      BY <1>5
    <3>3. db'.payments[id].version = v + 1 /\ db'.payments[id] = e.snapshot
      BY <1>1, <1>2, <1>3
    <3>4. \A f \in db'.events : f.id = id => f.version \in 1..(v + 1)
      BY <1>1, <1>2, <3>1, <3>2
    <3>5. \A n \in 1..(v + 1) : \E f \in db'.events : f.id = id /\ f.version = n
      <4> SUFFICES ASSUME NEW n \in 1..(v + 1) PROVE \E f \in db'.events : f.id = id /\ f.version = n
        OBVIOUS
      <4>1. CASE n = v + 1
        BY <1>2, <1>5, <4>1
      <4>2. CASE n \in 1..v
        BY <1>5, <3>1, <4>2
      <4> QED
        BY <1>1, <4>1, <4>2
    <3>6. \A f, g \in db'.events : f.id = id /\ g.id = id /\ f.version = g.version => f = g
      BY <1>1, <1>2, <3>1, <3>2
    <3>7. \A f \in db'.events : f.id = id =>
             f.cause = f.version - 1 /\ (f.version = v + 1 => f = e)
      BY <1>1, <1>2, <3>1, <3>2
    <3> QED
      BY <2>2, <3>3, <3>4, <3>5, <3>6, <3>7 DEF LedgerOf
  <2> QED
    BY <2>1, <2>2
<1>7. LedgerMatchesPayments'
  <2>1. (LedgerMatchesPayments <=> \A i \in Ids : LedgerOf(db, i))'
    BY LedgerByPayment, PTL
  <2> QED
    BY <1>6, <2>1 DEF LedgerOf
<1>8. \A f \in db.events : f.id = id => f.version \in 1..v
  BY <1>1, <1>4 DEF LedgerOf
<1>9. ASSUME NEW f \in db'.events
      PROVE  /\ f.id \in Ids
             /\ f.at \in Nat /\ f.at <= clock
             /\ Valid(f.snapshot) /\ f.snapshot.version = f.version
             /\ \A g \in db'.events : f.id = g.id /\ f.version <= g.version => f.at <= g.at
  <2>1. clock \in Nat
    BY DEF LedgerInv
  <2>2. CASE f = e
    BY <1>1, <1>2, <1>5, <1>8, <2>1, <2>2
  <2>3. CASE f \in db.events
    BY <1>1, <1>2, <1>5, <2>1, <2>3 DEF LedgerInv
  <2> QED
    BY <1>5, <2>2, <2>3
<1>10. ASSUME NEW j \in db'.jobs
       PROVE  j.id \in Ids /\ j.version \in 1..db'.payments[j.id].version
  <2>1. CASE j \in db.jobs
    <3>1. j.id \in Ids /\ j.version \in 1..db.payments[j.id].version
      BY <2>1 DEF LedgerInv
    <3> QED
      BY <1>1, <1>3, <3>1
  <2>2. CASE \E ep \in db.endpoints : j = Delivery(e, ep)
    <3>1. j.id = id /\ j.version = v + 1
      BY <1>2, <2>2 DEF Delivery
    <3> QED
      BY <1>1, <1>3, <3>1
  <2> QED
    BY <2>1, <2>2 DEF e
<1> QED
  BY <1>7, <1>9, <1>10 DEF LedgerInv

-----------------------------------------------------------------------------
(* The steps of a transaction, field by field.                             *)

\* The transaction keeps its request and is the only thing that changes.
OnlyTx ==
    /\ tx # NoTx /\ tx' # NoTx
    /\ UNCHANGED <<db, clock, replies, applied>>
    /\ tx'.req = tx.req
    /\ tx'.work.endpoints = tx.work.endpoints

\* Its copies of the payments, the ledger and the jobs.
SamePayments == tx'.work.payments = tx.work.payments
SameLedger ==
    /\ tx'.event = tx.event
    /\ tx'.work.events = tx.work.events
    /\ tx'.work.jobs = tx.work.jobs
SameRecords == tx'.work.records = tx.work.records

\* A transaction built from its fields.
LEMMA TxFields ==
    ASSUME NEW st \in Steps, NEW w, NEW event, NEW todo, NEW resp, tx # NoTx,
           tx' = [step |-> st, req |-> tx.req, work |-> w, event |-> event, todo |-> todo,
                  resp |-> resp],
           w.endpoints = tx.work.endpoints,
           UNCHANGED <<db, clock, replies, applied>>
    PROVE  /\ OnlyTx
           /\ tx'.step = st /\ tx'.work = w /\ tx'.event = event /\ tx'.todo = todo
           /\ tx'.resp = resp
<1>1. tx'.step = st
  OBVIOUS
<1>2. tx' # NoTx
  BY <1>1 DEF NoTx, Steps
<1> QED
  BY <1>2 DEF OnlyTx

\* Reserve: a reservation, or an answer from the record it found.
LEMMA ReserveStep ==
    ASSUME ApiInv, Reserve
    PROVE  /\ OnlyTx /\ SamePayments /\ SameLedger
           /\ tx.step = "reserve"
           /\ LET k == ScopeKey(tx.req)
                  r == tx.work.records[k]
              IN  \/ /\ r = NoRecord
                     /\ tx'.step = "command"
                     /\ tx'.work.records =
                          [tx.work.records EXCEPT ![k] = Record(tx.req, "processing", NoResponse)]
                  \/ /\ r # NoRecord
                     /\ tx'.step = "commit"
                     /\ SameRecords
                     /\ tx'.resp = IF r.body = Body(tx.req) /\ r.status = "completed"
                                   THEN r.resp ELSE Conflict
<1> DEFINE k == ScopeKey(tx.req)
           r == tx.work.records[k]
           rec == Record(tx.req, "processing", NoResponse)
           w == [tx.work EXCEPT !.records = [tx.work.records EXCEPT ![k] = rec]]
           old == IF r.body = Body(tx.req) /\ r.status = "completed" THEN r.resp ELSE Conflict
<1>1. /\ tx # NoTx /\ TxShape /\ DbShape(tx.work) /\ tx.step = "reserve"
      /\ UNCHANGED <<db, clock, replies, applied>>
  BY DEF Reserve, ApiInv, TxShape, NoTx, history
<1>2. /\ w.payments = tx.work.payments /\ w.events = tx.work.events /\ w.jobs = tx.work.jobs
      /\ w.endpoints = tx.work.endpoints
      /\ w.records = [tx.work.records EXCEPT ![k] = rec]
  BY <1>1 DEF DbShape
<1>3. CASE r = NoRecord /\ tx' = [tx EXCEPT !.step = "command", !.work.records[k] = rec]
  <2> HIDE DEF k, rec
  <2>1. tx' = [step |-> "command", req |-> tx.req, work |-> w, event |-> tx.event,
               todo |-> tx.todo, resp |-> tx.resp]
    BY <1>1, <1>3 DEF TxShape
  <2> HIDE DEF w
  <2>2. OnlyTx /\ tx'.step = "command" /\ tx'.work = w /\ tx'.event = tx.event
    BY <1>1, <1>2, <2>1, TxFields DEF Steps
  <2> QED
    BY <1>1, <1>2, <1>3, <2>2 DEF SamePayments, SameLedger, k, rec
<1>4. CASE r # NoRecord /\ tx' = [tx EXCEPT !.step = "commit", !.resp = old]
  <2> HIDE DEF old
  <2>1. tx' = [step |-> "commit", req |-> tx.req, work |-> tx.work, event |-> tx.event,
               todo |-> tx.todo, resp |-> old]
    BY <1>1, <1>4 DEF TxShape
  <2>2. OnlyTx /\ tx'.step = "commit" /\ tx'.work = tx.work /\ tx'.event = tx.event /\ tx'.resp = old
    BY <1>1, <2>1, TxFields DEF Steps
  <2> QED
    BY <1>1, <1>4, <2>2 DEF SamePayments, SameLedger, SameRecords, old
<1> QED
  BY <1>3, <1>4 DEF Reserve, Record

\* Command: the accepted row and its response, or a rejection.
LEMMA CommandStep ==
    ASSUME ApiInv, Command
    PROVE  /\ OnlyTx /\ SameLedger /\ SameRecords
           /\ tx.step = "command"
           /\ LET r == Outcome(tx.work, tx.req)
              IN  \/ /\ r.err = "none"
                     /\ tx'.step = "publish"
                     /\ tx'.work.payments = [tx.work.payments EXCEPT ![tx.req.id] = r.pay]
                     /\ tx'.resp = Success(tx.req.op, r.pay)
                  \/ /\ tx'.step = Answered
                     /\ SamePayments
                     /\ tx'.resp = Failure(r.err)
<1> DEFINE r == Outcome(tx.work, tx.req)
           n == r.pay
           sent == Success(tx.req.op, n)
           w == [tx.work EXCEPT !.payments = [tx.work.payments EXCEPT ![tx.req.id] = n]]
           refused == Failure(r.err)
<1>1. /\ tx # NoTx /\ TxShape /\ DbShape(tx.work) /\ tx.step = "command"
      /\ UNCHANGED <<db, clock, replies, applied>>
  BY DEF Command, ApiInv, TxShape, NoTx, history
<1>2. /\ w.records = tx.work.records /\ w.events = tx.work.events /\ w.jobs = tx.work.jobs
      /\ w.endpoints = tx.work.endpoints
      /\ w.payments = [tx.work.payments EXCEPT ![tx.req.id] = n]
  <2> HIDE DEF n
  <2> QED
    BY <1>1 DEF DbShape
<1>3. CASE r.err = "none" /\ tx' = [tx EXCEPT !.step = "publish", !.work.payments[tx.req.id] = n,
                                              !.resp = sent]
  <2> HIDE DEF n, sent
  <2>1. tx' = [step |-> "publish", req |-> tx.req, work |-> w, event |-> tx.event,
               todo |-> tx.todo, resp |-> sent]
    BY <1>1, <1>3 DEF TxShape
  <2> HIDE DEF w
  <2>2. OnlyTx /\ tx'.step = "publish" /\ tx'.work = w /\ tx'.event = tx.event /\ tx'.resp = sent
    BY <1>1, <1>2, <2>1, TxFields DEF Steps
  <2> QED
    BY <1>1, <1>2, <1>3, <2>2 DEF SameRecords, SameLedger, n, sent
<1>4. CASE tx' = [tx EXCEPT !.step = Answered, !.resp = refused]
  <2> HIDE DEF refused
  <2>0. Answered \in Steps
    BY DEF Answered, Steps
  <2>1. tx' = [step |-> Answered, req |-> tx.req, work |-> tx.work, event |-> tx.event,
               todo |-> tx.todo, resp |-> refused]
    BY <1>1, <1>4 DEF TxShape
  <2>2. OnlyTx /\ tx'.step = Answered /\ tx'.work = tx.work /\ tx'.event = tx.event
        /\ tx'.resp = refused
    BY <1>1, <2>0, <2>1, TxFields
  <2> QED
    BY <1>1, <1>4, <2>2 DEF SamePayments, SameLedger, SameRecords, refused
<1> QED
  BY <1>3, <1>4 DEF Command

\* Publish: the event joins the ledger and its deliveries are still to do.
LEMMA PublishStep ==
    ASSUME ApiInv, Publish
    PROVE  /\ OnlyTx /\ SamePayments /\ SameRecords
           /\ tx.step = "publish"
           /\ LET e == NewEvent(tx.work, tx.req.op, tx.req.id, tx.resp.pay, clock)
              IN  tx'.event = {e} /\ tx'.work.events = tx.work.events \cup {e}
           /\ tx'.work.jobs = tx.work.jobs
           /\ tx'.resp = tx.resp
           /\ tx'.todo = tx.work.endpoints
           /\ tx'.step = IF tx.work.endpoints = {} THEN Answered ELSE "schedule"
<1> DEFINE e == NewEvent(tx.work, tx.req.op, tx.req.id, tx.resp.pay, clock)
           st == IF tx.work.endpoints = {} THEN Answered ELSE "schedule"
           w == [tx.work EXCEPT !.events = tx.work.events \cup {e}]
<1>1. /\ tx # NoTx /\ TxShape /\ DbShape(tx.work) /\ tx.step = "publish"
      /\ UNCHANGED <<db, clock, replies, applied>>
      /\ st \in Steps
  BY DEF Publish, ApiInv, TxShape, NoTx, history, Answered, Steps
<1>2. tx' = [tx EXCEPT !.event = {e}, !.work.events = @ \cup {e},
                       !.todo = tx.work.endpoints, !.step = st]
  BY DEF Publish
<1> HIDE DEF e, st
<1>3. /\ w.payments = tx.work.payments /\ w.records = tx.work.records /\ w.jobs = tx.work.jobs
      /\ w.endpoints = tx.work.endpoints
      /\ w.events = tx.work.events \cup {e}
  BY <1>1 DEF DbShape
<1>4. tx' = [step |-> st, req |-> tx.req, work |-> w, event |-> {e},
             todo |-> tx.work.endpoints, resp |-> tx.resp]
  BY <1>1, <1>2 DEF TxShape
<1> HIDE DEF w
<1>5. OnlyTx /\ tx'.step = st /\ tx'.work = w /\ tx'.event = {e} /\ tx'.todo = tx.work.endpoints
      /\ tx'.resp = tx.resp
  BY <1>1, <1>3, <1>4, TxFields
<1> QED
  BY <1>1, <1>3, <1>5 DEF SamePayments, SameRecords, e, st

\* Schedule: the delivery of the event to one more endpoint.
LEMMA ScheduleStep ==
    ASSUME ApiInv, Schedule
    PROVE  /\ OnlyTx /\ SamePayments /\ SameRecords
           /\ tx.step = "schedule"
           /\ tx'.event = tx.event /\ tx'.work.events = tx.work.events
           /\ tx'.resp = tx.resp
           /\ \E ep \in tx.todo, e \in tx.event :
                /\ tx'.todo = tx.todo \ {ep}
                /\ tx'.work.jobs = {k \in tx.work.jobs : ~SameJobId(Delivery(e, ep), k)}
                                     \cup {Delivery(e, ep)}
                /\ tx'.step = IF tx.todo = {ep} THEN Answered ELSE "schedule"
<1>1. /\ tx # NoTx /\ TxShape /\ DbShape(tx.work) /\ tx.step = "schedule"
      /\ UNCHANGED <<db, clock, replies, applied>>
  BY DEF Schedule, ApiInv, TxShape, NoTx, history
<1>2. PICK ep \in tx.todo, e \in tx.event :
        tx' = [tx EXCEPT !.todo = @ \ {ep},
                 !.work.jobs = {k \in @ : ~SameJobId(Delivery(e, ep), k)} \cup {Delivery(e, ep)},
                 !.step = IF tx.todo = {ep} THEN Answered ELSE "schedule"]
  BY DEF Schedule
<1> DEFINE js == {k \in tx.work.jobs : ~SameJobId(Delivery(e, ep), k)} \cup {Delivery(e, ep)}
           st == IF tx.todo = {ep} THEN Answered ELSE "schedule"
           w == [tx.work EXCEPT !.jobs = js]
           rest == tx.todo \ {ep}
<1>3. tx' = [tx EXCEPT !.todo = rest, !.work.jobs = js, !.step = st]
  BY <1>2
<1>4. st \in Steps
  BY DEF Answered, Steps
<1> HIDE DEF js, st, rest
<1>5. /\ w.payments = tx.work.payments /\ w.records = tx.work.records
      /\ w.events = tx.work.events /\ w.endpoints = tx.work.endpoints
      /\ w.jobs = js
  BY <1>1 DEF DbShape
<1>6. tx' = [step |-> st, req |-> tx.req, work |-> w, event |-> tx.event,
             todo |-> rest, resp |-> tx.resp]
  BY <1>1, <1>3 DEF TxShape
<1> HIDE DEF w
<1>7. OnlyTx /\ tx'.step = st /\ tx'.work = w /\ tx'.event = tx.event /\ tx'.todo = rest
      /\ tx'.resp = tx.resp
  BY <1>1, <1>4, <1>5, <1>6, TxFields
<1>8. tx'.work.jobs = js /\ tx'.todo = rest /\ tx'.step = st
  BY <1>5, <1>7
<1>9. \E ep2 \in tx.todo, e2 \in tx.event :
         /\ tx'.todo = tx.todo \ {ep2}
         /\ tx'.work.jobs = {k \in tx.work.jobs : ~SameJobId(Delivery(e2, ep2), k)}
                              \cup {Delivery(e2, ep2)}
         /\ tx'.step = IF tx.todo = {ep2} THEN Answered ELSE "schedule"
  <2> WITNESS ep \in tx.todo, e \in tx.event
  <2> QED
    BY <1>8 DEF js, st, rest
<1> QED
  BY <1>1, <1>5, <1>7, <1>9 DEF SamePayments, SameRecords

\* Complete: the response is stored under the key.
LEMMA CompleteStep ==
    ASSUME ApiInv, Complete
    PROVE  /\ OnlyTx /\ SamePayments /\ SameLedger
           /\ tx.step = "complete"
           /\ tx'.step = "commit"
           /\ tx'.resp = tx.resp
           /\ tx'.todo = tx.todo
           /\ tx'.work.records = [tx.work.records EXCEPT ![ScopeKey(tx.req)] =
                                    Record(tx.req, "completed", tx.resp)]
<1> DEFINE k == ScopeKey(tx.req)
           rec == Record(tx.req, "completed", tx.resp)
           w == [tx.work EXCEPT !.records = [tx.work.records EXCEPT ![k] = rec]]
<1>1. /\ tx # NoTx /\ TxShape /\ DbShape(tx.work) /\ tx.step = "complete"
      /\ UNCHANGED <<db, clock, replies, applied>>
  BY DEF Complete, ApiInv, TxShape, NoTx, history
<1>2. tx' = [tx EXCEPT !.step = "commit", !.work.records[k] = rec]
  BY DEF Complete, Record
<1>3. /\ w.payments = tx.work.payments /\ w.events = tx.work.events /\ w.jobs = tx.work.jobs
      /\ w.endpoints = tx.work.endpoints
      /\ w.records = [tx.work.records EXCEPT ![k] = rec]
  BY <1>1 DEF DbShape
<1> HIDE DEF k, rec
<1>4. tx' = [step |-> "commit", req |-> tx.req, work |-> w, event |-> tx.event,
             todo |-> tx.todo, resp |-> tx.resp]
  BY <1>1, <1>2 DEF TxShape
<1> HIDE DEF w
<1>5. OnlyTx /\ tx'.step = "commit" /\ tx'.work = w /\ tx'.event = tx.event
      /\ tx'.todo = tx.todo /\ tx'.resp = tx.resp
  BY <1>1, <1>3, <1>4, TxFields DEF Steps
<1> QED
  BY <1>1, <1>3, <1>5 DEF SamePayments, SameLedger, k, rec

-----------------------------------------------------------------------------
(* The steps of a transaction keep StoreInv.                               *)

\* What is committed does not change, and neither does what the request will
\* make of it.
LEMMA StoreStays ==
    ASSUME OnlyTx, LedgerInv, KeyInv
    PROVE  /\ LedgerInv' /\ KeyInv'
           /\ Result' = Result /\ ItsEvent' = ItsEvent
<1>1. db' = db /\ clock' = clock /\ replies' = replies /\ applied' = applied /\ tx'.req = tx.req
  BY DEF OnlyTx
<1>2. LedgerInv'
  BY <1>1, LedgerStays
<1>3. KeyInv'
  BY <1>1 DEF KeyInv, StoredSuccessIsDurable
<1>4. Result' = Result
  BY <1>1 DEF Result
<1>5. ItsEvent' = ItsEvent
  BY <1>1, <1>4 DEF ItsEvent
<1> QED
  BY <1>2, <1>3, <1>4, <1>5

\* A transaction under a key works on a record of the store.
LEMMA KeyOfTx ==
    ASSUME ApiInv, tx # NoTx, tx.req.key # NoKey
    PROVE  tx.req \in KeyedRequests /\ ScopeKey(tx.req) \in ScopeKeys
<1>1. tx.req \in Requests
  BY DEF ApiInv, TxShape
<1> QED
  BY <1>1 DEF KeyedRequests, ScopeKeys

\* Reserve either leaves a reservation behind an untouched store or replays.
LEMMA ReserveKeepsTx ==
    ASSUME ApiInv, StoreInv, Reserve
    PROVE  EffectInv' /\ ReservationInv'
<1> DEFINE k == ScopeKey(tx.req)
<1>1. OnlyTx /\ SamePayments /\ SameLedger /\ tx.step = "reserve"
  BY ReserveStep
<1>2. tx # NoTx /\ EffectInv /\ ReservationInv /\ KeyInv /\ LedgerInv /\ db' = db /\ tx'.req = tx.req
  BY <1>1 DEF OnlyTx, StoreInv
<1>3. Untouched /\ tx.work.endpoints = db.endpoints
  BY <1>1, <1>2 DEF EffectInv
<1>4. Untouched' /\ tx'.work.endpoints = db'.endpoints
  BY <1>1, <1>3 DEF Untouched, SamePayments, SameLedger, OnlyTx
<1>5. tx.req.key # NoKey /\ tx.work.records = db.records
  BY <1>1, <1>2 DEF ReservationInv
<1>6. k \in ScopeKeys
  BY <1>2, <1>5, KeyOfTx
<1>7. CASE /\ db.records[k] = NoRecord
           /\ tx'.step = "command"
           /\ tx'.work.records =
                [db.records EXCEPT ![k] = Record(tx.req, "processing", NoResponse)]
  <2>1. Reserving(k)'
    BY <1>2, <1>7 DEF Reserving
  <2>2. EffectInv'
    BY <1>4, <1>7 DEF EffectInv
  <2>3. ReservationInv'
    BY <1>2, <1>5, <1>7, <2>1 DEF ReservationInv
  <2> QED
    BY <2>2, <2>3
<1>8. CASE /\ db.records[k] # NoRecord
           /\ tx'.step = "commit"
           /\ SameRecords
           /\ tx'.resp = IF db.records[k].body = Body(tx.req) /\ db.records[k].status = "completed"
                         THEN db.records[k].resp ELSE Conflict
  <2>1. db.records[k].status = "completed"
    BY <1>2, <1>6, <1>8 DEF KeyInv
  <2>2. tx'.resp = Answer(db.records[k], tx.req)
    BY <1>8, <2>1 DEF Answer
  <2>3. Replaying(k)'
    BY <1>2, <1>4, <1>5, <1>8, <2>2 DEF Replaying, SameRecords
  <2>4. EffectInv'
    BY <1>4, <1>8 DEF EffectInv
  <2>5. ReservationInv'
    BY <1>2, <1>5, <1>8, <2>3 DEF ReservationInv
  <2> QED
    BY <2>4, <2>5
<1> QED
  BY <1>5, <1>7, <1>8, ReserveStep

\* A rejection is no success.
LEMMA FailureIsNoSuccess == ASSUME NEW err PROVE ~Succeeded(Failure(err))
<1>1. HttpStatus(err) \in {400, 404, 409, 500}
  BY DEF HttpStatus
<1>2. Failure(err).code \notin {200, 201}
  BY <1>1 DEF Failure
<1> QED
  BY <1>2 DEF Succeeded

\* Command works on what is still the committed state.
LEMMA CommandKeepsTx ==
    ASSUME ApiInv, StoreInv, Command
    PROVE  EffectInv' /\ ReservationInv'
<1> DEFINE k == ScopeKey(tx.req)
<1>1. OnlyTx /\ SameLedger /\ SameRecords /\ tx.step = "command"
  BY CommandStep
<1>2. tx # NoTx /\ EffectInv /\ ReservationInv /\ KeyInv /\ LedgerInv /\ db' = db /\ tx'.req = tx.req
  BY <1>1 DEF OnlyTx, StoreInv
<1>3. Untouched /\ tx.work.endpoints = db.endpoints
  BY <1>1, <1>2 DEF EffectInv
<1>4. Outcome(tx.work, tx.req) = Result
  BY <1>3 DEF Untouched, Result, Outcome, Execute, Savable, CreatePayment, AuthorizePayment,
     FailPayment, CancelPayment, CapturePayment, RefundPayment, Find
<1>5. Result' = Result /\ tx'.work.endpoints = db'.endpoints
  BY <1>1, <1>2, <1>3, StoreStays DEF OnlyTx
<1>6. tx.req.key = NoKey => tx'.work.records = db'.records
  BY <1>1, <1>2 DEF ReservationInv, SameRecords
<1>7. tx.req.key # NoKey => Reserving(k)'
  BY <1>1, <1>2 DEF ReservationInv, SameRecords, Reserving
<1>8. CASE /\ Result.err = "none"
           /\ tx'.step = "publish"
           /\ tx'.work.payments = [tx.work.payments EXCEPT ![tx.req.id] = Result.pay]
           /\ tx'.resp = Success(tx.req.op, Result.pay)
  <2>1. Saved'
    BY <1>1, <1>2, <1>3, <1>5, <1>8 DEF Saved, Accepted, Untouched, SameLedger
  <2>2. EffectInv'
    BY <1>5, <1>8, <2>1 DEF EffectInv
  <2>3. ReservationInv'
    BY <1>2, <1>6, <1>7, <1>8 DEF ReservationInv
  <2> QED
    BY <2>2, <2>3
<1>9. CASE tx'.step = Answered /\ SamePayments /\ tx'.resp = Failure(Result.err)
  <2>1. Untouched'
    BY <1>1, <1>2, <1>3, <1>9 DEF Untouched, SameLedger, SamePayments
  <2>2. EffectInv'
    BY <1>5, <1>9, <2>1 DEF EffectInv, Answered
  <2>3. ~Succeeded(tx'.resp)
    BY <1>9, FailureIsNoSuccess
  <2>4. ReservationInv'
    BY <1>2, <1>6, <1>7, <1>9, <2>3 DEF ReservationInv, Answered
  <2> QED
    BY <2>2, <2>4
<1> QED
  BY <1>4, <1>8, <1>9, CommandStep

\* Publish records the event of the request itself.
LEMMA PublishKeepsTx ==
    ASSUME ApiInv, StoreInv, Publish
    PROVE  EffectInv' /\ ReservationInv'
<1> DEFINE k == ScopeKey(tx.req)
           e == NewEvent(tx.work, tx.req.op, tx.req.id, tx.resp.pay, clock)
<1>1. /\ OnlyTx /\ SamePayments /\ SameRecords /\ tx.step = "publish"
      /\ tx'.event = {e} /\ tx'.work.events = tx.work.events \cup {e}
      /\ tx'.work.jobs = tx.work.jobs /\ tx'.resp = tx.resp /\ tx'.todo = tx.work.endpoints
      /\ tx'.step = IF tx.work.endpoints = {} THEN Answered ELSE "schedule"
  BY PublishStep
<1>2. tx # NoTx /\ EffectInv /\ ReservationInv /\ KeyInv /\ LedgerInv /\ db' = db /\ tx'.req = tx.req
  BY <1>1 DEF OnlyTx, StoreInv
<1>3. Saved /\ tx.work.endpoints = db.endpoints
  BY <1>1, <1>2 DEF EffectInv
<1>4. e = ItsEvent
  <2>1. tx.resp.pay = Result.pay
    BY <1>3 DEF Saved, Accepted, Success
  <2>2. tx.work.events = db.events
    BY <1>3 DEF Saved
  <2>3. Causation(tx.work, tx.req.id, Result.pay.version) = Causation(db, tx.req.id, Result.pay.version)
    BY <2>2 DEF Causation
  <2> QED
    BY <2>1, <2>3 DEF ItsEvent, NewEvent
<1>5. Result' = Result /\ ItsEvent' = ItsEvent /\ tx'.work.endpoints = db'.endpoints
  BY <1>1, <1>2, <1>3, StoreStays DEF OnlyTx
<1> HIDE DEF e
<1>6. Accepted'
  BY <1>1, <1>2, <1>3, <1>5 DEF Saved, Accepted, SamePayments
<1>7. Recorded'
  <2>1. tx'.event = {ItsEvent'} /\ tx'.work.events = db'.events \cup {ItsEvent'}
    BY <1>1, <1>2, <1>3, <1>4, <1>5 DEF Saved
  <2>2. tx'.todo = db'.endpoints
    BY <1>1, <1>2, <1>3
  <2>3. {Delivery(ItsEvent', ep) : ep \in db'.endpoints \ tx'.todo} = {}
    BY <2>2
  <2>4. tx'.work.jobs = db'.jobs
    BY <1>1, <1>2, <1>3 DEF Saved
  <2> QED
    BY <1>6, <2>1, <2>2, <2>3, <2>4 DEF Recorded
<1>8. EffectInv'
  BY <1>1, <1>5, <1>7 DEF EffectInv, Answered
<1>9. ReservationInv'
  <2>1. tx.req.key = NoKey => tx'.work.records = db'.records
    BY <1>1, <1>2 DEF ReservationInv, SameRecords
  <2>2. tx.req.key # NoKey => Reserving(k)'
    BY <1>1, <1>2 DEF ReservationInv, SameRecords, Reserving
  <2> QED
    BY <1>1, <1>2, <1>7, <2>1, <2>2 DEF ReservationInv, Answered
<1> QED
  BY <1>8, <1>9

\* The delivery of a new event to another endpoint replaces no job.
LEMMA DeliveryIsNew ==
    ASSUME ApiInv, StoreInv, tx # NoTx, Recorded, NEW ep \in tx.todo, NEW j \in tx.work.jobs
    PROVE  ~SameJobId(Delivery(ItsEvent, ep), j)
<1> DEFINE id == tx.req.id
           v == db.payments[id].version
<1>1. /\ id \in Ids /\ v \in Nat /\ ItsEvent.id = id /\ ItsEvent.version = v + 1
  BY ResultIsNext, ItsEventIsNext DEF StoreInv, Recorded, Accepted
<1>2. CASE j \in db.jobs
  <2>1. j.version \in 1..db.payments[j.id].version
    BY <1>2 DEF StoreInv, LedgerInv
  <2> QED
    BY <1>1, <2>1 DEF SameJobId, SameEventId, Delivery
<1>3. CASE \E x \in db.endpoints \ tx.todo : j = Delivery(ItsEvent, x)
  BY <1>3 DEF SameJobId, Delivery
<1> QED
  BY <1>2, <1>3 DEF Recorded

\* Schedule leaves one endpoint less to do.
LEMMA ScheduleKeepsTx ==
    ASSUME ApiInv, StoreInv, Schedule
    PROVE  EffectInv' /\ ReservationInv'
<1> DEFINE k == ScopeKey(tx.req)
<1>1. /\ OnlyTx /\ SamePayments /\ SameRecords /\ tx.step = "schedule"
      /\ tx'.event = tx.event /\ tx'.work.events = tx.work.events /\ tx'.resp = tx.resp
  BY ScheduleStep
<1>2. tx # NoTx /\ EffectInv /\ ReservationInv /\ KeyInv /\ LedgerInv /\ db' = db /\ tx'.req = tx.req
  BY <1>1 DEF OnlyTx, StoreInv
<1>3. Recorded /\ tx.work.endpoints = db.endpoints
  BY <1>1, <1>2 DEF EffectInv
<1>4. Result' = Result /\ ItsEvent' = ItsEvent /\ tx'.work.endpoints = db'.endpoints
  BY <1>1, <1>2, <1>3, StoreStays DEF OnlyTx
<1>5. PICK ep \in tx.todo, e \in tx.event :
        /\ tx'.todo = tx.todo \ {ep}
        /\ tx'.work.jobs = {j \in tx.work.jobs : ~SameJobId(Delivery(e, ep), j)} \cup {Delivery(e, ep)}
        /\ tx'.step = IF tx.todo = {ep} THEN Answered ELSE "schedule"
  BY ScheduleStep
<1>6. e = ItsEvent /\ ep \in db.endpoints
  BY <1>3 DEF Recorded
<1>7. tx'.work.jobs = tx.work.jobs \cup {Delivery(ItsEvent, ep)}
  BY <1>2, <1>3, <1>5, <1>6, DeliveryIsNew
<1>8. db.endpoints \ tx'.todo = (db.endpoints \ tx.todo) \cup {ep}
  BY <1>5, <1>6
<1>9. tx'.work.jobs = db.jobs \cup {Delivery(ItsEvent, x) : x \in db.endpoints \ tx'.todo}
  <2>1. tx.work.jobs = db.jobs \cup {Delivery(ItsEvent, x) : x \in db.endpoints \ tx.todo}
    BY <1>3 DEF Recorded
  <2>2. {Delivery(ItsEvent, x) : x \in db.endpoints \ tx'.todo}
          = {Delivery(ItsEvent, x) : x \in db.endpoints \ tx.todo} \cup {Delivery(ItsEvent, ep)}
    BY <1>8
  <2> QED
    BY <1>7, <2>1, <2>2
<1>10. Accepted'
  BY <1>1, <1>2, <1>3, <1>4 DEF Recorded, Accepted, SamePayments
<1>11. Recorded'
  BY <1>1, <1>2, <1>3, <1>4, <1>5, <1>9, <1>10 DEF Recorded
<1>12. tx'.step # "schedule" => tx'.todo = {}
  BY <1>5
<1>13. EffectInv'
  BY <1>4, <1>5, <1>11, <1>12 DEF EffectInv, Answered
<1>14. ReservationInv'
  <2>1. tx.req.key = NoKey => tx'.work.records = db'.records
    BY <1>1, <1>2 DEF ReservationInv, SameRecords
  <2>2. tx.req.key # NoKey => Reserving(k)'
    BY <1>1, <1>2 DEF ReservationInv, SameRecords, Reserving
  <2> QED
    BY <1>2, <1>5, <1>11, <2>1, <2>2 DEF ReservationInv, Answered
<1> QED
  BY <1>13, <1>14

\* Complete turns the reservation into the record of the response.
LEMMA CompleteKeepsTx ==
    ASSUME ApiInv, StoreInv, Complete
    PROVE  EffectInv' /\ ReservationInv'
<1> DEFINE k == ScopeKey(tx.req)
           rec == Record(tx.req, "completed", tx.resp)
<1>1. /\ OnlyTx /\ SamePayments /\ SameLedger
      /\ tx.step = "complete" /\ tx'.step = "commit" /\ tx'.resp = tx.resp /\ tx'.todo = tx.todo
      /\ tx'.work.records = [tx.work.records EXCEPT ![k] = rec]
  BY CompleteStep
<1>2. tx # NoTx /\ EffectInv /\ ReservationInv /\ KeyInv /\ LedgerInv /\ db' = db /\ tx'.req = tx.req
  BY <1>1 DEF OnlyTx, StoreInv
<1>3. (Untouched \/ (Recorded /\ tx.todo = {})) /\ tx.work.endpoints = db.endpoints
  BY <1>1, <1>2 DEF EffectInv
<1>4. Result' = Result /\ ItsEvent' = ItsEvent /\ tx'.work.endpoints = db'.endpoints
  BY <1>1, <1>2, <1>3, StoreStays DEF OnlyTx
<1>5. Untouched => Untouched'
  BY <1>1, <1>2 DEF Untouched, SamePayments, SameLedger
<1>6. Recorded => Recorded'
  BY <1>1, <1>2, <1>4 DEF Recorded, Accepted, SamePayments, SameLedger
<1>7. EffectInv'
  BY <1>1, <1>3, <1>4, <1>5, <1>6 DEF EffectInv
<1>8. /\ tx.req.key # NoKey
      /\ Reserving(k)
      /\ Succeeded(tx.resp) => Recorded
  BY <1>1, <1>2 DEF ReservationInv
<1>9. tx'.work.records = [db.records EXCEPT ![k] = rec]
  <2> DEFINE first == Record(tx.req, "processing", NoResponse)
  <2>1. tx.work.records = [db.records EXCEPT ![k] = first]
    BY <1>8 DEF Reserving
  <2>2. db.records = [x \in ScopeKeys |-> db.records[x]]
    BY <1>2 DEF KeyInv
  <2> HIDE DEF rec, first, k
  <2>3. [[db.records EXCEPT ![k] = first] EXCEPT ![k] = rec] = [db.records EXCEPT ![k] = rec]
    BY <2>2
  <2> QED
    BY <1>1, <2>1, <2>3
<1>10. Completing(k)'
  BY <1>1, <1>2, <1>6, <1>8, <1>9 DEF Completing, Reserving
<1>11. ReservationInv'
  BY <1>1, <1>2, <1>8, <1>10 DEF ReservationInv
<1> QED
  BY <1>7, <1>11

\* A commit stores the request's change of payment, ledger and deliveries as a
\* whole, or none of it.
LEMMA CommitsWhole ==
    ASSUME ApiInv, StoreInv, Commit
    PROVE  /\ tx # NoTx /\ tx' = NoTx /\ db' = tx.work /\ clock' = clock
           /\ db'.endpoints = db.endpoints
           /\ \/ /\ Untouched
                 /\ db'.payments = db.payments /\ db'.events = db.events /\ db'.jobs = db.jobs
              \/ /\ Recorded
                 /\ Result.err = "none"
                 /\ db'.payments = [db.payments EXCEPT ![tx.req.id] = Result.pay]
                 /\ db'.events = db.events \cup {ItsEvent}
                 /\ db'.jobs = db.jobs \cup {Delivery(ItsEvent, ep) : ep \in db.endpoints}
<1>1. tx # NoTx /\ tx' = NoTx /\ db' = tx.work /\ clock' = clock /\ tx.step = "commit"
  BY DEF Commit, NoTx
<1>2. tx.work.endpoints = db.endpoints /\ (Untouched \/ (Recorded /\ tx.todo = {}))
  BY <1>1 DEF StoreInv, EffectInv
<1>3. CASE Untouched
  BY <1>1, <1>2, <1>3 DEF Untouched
<1>4. CASE Recorded /\ tx.todo = {}
  <2>1. db.endpoints \ tx.todo = db.endpoints
    BY <1>4
  <2> QED
    BY <1>1, <1>2, <1>4, <2>1 DEF Recorded, Accepted
<1> QED
  BY <1>2, <1>3, <1>4

\* An event recorded with the request is in the ledger with its response.
LEMMA SuccessIsRecorded ==
    ASSUME ApiInv, StoreInv, tx # NoTx, Recorded
    PROVE  ItsEvent \in tx.work.events /\ ItsEvent.snapshot = tx.resp.pay
BY ItsEventIsNext DEF StoreInv, Recorded, Accepted, Success

\* A commit keeps the keys: the one it used has the record of its response.
LEMMA CommitKeepsKeys ==
    ASSUME ApiInv, StoreInv, Commit
    PROVE  KeyInv'
<1> DEFINE q == tx.req
           k == ScopeKey(q)
           rec == Record(q, "completed", tx.resp)
<1>1. tx # NoTx /\ tx.step = "commit" /\ db' = tx.work /\ KeyInv /\ ReservationInv
  BY CommitsWhole DEF Commit, StoreInv
<1>2. \A e \in db.events : e \in db'.events
  BY CommitsWhole
<1>3. CASE db'.records = db.records /\ UNCHANGED <<replies, applied>>
  BY <1>1, <1>2, <1>3 DEF KeyInv, StoredSuccessIsDurable
<1>4. CASE q.key # NoKey
  <2>0. /\ q \in KeyedRequests /\ k \in ScopeKeys
        /\ replies' = [replies EXCEPT ![q] = @ \cup {tx.resp}]
        /\ applied' = [applied EXCEPT ![k] = @ + Cardinality(tx.event)]
    BY <1>1, <1>4, KeyOfTx DEF Commit
  <2>1. /\ replies = [x \in KeyedRequests |-> replies[x]]
        /\ applied \in [ScopeKeys -> {0, 1}]
        /\ db.records = [x \in ScopeKeys |-> db.records[x]]
    BY <1>1 DEF KeyInv
  <2>2. /\ replies'[q] = replies[q] \cup {tx.resp}
        /\ \A x \in KeyedRequests : x # q => replies'[x] = replies[x]
        /\ replies' = [x \in KeyedRequests |-> replies'[x]]
    BY <2>0, <2>1
  <2>3. CASE Replaying(k)
    <3>1. db'.records = db.records /\ tx.resp = Answer(db.records[k], q) /\ db.records[k] # NoRecord
      BY <1>1, <2>3 DEF Replaying
    <3>2. Cardinality(tx.event) = 0
      BY <2>3, FS_EmptySet DEF Replaying, Untouched
    <3>3. applied' = applied
      BY <2>0, <2>1, <3>2
    <3>4. \A x \in KeyedRequests : LET r == db'.records[ScopeKey(x)] IN
             replies'[x] \subseteq (IF r = NoRecord THEN {} ELSE {Answer(r, x)})
      BY <1>1, <2>0, <2>2, <3>1 DEF KeyInv
    <3>5. StoredSuccessIsDurable'
      BY <1>1, <1>2, <3>1 DEF KeyInv, StoredSuccessIsDurable
    <3> QED
      BY <1>1, <2>2, <3>1, <3>3, <3>4, <3>5 DEF KeyInv
  <2>4. CASE Completing(k)
    <3>1. db.records[k] = NoRecord /\ db'.records = [db.records EXCEPT ![k] = rec]
      BY <1>1, <2>4 DEF Completing
    <3>2. rec # NoRecord /\ rec.status = "completed" /\ rec.resp = tx.resp /\ rec.body = Body(q)
      BY DEF Record, NoRecord
    <3> HIDE DEF rec
    <3>3. /\ db'.records[k] = rec
          /\ \A x \in ScopeKeys : x # k => db'.records[x] = db.records[x]
          /\ db'.records = [x \in ScopeKeys |-> db'.records[x]]
      BY <2>0, <2>1, <3>1
    <3>4. applied[k] = 0 /\ \A x \in KeyedRequests : ScopeKey(x) = k => replies[x] = {}
      BY <1>1, <2>0, <3>1 DEF KeyInv
    <3>5. Cardinality(tx.event) \in {0, 1}
      <4>1. Untouched \/ Recorded
        BY CommitsWhole
      <4> QED
        BY <4>1, FS_EmptySet, FS_Singleton DEF Untouched, Recorded
    <3>6. /\ applied' \in [ScopeKeys -> {0, 1}]
          /\ \A x \in ScopeKeys : x # k => applied'[x] = applied[x]
      BY <2>0, <2>1, <3>4, <3>5
    <3>7. \A x \in ScopeKeys : db'.records[x] = NoRecord => applied'[x] = 0
      BY <1>1, <3>2, <3>3, <3>6 DEF KeyInv
    <3>8. ASSUME NEW x \in KeyedRequests
          PROVE  LET r == db'.records[ScopeKey(x)] IN
                 replies'[x] \subseteq (IF r = NoRecord THEN {} ELSE {Answer(r, x)})
      <4>0. ScopeKey(x) \in ScopeKeys
        BY DEF KeyedRequests, ScopeKeys
      <4>1. CASE x = q
        BY <2>2, <3>2, <3>3, <3>4, <4>1 DEF Answer
      <4>2. CASE x # q /\ ScopeKey(x) = k
        BY <2>2, <3>4, <4>2
      <4>3. CASE x # q /\ ScopeKey(x) # k
        BY <1>1, <2>2, <3>3, <4>0, <4>3 DEF KeyInv
      <4> QED
        BY <4>1, <4>2, <4>3
    <3>9. StoredSuccessIsDurable'
      <4> SUFFICES ASSUME NEW x \in ScopeKeys, db'.records[x].resp.code \in {200, 201}
                   PROVE  \E e \in db'.events : e.snapshot = db'.records[x].resp.pay
        BY DEF StoredSuccessIsDurable
      <4>1. CASE x = k
        <5>1. Recorded
          BY <2>4, <3>2, <3>3, <4>1 DEF Completing, Succeeded
        <5> QED
          BY <1>1, <3>2, <3>3, <4>1, <5>1, SuccessIsRecorded
      <4>2. CASE x # k
        BY <1>1, <1>2, <3>3, <4>2 DEF KeyInv, StoredSuccessIsDurable
      <4> QED
        BY <4>1, <4>2
    <3>10. \A x \in ScopeKeys : db'.records[x] = NoRecord \/ db'.records[x].status = "completed"
      BY <1>1, <3>2, <3>3 DEF KeyInv
    <3> QED
      BY <2>2, <3>3, <3>6, <3>7, <3>8, <3>9, <3>10 DEF KeyInv
  <2> QED
    BY <1>1, <1>4, <2>3, <2>4 DEF ReservationInv
<1>5. CASE q.key = NoKey
  BY <1>1, <1>3, <1>5 DEF Commit, ReservationInv
<1> QED
  BY <1>4, <1>5

\* The invariant holds initially.
LEMMA InitStoreInv == Init => StoreInv
<1> SUFFICES ASSUME Init PROVE StoreInv
  OBVIOUS
<1>1. /\ db.payments = [i \in Ids |-> NoPayment] /\ db.events = {} /\ db.jobs = {}
      /\ db.records = [k \in ScopeKeys |-> NoRecord]
      /\ tx = NoTx /\ clock = 1
      /\ replies = [q \in KeyedRequests |-> {}]
      /\ applied = [k \in ScopeKeys |-> 0]
  BY DEF Init, KeyedRequests
<1>2. \A i \in Ids : db.payments[i].version = 0
  BY <1>1 DEF NoPayment
<1>3. LedgerMatchesPayments
  <2>1. \A i \in Ids : LedgerOf(db, i)
    BY <1>1, <1>2 DEF LedgerOf
  <2> QED
    BY <2>1, LedgerByPayment
<1>4. LedgerInv
  BY <1>1, <1>3 DEF LedgerInv
<1>5. KeyInv
  <2>1. NoRecord.resp.code = 0
    BY DEF NoRecord, NoResponse
  <2>2. StoredSuccessIsDurable
    BY <1>1, <2>1 DEF StoredSuccessIsDurable
  <2>3. \A q \in KeyedRequests : replies[q] = {}
    BY <1>1
  <2> QED
    BY <1>1, <2>2, <2>3 DEF KeyInv
<1> QED
  BY <1>1, <1>4, <1>5 DEF StoreInv

\* Every step keeps the invariant.
LEMMA NextStoreInv == ApiInv /\ StoreInv /\ [Next]_vars => StoreInv'
<1> SUFFICES ASSUME ApiInv, StoreInv, [Next]_vars PROVE StoreInv'
  OBVIOUS
<1>1. ASSUME OnlyTx, EffectInv', ReservationInv' PROVE StoreInv'
  BY <1>1, StoreStays DEF StoreInv
<1>2. ASSUME NEW q \in Requests, Begin(q) PROVE StoreInv'
  <2>1. /\ tx'.step = IF q.key = NoKey THEN "command" ELSE "reserve"
        /\ tx'.req = q /\ tx'.work = db /\ tx'.event = {}
        /\ UNCHANGED <<db, clock, replies, applied>>
    BY <1>2 DEF Begin, history
  <2>2. Untouched' /\ EffectInv'
    BY <2>1 DEF Untouched, EffectInv
  <2>3. ReservationInv'
    BY <2>1 DEF ReservationInv
  <2>4. LedgerInv' /\ KeyInv'
    BY <2>1, LedgerStays DEF StoreInv, KeyInv, StoredSuccessIsDurable
  <2> QED
    BY <2>2, <2>3, <2>4 DEF StoreInv
<1>3. CASE Reserve
  BY <1>1, <1>3, ReserveStep, ReserveKeepsTx
<1>4. CASE Command
  BY <1>1, <1>4, CommandStep, CommandKeepsTx
<1>5. CASE Publish
  BY <1>1, <1>5, PublishStep, PublishKeepsTx
<1>6. CASE Schedule
  BY <1>1, <1>6, ScheduleStep, ScheduleKeepsTx
<1>7. CASE Complete
  BY <1>1, <1>7, CompleteStep, CompleteKeepsTx
<1>8. CASE Commit
  <2>1. tx # NoTx /\ tx' = NoTx /\ clock' = clock
    BY <1>8, CommitsWhole
  <2>2. LedgerInv'
    <3>1. CASE db'.payments = db.payments /\ db'.events = db.events /\ db'.jobs = db.jobs
      BY <2>1, <3>1, LedgerStays DEF StoreInv
    <3>2. CASE /\ Result.err = "none"
               /\ db'.payments = [db.payments EXCEPT ![tx.req.id] = Result.pay]
               /\ db'.events = db.events \cup {ItsEvent}
               /\ db'.jobs = db.jobs \cup {Delivery(ItsEvent, ep) : ep \in db.endpoints}
      BY <2>1, <3>2, LedgerGrows DEF StoreInv
    <3> QED
      BY <1>8, <3>1, <3>2, CommitsWhole
  <2>3. KeyInv'
    BY <1>8, CommitKeepsKeys
  <2> QED
    BY <2>1, <2>2, <2>3 DEF StoreInv
<1>9. CASE tx' = NoTx /\ UNCHANGED <<db, clock, replies, applied>>
  BY <1>9, LedgerStays DEF StoreInv, KeyInv, StoredSuccessIsDurable
<1>10. ASSUME NEW ep \in Endpoints, RegisterEndpoint(ep) PROVE StoreInv'
  <2>1. /\ DbShape(db) /\ tx' = NoTx /\ UNCHANGED <<clock, replies, applied>>
        /\ db' = [db EXCEPT !.endpoints = db.endpoints \cup {ep}]
    BY <1>10 DEF RegisterEndpoint, ApiInv, history
  <2>2. /\ db'.payments = db.payments /\ db'.events = db.events /\ db'.jobs = db.jobs
        /\ db'.records = db.records
    BY <2>1 DEF DbShape
  <2> QED
    BY <2>1, <2>2, LedgerStays DEF StoreInv, KeyInv, StoredSuccessIsDurable
<1>11. CASE AdvanceClock
  <2>1. tx' = NoTx /\ UNCHANGED <<db, replies, applied>> /\ clock' = clock + 1
    BY <1>11 DEF AdvanceClock, history
  <2>2. LedgerInv'
    BY <2>1 DEF StoreInv, LedgerInv, LedgerMatchesPayments, EventsOf
  <2> QED
    BY <2>1, <2>2 DEF StoreInv, KeyInv, StoredSuccessIsDurable
<1>12. CASE UNCHANGED vars
  <2>1. db' = db /\ tx' = tx /\ clock' = clock /\ replies' = replies /\ applied' = applied
    BY <1>12 DEF vars
  <2>2. LedgerInv' /\ KeyInv'
    BY <2>1, LedgerStays DEF StoreInv, KeyInv, StoredSuccessIsDurable
  <2>3. CASE tx = NoTx
    BY <2>1, <2>2, <2>3 DEF StoreInv
  <2>4. CASE tx # NoTx
    <3>1. OnlyTx
      BY <2>1, <2>4 DEF OnlyTx
    <3>2. Result' = Result /\ ItsEvent' = ItsEvent
      BY <3>1, StoreStays DEF StoreInv
    <3>3. EffectInv'
      BY <2>1, <2>4, <3>2 DEF StoreInv, EffectInv, Untouched, Saved, Recorded, Accepted
    <3>4. ReservationInv'
      BY <2>1, <2>4, <3>2 DEF StoreInv, ReservationInv, Replaying, Reserving, Completing,
         Untouched, Recorded, Accepted
    <3> QED
      BY <2>2, <3>3, <3>4 DEF StoreInv
  <2> QED
    BY <2>3, <2>4
<1> QED
  BY <1>2, <1>3, <1>4, <1>5, <1>6, <1>7, <1>8, <1>9, <1>10, <1>11, <1>12
  DEF Next, Rollback, history

\* The invariant holds throughout.
THEOREM StoreInvariance == Spec => []StoreInv
BY ApiInvariance, InitStoreInv, NextStoreInv, PTL DEF Spec

\* For any clients, any retries and any failures in between, the ledger has one
\* event for every version of a payment, each caused by the one before it.
THEOREM LedgerIsComplete == Spec => []LedgerMatchesPayments
<1>1. StoreInv => LedgerMatchesPayments
  BY DEF StoreInv, LedgerInv
<1> QED
  BY <1>1, StoreInvariance, PTL

\* A request with a key is answered the same way every time.
THEOREM RepliesAreStable == Spec => []ReplayIsStable
<1>1. StoreInv => ReplayIsStable
  <2> SUFFICES ASSUME StoreInv, NEW q \in KeyedRequests PROVE Cardinality(replies[q]) <= 1
    BY DEF ReplayIsStable
  <2>1. \E a : replies[q] \subseteq {a}
    BY DEF StoreInv, KeyInv
  <2>2. PICK a : replies[q] \subseteq {a}
    BY <2>1
  <2>3. replies[q] = {} \/ replies[q] = {a}
    BY <2>2
  <2>4. Cardinality({}) = 0 /\ Cardinality({a}) = 1
    BY FS_EmptySet, FS_Singleton
  <2> QED
    BY <2>3, <2>4
<1> QED
  BY <1>1, StoreInvariance, PTL

\* The commands under one idempotency key change a payment once at most.
THEOREM KeysApplyOnce == Spec => []KeyAppliedOnce
<1>1. StoreInv => KeyAppliedOnce
  BY DEF StoreInv, KeyInv, KeyAppliedOnce
<1> QED
  BY <1>1, StoreInvariance, PTL

\* No reservation outlives its request, wherever that request fails.
THEOREM ReservationsEnd == Spec => []NoStuckReservation
<1>1. StoreInv => NoStuckReservation
  BY DEF StoreInv, KeyInv, NoStuckReservation, NoRecord
<1> QED
  BY <1>1, StoreInvariance, PTL

\* A success stored for replay is backed by an event of the ledger.
THEOREM SuccessesAreDurable == Spec => []StoredSuccessIsDurable
<1>1. StoreInv => StoredSuccessIsDurable
  BY DEF StoreInv, KeyInv
<1> QED
  BY <1>1, StoreInvariance, PTL

-----------------------------------------------------------------------------
(* The endpoints implement the abstract service.                           *)

\* The service has the same aggregate.
LEMMA SameAggregate ==
    ASSUME NEW p, NEW a, NEW c
    PROVE  /\ Service!NoPayment = NoPayment
           /\ Service!New(a, c) = New(a, c)
           /\ Service!Authorize(p) = Authorize(p)
           /\ Service!Fail(p) = Fail(p)
           /\ Service!Cancel(p) = Cancel(p)
           /\ Service!Capture(p, a, c) = Capture(p, a, c)
           /\ Service!Refund(p, a, c) = Refund(p, a, c)
<1>1. Service!NoPayment = NoPayment
  BY DEF Service!NoPayment, NoPayment
<1>2. \A e, x : Service!Error(e) = Error(e) /\ Service!Ok(x) = Ok(x)
  BY <1>1 DEF Service!Error, Error, Service!Ok, Ok
<1>3. Service!New(a, c) = New(a, c)
  BY <1>1, <1>2 DEF Service!New, New
<1>4. Service!Authorize(p) = Authorize(p)
  BY <1>2 DEF Service!Authorize, Authorize
<1>5. Service!Fail(p) = Fail(p) /\ Service!Cancel(p) = Cancel(p)
  BY <1>2 DEF Service!Fail, Fail, Service!Cancel, Cancel
<1>6. Service!Capture(p, a, c) = Capture(p, a, c)
  BY <1>2 DEF Service!Capture, Capture
<1>7. Service!Refund(p, a, c) = Refund(p, a, c)
  BY <1>2 DEF Service!Refund, Refund
<1> QED
  BY <1>1, <1>3, <1>4, <1>5, <1>6, <1>7

\* An accepted request is an accepted command of the service, in a currency it
\* knows: creations where nothing is stored, other commands on what is.
LEMMA ResultIsService ==
    ASSUME ApiInv, tx # NoTx, Result.err = "none"
    PROVE  LET i == tx.req.id
               type == EventType(tx.req.op)
           IN  /\ type \in Service!EventTypes
               /\ (type = "payment.created") <=> (db.payments[i] = NoPayment)
               /\ \E c \in Currencies :
                    Service!Result(type, db.payments[i], tx.req.amount, c) = Result
<1> DEFINE q == tx.req
           i == q.id
           p == db.payments[i]
           r == Execute(db, q)
<1>1. /\ q \in Requests /\ i \in Ids /\ q.op \in Ops
      /\ db.payments \in [Ids -> Payments \cup {NoPayment}] /\ Storable(p)
      /\ p.version \in Nat /\ Result.pay.version = p.version + 1
  BY ResultIsNext, PaymentApiAssumption DEF ApiInv, DbShape
<1>2. Result = r /\ r.err = "none"
  BY DEF Result, Outcome, Error
<1>3. EventType(q.op) \in Service!EventTypes
  BY <1>1 DEF EventType, Service!EventTypes, Ops
<1>4. CASE q.op = "create"
  <2>1. r = New(q.amount, q.currency) /\ q.currency \in Currencies
    BY <1>2, <1>4 DEF Execute, CreatePayment, MoneyError, Error
  <2>2. EventType(q.op) = "payment.created"
    BY <1>4 DEF EventType
  <2>3. q.amount \in Int
    BY <1>1, PaymentApiAssumption
  <2>4. r.pay.version = 1
    BY <1>2, <2>1, <2>3, NewIsValid DEF Forward, NoPayment
  <2>5. p.version = 0
    BY <1>1, <1>2, <2>4
  <2>6. p = NoPayment
    BY <1>1, <2>5 DEF Storable, Valid
  <2>7. Service!Result("payment.created", p, q.amount, q.currency) = New(q.amount, q.currency)
    BY SameAggregate DEF Service!Result
  <2> QED
    BY <1>2, <1>3, <2>1, <2>2, <2>6, <2>7
<1>5. CASE q.op # "create"
  <2> DEFINE found == Find(db, i)
  <2>1. found.err = "none"
    BY <1>1, <1>2, <1>5 DEF Execute, Ops, AuthorizePayment, FailPayment, CancelPayment,
       CapturePayment, RefundPayment
  <2>2. found.pay = p /\ p # NoPayment /\ p \in Payments
    BY <1>1, <2>1 DEF Find, Storable, Ok, Error
  <2>3. p.currency \in Currencies
    BY <2>2 DEF Payments
  <2>4. EventType(q.op) # "payment.created"
    BY <1>1, <1>5 DEF EventType, Ops
  <2>5. \E c \in Currencies : Service!Result(EventType(q.op), p, q.amount, c) = r
    <3>1. CASE q.op = "authorize"
      BY <2>1, <2>2, <2>3, <3>1, SameAggregate
      DEF Execute, AuthorizePayment, EventType, Service!Result
    <3>2. CASE q.op = "fail"
      BY <2>1, <2>2, <2>3, <3>2, SameAggregate
      DEF Execute, FailPayment, EventType, Service!Result
    <3>3. CASE q.op = "cancel"
      BY <2>1, <2>2, <2>3, <3>3, SameAggregate
      DEF Execute, CancelPayment, EventType, Service!Result
    <3>4. CASE q.op = "capture"
      <4>1. r = Capture(p, q.amount, q.currency) /\ q.currency \in Currencies
        BY <1>2, <2>1, <2>2, <3>4 DEF Execute, CapturePayment, MoneyError, Error
      <4>2. Service!Result("payment.captured", p, q.amount, q.currency) = Capture(p, q.amount, q.currency)
        BY SameAggregate DEF Service!Result
      <4>3. EventType(q.op) = "payment.captured"
        BY <3>4 DEF EventType
      <4> QED
        BY <4>1, <4>2, <4>3
    <3>5. CASE q.op = "refund"
      <4>1. r = Refund(p, q.amount, q.currency) /\ q.currency \in Currencies
        BY <1>2, <2>1, <2>2, <3>5 DEF Execute, RefundPayment, MoneyError, Error
      <4>2. Service!Result("payment.refunded", p, q.amount, q.currency) = Refund(p, q.amount, q.currency)
        BY SameAggregate DEF Service!Result
      <4>3. EventType(q.op) = "payment.refunded"
        BY <3>5 DEF EventType
      <4> QED
        BY <4>1, <4>2, <4>3
    <3> QED
      BY <1>1, <1>5, <3>1, <3>2, <3>3, <3>4, <3>5 DEF Ops
  <2> QED
    BY <1>2, <1>3, <2>2, <2>4, <2>5
<1> QED
  BY <1>4, <1>5

\* The commit of an accepted request is a step of the service.
LEMMA CommitAccepts ==
    ASSUME ApiInv, StoreInv, tx # NoTx, Result.err = "none", clock' = clock,
           db'.endpoints = db.endpoints,
           db'.payments = [db.payments EXCEPT ![tx.req.id] = Result.pay],
           db'.events = db.events \cup {ItsEvent},
           db'.jobs = db.jobs \cup {Delivery(ItsEvent, ep) : ep \in db.endpoints}
    PROVE  Service!Next
<1> DEFINE i == tx.req.id
           type == EventType(tx.req.op)
           p == db.payments[i]
<1>1. /\ tx.req \in Requests /\ i \in Ids
      /\ p.version \in Nat /\ Result.pay.version = p.version + 1
  BY ResultIsNext
<1>2. /\ type \in Service!EventTypes
      /\ (type = "payment.created") <=> (p = NoPayment)
      /\ \E c \in Currencies : Service!Result(type, p, tx.req.amount, c) = Result
  BY ResultIsService
<1>3. PICK c \in Currencies : Service!Result(type, p, tx.req.amount, c) = Result
  BY <1>2
<1> DEFINE e == [id |-> i, type |-> type, version |-> Result.pay.version, at |-> clock,
                 cause |-> p.version, snapshot |-> Result.pay]
<1>4. Causation(db, i, Result.pay.version) = p.version
  <2>1. ItsEvent.cause = p.version
    BY ItsEventIsNext DEF StoreInv
  <2> QED
    BY <2>1 DEF ItsEvent, NewEvent
<1>5. ItsEvent = e
  BY <1>4 DEF ItsEvent, NewEvent
<1>6. \A ep : Delivery(ItsEvent, ep) = [id |-> i, type |-> type, version |-> Result.pay.version,
                                        endpoint |-> ep, at |-> clock]
  BY <1>5 DEF Delivery
<1>7. {Delivery(ItsEvent, ep) : ep \in db.endpoints}
        = {[id |-> i, type |-> type, version |-> Result.pay.version,
            endpoint |-> ep, at |-> clock] : ep \in db.endpoints}
  BY <1>6
<1>8. tx.req.amount \in {q.amount : q \in Requests}
  BY <1>1
<1>9. Service!NoPayment = NoPayment
  BY SameAggregate
<1>10. Service!Accept(i, type, tx.req.amount, c)
  <2>1. /\ (type = "payment.created") <=> (db.payments[i] = Service!NoPayment)
        /\ Service!Result(type, db.payments[i], tx.req.amount, c).err = "none"
        /\ db.payments' = [db.payments EXCEPT
                             ![i] = Service!Result(type, db.payments[i], tx.req.amount, c).pay]
    BY <1>2, <1>3, <1>9
  <2>2. db.events' = db.events \cup {e}
    BY <1>5
  <2>3. db.jobs' = db.jobs \cup {[id |-> i, type |-> type, version |-> Result.pay.version,
                                  endpoint |-> ep, at |-> clock] : ep \in db.endpoints}
    BY <1>7
  <2> HIDE DEF i, type
  <2> QED
    BY <1>3, <2>1, <2>2, <2>3 DEF Service!Accept
<1> QED
  BY <1>1, <1>2, <1>8, <1>10 DEF Service!Next

\* Every request takes effect in one step of the abstract service or not at all,
\* wherever it fails, and nothing else changes what is stored.
THEOREM RefinesService == Spec => AtomicService
<1>1. Init => Service!Init
  BY SameAggregate DEF Init, Service!Init
<1>2. ApiInv /\ StoreInv /\ [Next]_vars => [Service!Next]_(Service!vars)
  <2> SUFFICES ASSUME ApiInv, StoreInv, [Next]_vars
               PROVE  Service!Next \/ UNCHANGED Service!vars
    OBVIOUS
  <2>1. CASE Commit
    <3>1. tx # NoTx /\ clock' = clock /\ db'.endpoints = db.endpoints
      BY <2>1, CommitsWhole
    <3>2. CASE db'.payments = db.payments /\ db'.events = db.events /\ db'.jobs = db.jobs
      BY <3>1, <3>2 DEF Service!vars
    <3>3. CASE /\ Result.err = "none"
               /\ db'.payments = [db.payments EXCEPT ![tx.req.id] = Result.pay]
               /\ db'.events = db.events \cup {ItsEvent}
               /\ db'.jobs = db.jobs \cup {Delivery(ItsEvent, ep) : ep \in db.endpoints}
      BY <3>1, <3>3, CommitAccepts
    <3> QED
      BY <2>1, <3>2, <3>3, CommitsWhole
  <2>2. ASSUME NEW ep \in Endpoints, RegisterEndpoint(ep) PROVE Service!Next
    <3>1. DbShape(db) /\ clock' = clock /\ db' = [db EXCEPT !.endpoints = db.endpoints \cup {ep}]
      BY <2>2 DEF RegisterEndpoint, ApiInv
    <3>2. /\ db'.payments = db.payments /\ db'.events = db.events /\ db'.jobs = db.jobs
          /\ db'.endpoints = db.endpoints \cup {ep}
      BY <3>1 DEF DbShape
    <3>3. Service!RegisterEndpoint(ep)
      BY <3>1, <3>2 DEF Service!RegisterEndpoint
    <3> QED
      BY <3>3 DEF Service!Next
  <2>3. CASE AdvanceClock
    <3>1. Service!Advance
      BY <2>3 DEF AdvanceClock, Service!Advance
    <3> QED
      BY <3>1 DEF Service!Next
  <2>4. CASE UNCHANGED <<db, clock>>
    BY <2>4 DEF Service!vars
  <2> QED
    BY <2>1, <2>2, <2>3, <2>4 DEF Next, Begin, Reserve, Command, Publish, Schedule, Complete,
       Rollback, vars
<1> QED
  BY <1>1, <1>2, ApiInvariance, StoreInvariance, PTL DEF Spec, AtomicService, Service!Spec

-----------------------------------------------------------------------------
(* Reading the ledger back.                                                *)

\* Among events with the versions 1..v, one each, m have a version up to m.
LEMMA CountUpTo ==
    ASSUME NEW S, NEW v \in Nat, NEW m \in 0..v,
           \A e \in S : e.version \in 1..v,
           \A n \in 1..v : \E e \in S : e.version = n,
           \A e, f \in S : e.version = f.version => e = f
    PROVE  Cardinality({f \in S : f.version <= m}) = m
<1> DEFINE T == {f \in S : f.version <= m}
           g == [n \in 1..m |-> CHOOSE e \in S : e.version = n]
<1>1. \A n \in 1..m : n \in 1..v
  OBVIOUS
<1>2. \A n \in 1..m : g[n] \in S /\ g[n].version = n
  BY <1>1
<1>3. g \in [1..m -> T]
  BY <1>2
<1>4. \A a, b \in 1..m : g[a] = g[b] => a = b
  BY <1>2
<1>5. \A t \in T : \E n \in 1..m : g[n] = t
  <2> SUFFICES ASSUME NEW t \in T PROVE g[t.version] = t /\ t.version \in 1..m
    OBVIOUS
  <2>1. t \in S /\ t.version \in 1..m
    OBVIOUS
  <2>2. g[t.version] \in S /\ g[t.version].version = t.version
    BY <1>2, <2>1
  <2> QED
    BY <2>1, <2>2
<1> HIDE DEF g, T
<1>6. g \in Bijection(1..m, T)
  BY <1>3, <1>4, <1>5 DEF Bijection, Injection, Surjection, IsInjective
<1>7. m \in Nat /\ ExistsBijection(1..m, T)
  BY <1>6 DEF ExistsBijection
<1> QED
  BY <1>7, FS_CountingElements DEF T

\* ListByAggregate returns the events in the order of their versions, however
\* virtual time moved between them.
LEMMA HistoryInOrder ==
    ASSUME ApiInv, StoreInv, NEW i \in Ids
    PROVE  LET v == db.payments[i].version
           IN  /\ v \in Nat
               /\ DOMAIN History(i) = 1..v
               /\ \A n \in 1..v : History(i)[n] \in EventsOf(i) /\ History(i)[n].version = n
<1> DEFINE v == db.payments[i].version
           Own == EventsOf(i)
<1>1. v \in Nat
  BY DEF ApiInv, DbShape, Payments, NoPayment
<1>2. LedgerOf(db, i)
  BY LedgerByPayment DEF StoreInv, LedgerInv
<1>3. /\ \A e \in Own : e.version \in 1..v
      /\ \A n \in 1..v : \E e \in Own : e.version = n
      /\ \A e, f \in Own : e.version = f.version => e = f
  BY <1>2 DEF LedgerOf, EventsOf
<1>4. \A e, f \in Own : e.at \in Nat /\ f.at \in Nat /\ (e.version <= f.version => e.at <= f.at)
  BY DEF StoreInv, LedgerInv, EventsOf
<1> HIDE DEF v, Own
<1>5. \A e, f \in Own : Earlier(f, e) <=> f.version <= e.version
  <2> SUFFICES ASSUME NEW e \in Own, NEW f \in Own PROVE Earlier(f, e) <=> f.version <= e.version
    OBVIOUS
  <2>1. e.version \in Int /\ f.version \in Int /\ e.at \in Int /\ f.at \in Int
    BY <1>1, <1>3, <1>4
  <2>2. (e.version <= f.version => e.at <= f.at) /\ (f.version <= e.version => f.at <= e.at)
    BY <1>4
  <2> QED
    BY <2>1, <2>2 DEF Earlier
<1>6. ASSUME NEW e \in Own PROVE Cardinality({f \in Own : Earlier(f, e)}) = e.version
  <2>1. {f \in Own : Earlier(f, e)} = {f \in Own : f.version <= e.version}
    BY <1>5
  <2>2. e.version \in 0..v
    BY <1>1, <1>3
  <2> QED
    BY <1>1, <1>3, <2>1, <2>2, CountUpTo
<1>7. Cardinality(Own) = v
  <2>1. {f \in Own : f.version <= v} = Own
    BY <1>1, <1>3
  <2>2. v \in 0..v
    BY <1>1
  <2>3. Cardinality({f \in Own : f.version <= v}) = v
    BY <1>1, <1>3, <2>2, CountUpTo
  <2> QED
    BY <2>1, <2>3
<1>8. History(i) = [n \in 1..v |-> CHOOSE e \in Own : Cardinality({f \in Own : Earlier(f, e)}) = n]
  BY <1>7 DEF History, Own
<1>9. ASSUME NEW n \in 1..v PROVE History(i)[n] \in Own /\ History(i)[n].version = n
  <2>1. \E e \in Own : Cardinality({f \in Own : Earlier(f, e)}) = n
    BY <1>3, <1>6
  <2>2. /\ History(i)[n] \in Own
        /\ Cardinality({f \in Own : Earlier(f, History(i)[n])}) = n
    BY <1>8, <2>1
  <2> QED
    BY <1>6, <2>2
<1> QED
  BY <1>1, <1>8, <1>9 DEF v, Own

\* Reconstructing a payment from its ledger gives the stored payment, whatever
\* virtual times its events were recorded at.
THEOREM LedgerReconstructs == Spec => []HistoryReconstructs
<1>1. ApiInv /\ StoreInv => HistoryReconstructs
  <2> SUFFICES ASSUME ApiInv, StoreInv, NEW i \in Ids
               PROVE  Reconstruct(History(i)) = db.payments[i]
    BY DEF HistoryReconstructs
  <2> DEFINE v == db.payments[i].version
             h == History(i)
  <2>1. /\ v \in Nat /\ DOMAIN h = 1..v
        /\ \A n \in 1..v : h[n] \in EventsOf(i) /\ h[n].version = n
    BY HistoryInOrder
  <2>2. Storable(db.payments[i])
    BY DEF ApiInv
  <2>3. \A e \in EventsOf(i) : Valid(e.snapshot) /\ e.snapshot.version = e.version
    BY DEF StoreInv, LedgerInv, EventsOf
  <2>4. \A e \in EventsOf(i) : e.version = v => e.snapshot = db.payments[i]
    BY DEF StoreInv, LedgerInv, LedgerMatchesPayments
  <2> HIDE DEF h
  <2>5. CASE v = 0
    <3>1. db.payments[i] = NoPayment
      BY <2>2, <2>5 DEF Storable, Valid
    <3>2. DOMAIN h = {}
      BY <2>1, <2>5
    <3> QED
      BY <3>1, <3>2 DEF Reconstruct, h
  <2>6. CASE v # 0
    <3>1. v \in 1..v /\ v + 1 \notin 1..v /\ \A n \in 1..v : n + 1 \notin 1..v => n = v
      BY <2>1, <2>6
    <3>2. (CHOOSE n \in DOMAIN h : n + 1 \notin DOMAIN h) = v
      BY <2>1, <3>1
    <3>3. ~(\/ DOMAIN h = {}
            \/ \E n \in DOMAIN h : h[n].version # n \/ h[n].snapshot.version # n
                                   \/ ~Valid(h[n].snapshot))
      BY <2>1, <2>3, <3>1
    <3>4. Reconstruct(h) = h[v].snapshot
      BY <3>2, <3>3 DEF Reconstruct
    <3>5. h[v].snapshot = db.payments[i]
      BY <2>1, <2>4, <3>1
    <3> QED
      BY <3>4, <3>5 DEF h
  <2> QED
    BY <2>5, <2>6
<1> QED
  BY <1>1, ApiInvariance, StoreInvariance, PTL
=============================================================================
