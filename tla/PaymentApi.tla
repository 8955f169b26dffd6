----------------------------- MODULE PaymentApi -----------------------------
(***************************************************************************)
(* The payment endpoints over SQLite.  A request runs in one transaction,  *)
(* statement by statement: the idempotency reservation, the command with   *)
(* its compare-and-swap save, the event appended to the ledger, one        *)
(* scheduler job for every webhook endpoint, the stored response, the      *)
(* commit.  The database has a single connection, so one transaction is    *)
(* open at a time; it works on `tx.work', which replaces the committed     *)
(* database when it commits and is dropped when anything fails.            *)
(*                                                                         *)
(* Clients send any request at any time and any number of times: retries,  *)
(* duplicates and reorderings are all sequences of Begin steps.            *)
(***************************************************************************)
EXTENDS Payment, FiniteSets

CONSTANTS
    Ids,          \* payment ids
    Endpoints,    \* webhook endpoint ids; naturals, ordered as the code sorts them
    Requests,     \* [op, id, amount, currency, key] the clients may send
    NoKey,        \* key of a request without an Idempotency-Key header
    MaxTime       \* bound on the virtual clock

\* The commands; fail has no route and comes from payment workflows, unkeyed.
Ops == {"create", "authorize", "capture", "refund", "cancel", "fail"}

Body(q) == <<q.amount, q.currency, IF q.op = "create" THEN q.id ELSE "-">>
Scope(q) == IF q.op = "create" THEN <<"create", "-">> ELSE <<q.op, q.id>>
ScopeKey(q) == <<Scope(q), q.key>>
ScopeKeys == {ScopeKey(q) : q \in {r \in Requests : r.key # NoKey}}

ASSUME PaymentApiAssumption ==
    /\ Requests \subseteq [op : Ops, id : Ids, amount : Int, currency : STRING, key : STRING]
    /\ \A q \in Requests : q.op = "fail" => q.key = NoKey
    /\ Endpoints \subseteq Nat
    /\ MaxTime \in Nat \ {0}
    /\ Currencies \subseteq STRING

VARIABLES
    db,       \* the committed tables
    tx,       \* the transaction in progress, or NoTx
    clock,    \* virtual business time
    replies,  \* history: responses below 500 sent to each keyed request
    applied   \* history: committed commands under each scope and key

vars == <<db, tx, clock, replies, applied>>

-----------------------------------------------------------------------------
NoResponse == [code |-> 0, pay |-> NoPayment]
Success(op, p) == [code |-> IF op = "create" THEN 201 ELSE 200, pay |-> p]
Failure(err) == [code |-> HttpStatus(err), pay |-> NoPayment]
Conflict == [code |-> 409, pay |-> NoPayment]

NoRecord == [status |-> "absent", body |-> <<>>, resp |-> NoResponse]

EventType(op) ==
    CASE op = "create" -> "payment.created"
      [] op = "authorize" -> "payment.authorized"
      [] op = "fail" -> "payment.failed"
      [] op = "cancel" -> "payment.cancelled"
      [] op = "capture" -> "payment.captured"
      [] op = "refund" -> "payment.refunded"

NoTx == [step |-> "none"]

\* Repository.FindByID restores, and so validates, the stored row.
Find(d, id) ==
    IF d.payments[id] = NoPayment THEN Error("not_found")
    ELSE IF ~Valid(d.payments[id]) THEN Error("invalid_state")
    ELSE Ok(d.payments[id])

\* The execute methods of the commands, up to their save.
CreatePayment(d, q) ==
    LET money == MoneyError(q.amount, q.currency) IN
    IF money # "none" THEN Error(money) ELSE New(q.amount, q.currency)

AuthorizePayment(d, q) ==
    LET found == Find(d, q.id) IN
    IF found.err # "none" THEN found ELSE Authorize(found.pay)

FailPayment(d, q) ==
    LET found == Find(d, q.id) IN
    IF found.err # "none" THEN found ELSE Fail(found.pay)

CancelPayment(d, q) ==
    LET found == Find(d, q.id) IN
    IF found.err # "none" THEN found ELSE Cancel(found.pay)

CapturePayment(d, q) ==
    LET found == Find(d, q.id)
        money == MoneyError(q.amount, q.currency)
    IN  IF found.err # "none" THEN found
        ELSE IF money # "none" THEN Error(money)
        ELSE Capture(found.pay, q.amount, q.currency)

RefundPayment(d, q) ==
    LET found == Find(d, q.id)
        money == MoneyError(q.amount, q.currency)
    IN  IF found.err # "none" THEN found
        ELSE IF money # "none" THEN Error(money)
        ELSE Refund(found.pay, q.amount, q.currency)

\* The route of a request.
Execute(d, q) ==
    CASE q.op = "create" -> CreatePayment(d, q)
      [] q.op = "authorize" -> AuthorizePayment(d, q)
      [] q.op = "fail" -> FailPayment(d, q)
      [] q.op = "cancel" -> CancelPayment(d, q)
      [] q.op = "capture" -> CapturePayment(d, q)
      [] q.op = "refund" -> RefundPayment(d, q)

\* Repository.Save: insert, or update the row one version behind.
Savable(d, id, p) ==
    d.payments[id] = NoPayment \/ d.payments[id].version = p.version - 1

\* Execute with the outcome of its save.
Outcome(d, q) ==
    LET r == Execute(d, q) IN
    IF r.err = "none" /\ ~Savable(d, q.id, r.pay) THEN Error("version_conflict") ELSE r

\* Mutant of Causation: the oldest event instead of the previous one.
CausationOldest(d, id, version) ==
    IF \E e \in d.events : e.id = id THEN 1 ELSE 0

\* The version of the event that caused a new one: the highest lower version.
Causation(d, id, version) ==
    LET lower == {e.version : e \in {f \in d.events : f.id = id /\ f.version < version}}
    IN  IF lower = {} THEN 0 ELSE CHOOSE v \in lower : \A w \in lower : w <= v

\* A saved row's event: NewEventSnapshot is its payload.
NewEvent(d, op, id, p, at) ==
    [id |-> id, type |-> EventType(op), version |-> p.version, at |-> at,
     cause |-> Causation(d, id, p.version), snapshot |-> p]

SameEventId(e, f) == e.id = f.id /\ e.type = f.type /\ e.version = f.version

Delivery(e, ep) == [id |-> e.id, type |-> e.type, version |-> e.version,
                    endpoint |-> ep, at |-> e.at]

\* Jobs share an id when they deliver the same event to the same endpoint.
SameJobId(j, k) == SameEventId(j, k) /\ j.endpoint = k.endpoint

-----------------------------------------------------------------------------
Init ==
    /\ db = [payments |-> [i \in Ids |-> NoPayment], events |-> {}, jobs |-> {},
             records |-> [k \in ScopeKeys |-> NoRecord], endpoints |-> {}]
    /\ tx = NoTx
    /\ clock = 1
    /\ replies = [k \in {q \in Requests : q.key # NoKey} |-> {}]
    /\ applied = [k \in ScopeKeys |-> 0]

history == <<replies, applied>>

\* A request gets the connection.
Begin(q) ==
    /\ tx = NoTx
    /\ tx' = [step |-> IF q.key = NoKey THEN "command" ELSE "reserve",
              req |-> q, work |-> db, event |-> {}, todo |-> {}, resp |-> NoResponse]
    /\ UNCHANGED <<db, clock, history>>

\* Mutant of Reserve: a completed key lets the command run again.
ReserveAgain ==
    /\ tx.step = "reserve"
    /\ tx' = [tx EXCEPT !.step = "command"]
    /\ UNCHANGED <<db, clock, history>>

\* Repository.Reserve, and what the middleware answers when it reserved nothing.
Reserve ==
    /\ tx.step = "reserve"
    /\ LET k == ScopeKey(tx.req)
           r == tx.work.records[k]
       IN  \/ /\ r = NoRecord
              /\ tx' = [tx EXCEPT !.step = "command",
                          !.work.records[k] = [status |-> "processing",
                                               body |-> Body(tx.req), resp |-> NoResponse]]
           \/ /\ r # NoRecord
              /\ tx' = [tx EXCEPT !.step = "commit",
                          !.resp = IF r.body = Body(tx.req) /\ r.status = "completed"
                                   THEN r.resp ELSE Conflict]
    /\ UNCHANGED <<db, clock, history>>

\* The step that follows the inner handler's response.
Answered == IF tx.req.key = NoKey THEN "commit" ELSE "complete"

\* A command's execute method, its save included.
Command ==
    /\ tx.step = "command"
    /\ LET q == tx.req
           r == Outcome(tx.work, q)
       IN  \/ /\ r.err = "none"
              /\ tx' = [tx EXCEPT !.step = "publish", !.work.payments[q.id] = r.pay,
                                  !.resp = Success(q.op, r.pay)]
           \/ /\ HttpStatus(r.err) < 500
              /\ tx' = [tx EXCEPT !.step = Answered, !.resp = Failure(r.err)]
    /\ UNCHANGED <<db, clock, history>>

\* Mutant of Publish: the event is not appended to the ledger.
PublishUnrecorded ==
    /\ tx.step = "publish"
    /\ tx' = [tx EXCEPT !.step = Answered,
                !.event = {NewEvent(tx.work, tx.req.op, tx.req.id, tx.resp.pay, clock)}]
    /\ UNCHANGED <<db, clock, history>>

\* Publish up to the append; an event id that is taken is an error.
Publish ==
    /\ tx.step = "publish"
    /\ LET e == NewEvent(tx.work, tx.req.op, tx.req.id, tx.resp.pay, clock)
       IN  /\ \A f \in tx.work.events : ~SameEventId(e, f)
           /\ tx' = [tx EXCEPT !.event = {e}, !.work.events = @ \cup {e},
                               !.todo = tx.work.endpoints,
                               !.step = IF tx.work.endpoints = {} THEN Answered ELSE "schedule"]
    /\ UNCHANGED <<db, clock, history>>

\* The rest of Publish: one job for every endpoint, in the order of their ids.
Schedule ==
    /\ tx.step = "schedule"
    /\ \E ep \in tx.todo, e \in tx.event :
         LET j == Delivery(e, ep) IN
         /\ \A other \in tx.todo : ep <= other
         /\ tx' = [tx EXCEPT !.todo = @ \ {ep},
                    !.work.jobs = {k \in @ : ~SameJobId(j, k)} \cup {j},
                    !.step = IF tx.todo = {ep} THEN Answered ELSE "schedule"]
    /\ UNCHANGED <<db, clock, history>>

\* Mutants of Complete: rejections release the key, or the status stays.
CompleteSuccesses ==
    /\ tx.step = "complete"
    /\ LET k == ScopeKey(tx.req) IN
       tx' = [tx EXCEPT !.step = "commit",
                !.work.records[k] = IF tx.resp.code >= 400 THEN NoRecord
                                    ELSE [status |-> "completed", body |-> Body(tx.req),
                                          resp |-> tx.resp]]
    /\ UNCHANGED <<db, clock, history>>
CompleteStillProcessing ==
    /\ tx.step = "complete"
    /\ tx' = [tx EXCEPT !.step = "commit", !.work.records[ScopeKey(tx.req)].resp = tx.resp]
    /\ UNCHANGED <<db, clock, history>>

\* The response is stored under the key, rejections included.
Complete ==
    /\ tx.step = "complete"
    /\ LET k == ScopeKey(tx.req) IN
       tx' = [tx EXCEPT !.step = "commit",
                !.work.records[k] = [status |-> "completed", body |-> Body(tx.req),
                                     resp |-> tx.resp]]
    /\ UNCHANGED <<db, clock, history>>

\* A response below 500 commits; only then it is sent.
Commit ==
    /\ tx.step = "commit"
    /\ db' = tx.work
    /\ tx' = NoTx
    /\ IF tx.req.key = NoKey THEN UNCHANGED <<replies, applied>>
       ELSE /\ replies' = [replies EXCEPT ![tx.req] = @ \cup {tx.resp}]
            /\ applied' = [applied EXCEPT ![ScopeKey(tx.req)] = @ + Cardinality(tx.event)]
    /\ UNCHANGED clock

\* Mutant of Rollback: the statements so far stay in the database.
RollbackKeepsWork ==
    /\ tx # NoTx
    /\ db' = tx.work
    /\ tx' = NoTx
    /\ UNCHANGED <<clock, history>>

\* A statement or the commit fails, the client disconnects, the process dies,
\* or the response is a 500: the transaction is rolled back.
Rollback ==
    /\ tx # NoTx
    /\ tx' = NoTx
    /\ UNCHANGED <<db, clock, history>>

\* Registering an id again is refused.
RegisterEndpoint(ep) ==
    /\ tx = NoTx
    /\ ep \notin db.endpoints
    /\ db' = [db EXCEPT !.endpoints = @ \cup {ep}]
    /\ UNCHANGED <<tx, clock, history>>

\* Advance stores the new time on the one connection before it is visible.
AdvanceClock ==
    /\ tx = NoTx
    /\ clock < MaxTime
    /\ clock' = clock + 1
    /\ UNCHANGED <<db, tx, history>>

Next ==
    \/ \E q \in Requests : Begin(q)
    \/ Reserve \/ Command \/ Publish \/ Schedule \/ Complete \/ Commit \/ Rollback
    \/ \E ep \in Endpoints : RegisterEndpoint(ep)
    \/ AdvanceClock

Spec == Init /\ [][Next]_vars

-----------------------------------------------------------------------------
(* What the endpoints promise.                                             *)

KeyedRequests == {q \in Requests : q.key # NoKey}
EventsOf(i) == {e \in db.events : e.id = i}
Steps == {"reserve", "command", "publish", "schedule", "complete", "commit"}

\* Every stored payment passes PaymentState.Validate, so it can be read back:
\* no sequence of commands strands a payment behind an invalid row.
PaymentsValid == \A i \in Ids : db.payments[i] = NoPayment \/ Valid(db.payments[i])

\* The ledger has exactly one event for every version of a payment, each
\* caused by the one before it, the newest one showing the stored row.
LedgerMatchesPayments ==
    \A i \in Ids :
        /\ {e.version : e \in EventsOf(i)} = 1..db.payments[i].version
        /\ \A e, f \in EventsOf(i) : e.version = f.version => e = f
        /\ \A e \in EventsOf(i) :
             /\ e.cause = e.version - 1
             /\ e.version = db.payments[i].version => e.snapshot = db.payments[i]

\* Mutant of Earlier: the newest version first among equal times.
EarlierNewestFirst(e, f) == e.at < f.at \/ (e.at = f.at /\ e.version >= f.version)

\* ListByAggregate orders by time, then version.
Earlier(e, f) == e.at < f.at \/ (e.at = f.at /\ e.version <= f.version)
History(i) ==
    [n \in 1..Cardinality(EventsOf(i)) |->
        CHOOSE e \in EventsOf(i) : Cardinality({f \in EventsOf(i) : Earlier(f, e)}) = n]

\* ReconstructFromEvents: contiguous versions and valid snapshots, or an error.
Reconstruct(h) ==
    IF \/ DOMAIN h = {}
       \/ \E n \in DOMAIN h : h[n].version # n \/ h[n].snapshot.version # n
                              \/ ~Valid(h[n].snapshot)
    THEN NoPayment
    ELSE LET last == CHOOSE n \in DOMAIN h : n + 1 \notin DOMAIN h IN h[last].snapshot

\* Reconstructing a payment from its ledger gives the stored payment, whatever
\* virtual times its events were recorded at.
HistoryReconstructs == \A i \in Ids : Reconstruct(History(i)) = db.payments[i]

\* All responses to the same keyed request are the same, through retries,
\* failures in between and other requests that reuse its key.
ReplayIsStable == \A q \in KeyedRequests : Cardinality(replies[q]) <= 1

\* A key lets at most one command through.
KeyAppliedOnce == \A k \in ScopeKeys : applied[k] <= 1

\* A committed record is a finished one: a reservation never outlives its
\* request, which would answer "in progress" for ever.
NoStuckReservation == \A k \in ScopeKeys : db.records[k].status # "processing"

\* A success that is stored for replay is backed by an event of the ledger.
StoredSuccessIsDurable ==
    \A k \in ScopeKeys : db.records[k].resp.code \in {200, 201} =>
        \E e \in db.events : e.snapshot = db.records[k].resp.pay

\* A payment changes by one version at a time, only forward in what was
\* captured and refunded, and never again once it is terminal.
PaymentsMoveForward ==
    [][\A i \in Ids : LET p == db.payments[i]
                           n == db.payments'[i]
                       IN  n # p => /\ n.version = p.version + 1
                                    /\ p.status \notin TerminalStatuses
                                    /\ p.captured <= n.captured
                                    /\ p.refunded <= n.refunded]_vars

Service == INSTANCE PaymentService WITH
    payments <- db.payments, events <- db.events, jobs <- db.jobs,
    endpoints <- db.endpoints, Amounts <- {q.amount : q \in Requests}

\* Every request takes effect in one step or not at all, wherever it fails:
\* payment, event and deliveries are committed together.
AtomicService == Service!Spec
-----------------------------------------------------------------------------
(* The inductive invariant behind PaymentsValid and PaymentsMoveForward.   *)

Storable(p) == p = NoPayment \/ (p \in Payments /\ Valid(p))

\* The fields of the database and of an open transaction.
DbShape(d) ==
    /\ d = [payments |-> d.payments, events |-> d.events, jobs |-> d.jobs,
            records |-> d.records, endpoints |-> d.endpoints]
    /\ d.payments \in [Ids -> Payments \cup {NoPayment}]
TxShape ==
    /\ tx = [step |-> tx.step, req |-> tx.req, work |-> tx.work, event |-> tx.event,
             todo |-> tx.todo, resp |-> tx.resp]
    /\ tx.step \in Steps
    /\ tx.req \in Requests
    /\ DbShape(tx.work)

\* What an open transaction has done to the payments: nothing, or the change
\* of its own command, computed from what is still the committed state.
WorkInv ==
    \/ tx.work.payments = db.payments
    \/ /\ tx.step \notin {"reserve", "command"}
       /\ Outcome(db, tx.req).err = "none"
       /\ tx.work.payments = [db.payments EXCEPT ![tx.req.id] = Outcome(db, tx.req).pay]

ApiInv ==
    /\ DbShape(db)
    /\ \A i \in Ids : Storable(db.payments[i])
    /\ tx # NoTx => TxShape /\ WorkInv
-----------------------------------------------------------------------------
(* The inductive invariant behind the ledger, the idempotency keys and the *)
(* refinement of PaymentService.                                           *)

\* What the request in progress makes of its payment, and the event of that.
Result == Outcome(db, tx.req)
ItsEvent == NewEvent(db, tx.req.op, tx.req.id, Result.pay, clock)

\* How far an open transaction is with its payment, its event and the
\* deliveries of that event.
Untouched ==
    /\ tx.event = {}
    /\ tx.work.payments = db.payments
    /\ tx.work.events = db.events
    /\ tx.work.jobs = db.jobs
Accepted ==
    /\ Result.err = "none"
    /\ tx.work.payments = [db.payments EXCEPT ![tx.req.id] = Result.pay]
    /\ tx.resp = Success(tx.req.op, Result.pay)
Saved ==
    /\ Accepted
    /\ tx.event = {}
    /\ tx.work.events = db.events
    /\ tx.work.jobs = db.jobs
Recorded ==
    /\ Accepted
    /\ tx.event = {ItsEvent}
    /\ tx.work.events = db.events \cup {ItsEvent}
    /\ tx.todo \subseteq db.endpoints
    /\ tx.work.jobs = db.jobs \cup {Delivery(ItsEvent, ep) : ep \in db.endpoints \ tx.todo}

EffectInv ==
    /\ tx.work.endpoints = db.endpoints
    /\ tx.step \in {"reserve", "command"} => Untouched
    /\ tx.step = "publish" => Saved
    /\ tx.step = "schedule" => Recorded
    /\ tx.step \in {"complete", "commit"} => Untouched \/ (Recorded /\ tx.todo = {})

\* What a record answers to a request under its key.
Answer(r, q) == IF r.body = Body(q) THEN r.resp ELSE Conflict
Record(q, status, resp) == [status |-> status, body |-> Body(q), resp |-> resp]
Succeeded(resp) == resp.code \in {200, 201}

\* How far it is with its idempotency record: not there yet, reserved,
\* answered from the record it found, or completed.
Replaying(k) ==
    /\ Untouched
    /\ tx.work.records = db.records
    /\ db.records[k] # NoRecord
    /\ tx.resp = Answer(db.records[k], tx.req)
Reserving(k) ==
    /\ db.records[k] = NoRecord
    /\ tx.work.records = [db.records EXCEPT ![k] = Record(tx.req, "processing", NoResponse)]
Completing(k) ==
    /\ db.records[k] = NoRecord
    /\ tx.work.records = [db.records EXCEPT ![k] = Record(tx.req, "completed", tx.resp)]
    /\ Succeeded(tx.resp) => Recorded

ReservationInv ==
    IF tx.req.key = NoKey
    THEN tx.work.records = db.records /\ tx.step \notin {"reserve", "complete"}
    ELSE LET k == ScopeKey(tx.req) IN
         /\ tx.step = "reserve" => tx.work.records = db.records
         /\ tx.step \in {"command", "publish", "schedule", "complete"} => Reserving(k)
         /\ tx.step = "complete" => (Succeeded(tx.resp) => Recorded)
         /\ tx.step = "commit" => Replaying(k) \/ Completing(k)

\* The ledger: beyond LedgerMatchesPayments, events carry the valid row of
\* their version and were recorded in the order of their versions, and no
\* delivery is for a version that is still to come.
LedgerInv ==
    /\ clock \in Nat
    /\ LedgerMatchesPayments
    /\ \A e \in db.events :
         /\ e.id \in Ids
         /\ e.at \in Nat /\ e.at <= clock
         /\ Valid(e.snapshot) /\ e.snapshot.version = e.version
         /\ \A f \in db.events : e.id = f.id /\ e.version <= f.version => e.at <= f.at
    /\ \A j \in db.jobs : j.id \in Ids /\ j.version \in 1..db.payments[j.id].version

\* The keys: a record is complete and durable, its command was applied at most
\* once, and every answer sent is the one it gives.
KeyInv ==
    /\ db.records = [k \in ScopeKeys |-> db.records[k]]
    /\ \A k \in ScopeKeys : db.records[k] = NoRecord \/ db.records[k].status = "completed"
    /\ StoredSuccessIsDurable
    /\ applied \in [ScopeKeys -> {0, 1}]
    /\ \A k \in ScopeKeys : db.records[k] = NoRecord => applied[k] = 0
    /\ replies = [q \in KeyedRequests |-> replies[q]]
    /\ \A q \in KeyedRequests :
         LET r == db.records[ScopeKey(q)] IN
         replies[q] \subseteq (IF r = NoRecord THEN {} ELSE {Answer(r, q)})

StoreInv ==
    /\ LedgerInv
    /\ KeyInv
    /\ tx # NoTx => EffectInv /\ ReservationInv
=============================================================================
