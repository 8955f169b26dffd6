--------------------------- MODULE Administration ---------------------------
(***************************************************************************)
(* What an administrator is shown of one payment while it is being worked  *)
(* on: the timeline, the diagnostics, the runtime history and the webhook  *)
(* audit.                                                                  *)
(*                                                                         *)
(* The writers are payment commands, the virtual clock and the delivery of *)
(* the first event's webhook (WebhookDelivery); every row they insert      *)
(* takes the next runtime sequence number in the transaction that inserts  *)
(* it, so the rows of the three ledgers are one sequence, log, whose index *)
(* is that number.  A reader runs the statements of its script one by one, *)
(* and only the runtime history runs them in one transaction, which holds  *)
(* the single database connection.  A row never changes once inserted,     *)
(* except the outcome of a delivery, so what a statement lists is the      *)
(* length of the log it read.                                              *)
(***************************************************************************)
EXTENDS WebhookDelivery, Sequences

CONSTANTS
    MaxVersion,  \* bound on the payment's version
    MaxTime      \* bound on the virtual time

ASSUME AdministrationAssumption ==
    /\ MaxVersion \in Nat \ {0}
    /\ MaxTime \in Nat

VARIABLES
    version,  \* payments: the version of the row
    now,      \* the virtual time
    log,      \* rows of business_events, scheduler_job_audit and
              \* webhook_delivery_audit by runtime_sequence
    conn,     \* who holds the connection between statements
    view      \* the answer an administrator is getting or has got

observed == <<version, now, log, conn, view>>
adminVars == <<vars, observed>>

\* The rows.  A job is named by the event it delivers; only the first one is
\* followed after it is scheduled.
Event(v, at) == [kind |-> "event", version |-> v, at |-> at]
Snapshot(v, status, n) == [kind |-> "job", job |-> v, status |-> status, attempts |-> n]
Started(a) == [kind |-> "delivery", attempt |-> a]

Statements == {"payment", "events", "clock", "begin", "jobs", "deliveries", "commit"}
Kinds == {"timeline", "diagnostics", "history", "audit"}

\* Mutants of the scripts: the events are listed before the payment is loaded,
\* the clock is read first, the history is read without its transaction.
TimelineEventsFirst == <<"events", "payment">>
DiagnosticsClockFirst == <<"clock", "payment", "events">>
HistoryNoTransaction == <<"events", "jobs", "deliveries">>

\* The statements each reader runs, in its order.
TimelineScript == <<"payment", "events">>
DiagnosticsScript == <<"payment", "events", "clock">>
HistoryScript == <<"begin", "events", "jobs", "deliveries", "commit">>
AuditScript == <<"deliveries">>

\* An answer: the statements left to run, the payment version, how much of the
\* log each listing saw, the outcomes the deliveries had, and the time.
Blank(kind, script) ==
    [kind |-> kind, rest |-> script, payment |-> 0, events |-> 0, jobs |-> 0,
     deliveries |-> 0, outcomes |-> [a \in Attempts |-> "none"], time |-> 0]

NoView == Blank("none", <<>>)

\* The payment has been created: its event and the delivery of it are stored.
AdminInit ==
    /\ Init
    /\ version = 1
    /\ now = 0
    /\ log = <<Event(1, 0), Snapshot(1, "pending", 0)>>
    /\ conn = "free"
    /\ view = NoView

-----------------------------------------------------------------------------
(* The writers.  Each transaction needs the connection.                    *)

\* The transaction of the writer appends rows and touches nothing else that
\* is observed.
Writes(rows) ==
    /\ conn = "free"
    /\ log' = log \o rows
    /\ UNCHANGED <<version, now, conn, view>>

\* A command saves the payment, appends its event and schedules its delivery.
Command ==
    /\ conn = "free"
    /\ version < MaxVersion
    /\ version' = version + 1
    /\ log' = log \o <<Event(version', now), Snapshot(version', "pending", 0)>>
    /\ UNCHANGED <<vars, now, conn, view>>

\* The administrator advances the virtual time; it is stored before it is read.
AdvanceTime ==
    /\ conn = "free"
    /\ now < MaxTime
    /\ now' = now + 1
    /\ UNCHANGED <<vars, version, log, conn, view>>

\* The scheduler's saves append a snapshot of what they changed ...
StartJob(a) ==
    /\ StartAttempt(a)
    /\ Writes(<<Snapshot(1, "leased", job.attempts), Snapshot(1, "running", a)>>)

ExhaustJob ==
    /\ ExhaustSpent
    /\ Writes(<<Snapshot(1, "leased", job.attempts), Snapshot(1, "exhausted", job.attempts)>>)

SettleJob(a) ==
    /\ SaveJob(a)
    /\ Writes(IF job' = job THEN <<>> ELSE <<Snapshot(1, job'.status, job'.attempts)>>)

\* ... and the audit of deliveries inserts a row at the start of an attempt,
\* whose outcome it updates in place at the end.
StartDelivery(a) ==
    /\ RecordStart(a)
    /\ Writes(IF audit' = audit THEN <<>> ELSE <<Started(a)>>)

EndDelivery(a) ==
    /\ RecordTerminal(a)
    /\ Writes(<<>>)

\* The request to the receiver and a crash use no connection.
Unobserved(a) ==
    /\ Send(a) \/ Crash(a)
    /\ UNCHANGED observed

-----------------------------------------------------------------------------
(* The readers.                                                            *)

\* A reader gets the connection for one statement, or has it already.
Statement(s) ==
    /\ view.rest # <<>> /\ s = Head(view.rest)
    /\ conn \in {"free", view.kind}
    /\ UNCHANGED <<vars, version, now, log>>

Request(kind, script) ==
    /\ view.rest = <<>>
    /\ view' = Blank(kind, script)
    /\ UNCHANGED <<vars, version, now, log, conn>>

GetTimeline == Request("timeline", TimelineScript)
GetDiagnostics == Request("diagnostics", DiagnosticsScript)
GetHistory == Request("history", HistoryScript)
GetAudit == Request("audit", AuditScript)

\* FindByID.
FindPayment ==
    /\ Statement("payment")
    /\ view' = [view EXCEPT !.payment = version, !.rest = Tail(@)]
    /\ UNCHANGED conn

\* ReconstructFromEvents: the last event of a contiguous history.
Versions(n) == {log[i].version : i \in {j \in 1..n : log[j].kind = "event"}}
Reconstructed(n) ==
    CHOOSE v \in 1..MaxVersion : Versions(n) = 1..v

\* ListByAggregate; the history's payment is reconstructed from its events.
ListEvents ==
    /\ Statement("events")
    /\ view' = [view EXCEPT !.events = Len(log),
                            !.payment = IF view.kind = "history"
                                        THEN Reconstructed(Len(log)) ELSE @,
                            !.rest = Tail(@)]
    /\ UNCHANGED conn

\* ListAuditByAggregate and ListByJob.
ListJobs ==
    /\ Statement("jobs")
    /\ view' = [view EXCEPT !.jobs = Len(log), !.rest = Tail(@)]
    /\ UNCHANGED conn

ListDeliveries ==
    /\ Statement("deliveries")
    /\ view' = [view EXCEPT !.deliveries = Len(log), !.outcomes = audit, !.rest = Tail(@)]
    /\ UNCHANGED conn

\* The clock is read in memory.
ReadClock ==
    /\ view.rest # <<>> /\ Head(view.rest) = "clock"
    /\ view' = [view EXCEPT !.time = now, !.rest = Tail(@)]
    /\ UNCHANGED <<vars, version, now, log, conn>>

\* WithinContext: the transaction takes the connection and gives it back.
BeginHistory ==
    /\ Statement("begin")
    /\ conn' = view.kind
    /\ view' = [view EXCEPT !.rest = Tail(@)]

CommitHistory ==
    /\ Statement("commit")
    /\ conn' = "free"
    /\ view' = [view EXCEPT !.rest = Tail(@)]

\* The administrator goes away: nothing is answered, the transaction is rolled
\* back.
Abandon ==
    /\ view.rest # <<>>
    /\ view' = NoView
    /\ conn' = "free"
    /\ UNCHANGED <<vars, version, now, log>>

Read ==
    \/ GetTimeline \/ GetDiagnostics \/ GetHistory \/ GetAudit
    \/ FindPayment \/ ListEvents \/ ListJobs \/ ListDeliveries \/ ReadClock
    \/ BeginHistory \/ CommitHistory \/ Abandon

AdminNext ==
    \/ Command \/ AdvanceTime \/ ExhaustJob \/ Read
    \/ \E a \in Attempts :
         \/ StartJob(a) \/ SettleJob(a) \/ StartDelivery(a) \/ EndDelivery(a)
         \/ Unobserved(a)

AdminSpec == AdminInit /\ [][AdminNext]_adminVars

-----------------------------------------------------------------------------
Rows == [kind : {"event"}, version : 1..MaxVersion, at : 0..MaxTime]
        \cup [kind : {"job"}, job : 1..MaxVersion, attempts : 0..MaxAttempts,
              status : {"pending", "leased", "running", "completed", "exhausted"}]
        \cup [kind : {"delivery"}, attempt : Attempts]
Views == [kind : Kinds \cup {"none"}, rest : Seq(Statements), payment : 0..version,
          events : 0..Len(log), jobs : 0..Len(log), deliveries : 0..Len(log),
          outcomes : [Attempts -> {"none", "started", "succeeded", "failed"}], time : 0..now]

\* Types of the payment, the clock, the ledgers' rows and the answers, and of
\* the delivery.
AdminTypeOK ==
    /\ TypeOK
    /\ version \in 1..MaxVersion
    /\ now \in 0..MaxTime
    /\ log \in Seq(Rows)
    /\ conn \in {"free", "history"}
    /\ view \in Views

Answered(kinds) == view.kind \in kinds /\ view.rest = <<>>

\* Bound of the exploration: reading changes nothing the writers see, so what
\* happens after an answer is explored from the states without one.
UntilAnswered == ~Answered(Kinds)

EventShown(v, before) ==
    \E i \in 1..view.events : i < before /\ log[i].kind = "event" /\ log[i].version = v
JobsShown == {i \in 1..view.jobs : log[i].kind = "job"}
DeliveriesShown == {i \in 1..view.deliveries : log[i].kind = "delivery"}

\* The timeline and the diagnostics explain the payment they show: whatever
\* commands run between the statements, every version up to the one shown has
\* its event shown.
TimelineCoversState ==
    Answered({"timeline", "diagnostics"}) =>
        \A v \in 1..view.payment : EventShown(v, view.events + 1)

\* The diagnostics never show an event of the future: the clock is read after
\* the events, and time does not go back.
DiagnosticsNotBehind ==
    Answered({"diagnostics"}) =>
        \A i \in 1..view.events : log[i].kind = "event" => log[i].at <= view.time

\* The runtime history is one moment of the runtime: every snapshot of a job
\* comes after the shown event it delivers, every delivery after the shown
\* snapshot of the job running that attempt, a job shown completed shows the
\* delivery that succeeded, and the payment is the one the shown events lead to.
HistoryIsCausal ==
    Answered({"history"}) =>
        /\ \A v \in 1..MaxVersion : EventShown(v, view.events + 1) <=> v <= view.payment
        /\ \A i \in JobsShown : EventShown(log[i].job, i)
        /\ \A i \in DeliveriesShown : \E s \in JobsShown :
             s < i /\ log[s] = Snapshot(1, "running", log[i].attempt)
        /\ \A s \in JobsShown : log[s].status = "completed" =>
             /\ \E i \in DeliveriesShown : i < s /\ log[i].attempt = log[s].attempts
             /\ view.outcomes[log[s].attempts] = "succeeded"

-----------------------------------------------------------------------------
(* The inductive invariant behind the three properties of the answers.     *)

EventRow(i, v) == log[i].kind = "event" /\ log[i].version = v

\* What the rows before a row say about it.
RowInv(i) ==
    /\ log[i].kind = "event" => log[i].version <= version /\ log[i].at <= now
    /\ log[i].kind = "job" => \E e \in 1..(i - 1) : EventRow(e, log[i].job)
    /\ log[i].kind = "delivery" =>
         \E s \in 1..(i - 1) : log[s] = Snapshot(1, "running", log[i].attempt)
    /\ log[i].kind = "job" /\ log[i].status = "completed" =>
         /\ \E d \in 1..(i - 1) : log[d] = Started(log[i].attempts)
         /\ log[i].attempts \in Attempts
         /\ audit[log[i].attempts] = "succeeded"

\* The rows are caused by rows before them, and what the delivery and the
\* payment have been through is in the log.
LedgerInv ==
    /\ version \in 1..MaxVersion /\ now \in 0..MaxTime /\ log \in Seq(Rows)
    /\ \A i \in 1..Len(log) : RowInv(i)
    /\ \A v \in 1..version : \E i \in 1..Len(log) : EventRow(i, v)
    /\ \A a \in Attempts : audit[a] # "none" => \E i \in 1..Len(log) : log[i] = Started(a)
    /\ \A a \in Attempts : a <= job.attempts =>
         \E i \in 1..Len(log) : log[i] = Snapshot(1, "running", a)

\* The statements left to a reader of each kind.
Remaining ==
    [timeline |-> {<<"payment", "events">>, <<"events">>, <<>>},
     diagnostics |-> {<<"payment", "events", "clock">>, <<"events", "clock">>, <<"clock">>, <<>>},
     history |-> {<<"begin", "events", "jobs", "deliveries", "commit">>,
                  <<"events", "jobs", "deliveries", "commit">>, <<"jobs", "deliveries", "commit">>,
                  <<"deliveries", "commit">>, <<"commit">>, <<>>},
     audit |-> {<<"deliveries">>, <<>>},
     none |-> {<<>>}]

Covered == \A v \in 1..view.payment : EventShown(v, view.events + 1)
InTransaction ==
    view.kind = "history" /\ view.rest # HistoryScript /\ view.rest # <<>>

\* What a reader has got so far.  Inside its transaction the history is up to
\* date, because nobody else gets the connection.
ViewInv ==
    /\ view \in Views
    /\ view.rest \in Remaining[view.kind]
    /\ conn = IF InTransaction THEN "history" ELSE "free"
    /\ view.kind \in {"timeline", "diagnostics"} /\ view.rest \in {<<"clock">>, <<>>} => Covered
    /\ DiagnosticsNotBehind
    /\ InTransaction /\ view.rest # <<"events", "jobs", "deliveries", "commit">> =>
         view.events = Len(log) /\ view.payment = version
    /\ InTransaction /\ view.rest \in {<<"deliveries", "commit">>, <<"commit">>} =>
         view.jobs = Len(log)
    /\ InTransaction /\ view.rest = <<"commit">> =>
         view.deliveries = Len(log) /\ view.outcomes = audit
    /\ HistoryIsCausal

AdminInv == DeliveryInv /\ LedgerInv /\ ViewInv

=============================================================================
