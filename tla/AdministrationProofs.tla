----------------------- MODULE AdministrationProofs -----------------------
(***************************************************************************)
(* What the delivery audit says is true, and what an administrator is      *)
(* shown is coherent, for every attempt budget, any overlap of attempts,   *)
(* any number of commands and any interleaving of writers and readers.     *)
(***************************************************************************)
EXTENDS Administration, TLAPS

-----------------------------------------------------------------------------
(* The delivery and its audit.                                             *)

\* DeliveryInv is an invariant of the delivery.
THEOREM DeliveryInvariance == Spec => []DeliveryInv
<1> USE WebhookDeliveryAssumption DEF Attempts
<1>1. Init => DeliveryInv
  BY DEF Init, DeliveryInv, TypeOK, AuditTellsTruth, CompletedMeansDelivered, AttemptInv
<1>2. DeliveryInv /\ [Next]_vars => DeliveryInv'
  <2> SUFFICES ASSUME DeliveryInv, [Next]_vars PROVE DeliveryInv'
    OBVIOUS
  <2> USE DEF DeliveryInv, TypeOK, AuditTellsTruth, CompletedMeansDelivered, AttemptInv,
              Goto, Return
  <2>1. ASSUME NEW a \in Attempts, StartAttempt(a) PROVE DeliveryInv'
    BY <2>1 DEF StartAttempt
  <2>2. CASE ExhaustSpent
    BY <2>2 DEF ExhaustSpent
  <2>3. ASSUME NEW a \in Attempts, RecordStart(a) PROVE DeliveryInv'
    <3>1. CASE /\ audit' = [audit EXCEPT ![a] = IF @ = "none" THEN "started" ELSE @]
               /\ Goto(a, "send") /\ UNCHANGED result
      <4>1. audit[a] = "none" /\ received[a] = 0 /\ pc[a] = "begin"
        BY <2>3 DEF RecordStart, MarkStarted
      <4>2. /\ audit' = [audit EXCEPT ![a] = "started"]
            /\ pc' = [pc EXCEPT ![a] = "send"]
            /\ UNCHANGED <<job, received, result>>
        BY <2>3, <3>1, <4>1 DEF RecordStart, MarkStarted
      <4> QED
        BY <4>1, <4>2
    <3>2. CASE Return(a, "failed") /\ UNCHANGED audit
      BY <2>3, <3>2 DEF RecordStart, MarkStarted
    <3> QED
      BY <2>3, <3>1, <3>2 DEF RecordStart, MarkStarted
  <2>4. ASSUME NEW a \in Attempts, Send(a) PROVE DeliveryInv'
    BY <2>4 DEF Send
  <2>5. ASSUME NEW a \in Attempts, RecordTerminal(a) PROVE DeliveryInv'
    <3>0. /\ audit[a] = "started" /\ pc[a] = "finish" /\ received[a] <= 1
          /\ result[a] \in {"succeeded", "failed"}
          /\ result[a] = "succeeded" => received[a] = 1
          /\ UNCHANGED <<job, received>>
      BY <2>5 DEF RecordTerminal, MarkEnded
    <3>1. CASE /\ audit' = [audit EXCEPT ![a] = IF @ = "started" THEN result[a] ELSE @]
               /\ Return(a, result[a])
      <4>1. /\ audit' = [audit EXCEPT ![a] = result[a]]
            /\ pc' = [pc EXCEPT ![a] = "returned"]
            /\ UNCHANGED result
        BY <3>0, <3>1
      <4> QED
        BY <3>0, <4>1
    <3>2. CASE Return(a, "failed") /\ UNCHANGED audit
      BY <3>0, <3>2
    <3> QED
      BY <2>5, <3>1, <3>2 DEF RecordTerminal, MarkEnded
  <2>6. ASSUME NEW a \in Attempts, SaveJob(a) PROVE DeliveryInv'
    <3>1. CASE UNCHANGED job
      BY <2>6, <3>1 DEF SaveJob
    <3>2. CASE /\ job.attempts = a /\ job.status = "running"
               /\ \E s \in {"completed", "pending", "exhausted"} :
                    /\ job' = [job EXCEPT !.status = s]
                    /\ s = "completed" => result[a] = "succeeded"
      BY <2>6, <3>2 DEF SaveJob
    <3> QED
      BY <2>6, <3>1, <3>2 DEF SaveJob
  <2>7. ASSUME NEW a \in Attempts, Crash(a) PROVE DeliveryInv'
    BY <2>7 DEF Crash
  <2>8. CASE UNCHANGED vars
    BY <2>8 DEF vars
  <2> QED
    BY <2>1, <2>2, <2>3, <2>4, <2>5, <2>6, <2>7, <2>8 DEF Next
<1> QED
  BY <1>1, <1>2, PTL DEF Spec

\* Nothing is sent that the audit does not know of, a recorded success was
\* received exactly once, and a completed job has one.
THEOREM AuditIsTruthful == Spec => [](AuditTellsTruth /\ CompletedMeansDelivered)
<1>1. DeliveryInv => AuditTellsTruth /\ CompletedMeansDelivered
  BY DEF DeliveryInv
<1> QED
  BY <1>1, DeliveryInvariance, PTL

\* An outcome in the audit is never rewritten.
THEOREM AuditOutcomesStay == Spec => AuditIsFinal
<1>1. DeliveryInv /\ [Next]_vars =>
        [\A a \in Attempts : audit[a] \in {"succeeded", "failed"} => audit'[a] = audit[a]]_vars
  <2> SUFFICES ASSUME DeliveryInv, Next, NEW b \in Attempts,
                      audit[b] \in {"succeeded", "failed"}
               PROVE  audit'[b] = audit[b]
    OBVIOUS
  <2>1. ASSUME NEW a \in Attempts, RecordStart(a) PROVE audit'[b] = audit[b]
    BY <2>1 DEF RecordStart, MarkStarted, DeliveryInv, TypeOK, AttemptInv
  <2>2. ASSUME NEW a \in Attempts, RecordTerminal(a) PROVE audit'[b] = audit[b]
    BY <2>2 DEF RecordTerminal, MarkEnded, DeliveryInv, TypeOK, AttemptInv
  <2> QED
    BY <2>1, <2>2 DEF Next, StartAttempt, ExhaustSpent, Send, SaveJob, Crash
<1> QED
  BY <1>1, DeliveryInvariance, PTL DEF Spec, AuditIsFinal

-----------------------------------------------------------------------------
(* The delivery under observation.                                         *)

\* Administration composes the delivery with its observers without changing
\* it: each of its steps is a step of WebhookDelivery or leaves it alone.
THEOREM ObservedDelivery == AdminSpec => Spec
<1>1. AdminInit => Init
  BY DEF AdminInit
<1>2. [AdminNext]_adminVars => [Next]_vars
  <2> SUFFICES ASSUME [AdminNext]_adminVars PROVE [Next]_vars
    OBVIOUS
  <2>1. CASE Command \/ AdvanceTime \/ UNCHANGED adminVars
    BY <2>1 DEF Command, AdvanceTime, adminVars
  <2>2. CASE ExhaustJob
    BY <2>2 DEF ExhaustJob, Next
  <2>3. CASE Read
    BY <2>3 DEF Read, GetTimeline, GetDiagnostics, GetHistory, GetAudit, Request, FindPayment,
                ListEvents, ListJobs, ListDeliveries, ReadClock, BeginHistory, CommitHistory,
                Abandon, Statement
  <2>4. ASSUME NEW a \in Attempts,
               StartJob(a) \/ SettleJob(a) \/ StartDelivery(a) \/ EndDelivery(a) \/ Unobserved(a)
        PROVE  Next
    BY <2>4 DEF StartJob, SettleJob, StartDelivery, EndDelivery, Unobserved, Next
  <2> QED
    BY <2>1, <2>2, <2>3, <2>4 DEF AdminNext
<1> QED
  BY <1>1, <1>2, PTL DEF AdminSpec, Spec

-----------------------------------------------------------------------------
(* The ledgers.                                                            *)

\* The rows of the log stay, time and version do not go back, successes stay,
\* and whatever is new is explained.
Grows ==
    /\ log' \in Seq(Rows) /\ Len(log') >= Len(log)
    /\ \A i \in 1..Len(log) : log'[i] = log[i]
    /\ version' \in version..MaxVersion /\ now' \in now..MaxTime
    /\ \A a \in Attempts : audit[a] = "succeeded" => audit'[a] = "succeeded"
    /\ \A i \in (Len(log) + 1)..Len(log') : RowInv(i)'
    /\ \A v \in (version + 1)..version' : \E i \in 1..Len(log') : EventRow(i, v)'
    /\ \A a \in Attempts : audit'[a] # "none" =>
         audit[a] # "none" \/ \E i \in 1..Len(log') : log'[i] = Started(a)
    /\ \A a \in Attempts : a <= job'.attempts =>
         a <= job.attempts \/ \E i \in 1..Len(log') : log'[i] = Snapshot(1, "running", a)

\* A log that grows keeps its invariant.
LEMMA GrowthKeepsLedger == LedgerInv /\ Grows => LedgerInv'
<1> SUFFICES ASSUME LedgerInv, Grows PROVE LedgerInv'
  OBVIOUS
<1> USE AdministrationAssumption DEF LedgerInv, Grows
<1>1. version' \in 1..MaxVersion /\ now' \in 0..MaxTime /\ log' \in Seq(Rows)
  OBVIOUS
<1>2. ASSUME NEW i \in 1..Len(log') PROVE RowInv(i)'
  <2>1. CASE i \in 1..Len(log)
    <3>1. RowInv(i) /\ log'[i] = log[i] /\ i <= Len(log) /\ i \in Nat
      BY <2>1
    <3>2. \A e \in 1..(i - 1) : log'[e] = log[e]
      BY <3>1
    <3>3. log[i].kind = "event" => log[i].version <= version' /\ log[i].at <= now'
      <4>1. ASSUME log[i].kind = "event" PROVE log[i].version \in Int /\ log[i].at \in Int
        BY <2>1, <4>1 DEF Rows
      <4> QED
        BY <3>1, <4>1 DEF RowInv
    <3> QED
      BY <3>1, <3>2, <3>3 DEF RowInv, EventRow
  <2>2. CASE i \notin 1..Len(log)
    BY <2>2
  <2> QED
    BY <2>1, <2>2
<1>3. ASSUME NEW v \in 1..version' PROVE \E i \in 1..Len(log') : EventRow(i, v)'
  <2>1. CASE v \in 1..version
    <3>1. PICK i \in 1..Len(log) : EventRow(i, v)
      BY <2>1
    <3>2. i \in 1..Len(log') /\ log'[i] = log[i]
      OBVIOUS
    <3>3. EventRow(i, v)'
      BY <3>1, <3>2 DEF EventRow
    <3> QED
      BY <3>2, <3>3
  <2> QED
    BY <2>1
<1>4. ASSUME NEW a \in Attempts, audit'[a] # "none"
      PROVE  \E i \in 1..Len(log') : log'[i] = Started(a)
  <2>1. CASE audit[a] # "none"
    <3>1. PICK i \in 1..Len(log) : log[i] = Started(a)
      BY <2>1
    <3>2. i \in 1..Len(log') /\ log'[i] = log[i]
      OBVIOUS
    <3> QED
      BY <3>1, <3>2
  <2> QED
    BY <2>1, <1>4
<1>5. ASSUME NEW a \in Attempts, a <= job'.attempts
      PROVE  \E i \in 1..Len(log') : log'[i] = Snapshot(1, "running", a)
  <2>1. CASE a <= job.attempts
    <3>1. PICK i \in 1..Len(log) : log[i] = Snapshot(1, "running", a)
      BY <2>1
    <3>2. i \in 1..Len(log') /\ log'[i] = log[i]
      OBVIOUS
    <3> QED
      BY <3>1, <3>2
  <2> QED
    BY <2>1, <1>5
<1>6. /\ \A v \in 1..version' : \E i \in 1..Len(log') : EventRow(i, v)'
      /\ \A i \in 1..Len(log') : RowInv(i)'
      /\ \A a \in Attempts : audit'[a] # "none" => \E i \in 1..Len(log') : log'[i] = Started(a)
      /\ \A a \in Attempts : a <= job'.attempts =>
           \E i \in 1..Len(log') : log'[i] = Snapshot(1, "running", a)
  BY <1>2, <1>3, <1>4, <1>5
<1> QED
  BY <1>1, <1>6

\* What a transaction appends is what it names: the rows before it stay.
LEMMA Appended ==
    ASSUME NEW x \in Rows, NEW y \in Rows, LedgerInv
    PROVE  /\ log \o <<>> = log
           /\ log \o <<x>> \in Seq(Rows) /\ Len(log \o <<x>>) = Len(log) + 1
           /\ \A i \in 1..Len(log) : (log \o <<x>>)[i] = log[i]
           /\ (log \o <<x>>)[Len(log) + 1] = x
           /\ log \o <<x, y>> \in Seq(Rows) /\ Len(log \o <<x, y>>) = Len(log) + 2
           /\ \A i \in 1..Len(log) : (log \o <<x, y>>)[i] = log[i]
           /\ (log \o <<x, y>>)[Len(log) + 1] = x /\ (log \o <<x, y>>)[Len(log) + 2] = y
<1>1. log \in Seq(Rows) /\ Len(log) \in Nat
  BY DEF LedgerInv
<1>2. /\ log \o <<x>> \in Seq(Rows) /\ Len(log \o <<x>>) = Len(log) + 1
      /\ \A i \in 1..Len(log) : (log \o <<x>>)[i] = log[i]
      /\ (log \o <<x>>)[Len(log) + 1] = x
  BY <1>1
<1>3. /\ log \o <<x, y>> \in Seq(Rows) /\ Len(log \o <<x, y>>) = Len(log) + 2
      /\ \A i \in 1..Len(log) : (log \o <<x, y>>)[i] = log[i]
      /\ (log \o <<x, y>>)[Len(log) + 1] = x /\ (log \o <<x, y>>)[Len(log) + 2] = y
  BY <1>1
<1>4. log \o <<>> = log
  BY <1>1
<1> QED
  BY <1>2, <1>3, <1>4

\* The creation of the payment is in the log.
LEMMA FirstEvent == LedgerInv => \E e \in 1..Len(log) : EventRow(e, 1)
<1>1. LedgerInv => 1 \in 1..version /\ \A v \in 1..version : \E i \in 1..Len(log) : EventRow(i, v)
  BY AdministrationAssumption DEF LedgerInv
<1> QED
  BY <1>1

\* A row of the first delivery's job that is not completed is explained by the
\* event of the creation.
LEMMA JobRows ==
    ASSUME LedgerInv, NEW i \in (Len(log) + 1)..Len(log'), NEW s, NEW n,
           \A j \in 1..Len(log) : log'[j] = log[j],
           log'[i] = Snapshot(1, s, n), s # "completed"
    PROVE  RowInv(i)'
<1>1. PICK e \in 1..Len(log) : EventRow(e, 1)
  BY FirstEvent
<1>2. Len(log) \in Nat /\ e \in 1..(i - 1) /\ log'[e] = log[e]
  BY DEF LedgerInv
<1>3. EventRow(e, 1)'
  BY <1>1, <1>2 DEF EventRow
<1>4. log'[i].kind = "job" /\ log'[i].job = 1 /\ log'[i].status # "completed"
  BY DEF Snapshot
<1> QED
  BY <1>2, <1>3, <1>4 DEF RowInv

\* Every step makes the ledgers grow.
LEMMA EveryStepGrows ==
    ASSUME DeliveryInv, LedgerInv, [AdminNext]_adminVars
    PROVE  Grows
<1> USE AdministrationAssumption, WebhookDeliveryAssumption
<1>0. /\ log \in Seq(Rows) /\ Len(log) \in Nat /\ version \in 1..MaxVersion /\ now \in 0..MaxTime
      /\ job \in [status : {"pending", "running", "completed", "exhausted"},
                  attempts : 0..MaxAttempts]
      /\ audit \in [Attempts -> {"none", "started", "succeeded", "failed"}]
  BY DEF LedgerInv, DeliveryInv, TypeOK
<1>k. PICK k \in Nat : k = Len(log)
  BY <1>0
<1> USE <1>k
<1>1. CASE Command
  <2>0. PICK w : w = version + 1
    OBVIOUS
  <2> DEFINE x == Event(w, now)
             y == Snapshot(w, "pending", 0)
  <2>1. /\ version' = w /\ w = version + 1 /\ w \in 1..MaxVersion /\ log' = log \o <<x, y>>
        /\ UNCHANGED <<job, audit, now>>
    BY <1>0, <1>1, <2>0 DEF Command, vars
  <2>2. x \in Rows /\ y \in Rows
    BY <1>0, <2>1 DEF Event, Snapshot, Rows
  <2>3. /\ log' \in Seq(Rows) /\ Len(log') = k + 2
        /\ \A i \in 1..Len(log) : log'[i] = log[i]
        /\ log'[k + 1] = x /\ log'[k + 2] = y
    BY <2>1, <2>2, Appended
  <2>4. EventRow(k + 1, w)'
    BY <2>3 DEF EventRow, Event
  <2>5. RowInv(k + 1)'
    BY <1>0, <2>1, <2>3 DEF RowInv, Event
  <2>6. RowInv(k + 2)'
    <3>1. /\ log'[k + 2].kind = "job" /\ log'[k + 2].job = w
          /\ log'[k + 2].status # "completed"
      BY <2>3 DEF Snapshot
    <3>2. k + 1 \in 1..((k + 2) - 1)
      BY <1>0
    <3> QED
      BY <2>4, <3>1, <3>2 DEF RowInv
  <2>7. \A i \in (k + 1)..Len(log') : RowInv(i)'
    <3>1. \A i \in (k + 1)..Len(log') : i = k + 1 \/ i = k + 2
      BY <1>0, <2>3
    <3> QED
      BY <2>5, <2>6, <3>1
  <2>8. \A v \in w..version' : \E i \in 1..Len(log') : EventRow(i, v)'
    <3>1. \A v \in w..version' : v = w
      BY <1>0, <2>1
    <3>2. k + 1 \in 1..Len(log')
      BY <1>0, <2>3
    <3> QED
      BY <2>4, <3>1, <3>2
  <2> QED
    BY <1>0, <2>1, <2>3, <2>7, <2>8 DEF Grows
<1>2. CASE UNCHANGED <<log, version, job, audit>> /\ now' \in now..MaxTime
  BY <1>0, <1>2 DEF Grows, Attempts
<1>3. ASSUME NEW a \in Attempts, StartJob(a) PROVE Grows
  <2> DEFINE x == Snapshot(1, "leased", job.attempts)
             y == Snapshot(1, "running", a)
  <2>1. /\ job' = [status |-> "running", attempts |-> a] /\ a = job.attempts + 1
        /\ log' = log \o <<x, y>>
        /\ UNCHANGED <<version, now, audit>>
    BY <1>3 DEF StartJob, StartAttempt, Writes
  <2>2. x \in Rows /\ y \in Rows
    BY <1>0 DEF Snapshot, Rows, Attempts
  <2>3. /\ log' \in Seq(Rows) /\ Len(log') = k + 2
        /\ \A i \in 1..Len(log) : log'[i] = log[i]
        /\ log'[k + 1] = x /\ log'[k + 2] = y
    BY <2>1, <2>2, Appended
  <2>4. ASSUME NEW i \in (k + 1)..Len(log') PROVE RowInv(i)'
    <3>1. i = k + 1 \/ i = k + 2
      BY <1>0, <2>3
    <3> QED
      BY <2>3, <3>1, JobRows
  <2>5. \A b \in Attempts : b <= job'.attempts =>
          b <= job.attempts \/ \E i \in 1..Len(log') : log'[i] = Snapshot(1, "running", b)
    <3>1. \A b \in Attempts : b <= job'.attempts => b <= job.attempts \/ b = a
      BY <1>0, <2>1 DEF Attempts
    <3>2. k + 2 \in 1..Len(log')
      BY <1>0, <2>3
    <3> QED
      BY <2>3, <3>1, <3>2
  <2> QED
    BY <1>0, <2>1, <2>3, <2>4, <2>5 DEF Grows
<1>4. CASE ExhaustJob
  <2> DEFINE x == Snapshot(1, "leased", job.attempts)
             y == Snapshot(1, "exhausted", job.attempts)
  <2>1. /\ job'.attempts = job.attempts /\ log' = log \o <<x, y>>
        /\ UNCHANGED <<version, now, audit>>
    BY <1>0, <1>4 DEF ExhaustJob, ExhaustSpent, Writes
  <2>2. x \in Rows /\ y \in Rows
    BY <1>0 DEF Snapshot, Rows
  <2>3. /\ log' \in Seq(Rows) /\ Len(log') = k + 2
        /\ \A i \in 1..Len(log) : log'[i] = log[i]
        /\ log'[k + 1] = x /\ log'[k + 2] = y
    BY <2>1, <2>2, Appended
  <2>4. ASSUME NEW i \in (k + 1)..Len(log') PROVE RowInv(i)'
    <3>1. i = k + 1 \/ i = k + 2
      BY <1>0, <2>3
    <3> QED
      BY <2>3, <3>1, JobRows
  <2> QED
    BY <1>0, <2>1, <2>3, <2>4 DEF Grows
<1>5. ASSUME NEW a \in Attempts, SettleJob(a) PROVE Grows
  <2>0. UNCHANGED <<version, now, audit>>
    BY <1>5 DEF SettleJob, SaveJob, Writes
  <2>1. CASE job' = job
    <3>1. log' = log
      BY <1>0, <1>5, <2>1 DEF SettleJob, Writes
    <3> QED
      BY <1>0, <1>2, <2>0, <2>1, <3>1
  <2>2. CASE job' # job
    <3> DEFINE x == Snapshot(1, job'.status, job'.attempts)
    <3>1. log' = log \o <<x>>
      BY <1>5, <2>2 DEF SettleJob, Writes
    <3>2. /\ job'.attempts = a /\ job.attempts = a
          /\ job'.status \in {"pending", "completed", "exhausted"}
          /\ job'.status = "completed" => result[a] = "succeeded"
          /\ pc[a] = "returned"
      BY <1>0, <1>5, <2>2 DEF SettleJob, SaveJob
    <3>3. x \in Rows
      BY <3>2 DEF Snapshot, Rows, Attempts
    <3>4. /\ log' \in Seq(Rows) /\ Len(log') = k + 1
          /\ \A i \in 1..Len(log) : log'[i] = log[i]
          /\ log'[k + 1] = x
      BY <3>1, <3>3, Appended
    <3>5. RowInv(k + 1)'
      <4>1. CASE job'.status # "completed"
        <5>1. k + 1 \in (k + 1)..Len(log')
          BY <1>0, <3>4
        <5> QED
          BY <3>4, <4>1, <5>1, JobRows
      <4>2. CASE job'.status = "completed"
        <5>1. audit[a] = "succeeded"
          BY <3>2, <4>2 DEF DeliveryInv, AttemptInv
        <5>2. PICK d \in 1..Len(log) : log[d] = Started(a)
          BY <5>1 DEF LedgerInv
        <5>3. PICK e \in 1..Len(log) : EventRow(e, 1)
          BY FirstEvent
        <5>4. /\ d \in 1..((k + 1) - 1) /\ log'[d] = Started(a)
              /\ e \in 1..((k + 1) - 1) /\ EventRow(e, 1)'
          BY <1>0, <3>4, <5>2, <5>3 DEF EventRow
        <5>5. /\ log'[k + 1].kind = "job" /\ log'[k + 1].job = 1
              /\ log'[k + 1].attempts = a
          BY <3>2, <3>4 DEF Snapshot
        <5>6. audit'[a] = "succeeded"
          BY <2>0, <5>1
        <5> QED
          BY <5>4, <5>5, <5>6 DEF RowInv
      <4> QED
        BY <4>1, <4>2
    <3>6. \A i \in (k + 1)..Len(log') : RowInv(i)'
      <4>1. \A i \in (k + 1)..Len(log') : i = k + 1
        BY <1>0, <3>4
      <4> QED
        BY <3>5, <4>1
    <3> QED
      BY <1>0, <2>0, <3>2, <3>4, <3>6 DEF Grows
  <2> QED
    BY <2>1, <2>2
<1>6. ASSUME NEW a \in Attempts, StartDelivery(a) PROVE Grows
  <2>0. UNCHANGED <<version, now, job>> /\ pc[a] = "begin"
    BY <1>6 DEF StartDelivery, RecordStart, Writes
  <2>1. CASE audit' = audit
    <3>1. log' = log
      BY <1>0, <1>6, <2>1 DEF StartDelivery, Writes
    <3> QED
      BY <1>0, <1>2, <2>0, <2>1, <3>1
  <2>2. CASE audit' # audit
    <3>1. log' = log \o <<Started(a)>>
      BY <1>6, <2>2 DEF StartDelivery, Writes
    <3>2. Started(a) \in Rows
      BY DEF Started, Rows
    <3>3. /\ log' \in Seq(Rows) /\ Len(log') = k + 1
          /\ \A i \in 1..Len(log) : log'[i] = log[i]
          /\ log'[k + 1] = Started(a)
      BY <3>1, <3>2, Appended
    <3>4. audit[a] = "none" /\ a <= job.attempts
      BY <1>0, <2>0 DEF DeliveryInv, AttemptInv, Attempts
    <3>5. audit' = [audit EXCEPT ![a] = "started"]
      BY <1>6, <2>2, <3>4 DEF StartDelivery, RecordStart, MarkStarted
    <3>6. PICK s \in 1..Len(log) : log[s] = Snapshot(1, "running", a)
      BY <3>4 DEF LedgerInv
    <3>7. RowInv(k + 1)'
      <4>1. s \in 1..((k + 1) - 1) /\ log'[s] = Snapshot(1, "running", a)
        BY <1>0, <3>3, <3>6
      <4>2. log'[k + 1].kind = "delivery" /\ log'[k + 1].attempt = a
        BY <3>3 DEF Started
      <4> QED
        BY <4>1, <4>2 DEF RowInv
    <3>8. \A i \in (k + 1)..Len(log') : RowInv(i)'
      <4>1. \A i \in (k + 1)..Len(log') : i = k + 1
        BY <1>0, <3>3
      <4> QED
        BY <3>7, <4>1
    <3>9. \A b \in Attempts : audit'[b] # "none" =>
            audit[b] # "none" \/ \E i \in 1..Len(log') : log'[i] = Started(b)
      <4>1. k + 1 \in 1..Len(log')
        BY <1>0, <3>3
      <4>2. \A b \in Attempts : b # a => audit'[b] = audit[b]
        BY <1>0, <3>5
      <4> QED
        BY <3>3, <4>1, <4>2
    <3>10. \A b \in Attempts : audit[b] = "succeeded" => audit'[b] = "succeeded"
      BY <1>0, <3>4, <3>5
    <3> QED
      BY <1>0, <2>0, <3>3, <3>8, <3>9, <3>10 DEF Grows
  <2> QED
    BY <2>1, <2>2
<1>7. ASSUME NEW a \in Attempts, EndDelivery(a) PROVE Grows
  <2>1. log' = log /\ UNCHANGED <<version, now, job>>
    BY <1>0, <1>7 DEF EndDelivery, RecordTerminal, Writes
  <2>2. audit[a] = "started"
    BY <1>7 DEF EndDelivery, RecordTerminal, DeliveryInv, AttemptInv
  <2>3. \A b \in Attempts : /\ audit[b] = "succeeded" => audit'[b] = "succeeded"
                            /\ audit'[b] # "none" => audit[b] # "none"
    BY <1>0, <1>7, <2>2 DEF EndDelivery, RecordTerminal, MarkEnded
  <2> QED
    BY <1>0, <2>1, <2>3 DEF Grows
<1>8. CASE AdvanceTime
  BY <1>0, <1>2, <1>8 DEF AdvanceTime, vars
<1>9. CASE Read \/ UNCHANGED adminVars
  <2>1. UNCHANGED <<log, version, now, job, audit>>
    BY <1>9 DEF Read, GetTimeline, GetDiagnostics, GetHistory, GetAudit, Request, FindPayment,
                ListEvents, ListJobs, ListDeliveries, ReadClock, BeginHistory, CommitHistory,
                Abandon, Statement, vars, observed, adminVars
  <2> QED
    BY <1>0, <1>2, <2>1
<1>10. ASSUME NEW a \in Attempts, Unobserved(a) PROVE Grows
  <2>1. UNCHANGED <<log, version, now, job, audit>>
    BY <1>10 DEF Unobserved, Send, Crash, observed
  <2> QED
    BY <1>0, <1>2, <2>1
<1> QED
  BY <1>1, <1>3, <1>4, <1>5, <1>6, <1>7, <1>8, <1>9, <1>10 DEF AdminNext

-----------------------------------------------------------------------------
(* The answers.                                                            *)

\* What a view says of the log it has seen stays true while the log grows.
LEMMA ShownStays ==
    ASSUME Grows, LedgerInv, view \in Views, UNCHANGED view
    PROVE  /\ view' \in Views'
           /\ Covered => Covered'
           /\ DiagnosticsNotBehind => DiagnosticsNotBehind'
           /\ HistoryIsCausal => HistoryIsCausal'
<1>1. /\ version \in Nat /\ version' \in Nat /\ version <= version'
      /\ now \in Nat /\ now' \in Nat /\ now <= now'
      /\ Len(log) \in Nat /\ Len(log') \in Nat /\ Len(log) <= Len(log')
  BY AdministrationAssumption DEF Grows, LedgerInv
<1>2. /\ view.events \in 0..Len(log) /\ view.jobs \in 0..Len(log)
      /\ view.deliveries \in 0..Len(log)
  BY DEF Views
<1>3. view' \in Views'
  BY <1>1 DEF Views
<1>4. /\ \A i \in 1..view.events : log'[i] = log[i]
      /\ \A i \in 1..view.jobs : log'[i] = log[i]
      /\ \A i \in 1..view.deliveries : log'[i] = log[i]
  BY <1>1, <1>2 DEF Grows
<1>6. /\ JobsShown' = JobsShown /\ DeliveriesShown' = DeliveriesShown
      /\ \A i \in JobsShown : log'[i] = log[i]
      /\ \A i \in DeliveriesShown : log'[i] = log[i]
  BY <1>4 DEF JobsShown, DeliveriesShown
<1>7. Covered => Covered'
  <2>1. ASSUME Covered, NEW v \in 1..view.payment PROVE EventShown(v, view.events + 1)'
    <3>1. EventShown(v, view.events + 1)
      BY <2>1 DEF Covered
    <3>2. PICK i \in 1..view.events :
            i < view.events + 1 /\ log[i].kind = "event" /\ log[i].version = v
      BY <3>1 DEF EventShown
    <3> QED
      BY <1>4, <3>2 DEF EventShown
  <2> QED
    BY <2>1 DEF Covered
<1>8. DiagnosticsNotBehind => DiagnosticsNotBehind'
  BY <1>4 DEF DiagnosticsNotBehind, Answered
<1>9. HistoryIsCausal => HistoryIsCausal'
  <2> SUFFICES ASSUME HistoryIsCausal, Answered({"history"}) PROVE HistoryIsCausal'
    BY DEF HistoryIsCausal, Answered
  <2>1. ASSUME NEW v \in 1..MaxVersion
          PROVE  (EventShown(v, view.events + 1) <=> v <= view.payment)'
    <3>1. EventShown(v, view.events + 1) <=> v <= view.payment
      BY DEF HistoryIsCausal
    <3>2. EventShown(v, view.events + 1) <=> EventShown(v, view.events + 1)'
      BY <1>4 DEF EventShown
    <3> QED
      BY <3>1, <3>2
  <2>2. ASSUME NEW i \in JobsShown PROVE EventShown(log[i].job, i)'
    <3>1. EventShown(log[i].job, i) /\ log'[i] = log[i]
      BY <1>6 DEF HistoryIsCausal
    <3> QED
      BY <1>4, <3>1 DEF EventShown
  <2>3. \A i \in DeliveriesShown : \E s \in JobsShown :
          s < i /\ log'[s] = Snapshot(1, "running", log'[i].attempt)
    BY <1>6 DEF HistoryIsCausal
  <2>4. \A s \in JobsShown : log'[s].status = "completed" =>
          /\ \E i \in DeliveriesShown : i < s /\ log'[i].attempt = log'[s].attempts
          /\ view.outcomes[log'[s].attempts] = "succeeded"
    BY <1>6 DEF HistoryIsCausal
  <2> QED
    BY <1>6, <2>1, <2>2, <2>3, <2>4 DEF HistoryIsCausal
<1> QED
  BY <1>3, <1>7, <1>8, <1>9

\* A step that is not a reader's leaves the answer alone, and can only write
\* while no transaction of the history is open.
LEMMA WritersKeepViews ==
    ASSUME LedgerInv, ViewInv, Grows, UNCHANGED <<view, conn>>,
           conn = "free" \/ UNCHANGED <<log, version, audit>>
    PROVE  ViewInv'
<1>1. /\ view' \in Views' /\ (Covered => Covered')
      /\ DiagnosticsNotBehind' /\ HistoryIsCausal'
  BY ShownStays DEF ViewInv
<1>2. conn = "free" => ~InTransaction
  BY DEF ViewInv
<1>3. InTransaction' <=> InTransaction
  BY DEF InTransaction, HistoryScript
<1> QED
  BY <1>1, <1>2, <1>3 DEF ViewInv, Remaining

\* The events of the whole log reconstruct the version of the payment.
LEMMA Reconstruction == LedgerInv => Reconstructed(Len(log)) = version
<1> SUFFICES ASSUME LedgerInv PROVE Reconstructed(Len(log)) = version
  OBVIOUS
<1>0. version \in 1..MaxVersion /\ log \in Seq(Rows)
  BY DEF LedgerInv
<1>1. Versions(Len(log)) \subseteq 1..version
  <2> SUFFICES ASSUME NEW j \in 1..Len(log), log[j].kind = "event"
               PROVE  log[j].version \in 1..version
    BY DEF Versions
  <2>1. log[j].version <= version
    BY DEF LedgerInv, RowInv
  <2>2. log[j].version \in 1..MaxVersion
    BY <1>0 DEF Rows
  <2> QED
    BY <1>0, <2>1, <2>2
<1>2. 1..version \subseteq Versions(Len(log))
  BY DEF Versions, LedgerInv, EventRow
<1>3. Versions(Len(log)) = 1..version
  BY <1>1, <1>2
<1>4. \A v \in 1..MaxVersion : 1..v = 1..version => v = version
  BY <1>0
<1> QED
  BY <1>0, <1>3, <1>4 DEF Reconstructed

\* A reader's statement keeps what is known of its answer.
LEMMA ReadersKeepViews ==
    ASSUME DeliveryInv, LedgerInv, ViewInv, Read
    PROVE  ViewInv'
<1> USE AdministrationAssumption
<1>0. /\ version \in 1..MaxVersion /\ now \in 0..MaxTime /\ Len(log) \in Nat
      /\ audit \in [Attempts -> {"none", "started", "succeeded", "failed"}]
      /\ view \in Views /\ view.rest \in Remaining[view.kind]
      /\ view.kind \in {"timeline", "diagnostics", "history", "audit", "none"}
  BY DEF LedgerInv, ViewInv, DeliveryInv, TypeOK, Views, Kinds
<1>1. UNCHANGED <<version, now, log, audit>>
  BY DEF Read, GetTimeline, GetDiagnostics, GetHistory, GetAudit, Request, FindPayment,
         ListEvents, ListJobs, ListDeliveries, ReadClock, BeginHistory, CommitHistory,
         Abandon, Statement, vars
<1>t. view.rest # <<>> => Tail(view.rest) \in Seq(Statements)
  <2>1. view.rest \in Seq(Statements)
    BY <1>0 DEF Views
  <2> QED
    BY <2>1
<1>v. /\ Views' = Views
      /\ version \in 0..version /\ now \in 0..now /\ Len(log) \in 0..Len(log)
  BY <1>0, <1>1 DEF Views
<1>2. ASSUME NEW kind \in Kinds, NEW script \in Seq(Statements), script # <<>>,
             script \in Remaining[kind],
             Request(kind, script),
             kind \in {"timeline", "diagnostics"} => script # <<"clock">>,
             kind = "history" => script = HistoryScript
      PROVE  ViewInv'
  <2>1. /\ view' = Blank(kind, script) /\ conn' = conn /\ conn = "free"
        /\ view'.kind = kind /\ view'.rest = script
    BY <1>2 DEF Request, Blank, ViewInv, InTransaction
  <2>2. view' \in Views'
    BY <1>0, <1>1, <1>2, <2>1 DEF Blank, Views
  <2>3. ~InTransaction'
    BY <1>2, <2>1 DEF InTransaction
  <2>4. /\ ~Answered({"diagnostics"})' /\ ~Answered({"history"})'
    BY <1>2, <2>1 DEF Answered
  <2> QED
    BY <1>2, <2>1, <2>2, <2>3, <2>4 DEF ViewInv, DiagnosticsNotBehind, HistoryIsCausal, Remaining
<1>3. CASE GetTimeline \/ GetDiagnostics \/ GetHistory \/ GetAudit
  <2> USE DEF TimelineScript, DiagnosticsScript, HistoryScript, AuditScript, Remaining, Kinds,
             Statements
  <2>1. CASE GetTimeline
    <3>1. /\ TimelineScript \in Seq(Statements)
          /\ TimelineScript # <<>> /\ TimelineScript # <<"clock">>
      OBVIOUS
    <3> QED
      BY <1>2, <2>1, <3>1 DEF GetTimeline
  <2>2. CASE GetDiagnostics
    <3>1. /\ DiagnosticsScript \in Seq(Statements)
          /\ DiagnosticsScript # <<>> /\ DiagnosticsScript # <<"clock">>
      OBVIOUS
    <3> QED
      BY <1>2, <2>2, <3>1 DEF GetDiagnostics
  <2>3. CASE GetHistory
    <3>1. HistoryScript \in Seq(Statements) /\ HistoryScript # <<>>
      OBVIOUS
    <3> QED
      BY <1>2, <2>3, <3>1 DEF GetHistory
  <2>4. CASE GetAudit
    <3>1. AuditScript \in Seq(Statements) /\ AuditScript # <<>>
      OBVIOUS
    <3> QED
      BY <1>2, <2>4, <3>1 DEF GetAudit
  <2> QED
    BY <1>3, <2>1, <2>2, <2>3, <2>4
<1>4. CASE FindPayment
  <2>1. /\ view' = [view EXCEPT !.payment = version, !.rest = Tail(@)] /\ conn' = conn
        /\ view.rest # <<>> /\ Head(view.rest) = "payment"
    BY <1>4 DEF FindPayment, Statement
  <2>2. \/ view.kind = "timeline" /\ view.rest = <<"payment", "events">>
        \/ view.kind = "diagnostics" /\ view.rest = <<"payment", "events", "clock">>
    BY <1>0, <2>1 DEF Remaining
  <2>3. view'.kind = view.kind /\ view'.rest = Tail(view.rest) /\ view'.payment = version
    BY <1>0, <2>1 DEF Views
  <2>4. CASE view.kind = "timeline" /\ view.rest = <<"payment", "events">>
    <3>1. view'.kind = "timeline" /\ view'.rest = <<"events">>
      BY <2>3, <2>4
    <3>2. view' \in Views' /\ view'.rest \in Remaining[view'.kind]
      <4>1. view' \in Views'
        BY <1>0, <1>t, <1>v, <2>1 DEF Views
      <4> QED
        BY <4>1, <3>1 DEF Remaining
    <3> QED
      BY <2>1, <2>4, <3>1, <3>2 DEF ViewInv, DiagnosticsNotBehind, HistoryIsCausal, Answered,
                                    InTransaction
  <2>5. CASE view.kind = "diagnostics" /\ view.rest = <<"payment", "events", "clock">>
    <3>1. view'.kind = "diagnostics" /\ view'.rest = <<"events", "clock">>
      BY <2>3, <2>5
    <3>2. view' \in Views' /\ view'.rest \in Remaining[view'.kind]
      <4>1. view' \in Views'
        BY <1>0, <1>t, <1>v, <2>1 DEF Views
      <4> QED
        BY <4>1, <3>1 DEF Remaining
    <3> QED
      BY <2>1, <2>5, <3>1, <3>2 DEF ViewInv, DiagnosticsNotBehind, HistoryIsCausal, Answered,
                                    InTransaction
  <2> QED
    BY <2>2, <2>4, <2>5
<1>5. CASE ListEvents
  <2>1. /\ view' = [view EXCEPT !.events = Len(log),
                                !.payment = IF view.kind = "history" THEN version ELSE @,
                                !.rest = Tail(@)]
        /\ conn' = conn /\ view.rest # <<>> /\ Head(view.rest) = "events"
    BY <1>5, Reconstruction DEF ListEvents, Statement
  <2>2. \/ view.kind = "timeline" /\ view.rest = <<"events">>
        \/ view.kind = "diagnostics" /\ view.rest = <<"events", "clock">>
        \/ view.kind = "history" /\ view.rest = <<"events", "jobs", "deliveries", "commit">>
    BY <1>0, <2>1 DEF Remaining
  <2>3. /\ view'.kind = view.kind /\ view'.rest = Tail(view.rest) /\ view'.events = Len(log)
        /\ view'.payment \in 0..version
        /\ view.kind = "history" => view'.payment = version
    BY <1>0, <2>1 DEF Views
  <2>4. Covered'
    <3> SUFFICES ASSUME NEW v \in 1..view'.payment PROVE EventShown(v, view.events + 1)'
      BY DEF Covered
    <3>1. v \in 1..version
      BY <1>0, <2>3
    <3>2. PICK i \in 1..Len(log) : EventRow(i, v)
      BY <3>1 DEF LedgerInv
    <3> QED
      BY <1>0, <1>1, <2>3, <3>2 DEF EventShown, EventRow
  <2>5. CASE view.kind = "timeline" /\ view.rest = <<"events">>
    <3>1. view'.kind = "timeline" /\ view'.rest = <<>>
      BY <2>3, <2>5
    <3>2. view' \in Views' /\ view'.rest \in Remaining[view'.kind]
      <4>1. view' \in Views'
        BY <1>0, <1>t, <1>v, <2>1 DEF Views
      <4> QED
        BY <4>1, <3>1 DEF Remaining
    <3> QED
      BY <2>1, <2>4, <2>5, <3>1, <3>2 DEF ViewInv, DiagnosticsNotBehind, HistoryIsCausal,
                                          Answered, InTransaction
  <2>6. CASE view.kind = "diagnostics" /\ view.rest = <<"events", "clock">>
    <3>1. view'.kind = "diagnostics" /\ view'.rest = <<"clock">>
      BY <2>3, <2>6
    <3>2. view' \in Views' /\ view'.rest \in Remaining[view'.kind]
      <4>1. view' \in Views'
        BY <1>0, <1>t, <1>v, <2>1 DEF Views
      <4> QED
        BY <4>1, <3>1 DEF Remaining
    <3> QED
      BY <2>1, <2>4, <2>6, <3>1, <3>2 DEF ViewInv, DiagnosticsNotBehind, HistoryIsCausal,
                                          Answered, InTransaction
  <2>7. CASE view.kind = "history" /\ view.rest = <<"events", "jobs", "deliveries", "commit">>
    <3>1. view'.kind = "history" /\ view'.rest = <<"jobs", "deliveries", "commit">>
      BY <2>3, <2>7
    <3>2. view' \in Views' /\ view'.rest \in Remaining[view'.kind]
      <4>1. view' \in Views'
        BY <1>0, <1>t, <1>v, <2>1 DEF Views
      <4> QED
        BY <4>1, <3>1 DEF Remaining
    <3>3. InTransaction /\ InTransaction'
      BY <2>7, <3>1 DEF InTransaction, HistoryScript
    <3> QED
      BY <1>1, <2>1, <2>3, <2>7, <3>1, <3>2, <3>3
         DEF ViewInv, DiagnosticsNotBehind, HistoryIsCausal, Answered
  <2> QED
    BY <2>2, <2>5, <2>6, <2>7
<1>6. CASE ListJobs
  <2>1. /\ view' = [view EXCEPT !.jobs = Len(log), !.rest = Tail(@)]
        /\ conn' = conn /\ view.rest # <<>> /\ Head(view.rest) = "jobs"
    BY <1>6 DEF ListJobs, Statement
  <2>2. view.kind = "history" /\ view.rest = <<"jobs", "deliveries", "commit">>
    BY <1>0, <2>1 DEF Remaining
  <2>3. /\ view'.kind = "history" /\ view'.rest = <<"deliveries", "commit">>
        /\ view'.jobs = Len(log) /\ view'.events = view.events /\ view'.payment = view.payment
    BY <1>0, <2>1, <2>2 DEF Views
  <2>4. view' \in Views' /\ view'.rest \in Remaining[view'.kind]
    <3>1. view' \in Views'
      BY <1>0, <1>t, <1>v, <2>1 DEF Views
    <3> QED
      BY <3>1, <2>3 DEF Remaining
  <2>5. InTransaction /\ InTransaction'
    BY <2>2, <2>3 DEF InTransaction, HistoryScript
  <2>6. ~Answered({"diagnostics"})' /\ ~Answered({"history"})'
    BY <2>3 DEF Answered
  <2>7. conn = "history" /\ view.events = Len(log) /\ view.payment = version
    BY <2>2, <2>5 DEF ViewInv
  <2> QED
    BY <1>1, <2>1, <2>3, <2>4, <2>5, <2>6, <2>7
       DEF ViewInv, DiagnosticsNotBehind, HistoryIsCausal
<1>7. CASE ListDeliveries
  <2>1. /\ view' = [view EXCEPT !.deliveries = Len(log), !.outcomes = audit, !.rest = Tail(@)]
        /\ conn' = conn /\ view.rest # <<>> /\ Head(view.rest) = "deliveries"
    BY <1>7 DEF ListDeliveries, Statement
  <2>2. \/ view.kind = "history" /\ view.rest = <<"deliveries", "commit">>
        \/ view.kind = "audit" /\ view.rest = <<"deliveries">>
    BY <1>0, <2>1 DEF Remaining
  <2>3. /\ view'.kind = view.kind /\ view'.rest = Tail(view.rest)
        /\ view'.deliveries = Len(log) /\ view'.outcomes = audit
        /\ view'.jobs = view.jobs /\ view'.events = view.events /\ view'.payment = view.payment
    BY <1>0, <2>1 DEF Views
  <2>4. CASE view.kind = "history" /\ view.rest = <<"deliveries", "commit">>
    <3>1. view'.kind = "history" /\ view'.rest = <<"commit">>
      BY <2>3, <2>4
    <3>2. view' \in Views' /\ view'.rest \in Remaining[view'.kind]
      <4>1. view' \in Views'
        BY <1>0, <1>t, <1>v, <2>1 DEF Views
      <4> QED
        BY <4>1, <3>1 DEF Remaining
    <3>3. InTransaction /\ InTransaction'
      BY <2>4, <3>1 DEF InTransaction, HistoryScript
    <3>4. /\ conn = "history" /\ view.events = Len(log) /\ view.payment = version
          /\ view.jobs = Len(log)
      BY <2>4, <3>3 DEF ViewInv
    <3>5. /\ view'.kind \notin {"timeline", "diagnostics"}
          /\ ~Answered({"diagnostics"})' /\ ~Answered({"history"})'
      BY <3>1 DEF Answered
    <3>6. /\ view'.events = Len(log)' /\ view'.payment = version' /\ view'.jobs = Len(log)'
          /\ view'.deliveries = Len(log)' /\ view'.outcomes = audit' /\ conn' = "history"
      BY <1>1, <2>1, <2>3, <3>4
    <3> QED
      BY <3>2, <3>3, <3>5, <3>6 DEF ViewInv, DiagnosticsNotBehind, HistoryIsCausal
  <2>5. CASE view.kind = "audit" /\ view.rest = <<"deliveries">>
    <3>1. view'.kind = "audit" /\ view'.rest = <<>>
      BY <2>3, <2>5
    <3>2. view' \in Views' /\ view'.rest \in Remaining[view'.kind]
      <4>1. view' \in Views'
        BY <1>0, <1>t, <1>v, <2>1 DEF Views
      <4> QED
        BY <4>1, <3>1 DEF Remaining
    <3> QED
      BY <2>1, <2>5, <3>1, <3>2 DEF ViewInv, DiagnosticsNotBehind, HistoryIsCausal, Answered,
                                    InTransaction
  <2> QED
    BY <2>2, <2>4, <2>5
<1>8. CASE ReadClock
  <2>1. /\ view' = [view EXCEPT !.time = now, !.rest = Tail(@)] /\ conn' = conn
        /\ view.rest # <<>> /\ Head(view.rest) = "clock"
    BY <1>8 DEF ReadClock
  <2>2. view.kind = "diagnostics" /\ view.rest = <<"clock">>
    BY <1>0, <2>1 DEF Remaining
  <2>3. /\ view'.kind = "diagnostics" /\ view'.rest = <<>> /\ view'.time = now
        /\ view'.events = view.events /\ view'.payment = view.payment
    BY <1>0, <2>1, <2>2 DEF Views
  <2>4. view' \in Views' /\ view'.rest \in Remaining[view'.kind]
    <3>1. view' \in Views'
      BY <1>0, <1>t, <1>v, <2>1 DEF Views
    <3> QED
      BY <3>1, <2>3 DEF Remaining
  <2>5. DiagnosticsNotBehind'
    <3>1. \A i \in 1..Len(log) : log[i].kind = "event" => log[i].at <= now
      BY DEF LedgerInv, RowInv
    <3>2. view.events \in 0..Len(log)
      BY <1>0 DEF Views
    <3> QED
      BY <1>0, <1>1, <2>3, <3>1, <3>2 DEF DiagnosticsNotBehind
  <2>6. Covered /\ ~InTransaction /\ ~InTransaction' /\ ~Answered({"history"})'
    BY <2>2, <2>3 DEF ViewInv, InTransaction, Answered
  <2>7. Covered'
    <3> SUFFICES ASSUME NEW v \in 1..view.payment PROVE EventShown(v, view.events + 1)'
      BY <2>3 DEF Covered
    <3>1. EventShown(v, view.events + 1)
      BY <2>6 DEF Covered
    <3> QED
      BY <1>1, <2>3, <3>1 DEF EventShown
  <2> QED
    BY <2>1, <2>3, <2>4, <2>5, <2>6, <2>7 DEF ViewInv, HistoryIsCausal
<1>9. CASE BeginHistory
  <2>1. /\ view' = [view EXCEPT !.rest = Tail(@)] /\ conn' = view.kind
        /\ view.rest # <<>> /\ Head(view.rest) = "begin"
    BY <1>9 DEF BeginHistory, Statement
  <2>2. view.kind = "history" /\ view.rest = <<"begin", "events", "jobs", "deliveries", "commit">>
    BY <1>0, <2>1 DEF Remaining
  <2>3. /\ view'.kind = "history" /\ view'.rest = <<"events", "jobs", "deliveries", "commit">>
    BY <1>0, <2>1, <2>2 DEF Views
  <2>4. view' \in Views' /\ view'.rest \in Remaining[view'.kind]
    <3>1. view' \in Views'
      BY <1>0, <1>t, <1>v, <2>1 DEF Views
    <3> QED
      BY <3>1, <2>3 DEF Remaining
  <2>5. InTransaction'
    BY <2>3 DEF InTransaction, HistoryScript
  <2> QED
    BY <2>1, <2>2, <2>3, <2>4, <2>5 DEF ViewInv, DiagnosticsNotBehind, HistoryIsCausal, Answered
<1>10. CASE CommitHistory
  <2>1. /\ view' = [view EXCEPT !.rest = Tail(@)] /\ conn' = "free"
        /\ view.rest # <<>> /\ Head(view.rest) = "commit"
    BY <1>10 DEF CommitHistory, Statement
  <2>2. view.kind = "history" /\ view.rest = <<"commit">>
    BY <1>0, <2>1 DEF Remaining
  <2>3. /\ view'.kind = "history" /\ view'.rest = <<>>
        /\ view'.events = view.events /\ view'.payment = view.payment
        /\ view'.jobs = view.jobs /\ view'.deliveries = view.deliveries
        /\ view'.outcomes = view.outcomes
    BY <1>0, <2>1, <2>2 DEF Views
  <2>4. view' \in Views' /\ view'.rest \in Remaining[view'.kind]
    <3>1. view' \in Views'
      BY <1>0, <1>t, <1>v, <2>1 DEF Views
    <3> QED
      BY <2>3, <3>1 DEF Remaining
  <2>5. InTransaction
    BY <2>2 DEF InTransaction, HistoryScript
  <2>6. /\ view.events = Len(log) /\ view.payment = version /\ view.jobs = Len(log)
        /\ view.deliveries = Len(log) /\ view.outcomes = audit
    BY <2>2, <2>5 DEF ViewInv
  <2>7. HistoryIsCausal'
    <3>1. ASSUME NEW v \in 1..MaxVersion
          PROVE  (EventShown(v, view.events + 1) <=> v <= view.payment)'
      <4>1. ASSUME v <= version PROVE EventShown(v, view.events + 1)'
        <5>1. PICK i \in 1..Len(log) : EventRow(i, v)
          BY <1>0, <4>1 DEF LedgerInv
        <5> QED
          BY <1>0, <1>1, <2>3, <2>6, <5>1 DEF EventShown, EventRow
      <4>2. ASSUME EventShown(v, view.events + 1)' PROVE v <= version
        <5>1. PICK i \in 1..Len(log) : log[i].kind = "event" /\ log[i].version = v
          BY <1>1, <2>3, <2>6, <4>2 DEF EventShown
        <5> QED
          BY <5>1 DEF LedgerInv, RowInv
      <4> QED
        BY <1>1, <2>3, <2>6, <4>1, <4>2
    <3>2. /\ JobsShown' = {i \in 1..Len(log) : log[i].kind = "job"}
          /\ DeliveriesShown' = {i \in 1..Len(log) : log[i].kind = "delivery"}
      BY <1>1, <2>3, <2>6 DEF JobsShown, DeliveriesShown
    <3>3. ASSUME NEW i \in 1..Len(log), log[i].kind = "job" PROVE EventShown(log[i].job, i)'
      <4>1. PICK e \in 1..(i - 1) : EventRow(e, log[i].job)
        BY <3>3 DEF LedgerInv, RowInv
      <4>2. e \in 1..Len(log) /\ e < i
        BY <1>0
      <4> QED
        BY <1>1, <2>3, <2>6, <4>1, <4>2 DEF EventShown, EventRow
    <3>4. ASSUME NEW i \in 1..Len(log), log[i].kind = "delivery"
          PROVE  \E s \in JobsShown' : s < i /\ log[s] = Snapshot(1, "running", log[i].attempt)
      <4>1. PICK s \in 1..(i - 1) : log[s] = Snapshot(1, "running", log[i].attempt)
        BY <3>4 DEF LedgerInv, RowInv
      <4>2. s \in 1..Len(log) /\ s < i /\ log[s].kind = "job"
        BY <1>0, <4>1 DEF Snapshot
      <4> QED
        BY <3>2, <4>1, <4>2
    <3>5. ASSUME NEW s \in 1..Len(log), log[s].kind = "job", log[s].status = "completed"
          PROVE  /\ \E i \in DeliveriesShown' : i < s /\ log[i].attempt = log[s].attempts
                 /\ view'.outcomes[log[s].attempts] = "succeeded"
      <4>1. PICK d \in 1..(s - 1) : log[d] = Started(log[s].attempts)
        BY <3>5 DEF LedgerInv, RowInv
      <4>2. /\ d \in 1..Len(log) /\ d < s /\ log[d].kind = "delivery"
            /\ log[d].attempt = log[s].attempts
        BY <1>0, <4>1 DEF Started
      <4>3. audit[log[s].attempts] = "succeeded"
        BY <3>5 DEF LedgerInv, RowInv
      <4> QED
        BY <2>3, <2>6, <3>2, <4>2, <4>3
    <3> QED
      BY <1>1, <3>1, <3>2, <3>3, <3>4, <3>5 DEF HistoryIsCausal
  <2>8. /\ ~InTransaction' /\ ~Answered({"diagnostics"})'
        /\ view'.kind \notin {"timeline", "diagnostics"}
    BY <2>3 DEF InTransaction, Answered
  <2> QED
    BY <2>1, <2>4, <2>7, <2>8 DEF ViewInv, DiagnosticsNotBehind
<1>11. CASE Abandon
  <2>1. view' = Blank("none", <<>>) /\ conn' = "free"
    BY <1>11 DEF Abandon, NoView
  <2>2. view'.kind = "none" /\ view'.rest = <<>>
    BY <2>1 DEF Blank
  <2>3. view' \in Views'
    BY <1>0, <1>1, <2>1 DEF Blank, Views
  <2> QED
    BY <2>1, <2>2, <2>3 DEF ViewInv, Remaining, InTransaction, Answered, DiagnosticsNotBehind,
                            HistoryIsCausal
<1> QED
  BY <1>3, <1>4, <1>5, <1>6, <1>7, <1>8, <1>9, <1>10, <1>11 DEF Read

-----------------------------------------------------------------------------
\* AdminInv holds of every reachable state: the delivery's invariant, the
\* causes of every row and what each reader knows at each of its statements.
THEOREM AdminInvariance == AdminSpec => []AdminInv
<1>1. AdminInit => LedgerInv
  <2> SUFFICES ASSUME AdminInit PROVE LedgerInv
    OBVIOUS
  <2> USE AdministrationAssumption, WebhookDeliveryAssumption
  <2> DEFINE x == Event(1, 0)
             y == Snapshot(1, "pending", 0)
  <2>1. /\ version = 1 /\ now = 0 /\ log = <<x, y>> /\ job.attempts = 0
        /\ audit = [a \in Attempts |-> "none"]
    BY DEF AdminInit, Init
  <2>2. x \in Rows /\ y \in Rows
    BY DEF Event, Snapshot, Rows
  <2>3. log \in Seq(Rows) /\ Len(log) = 2 /\ log[1] = x /\ log[2] = y
    BY <2>1, <2>2
  <2>4. RowInv(1) /\ EventRow(1, 1)
    BY <2>1, <2>3 DEF RowInv, EventRow, Event
  <2>5. RowInv(2)
    BY <2>3, <2>4 DEF RowInv, Snapshot
  <2>6. \A i \in 1..2 : i = 1 \/ i = 2
    OBVIOUS
  <2> QED
    BY <2>1, <2>3, <2>4, <2>5, <2>6 DEF LedgerInv, Attempts
<1>2. AdminInit => ViewInv
  <2> SUFFICES ASSUME AdminInit PROVE ViewInv
    OBVIOUS
  <2>1. view = Blank("none", <<>>) /\ conn = "free" /\ version = 1 /\ now = 0
    BY DEF AdminInit, NoView
  <2>2. view.kind = "none" /\ view.rest = <<>>
    BY <2>1 DEF Blank
  <2>3. view \in Views
    <3>1. Len(log) \in Nat
      BY <1>1 DEF LedgerInv
    <3> QED
      BY <2>1, <3>1 DEF Blank, Views
  <2> QED
    BY <2>1, <2>2, <2>3 DEF ViewInv, Remaining, InTransaction, Answered, DiagnosticsNotBehind,
                            HistoryIsCausal
<1>3. DeliveryInv /\ LedgerInv /\ ViewInv /\ [AdminNext]_adminVars => LedgerInv' /\ ViewInv'
  <2> SUFFICES ASSUME DeliveryInv, LedgerInv, ViewInv, [AdminNext]_adminVars
               PROVE  LedgerInv' /\ ViewInv'
    OBVIOUS
  <2>1. Grows /\ LedgerInv'
    BY EveryStepGrows, GrowthKeepsLedger
  <2>2. CASE Read
    BY <2>1, <2>2, ReadersKeepViews
  <2>3. CASE \/ Command \/ AdvanceTime \/ ExhaustJob
             \/ \E a \in Attempts :
                  StartJob(a) \/ SettleJob(a) \/ StartDelivery(a) \/ EndDelivery(a)
    <3>1. UNCHANGED <<view, conn>> /\ conn = "free"
      BY <2>3 DEF Command, AdvanceTime, ExhaustJob, StartJob, SettleJob, StartDelivery, EndDelivery,
                  Writes
    <3> QED
      BY <2>1, <3>1, WritersKeepViews
  <2>4. CASE UNCHANGED adminVars \/ \E a \in Attempts : Unobserved(a)
    <3>1. UNCHANGED <<view, conn, log, version, audit>>
      BY <2>4 DEF Unobserved, Send, Crash, adminVars, vars, observed
    <3> QED
      BY <2>1, <3>1, WritersKeepViews
  <2> QED
    BY <2>1, <2>2, <2>3, <2>4 DEF AdminNext
<1> QED
  BY <1>1, <1>2, <1>3, ObservedDelivery, DeliveryInvariance, PTL DEF AdminSpec, AdminInv

\* Types of the payment, the clock, the ledgers' rows and the answers.
THEOREM AdminTypes == AdminSpec => []AdminTypeOK
<1>1. AdminInv => AdminTypeOK
  BY DEF AdminInv, DeliveryInv, LedgerInv, ViewInv, AdminTypeOK
<1> QED
  BY <1>1, AdminInvariance, PTL

\* A timeline or diagnostics shows the event of every version of the payment
\* it shows, whatever commands ran between its statements.
THEOREM TimelineExplainsPayment == AdminSpec => []TimelineCoversState
<1>1. AdminInv => TimelineCoversState
  BY DEF AdminInv, ViewInv, TimelineCoversState, Answered, Covered
<1> QED
  BY <1>1, AdminInvariance, PTL

\* The diagnostics show no event of the future of the time they show.
THEOREM DiagnosticsTime == AdminSpec => []DiagnosticsNotBehind
<1>1. AdminInv => DiagnosticsNotBehind
  BY DEF AdminInv, ViewInv
<1> QED
  BY <1>1, AdminInvariance, PTL

\* The runtime history is one moment of the runtime: everything it shows has
\* its cause in it.
THEOREM HistoryCausality == AdminSpec => []HistoryIsCausal
<1>1. AdminInv => HistoryIsCausal
  BY DEF AdminInv, ViewInv
<1> QED
  BY <1>1, AdminInvariance, PTL

\* The audit the administrator reads is the one of the delivery: it tells the
\* truth about the receiver, and recorded outcomes stay.
THEOREM ObservedAudit == AdminSpec => [](AuditTellsTruth /\ CompletedMeansDelivered) /\ AuditIsFinal
<1> QED
  BY ObservedDelivery, AuditIsTruthful, AuditOutcomesStay, PTL
=============================================================================
