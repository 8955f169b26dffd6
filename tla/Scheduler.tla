----------------------------- MODULE Scheduler -----------------------------
(***************************************************************************)
(* The durable job scheduler: the scheduler_jobs table with its lease and  *)
(* fencing rules, the scheduler loops that find and acquire due jobs, and  *)
(* the worker that runs a job's handler and persists the outcome.          *)
(*                                                                         *)
(* Two clocks drive it.  `clock' is the virtual business time, moved only  *)
(* by an administrator; `wall' is the operational time leases are taken    *)
(* with.  A scheduler reads both once at the start of a tick and uses what *)
(* it read until the tick ends.                                            *)
(***************************************************************************)
EXTENDS Integers, Sequences

CONSTANTS
    Jobs,          \* job ids; naturals, ordered as the id column is
    KnownJobs,     \* the jobs whose type has a handler registered
    AsyncJobs,     \* the jobs that are operations a provider defers
    Schedulers,    \* scheduler loops sharing the database
    BatchSize,     \* LIMIT of one tick's query
    LeaseDuration, \* operational time a lease lasts
    MaxAttempts,   \* attempt budget of the retry policy
    RetryAfter,    \* delay the policy asks for after attempt n
    Deferrals,     \* how far ahead of business time a handler may schedule work
    MaxTime,       \* bound on both clocks
    MaxFaults      \* bound on crashes and failed statements

ASSUME SchedulerAssumption ==
    /\ Jobs \subseteq Nat \ {0}
    /\ KnownJobs \subseteq Jobs
    /\ AsyncJobs \subseteq Jobs
    /\ BatchSize \in Nat \ {0}
    /\ LeaseDuration \in Nat \ {0}
    /\ MaxAttempts \in Nat \ {0}
    /\ RetryAfter \in [1..(MaxAttempts - 1) -> Nat \ {0}]
    /\ Deferrals \subseteq Nat
    /\ MaxTime \in Nat \ {0}
    /\ MaxFaults \in Nat

VARIABLES
    row,     \* scheduler_jobs: the stored row of every job id
    audit,   \* scheduler_job_audit: snapshots, without their time columns
    clock,   \* virtual business time
    wall,    \* operational time
    pc,      \* where each scheduler loop is
    seen,    \* business time each loop read at the start of its tick
    opNow,   \* operational time each loop read at the start of its tick
    batch,   \* ids the loop found and has not tried yet
    cur,     \* id of the job the loop is dispatching, or NoJob
    held,    \* the in-memory job the loop is dispatching
    runs,    \* history: handler invocations per job and attempt number
    faults   \* history: crashes and failed statements so far

vars == <<row, audit, clock, wall, pc, seen, opNow, batch, cur, held, runs, faults>>

-----------------------------------------------------------------------------
Time == Nat
NoLease == 0
NoJob == 0
Statuses == {"pending", "leased", "running", "completed", "failed", "exhausted"}
Terminal == {"completed", "exhausted"}

Row == [status : Statuses \cup {"absent"}, next : Time, lease : Time,
        gen : Nat, attempts : Nat]

\* An id with no row in the table.
AbsentRow == [status |-> "absent", next |-> 0, lease |-> NoLease,
              gen |-> 0, attempts |-> 0]

NewJob(at) == [status |-> "pending", next |-> at, lease |-> NoLease,
               gen |-> 0, attempts |-> 0]

Snapshot(j, r) == [job |-> j, status |-> r.status, gen |-> r.gen,
                   attempts |-> r.attempts]

\* Mutant of LeaseJob: a new lease under the old generation.
LeaseJobSameGeneration(r, expiry) == [r EXCEPT !.status = "leased", !.lease = expiry]

\* The UPDATE of Repository.acquire: a new lease under the next generation.
LeaseJob(r, expiry) == [r EXCEPT !.status = "leased", !.gen = r.gen + 1, !.lease = expiry]

\* Mutant of StartJob: a status the schema does not have.
StartJobUnknownStatus(r) == [r EXCEPT !.status = "started", !.attempts = r.attempts + 1]

\* The transitions of the in-memory job.
StartJob(r)    == [r EXCEPT !.status = "running", !.attempts = r.attempts + 1]
CompleteJob(r) == [r EXCEPT !.status = "completed", !.lease = NoLease]
ExhaustJob(r)  == [r EXCEPT !.status = "exhausted", !.lease = NoLease]
RetryJob(r, at) == [r EXCEPT !.status = "pending", !.lease = NoLease, !.next = at]

\* Mutant of Retry: one attempt fewer than the budget.
RetryOneFewer(n) == n < MaxAttempts - 1

\* RetryPolicy.Decide: whether attempt n leaves another one.
Retry(n) == n < MaxAttempts

-----------------------------------------------------------------------------
\* Mutant of Fenced: the generation is not compared.
FencedByStatus(j, r) == row[j].status # "completed"

\* Repository.save: an insert, or an update fenced by the lease generation.
Fenced(j, r) ==
    \/ row[j].status = "absent"
    \/ row[j].status # "completed" /\ row[j].gen = r.gen

\* Mutant of Save: the row without its audit entry.
SaveUnaudited(j, r) ==
    /\ row' = IF Fenced(j, r) THEN [row EXCEPT ![j] = r] ELSE row
    /\ UNCHANGED audit

Save(j, r) ==
    IF Fenced(j, r)
    THEN /\ row' = [row EXCEPT ![j] = r]
         /\ audit' = audit \cup {Snapshot(j, r)}
    ELSE UNCHANGED <<row, audit>>

\* The fenced save that reports ErrStaleLease; a save onto a completed row of
\* the same generation reports success without writing.
StaleLease(j, r) ==
    /\ ~Fenced(j, r)
    /\ ~(row[j].status = "completed" /\ r.status = "pending")
    /\ row[j].gen # r.gen

\* Mutants of Executable: due times not looked at, or compared strictly.
ExecutableAnyTime(j, at) == row[j].status \in {"pending", "failed"}
ExecutableStrictly(j, at) == row[j].status \in {"pending", "failed"} /\ row[j].next < at

\* Repository.FindExecutable compares both columns with business time.
Executable(j, at) ==
    \/ row[j].status \in {"pending", "failed"} /\ row[j].next <= at
    \/ /\ row[j].status \in {"leased", "running"}
       /\ row[j].lease # NoLease
       /\ row[j].lease <= at

Before(i, j) ==
    \/ row[i].next < row[j].next
    \/ row[i].next = row[j].next /\ i < j

Batches == UNION {[1..n -> Jobs] : n \in 0..BatchSize}

\* ORDER BY next_attempt_at, id LIMIT BatchSize.
FindExecutable(at, q) ==
    /\ \A i \in DOMAIN q : Executable(q[i], at)
    /\ \A i, k \in DOMAIN q : i < k => Before(q[i], q[k])
    /\ \A j \in Jobs :
         Executable(j, at) /\ (\A i \in DOMAIN q : q[i] # j) =>
             Len(q) = BatchSize /\ \A i \in DOMAIN q : Before(q[i], j)

\* Mutants of Acquirable: exhausted jobs too, or no expired leases.
AcquirableUnlessCompleted(j, at) ==
    row[j].status # "completed" /\ (row[j].lease = NoLease \/ row[j].lease <= at)
AcquirablePending(j, at) == row[j].status \in {"pending", "failed"}

\* Repository.acquire: due times are not looked at again, and an old lease is
\* compared with operational time.
Acquirable(j, at) ==
    \/ row[j].status \in {"pending", "failed"}
    \/ /\ row[j].status \in {"leased", "running"}
       /\ row[j].lease # NoLease
       /\ row[j].lease <= at

-----------------------------------------------------------------------------
Init ==
    /\ row = [j \in Jobs |-> AbsentRow]
    /\ audit = {}
    /\ clock = 1
    /\ wall = 1
    /\ pc = [s \in Schedulers |-> "idle"]
    /\ seen = [s \in Schedulers |-> 0]
    /\ opNow = [s \in Schedulers |-> 0]
    /\ batch = [s \in Schedulers |-> <<>>]
    /\ cur = [s \in Schedulers |-> NoJob]
    /\ held = [s \in Schedulers |-> AbsentRow]
    /\ runs = [j \in Jobs |-> [a \in 1..MaxAttempts |-> 0]]
    /\ faults = 0

tickVars == <<seen, opNow>>
timeVars == <<clock, wall>>

\* Where a loop goes when it is done with a job and `rest' is left to try;
\* locals that are not read again are cleared.
GoOn(s, rest) ==
    /\ batch' = [batch EXCEPT ![s] = rest]
    /\ cur' = [cur EXCEPT ![s] = NoJob]
    /\ held' = [held EXCEPT ![s] = AbsentRow]
    /\ seen' = [seen EXCEPT ![s] = 0]
    /\ opNow' = [opNow EXCEPT ![s] = IF rest = <<>> THEN 0 ELSE @]
    /\ pc' = [pc EXCEPT ![s] = IF rest = <<>> THEN "idle" ELSE "batch"]

\* A producer saves a new job; saving an id again is subject to the fence like
\* any other save.
SaveNew(j, at) ==
    /\ Save(j, NewJob(at))
    /\ UNCHANGED <<timeVars, pc, tickVars, batch, cur, held, runs, faults>>

\* The delivery of an event, or the message of a saga's step, is due now.
Publish(j) ==
    /\ j \notin AsyncJobs
    /\ SaveNew(j, clock)

\* A handler at work, the saga's, publishes an operation its provider deferred,
\* under an id that is used again whenever the payment is deferred again.
Defer(s, j) ==
    /\ pc[s] = "running"
    /\ j \in AsyncJobs
    /\ \E d \in Deferrals : SaveNew(j, clock + d)

\* Scheduler.Tick reads both clocks ...
Tick(s) ==
    /\ pc[s] = "idle"
    /\ pc' = [pc EXCEPT ![s] = "find"]
    /\ seen' = [seen EXCEPT ![s] = clock]
    /\ opNow' = [opNow EXCEPT ![s] = wall]
    /\ UNCHANGED <<row, audit, timeVars, batch, cur, held, runs, faults>>

\* ... then queries the due jobs ...
Find(s) ==
    /\ pc[s] = "find"
    /\ \E q \in Batches : FindExecutable(seen[s], q) /\ GoOn(s, q)
    /\ UNCHANGED <<row, audit, timeVars, runs, faults>>

\* ... and leases them one after the other, each when its turn comes.
Acquire(s) ==
    /\ pc[s] = "batch"
    /\ LET j == Head(batch[s])
           r == LeaseJob(row[j], opNow[s] + LeaseDuration)
       IN  \/ /\ Acquirable(j, opNow[s])
              /\ row' = [row EXCEPT ![j] = r]
              /\ audit' = audit \cup {Snapshot(j, r)}
              /\ cur' = [cur EXCEPT ![s] = j]
              /\ held' = [held EXCEPT ![s] = r]
              /\ pc' = [pc EXCEPT ![s] = "acquired"]
              /\ batch' = [batch EXCEPT ![s] = Tail(batch[s])]
              /\ UNCHANGED tickVars
           \/ /\ ~Acquirable(j, opNow[s])
              /\ GoOn(s, Tail(batch[s]))
              /\ UNCHANGED <<row, audit>>
    /\ UNCHANGED <<timeVars, runs, faults>>

\* Worker.Execute, no handler for the type: the lease is left as it is.
RejectUnknown(s) ==
    /\ pc[s] = "acquired"
    /\ cur[s] \notin KnownJobs
    /\ GoOn(s, batch[s])
    /\ UNCHANGED <<row, audit, timeVars, runs, faults>>

\* Worker.Execute, the budget was spent by attempts that never reported back.
ExhaustSpent(s) ==
    /\ pc[s] = "acquired"
    /\ cur[s] \in KnownJobs
    /\ held[s].attempts > 0 /\ ~Retry(held[s].attempts)
    /\ Save(cur[s], ExhaustJob(held[s]))
    /\ GoOn(s, batch[s])
    /\ UNCHANGED <<timeVars, runs, faults>>

\* Mutant of Start: no look at the attempts already spent.
StartUnbudgeted(s) ==
    /\ pc[s] = "acquired"
    /\ cur[s] \in KnownJobs
    /\ Save(cur[s], StartJob(held[s]))
    /\ held' = [held EXCEPT ![s] = StartJob(held[s])]
    /\ pc' = [pc EXCEPT ![s] = "running"]
    /\ UNCHANGED <<batch, cur, tickVars, timeVars, runs, faults>>

\* Worker.Execute, Start and the save before the handler is called.
Start(s) ==
    /\ pc[s] = "acquired"
    /\ cur[s] \in KnownJobs
    /\ held[s].attempts > 0 => Retry(held[s].attempts)
    /\ LET r == StartJob(held[s])
       IN  /\ Save(cur[s], r)
           /\ \/ /\ ~StaleLease(cur[s], r)
                 /\ held' = [held EXCEPT ![s] = r]
                 /\ pc' = [pc EXCEPT ![s] = "running"]
                 /\ UNCHANGED <<batch, cur, tickVars>>
              \/ /\ StaleLease(cur[s], r)
                 /\ GoOn(s, batch[s])
    /\ UNCHANGED <<timeVars, runs, faults>>

\* The handler is called with the attempt number; its effect and its return.
RunHandler(s, after) ==
    /\ pc[s] = "running"
    /\ pc' = [pc EXCEPT ![s] = "saving"]
    /\ held' = [held EXCEPT ![s] = after]
    /\ runs' = [runs EXCEPT ![cur[s]][held[s].attempts] = @ + 1]
    /\ UNCHANGED <<row, audit, timeVars, tickVars, batch, cur, faults>>

HandlerSucceeds(s) == RunHandler(s, CompleteJob(held[s]))

\* Worker.persistFailure up to its save.
HandlerFails(s) ==
    RunHandler(s, IF Retry(held[s].attempts)
                  THEN RetryJob(held[s], clock + RetryAfter[held[s].attempts])
                  ELSE ExhaustJob(held[s]))

\* The save that ends Worker.Execute; whatever it reports, the loop goes on.
SaveOutcome(s) ==
    /\ pc[s] = "saving"
    /\ Save(cur[s], held[s])
    /\ GoOn(s, batch[s])
    /\ UNCHANGED <<timeVars, runs, faults>>

\* A statement of the loop fails (database error, cancelled context): its
\* transaction is rolled back and the loop goes on with the next job.
StatementFails(s) ==
    /\ faults < MaxFaults
    /\ faults' = faults + 1
    /\ \/ pc[s] \in {"acquired", "saving"} /\ GoOn(s, batch[s])
       \/ pc[s] = "batch" /\ GoOn(s, Tail(batch[s]))
       \/ pc[s] = "find" /\ GoOn(s, <<>>)
    /\ UNCHANGED <<row, audit, timeVars, runs>>

\* The process dies and comes back with nothing but the database.
Crash(s) ==
    /\ faults < MaxFaults
    /\ pc[s] # "idle"
    /\ faults' = faults + 1
    /\ GoOn(s, <<>>)
    /\ UNCHANGED <<row, audit, timeVars, runs>>

\* PersistentVirtualClock.Advance.
AdvanceClock ==
    /\ clock < MaxTime
    /\ clock' = clock + 1
    /\ UNCHANGED <<row, audit, wall, pc, tickVars, batch, cur, held, runs, faults>>

WallTick ==
    /\ wall < MaxTime
    /\ wall' = wall + 1
    /\ UNCHANGED <<row, audit, clock, pc, tickVars, batch, cur, held, runs, faults>>

SchedulerStep(s) ==
    \/ Tick(s) \/ Find(s) \/ Acquire(s)
    \/ RejectUnknown(s) \/ ExhaustSpent(s) \/ Start(s)
    \/ HandlerSucceeds(s) \/ HandlerFails(s) \/ SaveOutcome(s)

Next ==
    \/ \E j \in Jobs : Publish(j)
    \/ \E s \in Schedulers, j \in Jobs : Defer(s, j)
    \/ \E s \in Schedulers : SchedulerStep(s) \/ StatementFails(s) \/ Crash(s)
    \/ AdvanceClock
    \/ WallTick

Spec == Init /\ [][Next]_vars

\* The loop of every scheduler keeps ticking and operational time passes;
\* nothing makes an administrator move virtual time.
FairSpec ==
    /\ Spec
    /\ \A s \in Schedulers : WF_vars(SchedulerStep(s))
    /\ WF_vars(WallTick)

-----------------------------------------------------------------------------
(* What the scheduler promises.                                            *)

PCs == {"idle", "find", "batch", "acquired", "running", "saving"}
Holding(s) == pc[s] \in {"acquired", "running", "saving"}
Leasing(j) == row[j].status \in {"leased", "running"}

\* Types of the tables, the clocks and the locals of every loop.
TypeOK ==
    /\ row \in [Jobs -> Row]
    /\ audit \subseteq [job : Jobs, status : Statuses, gen : Nat, attempts : Nat]
    /\ clock \in Nat \ {0}
    /\ wall \in Nat \ {0}
    /\ pc \in [Schedulers -> PCs]
    /\ seen \in [Schedulers -> Time]
    /\ opNow \in [Schedulers -> Time]
    /\ batch \in [Schedulers -> Seq(Jobs)]
    /\ cur \in [Schedulers -> Jobs \cup {NoJob}]
    /\ held \in [Schedulers -> Row]
    /\ runs \in [Jobs -> [1..MaxAttempts -> Nat]]
    /\ faults \in Nat

\* Two loops never hold the same job under the same lease generation, however
\* acquisitions, expiries and crashes interleave (Repository.acquire).
OneHolderPerGeneration ==
    \A s, t \in Schedulers :
        s # t /\ Holding(s) /\ Holding(t) /\ cur[s] = cur[t] => held[s].gen # held[t].gen

\* The handler of a job is entered at most once with the same attempt number,
\* which the delivery audit uses as its key (Worker.Execute saves the started
\* attempt behind the fence before it calls the handler).
RunsOncePerAttempt ==
    \A j \in Jobs : \A a \in 1..MaxAttempts : runs[j][a] <= 1

\* No job is started more often than the retry policy allows, crashes of the
\* worker included (the check at the head of Worker.Execute).
AttemptsWithinBudget ==
    \A j \in Jobs : row[j].attempts <= MaxAttempts

\* A completed job did run its handler in its last attempt, and a job is only
\* given up once the whole budget is spent.
SettledForCause ==
    \A j \in Jobs :
        /\ row[j].status = "completed" =>
             row[j].attempts \in 1..MaxAttempts /\ runs[j][row[j].attempts] = 1
        /\ row[j].status = "exhausted" => row[j].attempts = MaxAttempts

\* The audit trail shows the stored state of every job, and the started
\* attempt behind every handler invocation (appendAudit in the same transaction).
AuditCoversHistory ==
    \A j \in Jobs :
        /\ row[j].status # "absent" => Snapshot(j, row[j]) \in audit
        /\ \A a \in 1..MaxAttempts : runs[j][a] > 0 =>
             \E e \in audit : e.job = j /\ e.status = "running" /\ e.attempts = a

\* A job only moves forward: completed and exhausted jobs never change again,
\* no late save, republished id or new acquisition reviving them, and the stored
\* lease generation and attempt count never go back, so a worker whose lease
\* was taken over cannot undo what its successor stored.
JobsMoveForward ==
    [][\A j \in Jobs :
         /\ row[j].status \in Terminal => row'[j] = row[j]
         /\ row'[j].gen >= row[j].gen /\ row'[j].attempts >= row[j].attempts]_vars

\* A leased or running row is only replaced by a new acquisition or by the
\* loop that holds its current generation.
WritesAreFenced ==
    [][\A j \in Jobs : Leasing(j) /\ row'[j] # row[j] =>
          \/ row'[j].gen = row[j].gen + 1
          \/ \E s \in Schedulers :
                Holding(s) /\ cur[s] = j /\ held[s].gen = row[j].gen]_vars

\* A job that failed is not tried again before the delay its retry policy asked
\* for has passed in business time.  With a single loop this holds although
\* acquire does not look at the due time again.
BackoffIsKept ==
    [][\A j \in Jobs :
          row[j].status = "pending" /\ row[j].attempts > 0 /\ row'[j].status = "leased" =>
             row[j].next <= clock]_vars

\* A due job does not stay pending for ever while the loop keeps ticking.
DueJobsAreTaken ==
    \A j \in Jobs : (row[j].status = "pending" /\ row[j].next <= clock)
                 ~> ~(row[j].status = "pending" /\ row[j].next <= clock)

\* A lease left behind by a dead worker is taken over once it has expired on
\* both clocks.
ExpiredLeasesAreTaken ==
    \A j \in Jobs : (Leasing(j) /\ row[j].lease <= wall /\ row[j].lease <= clock)
                 ~> ~(Leasing(j) /\ row[j].lease <= wall /\ row[j].lease <= clock)

\* The recovery the documentation promises: a lease that has expired in
\* operational time is taken over, whether or not virtual time moves.
WallClockLeaseRecovery ==
    \A j \in Jobs : (Leasing(j) /\ row[j].lease <= wall)
                 ~> ~(Leasing(j) /\ row[j].lease <= wall)

-----------------------------------------------------------------------------
(* The inductive invariant behind the safety properties.                   *)

\* What a stored row says by itself and about the attempts made so far.
RowInv ==
    \A j \in Jobs :
        /\ row[j].status = "absent" => row[j].gen = 0
        /\ row[j].gen = 0 => row[j].status \in {"absent", "pending"} /\ row[j].attempts = 0
        /\ row[j].attempts <= MaxAttempts
        /\ row[j].status = "completed" =>
             row[j].attempts \in 1..MaxAttempts /\ runs[j][row[j].attempts] = 1
        /\ row[j].status = "exhausted" => row[j].attempts = MaxAttempts
        /\ \A a \in 1..MaxAttempts : a > row[j].attempts => runs[j][a] = 0

\* A loop's in-memory job is never newer than the row, and while its lease
\* generation is current it agrees with the row.
HeldAgrees(s) ==
    LET r == row[cur[s]] IN
        /\ cur[s] \in Jobs
        /\ held[s].gen > 0
        /\ held[s].gen <= r.gen
        /\ held[s].attempts <= r.attempts
        /\ pc[s] = "acquired" /\ held[s].gen = r.gen =>
             r.status = "leased" /\ held[s].attempts = r.attempts
        /\ pc[s] # "acquired" /\ held[s].gen = r.gen =>
             r.status = "running" /\ held[s].attempts = r.attempts
        /\ pc[s] # "acquired" => held[s].attempts \in 1..MaxAttempts

HeldInv == \A s \in Schedulers : Holding(s) => HeldAgrees(s)

\* What a loop is about to save after its handler returned.
OutcomeInv ==
    \A s \in Schedulers : pc[s] = "saving" =>
        /\ held[s].status \in {"pending", "completed", "exhausted"}
        /\ held[s].status = "completed" => runs[cur[s]][held[s].attempts] = 1
        /\ held[s].status = "exhausted" => held[s].attempts = MaxAttempts

\* A loop about to call the handler is the first and only one to do so under
\* its attempt number, and the attempt is in the audit trail.
RunInv ==
    /\ \A s \in Schedulers : pc[s] = "running" =>
         /\ runs[cur[s]][held[s].attempts] = 0
         /\ \E e \in audit : e.job = cur[s] /\ e.status = "running"
                             /\ e.attempts = held[s].attempts
    /\ \A s, t \in Schedulers :
         s # t /\ pc[s] = "running" /\ pc[t] = "running" /\ cur[s] = cur[t] =>
             held[s].attempts # held[t].attempts

BatchInv == \A s \in Schedulers : pc[s] = "batch" => batch[s] # <<>>

SchedulerInv ==
    /\ TypeOK
    /\ BatchInv
    /\ RowInv
    /\ HeldInv
    /\ OutcomeInv
    /\ RunInv
    /\ OneHolderPerGeneration
    /\ RunsOncePerAttempt
    /\ AuditCoversHistory

\* With one loop, as the application is composed: what is left of its batch is
\* listed once and is not the job in hand, and the retries among it are due.  The
\* fence keeps producers from writing a job that has been leased before, so
\* nobody but the loop itself could put a retry off.
OneLoop == \A s, t \in Schedulers : s = t

DueInv ==
    \A s \in Schedulers :
        /\ seen[s] <= clock
        /\ \A i \in DOMAIN batch[s] :
             /\ row[batch[s][i]].status = "pending" /\ row[batch[s][i]].attempts > 0 =>
                  row[batch[s][i]].next <= clock
             /\ Holding(s) => batch[s][i] # cur[s]
             /\ \A k \in DOMAIN batch[s] : i # k => batch[s][i] # batch[s][k]
=============================================================================
