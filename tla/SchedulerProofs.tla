--------------------------- MODULE SchedulerProofs ---------------------------
(***************************************************************************)
(* Proofs that the scheduler keeps its fencing and retry promises for any  *)
(* number of jobs, loops, attempts, faults and any bound on time.          *)
(***************************************************************************)
EXTENDS Scheduler, TLAPS

\* The result of a query is a sequence of job ids.
LEMMA BatchesAreSequences == Batches \subseteq Seq(Jobs)
  BY SchedulerAssumption DEF Batches

\* The missing row has the type of a row.
LEMMA AbsentRowIsRow == AbsentRow \in Row
  BY DEF AbsentRow, Row, NoLease, Time

\* Turning to the next job keeps the types of a loop's locals.
LEMMA GoOnType ==
  ASSUME TypeOK, NEW s \in Schedulers, NEW rest \in Seq(Jobs), GoOn(s, rest)
  PROVE  /\ pc' \in [Schedulers -> PCs]
         /\ seen' \in [Schedulers -> Time]
         /\ opNow' \in [Schedulers -> Time]
         /\ batch' \in [Schedulers -> Seq(Jobs)]
         /\ cur' \in [Schedulers -> Jobs \cup {NoJob}]
         /\ held' \in [Schedulers -> Row]
  <1>1. pc' \in [Schedulers -> PCs]
    <2>1. "idle" \in PCs /\ "batch" \in PCs
      BY DEF PCs
    <2>2. pc \in [Schedulers -> PCs]
      BY DEF TypeOK
    <2> QED
      BY <2>1, <2>2 DEF GoOn
  <1>2. seen' \in [Schedulers -> Time] /\ opNow' \in [Schedulers -> Time]
    BY DEF GoOn, TypeOK, Time
  <1>3. batch' \in [Schedulers -> Seq(Jobs)] /\ cur' \in [Schedulers -> Jobs \cup {NoJob}]
    BY DEF GoOn, TypeOK
  <1>4. held' \in [Schedulers -> Row]
    BY AbsentRowIsRow DEF GoOn, TypeOK
  <1> QED
    BY <1>1, <1>2, <1>3, <1>4

\* Repository.save keeps the types of both tables.
LEMMA SaveType ==
  ASSUME TypeOK, NEW j \in Jobs, NEW r \in Row, r.status # "absent", Save(j, r)
  PROVE  /\ row' \in [Jobs -> Row]
         /\ audit' \subseteq [job : Jobs, status : Statuses, gen : Nat, attempts : Nat]
  <1>1. row' \in [Jobs -> Row]
    BY DEF Save, TypeOK
  <1>2. Snapshot(j, r) \in [job : Jobs, status : Statuses, gen : Nat, attempts : Nat]
    BY DEF Snapshot, Row
  <1> QED
    BY <1>1, <1>2 DEF Save, TypeOK
\* The locals of every loop but s that the invariant reads stay as they are.
OthersKeep(s) ==
    \A t \in Schedulers : t # s =>
        pc'[t] = pc[t] /\ cur'[t] = cur[t] /\ held'[t] = held[t] /\ batch'[t] = batch[t]

\* s is done with its job and knows what to do next.
LetsGo(s) ==
    /\ pc'[s] \in {"idle", "find", "batch"}
    /\ pc'[s] = "batch" => batch'[s] # <<>>

\* What a loop holds after it has turned to the next job: nothing.
LEMMA GoOnShape ==
  ASSUME TypeOK, NEW s \in Schedulers, NEW rest \in Seq(Jobs), GoOn(s, rest)
  PROVE  OthersKeep(s) /\ LetsGo(s)
  BY DEF TypeOK, GoOn, OthersKeep, LetsGo

\* A step that lets go of a job without touching the tables keeps everything.
LEMMA LettingGo ==
  ASSUME SchedulerInv, TypeOK', NEW s \in Schedulers, OthersKeep(s), LetsGo(s),
         UNCHANGED <<row, audit, runs>>
  PROVE  SchedulerInv'
  <1> USE DEF SchedulerInv
  <1>1. BatchInv'
    BY DEF BatchInv, OthersKeep, LetsGo
  <1>2. RowInv'
    BY DEF RowInv
  <1>3. HeldInv'
    BY DEF HeldInv, HeldAgrees, Holding, OthersKeep, LetsGo
  <1>4. OutcomeInv'
    BY DEF OutcomeInv, OthersKeep, LetsGo
  <1>5. RunInv'
    BY DEF RunInv, OthersKeep, LetsGo
  <1>6. OneHolderPerGeneration'
    BY DEF OneHolderPerGeneration, Holding, OthersKeep, LetsGo
  <1>7. RunsOncePerAttempt' /\ AuditCoversHistory'
    BY DEF RunsOncePerAttempt, AuditCoversHistory
  <1> QED
    BY <1>1, <1>2, <1>3, <1>4, <1>5, <1>6, <1>7

\* The save that ends a dispatch, whether the fence lets it through or not.
LEMMA SavingAndLettingGo ==
  ASSUME SchedulerInv, TypeOK', NEW s \in Schedulers, OthersKeep(s), LetsGo(s),
         Holding(s), UNCHANGED runs,
         NEW r \in Row, Save(cur[s], r), r.gen = held[s].gen,
         r.attempts = held[s].attempts,
         r.status \in {"pending", "completed", "exhausted"},
         r.status = "completed" =>
            r.attempts \in 1..MaxAttempts /\ runs[cur[s]][r.attempts] = 1,
         r.status = "exhausted" => r.attempts = MaxAttempts
  PROVE  SchedulerInv'
  <1> USE DEF SchedulerInv
  <1>1. CASE ~Fenced(cur[s], r)
    BY <1>1, LettingGo DEF Save
  <1>2. CASE Fenced(cur[s], r)
    <2> DEFINE j == cur[s]
    <2>1. /\ j \in Jobs
          /\ row' = [row EXCEPT ![j] = r]
          /\ audit' = audit \cup {Snapshot(j, r)}
      BY <1>2 DEF Save, HeldInv, HeldAgrees
    <2>2. row[j].gen = held[s].gen /\ row[j].attempts = held[s].attempts
      BY <1>2 DEF Fenced, HeldInv, HeldAgrees, RowInv, Holding, TypeOK, Row
    <2>3. /\ row'[j] = r
          /\ \A i \in Jobs : i # j => row'[i] = row[i]
      BY <2>1 DEF TypeOK
    <2>4. BatchInv'
      BY DEF BatchInv, OthersKeep, LetsGo
    <2>5. RowInv'
      BY <2>1, <2>2, <2>3 DEF RowInv, HeldInv, HeldAgrees
    <2>6. HeldInv'
      BY <2>1, <2>2, <2>3 DEF HeldInv, HeldAgrees, OneHolderPerGeneration, Holding, OthersKeep, LetsGo
    <2>7. OutcomeInv'
      BY DEF OutcomeInv, OthersKeep, LetsGo
    <2>8. RunInv'
      BY <2>1 DEF RunInv, OthersKeep, LetsGo
    <2>9. OneHolderPerGeneration'
      BY DEF OneHolderPerGeneration, Holding, OthersKeep, LetsGo
    <2>10. RunsOncePerAttempt' /\ AuditCoversHistory'
      BY <2>1, <2>3 DEF RunsOncePerAttempt, AuditCoversHistory
    <2> QED
      BY <2>4, <2>5, <2>6, <2>7, <2>8, <2>9, <2>10
  <1> QED
    BY <1>1, <1>2

-----------------------------------------------------------------------------
(* Types.                                                                  *)

\* Every initial state has the right types (the empty tables of a new database).
LEMMA InitType == Init => TypeOK
  <1> SUFFICES ASSUME Init PROVE TypeOK
    OBVIOUS
  <1>1. row \in [Jobs -> Row] /\ held \in [Schedulers -> Row]
    BY AbsentRowIsRow DEF Init
  <1>2. pc \in [Schedulers -> PCs]
    BY DEF Init, PCs
  <1>3. batch \in [Schedulers -> Seq(Jobs)]
    BY DEF Init
  <1>4. runs \in [Jobs -> [1..MaxAttempts -> Nat]]
    BY DEF Init
  <1> QED
    BY <1>1, <1>2, <1>3, <1>4 DEF Init, TypeOK, Time, NoJob

\* The in-memory transitions of a job.
LEMMA TransitionTypes ==
  ASSUME NEW r \in Row
  PROVE  /\ StartJob(r) \in Row /\ StartJob(r).status = "running"
         /\ StartJob(r).gen = r.gen /\ StartJob(r).attempts = r.attempts + 1
         /\ CompleteJob(r) \in Row /\ CompleteJob(r).status = "completed"
         /\ CompleteJob(r).gen = r.gen /\ CompleteJob(r).attempts = r.attempts
         /\ ExhaustJob(r) \in Row /\ ExhaustJob(r).status = "exhausted"
         /\ ExhaustJob(r).gen = r.gen /\ ExhaustJob(r).attempts = r.attempts
         /\ \A at \in Nat : /\ RetryJob(r, at) \in Row
                            /\ RetryJob(r, at).status = "pending"
                            /\ RetryJob(r, at).gen = r.gen
                            /\ RetryJob(r, at).attempts = r.attempts
  <1> USE DEF Row, Statuses, NoLease, Time
  <1>1. /\ StartJob(r) \in Row /\ StartJob(r).status = "running"
        /\ StartJob(r).gen = r.gen /\ StartJob(r).attempts = r.attempts + 1
    <2>1. r.attempts + 1 \in Nat
      OBVIOUS
    <2>2. ASSUME NEW n \in Nat
          PROVE  LET x == [r EXCEPT !.status = "running", !.attempts = n]
                 IN  x \in Row /\ x.status = "running" /\ x.gen = r.gen /\ x.attempts = n
      OBVIOUS
    <2> QED
      BY <2>1, <2>2 DEF StartJob
  <1>2. /\ CompleteJob(r) \in Row /\ CompleteJob(r).status = "completed"
        /\ CompleteJob(r).gen = r.gen /\ CompleteJob(r).attempts = r.attempts
    BY DEF CompleteJob
  <1>3. /\ ExhaustJob(r) \in Row /\ ExhaustJob(r).status = "exhausted"
        /\ ExhaustJob(r).gen = r.gen /\ ExhaustJob(r).attempts = r.attempts
    BY DEF ExhaustJob
  <1>4. ASSUME NEW at \in Nat
        PROVE  /\ RetryJob(r, at) \in Row /\ RetryJob(r, at).status = "pending"
               /\ RetryJob(r, at).gen = r.gen /\ RetryJob(r, at).attempts = r.attempts
    BY DEF RetryJob
  <1> QED
    BY <1>1, <1>2, <1>3, <1>4

\* domain.NewJob makes a pending row that was never leased.
LEMMA NewJobType ==
  ASSUME NEW at \in Nat
  PROVE  /\ NewJob(at) \in Row /\ NewJob(at).status = "pending"
         /\ NewJob(at).gen = 0 /\ NewJob(at).attempts = 0
  BY DEF NewJob, Row, Statuses, NoLease, Time

-----------------------------------------------------------------------------
(* One lemma per action.                                                   *)

\* Every producer saves a new job, due now or later.
LEMMA Producers ==
  ASSUME TypeOK, NEW j \in Jobs, Publish(j) \/ \E s \in Schedulers : Defer(s, j)
  PROVE  \E at \in Nat : SaveNew(j, at)
  <1>1. clock \in Nat
    BY DEF TypeOK
  <1>2. CASE Publish(j)
    BY <1>1, <1>2 DEF Publish
  <1>3. CASE \E s \in Schedulers : Defer(s, j)
    <2>1. PICK d \in Deferrals : SaveNew(j, clock + d)
      BY <1>3 DEF Defer
    <2>2. clock + d \in Nat
      BY <1>1, SchedulerAssumption
    <2> QED
      BY <2>1, <2>2
  <1> QED
    BY <1>2, <1>3

\* Saving a new job, or the same id again, keeps the invariant.
LEMMA SaveNewStep ==
  ASSUME SchedulerInv, NEW j \in Jobs, NEW at \in Nat, SaveNew(j, at)
  PROVE  SchedulerInv'
  <1> DEFINE r == NewJob(at)
  <1> USE DEF SchedulerInv
  <1>1. /\ r \in Row /\ r.status = "pending" /\ r.gen = 0 /\ r.attempts = 0
        /\ Save(j, r)
    BY NewJobType DEF SaveNew
  <1>2. TypeOK'
    BY <1>1, SaveType DEF SaveNew, TypeOK, timeVars, tickVars
  <1>3. UNCHANGED <<pc, cur, held, batch, runs>>
    BY DEF SaveNew
  <1>4. CASE ~Fenced(j, r)
    <2>1. UNCHANGED <<row, audit>>
      BY <1>1, <1>4 DEF Save
    <2> QED
      BY <1>2, <1>3, <2>1 DEF BatchInv, RowInv, HeldInv, HeldAgrees, OutcomeInv, RunInv, Holding,
         OneHolderPerGeneration, RunsOncePerAttempt, AuditCoversHistory
  <1>5. CASE Fenced(j, r)
    <2>1. row' = [row EXCEPT ![j] = r] /\ audit' = audit \cup {Snapshot(j, r)}
      BY <1>1, <1>5 DEF Save
    <2>2. row[j].gen = 0 /\ row[j].attempts = 0
      BY <1>1, <1>5 DEF Fenced, RowInv
    <2>3. row'[j] = r /\ \A i \in Jobs : i # j => row'[i] = row[i]
      BY <2>1 DEF TypeOK
    <2>4. BatchInv' /\ OneHolderPerGeneration' /\ RunsOncePerAttempt' /\ OutcomeInv'
      BY <1>3 DEF BatchInv, OneHolderPerGeneration, Holding, RunsOncePerAttempt, OutcomeInv
    <2>5. RowInv'
      BY <1>1, <1>3, <2>2, <2>3, SchedulerAssumption DEF RowInv
    <2>6. HeldInv'
      <3>1. \A s \in Schedulers : Holding(s) => cur[s] # j
        BY <2>2 DEF HeldInv, HeldAgrees, TypeOK, Row
      <3> QED
        BY <1>3, <2>3, <3>1 DEF HeldInv, HeldAgrees, Holding
    <2>7. RunInv'
      BY <1>3, <2>1 DEF RunInv
    <2>8. AuditCoversHistory'
      BY <1>3, <2>1, <2>3 DEF AuditCoversHistory
    <2> QED
      BY <1>2, <2>4, <2>5, <2>6, <2>7, <2>8
  <1> QED
    BY <1>4, <1>5

\* Reading the clocks keeps the invariant.
LEMMA TickStep ==
  ASSUME SchedulerInv, NEW s \in Schedulers, Tick(s)
  PROVE  SchedulerInv'
  <1>1. TypeOK'
    BY DEF SchedulerInv, Tick, TypeOK, timeVars, PCs, Time
  <1>2. OthersKeep(s) /\ LetsGo(s)
    BY DEF SchedulerInv, Tick, TypeOK, OthersKeep, LetsGo
  <1> QED
    BY <1>1, <1>2, LettingGo DEF Tick

\* Querying the due jobs keeps the invariant.
LEMMA FindStep ==
  ASSUME SchedulerInv, NEW s \in Schedulers, Find(s)
  PROVE  SchedulerInv'
  <1>1. PICK q \in Seq(Jobs) : GoOn(s, q)
    BY BatchesAreSequences DEF Find
  <1>2. TypeOK'
    BY <1>1, GoOnType DEF SchedulerInv, Find, TypeOK, timeVars
  <1> QED
    BY <1>1, <1>2, GoOnShape, LettingGo DEF SchedulerInv, Find

\* Leaving a job of unknown type to its lease keeps the invariant.
LEMMA RejectUnknownStep ==
  ASSUME SchedulerInv, NEW s \in Schedulers, RejectUnknown(s)
  PROVE  SchedulerInv'
  <1>1. batch[s] \in Seq(Jobs) /\ GoOn(s, batch[s])
    BY DEF SchedulerInv, TypeOK, RejectUnknown
  <1>2. TypeOK'
    BY <1>1, GoOnType DEF SchedulerInv, RejectUnknown, TypeOK, timeVars
  <1> QED
    BY <1>1, <1>2, GoOnShape, LettingGo DEF SchedulerInv, RejectUnknown

\* A failed statement and a crash both drop what the loop had in memory.
LEMMA FaultStep ==
  ASSUME SchedulerInv, NEW s \in Schedulers, StatementFails(s) \/ Crash(s)
  PROVE  SchedulerInv'
  <1>1. PICK rest \in Seq(Jobs) : GoOn(s, rest)
    <2>1. batch[s] \in Seq(Jobs)
      BY DEF SchedulerInv, TypeOK
    <2>2. pc[s] = "batch" => Tail(batch[s]) \in Seq(Jobs)
      BY <2>1 DEF SchedulerInv, BatchInv
    <2>3. <<>> \in Seq(Jobs)
      OBVIOUS
    <2> QED
      BY <2>1, <2>2, <2>3 DEF StatementFails, Crash
  <1>2. /\ UNCHANGED <<row, audit, runs, clock, wall>>
        /\ faults' = faults + 1
    BY DEF StatementFails, Crash, timeVars
  <1>3. TypeOK'
    BY <1>1, <1>2, GoOnType DEF SchedulerInv, TypeOK
  <1> QED
    BY <1>1, <1>2, <1>3, GoOnShape, LettingGo DEF SchedulerInv

\* Time passing on either clock keeps the invariant.
LEMMA ClockStep ==
  ASSUME SchedulerInv, AdvanceClock \/ WallTick
  PROVE  SchedulerInv'
  <1>1. /\ UNCHANGED <<row, audit, pc, seen, opNow, batch, cur, held, runs, faults>>
        /\ clock' \in Nat \ {0} /\ wall' \in Nat \ {0}
    BY DEF AdvanceClock, WallTick, SchedulerInv, TypeOK, tickVars
  <1> QED
    BY <1>1 DEF SchedulerInv, TypeOK, BatchInv, RowInv, HeldInv, HeldAgrees, OutcomeInv, RunInv, Holding,
       OneHolderPerGeneration, RunsOncePerAttempt, AuditCoversHistory

\* A lease changes the generation, the status and the expiry of a row.
LEMMA LeaseJobType ==
  ASSUME NEW r \in Row, NEW expiry \in Nat
  PROVE  /\ LeaseJob(r, expiry) \in Row /\ LeaseJob(r, expiry).status = "leased"
         /\ LeaseJob(r, expiry).gen = r.gen + 1
         /\ LeaseJob(r, expiry).attempts = r.attempts
  <1> USE DEF Row, Statuses, Time
  <1>1. r.gen + 1 \in Nat
    OBVIOUS
  <1>2. ASSUME NEW n \in Nat
        PROVE  LET x == [r EXCEPT !.status = "leased", !.gen = n, !.lease = expiry]
               IN  /\ x \in Row /\ x.status = "leased"
                   /\ x.gen = n /\ x.attempts = r.attempts
    OBVIOUS
  <1> QED
    BY <1>1, <1>2 DEF LeaseJob

\* Acquiring a job under the next generation keeps the invariant: every
\* loop that held the job before now holds an outdated generation.
LEMMA AcquireStep ==
  ASSUME SchedulerInv, NEW s \in Schedulers, Acquire(s)
  PROVE  SchedulerInv'
  <1> USE DEF SchedulerInv
  <1> DEFINE j == Head(batch[s])
             r == LeaseJob(row[j], opNow[s] + LeaseDuration)
  <1>1. batch[s] \in Seq(Jobs) /\ batch[s] # <<>>
    BY DEF Acquire, TypeOK, BatchInv
  <1>2. j \in Jobs /\ Tail(batch[s]) \in Seq(Jobs)
    BY <1>1
  <1>3. UNCHANGED <<clock, wall, runs, faults>>
    BY DEF Acquire, timeVars
  <1>4. CASE ~Acquirable(j, opNow[s])
    <2>1. GoOn(s, Tail(batch[s])) /\ UNCHANGED <<row, audit>>
      BY <1>4 DEF Acquire
    <2>2. TypeOK'
      BY <1>2, <1>3, <2>1, GoOnType DEF TypeOK
    <2> QED
      BY <1>2, <1>3, <2>1, <2>2, GoOnShape, LettingGo
  <1>5. CASE Acquirable(j, opNow[s])
    <2>1. /\ row' = [row EXCEPT ![j] = r]
          /\ audit' = audit \cup {Snapshot(j, r)}
          /\ cur' = [cur EXCEPT ![s] = j]
          /\ held' = [held EXCEPT ![s] = r]
          /\ pc' = [pc EXCEPT ![s] = "acquired"]
          /\ batch' = [batch EXCEPT ![s] = Tail(batch[s])]
          /\ UNCHANGED <<seen, opNow>>
      BY <1>5 DEF Acquire, tickVars
    <2>2. row[j] \in Row /\ opNow[s] + LeaseDuration \in Nat
      <3>1. row[j] \in Row /\ opNow[s] \in Nat
        BY <1>2 DEF TypeOK, Time
      <3>2. LeaseDuration \in Nat
        BY SchedulerAssumption
      <3> QED
        BY <3>1, <3>2
    <2>3. /\ r \in Row /\ r.status = "leased" /\ r.gen = row[j].gen + 1
          /\ r.attempts = row[j].attempts
      BY <2>2, LeaseJobType
    <2> HIDE DEF r
    <2>4. /\ row'[j] = r
          /\ \A i \in Jobs : i # j => row'[i] = row[i]
          /\ cur'[s] = j /\ held'[s] = r /\ pc'[s] = "acquired"
          /\ OthersKeep(s)
      BY <1>2, <2>1 DEF TypeOK, OthersKeep
    <2>5. Snapshot(j, r) \in [job : Jobs, status : Statuses, gen : Nat, attempts : Nat]
      BY <1>2, <2>3 DEF Snapshot, Row, Statuses
    <2>6. TypeOK'
      <3>1. row' \in [Jobs -> Row] /\ held' \in [Schedulers -> Row]
        BY <1>2, <2>1, <2>3 DEF TypeOK
      <3>2. pc' \in [Schedulers -> PCs]
        BY <2>1 DEF TypeOK, PCs
      <3>3. batch' \in [Schedulers -> Seq(Jobs)] /\ cur' \in [Schedulers -> Jobs \cup {NoJob}]
        BY <1>2, <2>1 DEF TypeOK
      <3> QED
        BY <1>3, <2>1, <2>5, <3>1, <3>2, <3>3 DEF TypeOK
    <2>7. BatchInv'
      BY <2>4 DEF BatchInv, OthersKeep
    <2>8. RowInv'
      <3>1. /\ row[j].gen \in Nat
            /\ row[j].status \notin Terminal /\ row[j].status # "absent"
        BY <1>5, <2>2 DEF Acquirable, Row, Terminal
      <3> QED
        BY <1>2, <1>3, <2>3, <2>4, <3>1 DEF RowInv
    <2>9. HeldInv'
      <3> SUFFICES ASSUME NEW t \in Schedulers, Holding(t)'
                   PROVE  HeldAgrees(t)'
        BY DEF HeldInv, HeldAgrees
      <3>1. CASE t = s
        BY <1>2, <2>2, <2>3, <2>4, <3>1 DEF Row, HeldAgrees
      <3>2. CASE t # s
        <4>1. Holding(t) /\ pc'[t] = pc[t] /\ cur'[t] = cur[t] /\ held'[t] = held[t]
          BY <2>4, <3>2 DEF Holding, OthersKeep
        <4>2. HeldAgrees(t) /\ held[t] \in Row
          BY <4>1 DEF HeldInv, TypeOK
        <4>3. CASE cur[t] # j
            BY <2>4, <4>1, <4>2, <4>3 DEF HeldAgrees
        <4>4. CASE cur[t] = j
            BY <1>2, <2>2, <2>3, <2>4, <4>1, <4>2, <4>4 DEF HeldAgrees, Row
        <4> QED
            BY <4>3, <4>4
      <3> QED
        BY <3>1, <3>2
    <2>10. OutcomeInv'
      BY <1>3, <2>4 DEF OutcomeInv, OthersKeep
    <2>11. RunInv'
      BY <1>3, <2>1, <2>4 DEF RunInv, OthersKeep
    <2>12. OneHolderPerGeneration'
      <3>1. \A t \in Schedulers : Holding(t) /\ cur[t] = j => held[t].gen < r.gen
        BY <2>2, <2>3 DEF HeldInv, HeldAgrees, TypeOK, Row
      <3>2. r.gen \in Nat /\ \A t \in Schedulers : held[t].gen \in Nat
        BY <2>3 DEF TypeOK, Row
      <3> QED
        BY <2>4, <3>1, <3>2 DEF OneHolderPerGeneration, Holding, OthersKeep
    <2>13. RunsOncePerAttempt' /\ AuditCoversHistory'
      BY <1>3, <2>1, <2>4 DEF RunsOncePerAttempt, AuditCoversHistory
    <2> QED
      BY <2>6, <2>7, <2>8, <2>9, <2>10, <2>11, <2>12, <2>13
  <1> QED
    BY <1>4, <1>5

\* Giving up a job whose budget is spent keeps the invariant.
LEMMA ExhaustSpentStep ==
  ASSUME SchedulerInv, NEW s \in Schedulers, ExhaustSpent(s)
  PROVE  SchedulerInv'
  <1> USE DEF SchedulerInv
  <1> DEFINE r == ExhaustJob(held[s])
  <1>1. /\ pc[s] = "acquired" /\ Save(cur[s], r) /\ GoOn(s, batch[s])
        /\ UNCHANGED <<clock, wall, runs, faults>>
        /\ ~Retry(held[s].attempts)
    BY DEF ExhaustSpent, timeVars
  <1>2. /\ held[s] \in Row /\ held[s].attempts \in Nat /\ held[s].gen > 0
        /\ held[s].attempts <= row[cur[s]].attempts
        /\ cur[s] \in Jobs /\ batch[s] \in Seq(Jobs) /\ Holding(s)
    BY <1>1 DEF TypeOK, HeldInv, HeldAgrees, Holding, Row
  <1>3. row[cur[s]].attempts <= MaxAttempts /\ row[cur[s]].attempts \in Nat
    BY <1>2 DEF RowInv, TypeOK, Row
  <1>4. held[s].attempts = MaxAttempts
    BY <1>1, <1>2, <1>3, SchedulerAssumption DEF Retry
  <1>5. /\ r \in Row /\ r.status = "exhausted"
        /\ r.gen = held[s].gen /\ r.attempts = held[s].attempts
    BY <1>2, TransitionTypes
  <1> HIDE DEF r
  <1>6. TypeOK'
    BY <1>1, <1>2, <1>5, GoOnType, SaveType DEF TypeOK
  <1>7. OthersKeep(s) /\ LetsGo(s)
    BY <1>1, <1>2, GoOnShape
  <1> QED
    BY <1>1, <1>2, <1>4, <1>5, <1>6, <1>7, SavingAndLettingGo

\* Saving the outcome of an attempt behind the fence keeps the invariant.
LEMMA SaveOutcomeStep ==
  ASSUME SchedulerInv, NEW s \in Schedulers, SaveOutcome(s)
  PROVE  SchedulerInv'
  <1> USE DEF SchedulerInv
  <1>1. /\ pc[s] = "saving" /\ Save(cur[s], held[s]) /\ GoOn(s, batch[s])
        /\ UNCHANGED <<clock, wall, runs, faults>>
    BY DEF SaveOutcome, timeVars
  <1>2. /\ held[s] \in Row /\ held[s].attempts \in 1..MaxAttempts
        /\ cur[s] \in Jobs /\ batch[s] \in Seq(Jobs) /\ Holding(s)
    BY <1>1 DEF TypeOK, HeldInv, HeldAgrees, Holding
  <1>3. /\ held[s].status \in {"pending", "completed", "exhausted"}
        /\ held[s].status = "completed" => runs[cur[s]][held[s].attempts] = 1
        /\ held[s].status = "exhausted" => held[s].attempts = MaxAttempts
    BY <1>1 DEF OutcomeInv
  <1>4. TypeOK'
    BY <1>1, <1>2, <1>3, GoOnType, SaveType DEF TypeOK
  <1>5. OthersKeep(s) /\ LetsGo(s)
    BY <1>1, <1>2, GoOnShape
  <1> QED
    BY <1>1, <1>2, <1>3, <1>4, <1>5, SavingAndLettingGo

\* Starting an attempt keeps the invariant: only the holder of the current
\* generation gets past the fence, under an attempt number nobody has run.
LEMMA StartStep ==
  ASSUME SchedulerInv, NEW s \in Schedulers, Start(s)
  PROVE  SchedulerInv'
  <1> USE DEF SchedulerInv
  <1> DEFINE j == cur[s]
             r == StartJob(held[s])
  <1>1. /\ pc[s] = "acquired" /\ Save(j, r)
        /\ UNCHANGED <<clock, wall, runs, faults>>
        /\ held[s].attempts > 0 => Retry(held[s].attempts)
    BY DEF Start, timeVars
  <1>2. /\ held[s] \in Row /\ j \in Jobs /\ batch[s] \in Seq(Jobs)
        /\ Holding(s) /\ HeldAgrees(s) /\ row[j] \in Row
    BY <1>1 DEF TypeOK, HeldInv, HeldAgrees, Holding
  <1>3. /\ r \in Row /\ r.status = "running"
        /\ r.gen = held[s].gen /\ r.attempts = held[s].attempts + 1
    BY <1>2, TransitionTypes
  <1> HIDE DEF r
  <1>4. r.attempts \in 1..MaxAttempts
    BY <1>1, <1>2, <1>3, SchedulerAssumption DEF Retry, Row
  <1>5. row[j].status # "absent"
    BY <1>2 DEF HeldAgrees, RowInv, Row
  <1>6. CASE row[j].gen # held[s].gen
    <2>1. StaleLease(j, r) /\ ~Fenced(j, r)
      BY <1>3, <1>5, <1>6 DEF StaleLease, Fenced
    <2>2. GoOn(s, batch[s]) /\ UNCHANGED <<row, audit>>
      BY <1>1, <2>1 DEF Start, Save, r
    <2>3. TypeOK'
      BY <1>1, <1>2, <2>2, GoOnType DEF TypeOK
    <2> QED
      BY <1>1, <1>2, <2>2, <2>3, GoOnShape, LettingGo
  <1>7. CASE row[j].gen = held[s].gen
    <2>1. row[j].status = "leased" /\ row[j].attempts = held[s].attempts
      BY <1>1, <1>2, <1>7 DEF HeldAgrees
    <2>2. Fenced(j, r) /\ ~StaleLease(j, r)
      BY <1>3, <1>7, <2>1 DEF Fenced, StaleLease
    <2>3. /\ row' = [row EXCEPT ![j] = r]
          /\ audit' = audit \cup {Snapshot(j, r)}
          /\ held' = [held EXCEPT ![s] = r]
          /\ pc' = [pc EXCEPT ![s] = "running"]
          /\ UNCHANGED <<batch, cur, seen, opNow>>
      BY <1>1, <2>2 DEF Start, Save, tickVars, r
    <2>4. /\ row'[j] = r /\ held'[s] = r /\ pc'[s] = "running" /\ cur'[s] = j
          /\ \A i \in Jobs : i # j => row'[i] = row[i]
          /\ OthersKeep(s)
      BY <1>2, <2>3 DEF TypeOK, OthersKeep
    <2>5. TypeOK'
      <3>1. row' \in [Jobs -> Row] /\ held' \in [Schedulers -> Row]
        BY <1>2, <1>3, <2>3 DEF TypeOK
      <3>2. pc' \in [Schedulers -> PCs]
        BY <2>3 DEF TypeOK, PCs
      <3>3. Snapshot(j, r) \in [job : Jobs, status : Statuses, gen : Nat, attempts : Nat]
        BY <1>2, <1>3 DEF Snapshot, Row, Statuses
      <3> QED
        BY <1>1, <2>3, <3>1, <3>2, <3>3 DEF TypeOK
    <2>6. BatchInv'
      BY <2>3, <2>4 DEF BatchInv, OthersKeep
    <2>7. RowInv'
      BY <1>1, <1>2, <1>3, <1>4, <2>1, <2>4, <1>7 DEF RowInv, HeldAgrees, Row
    <2>8. HeldInv'
      <3> SUFFICES ASSUME NEW t \in Schedulers, Holding(t)'
                   PROVE  HeldAgrees(t)'
        BY DEF HeldInv
      <3>1. CASE t = s
        BY <1>2, <1>3, <1>4, <1>7, <2>4, <3>1 DEF HeldAgrees, Row
      <3>2. CASE t # s
        <4>1. Holding(t) /\ pc'[t] = pc[t] /\ cur'[t] = cur[t] /\ held'[t] = held[t]
          BY <2>4, <3>2 DEF Holding, OthersKeep
        <4>2. HeldAgrees(t) /\ held[t] \in Row
          BY <4>1 DEF HeldInv, TypeOK
        <4>3. CASE cur[t] # j
          BY <2>4, <4>1, <4>2, <4>3 DEF HeldAgrees
        <4>4. CASE cur[t] = j
          <5>1. held[t].gen # held[s].gen
            BY <1>2, <3>2, <4>1, <4>4 DEF OneHolderPerGeneration
          <5> QED
            BY <1>2, <1>3, <1>7, <2>1, <2>4, <4>1, <4>2, <4>4, <5>1 DEF HeldAgrees, Row
        <4> QED
          BY <4>3, <4>4
      <3> QED
        BY <3>1, <3>2
    <2>9. OutcomeInv'
      BY <1>1, <2>4 DEF OutcomeInv, OthersKeep
    <2>10. RunInv'
      <3>1. runs[j][r.attempts] = 0
        BY <1>2, <1>3, <1>4, <2>1 DEF RowInv, Row
      <3>2. \A t \in Schedulers : pc[t] = "running" /\ cur[t] = j => held[t].attempts # r.attempts
        BY <1>2, <1>3, <2>1 DEF HeldInv, HeldAgrees, Holding, TypeOK, Row
      <3>3. Snapshot(j, r).job = j /\ Snapshot(j, r).status = "running"
            /\ Snapshot(j, r).attempts = r.attempts
        BY <1>3 DEF Snapshot
      <3> QED
        BY <1>1, <2>3, <2>4, <3>1, <3>2, <3>3 DEF RunInv, OthersKeep
    <2>11. OneHolderPerGeneration'
      BY <1>2, <1>3, <2>4 DEF OneHolderPerGeneration, Holding, OthersKeep
    <2>12. RunsOncePerAttempt' /\ AuditCoversHistory'
      BY <1>1, <2>3, <2>4 DEF RunsOncePerAttempt, AuditCoversHistory
    <2> QED
      BY <2>5, <2>6, <2>7, <2>8, <2>9, <2>10, <2>11, <2>12
  <1> QED
    BY <1>6, <1>7

\* The handler was called and its result recorded in memory.
LEMMA RunHandlerStep ==
  ASSUME SchedulerInv, NEW s \in Schedulers, NEW after \in Row, RunHandler(s, after),
         after.gen = held[s].gen, after.attempts = held[s].attempts,
         after.status \in {"pending", "completed", "exhausted"},
         after.status = "exhausted" => after.attempts = MaxAttempts
  PROVE  SchedulerInv'
  <1> USE DEF SchedulerInv
  <1> DEFINE j == cur[s]
             n == held[s].attempts
  <1>1. /\ pc[s] = "running" /\ pc' = [pc EXCEPT ![s] = "saving"]
        /\ held' = [held EXCEPT ![s] = after]
        /\ runs' = [runs EXCEPT ![j][n] = runs[j][n] + 1]
        /\ UNCHANGED <<row, audit, clock, wall, seen, opNow, batch, cur, faults>>
    BY DEF RunHandler, timeVars, tickVars
  <1>2. /\ held[s] \in Row /\ j \in Jobs /\ Holding(s) /\ HeldAgrees(s)
        /\ n \in 1..MaxAttempts /\ row[j] \in Row
    BY <1>1 DEF TypeOK, HeldInv, HeldAgrees, Holding
  <1>3. runs[j][n] = 0
    BY <1>1 DEF RunInv
  <1>4. /\ runs'[j][n] = 1
        /\ \A i \in Jobs : \A a \in 1..MaxAttempts :
              ~(i = j /\ a = n) => runs'[i][a] = runs[i][a]
        /\ runs' \in [Jobs -> [1..MaxAttempts -> Nat]]
    <2>1. runs \in [Jobs -> [1..MaxAttempts -> Nat]]
      BY DEF TypeOK
    <2>2. runs' = [runs EXCEPT ![j] = [runs[j] EXCEPT ![n] = 1]]
      BY <1>1, <1>2, <1>3, <2>1
    <2> HIDE DEF j, n
    <2> QED
      BY <1>2, <2>1, <2>2
  <1>5. /\ pc'[s] = "saving" /\ held'[s] = after /\ cur'[s] = j
        /\ OthersKeep(s)
    BY <1>1, <1>2 DEF TypeOK, OthersKeep
  <1> HIDE DEF j, n
  <1>6. TypeOK'
    <2>1. pc' \in [Schedulers -> PCs]
      BY <1>1 DEF TypeOK, PCs
    <2> QED
      BY <1>1, <1>4, <2>1 DEF TypeOK
  <1>7. BatchInv'
    BY <1>1, <1>5 DEF BatchInv, OthersKeep
  <1>8. RowInv'
    <2> SUFFICES ASSUME NEW i \in Jobs
                 PROVE  /\ row[i].status = "completed" =>
                             row[i].attempts \in 1..MaxAttempts /\ runs'[i][row[i].attempts] = 1
                        /\ \A a \in 1..MaxAttempts : a > row[i].attempts => runs'[i][a] = 0
      BY <1>1 DEF RowInv
    <2>1. \A a \in 1..MaxAttempts : a > row[i].attempts => runs'[i][a] = 0
      <3>1. n <= row[j].attempts /\ row[j].attempts \in Nat
        BY <1>2 DEF HeldAgrees, Row, n, j
      <3> QED
        BY <1>2, <1>4, <3>1 DEF RowInv
    <2>2. row[i].status = "completed" =>
             row[i].attempts \in 1..MaxAttempts /\ runs'[i][row[i].attempts] = 1
      BY <1>2, <1>4 DEF RowInv
    <2> QED
      BY <2>1, <2>2
  <1>9. HeldInv'
    <2> SUFFICES ASSUME NEW t \in Schedulers, Holding(t)'
                 PROVE  HeldAgrees(t)'
      BY DEF HeldInv
    <2>1. CASE t = s
      BY <1>1, <1>2, <1>5, <2>1 DEF HeldAgrees, n, j
    <2>2. CASE t # s
      BY <1>1, <1>5, <2>2 DEF HeldInv, HeldAgrees, Holding, OthersKeep
    <2> QED
      BY <2>1, <2>2
  <1>10. OutcomeInv'
    <2> SUFFICES ASSUME NEW t \in Schedulers, pc'[t] = "saving"
                 PROVE  /\ held'[t].status \in {"pending", "completed", "exhausted"}
                        /\ held'[t].status = "completed" => runs'[cur'[t]][held'[t].attempts] = 1
                        /\ held'[t].status = "exhausted" => held'[t].attempts = MaxAttempts
      BY DEF OutcomeInv
    <2>1. CASE t = s
      BY <1>4, <1>5, <2>1 DEF n
    <2>2. CASE t # s
      <3>1. /\ pc[t] = "saving" /\ held'[t] = held[t] /\ cur'[t] = cur[t]
            /\ cur[t] \in Jobs /\ held[t].attempts \in 1..MaxAttempts
        BY <1>5, <2>2 DEF OthersKeep, HeldInv, HeldAgrees, Holding
      <3> QED
        BY <1>4, <3>1 DEF OutcomeInv
    <2> QED
      BY <2>1, <2>2
  <1>11. RunInv'
    <2>1. \A t \in Schedulers : pc'[t] = "running" =>
             /\ t # s /\ pc[t] = "running" /\ held'[t] = held[t] /\ cur'[t] = cur[t]
             /\ cur[t] \in Jobs /\ held[t].attempts \in 1..MaxAttempts
      BY <1>5 DEF OthersKeep, HeldInv, HeldAgrees, Holding
    <2>2. \A t \in Schedulers : t # s /\ pc[t] = "running" =>
             ~(cur[t] = j /\ held[t].attempts = n)
      BY <1>1 DEF RunInv, n, j
    <2> QED
      BY <1>1, <1>4, <2>1, <2>2 DEF RunInv
  <1>12. OneHolderPerGeneration'
    BY <1>2, <1>5 DEF OneHolderPerGeneration, Holding, OthersKeep, j
  <1>13. RunsOncePerAttempt'
    BY <1>4 DEF RunsOncePerAttempt
  <1>14. AuditCoversHistory'
    <2>1. \E e \in audit : e.job = j /\ e.status = "running" /\ e.attempts = n
      BY <1>1 DEF RunInv, j, n
    <2> QED
      BY <1>1, <1>2, <1>4, <2>1 DEF AuditCoversHistory
  <1> QED
    BY <1>6, <1>7, <1>8, <1>9, <1>10, <1>11, <1>12, <1>13, <1>14

\* Running the handler once under a new attempt number keeps the invariant.
LEMMA HandlerStep ==
  ASSUME SchedulerInv, NEW s \in Schedulers, HandlerSucceeds(s) \/ HandlerFails(s)
  PROVE  SchedulerInv'
  <1> USE DEF SchedulerInv
  <1> DEFINE h == held[s]
  <1>1. pc[s] = "running"
    BY DEF HandlerSucceeds, HandlerFails, RunHandler
  <1>2. h \in Row /\ h.attempts \in 1..MaxAttempts /\ h.attempts <= row[cur[s]].attempts
    BY <1>1 DEF TypeOK, HeldInv, HeldAgrees, Holding
  <1>3. CASE HandlerSucceeds(s)
    <2>1. /\ CompleteJob(h) \in Row /\ CompleteJob(h).status = "completed"
          /\ CompleteJob(h).gen = h.gen /\ CompleteJob(h).attempts = h.attempts
      BY <1>2, TransitionTypes
    <2> QED
      BY <1>3, <2>1, RunHandlerStep DEF HandlerSucceeds
  <1>4. CASE HandlerFails(s) /\ Retry(h.attempts)
    <2> DEFINE at == clock + RetryAfter[h.attempts]
               r == RetryJob(h, at)
    <2>1. at \in Nat
      <3>1. clock \in Nat
        BY DEF TypeOK
      <3>2. h.attempts \in 1..(MaxAttempts - 1)
        BY <1>2, <1>4, SchedulerAssumption DEF Retry
      <3>3. RetryAfter[h.attempts] \in Nat
        BY <3>2, SchedulerAssumption
      <3> QED
        BY <3>1, <3>3
    <2> HIDE DEF at
    <2>2. r \in Row /\ r.status = "pending" /\ r.gen = h.gen /\ r.attempts = h.attempts
      BY <1>2, <2>1, TransitionTypes
    <2>3. RunHandler(s, r)
      BY <1>4 DEF HandlerFails, at
    <2> HIDE DEF r
    <2> QED
      BY <2>2, <2>3, RunHandlerStep
  <1>5. CASE HandlerFails(s) /\ ~Retry(h.attempts)
    <2>1. /\ ExhaustJob(h) \in Row /\ ExhaustJob(h).status = "exhausted"
          /\ ExhaustJob(h).gen = h.gen /\ ExhaustJob(h).attempts = h.attempts
      BY <1>2, TransitionTypes
    <2>2. h.attempts = MaxAttempts
      BY <1>2, <1>5, SchedulerAssumption DEF Retry
    <2>3. RunHandler(s, ExhaustJob(h))
      BY <1>5 DEF HandlerFails
    <2> QED
      BY <2>1, <2>2, <2>3, RunHandlerStep
  <1> QED
    BY <1>3, <1>4, <1>5

-----------------------------------------------------------------------------
(* The invariant and what follows from it.                                 *)

\* The invariant holds initially.
LEMMA InitInv == Init => SchedulerInv
  <1> SUFFICES ASSUME Init PROVE SchedulerInv
    OBVIOUS
  <1>1. TypeOK
    BY InitType
  <1>2. \A s \in Schedulers : pc[s] = "idle"
    BY DEF Init
  <1>3. \A j \in Jobs : /\ row[j].status = "absent" /\ row[j].gen = 0 /\ row[j].attempts = 0
                        /\ \A a \in 1..MaxAttempts : runs[j][a] = 0
    BY DEF Init, AbsentRow
  <1>4. RowInv
    <2>1. 0 <= MaxAttempts
      BY SchedulerAssumption
    <2> QED
      BY <1>3, <2>1 DEF RowInv
  <1> QED
    BY <1>1, <1>2, <1>3, <1>4 DEF SchedulerInv, BatchInv, HeldInv, Holding, OutcomeInv, RunInv,
       OneHolderPerGeneration, RunsOncePerAttempt, AuditCoversHistory

\* Every step of every loop, producer and clock keeps the invariant.
LEMMA NextInv == SchedulerInv /\ [Next]_vars => SchedulerInv'
  <1> SUFFICES ASSUME SchedulerInv, [Next]_vars PROVE SchedulerInv'
    OBVIOUS
  <1>1. CASE \E j \in Jobs : Publish(j) \/ \E s \in Schedulers : Defer(s, j)
    BY <1>1, Producers, SaveNewStep DEF SchedulerInv
  <1>2. CASE \E s \in Schedulers : SchedulerStep(s)
    BY <1>2, TickStep, FindStep, AcquireStep, RejectUnknownStep, ExhaustSpentStep, StartStep,
       HandlerStep, SaveOutcomeStep DEF SchedulerStep
  <1>3. CASE \E s \in Schedulers : StatementFails(s) \/ Crash(s)
    BY <1>3, FaultStep
  <1>4. CASE AdvanceClock \/ WallTick
    BY <1>4, ClockStep
  <1>5. CASE UNCHANGED vars
    BY <1>5 DEF vars, SchedulerInv, TypeOK, BatchInv, RowInv, HeldInv, HeldAgrees, OutcomeInv,
       RunInv, Holding, OneHolderPerGeneration, RunsOncePerAttempt, AuditCoversHistory
  <1> QED
    BY <1>1, <1>2, <1>3, <1>4, <1>5 DEF Next

\* The inductive invariant holds in every reachable state.
THEOREM Invariance == Spec => []SchedulerInv
  BY InitInv, NextInv, PTL DEF Spec

\* Every reachable state has the types of TypeOK.
THEOREM TypeCorrectness == Spec => []TypeOK
  <1>1. SchedulerInv => TypeOK
    BY DEF SchedulerInv
  <1> QED
    BY <1>1, Invariance, PTL

\* Repository.acquire never hands the same generation of a job to two loops.
THEOREM LeaseExclusion == Spec => []OneHolderPerGeneration
  <1>1. SchedulerInv => OneHolderPerGeneration
    BY DEF SchedulerInv
  <1> QED
    BY <1>1, Invariance, PTL

\* No handler is entered twice under one attempt number of a job.
THEOREM AttemptNumbersAreUnique == Spec => []RunsOncePerAttempt
  <1>1. SchedulerInv => RunsOncePerAttempt
    BY DEF SchedulerInv
  <1> QED
    BY <1>1, Invariance, PTL

\* The retry policy bounds the attempts of every job.
THEOREM RetryBudget == Spec => []AttemptsWithinBudget
  <1>1. SchedulerInv => AttemptsWithinBudget
    BY DEF SchedulerInv, RowInv, AttemptsWithinBudget
  <1> QED
    BY <1>1, Invariance, PTL

\* A job is completed or given up only for the reason its status names.
THEOREM SettlementHasCause == Spec => []SettledForCause
  <1>1. SchedulerInv => SettledForCause
    BY DEF SchedulerInv, RowInv, SettledForCause
  <1> QED
    BY <1>1, Invariance, PTL

\* The audit trail shows every stored state and every started attempt.
THEOREM AuditIsComplete == Spec => []AuditCoversHistory
  <1>1. SchedulerInv => AuditCoversHistory
    BY DEF SchedulerInv
  <1> QED
    BY <1>1, Invariance, PTL

\* The three ways a stored row can change.
RowStep(j) ==
    \/ row'[j] = row[j]
    \/ /\ row[j].gen = 0 /\ row[j].attempts = 0 /\ row[j].status \in {"absent", "pending"}
       /\ row'[j].gen = 0 /\ row'[j].attempts = 0
    \/ /\ row[j].status \notin Terminal
       /\ row'[j].gen = row[j].gen + 1 /\ row'[j].attempts = row[j].attempts
    \/ /\ Leasing(j)
       /\ row'[j].gen = row[j].gen /\ row'[j].attempts >= row[j].attempts
       /\ \E s \in Schedulers : Holding(s) /\ cur[s] = j /\ held[s].gen = row[j].gen

\* What a fenced save may do to a row.
LEMMA SaveRowStep ==
  ASSUME SchedulerInv, NEW s \in Schedulers, Holding(s), NEW r \in Row, Save(cur[s], r),
         r.gen = held[s].gen, r.attempts >= held[s].attempts, NEW j \in Jobs
  PROVE  RowStep(j)
  <1>1. CASE ~Fenced(cur[s], r)
    BY <1>1 DEF Save, RowStep
  <1>2. CASE Fenced(cur[s], r)
    <2>1. /\ cur[s] \in Jobs /\ HeldAgrees(s) /\ held[s] \in Row /\ row[cur[s]] \in Row
          /\ row' = [row EXCEPT ![cur[s]] = r]
      BY <1>2 DEF Save, SchedulerInv, TypeOK, HeldInv, HeldAgrees
    <2>2. row[cur[s]].gen = held[s].gen
      BY <1>2, <2>1 DEF Fenced, SchedulerInv, RowInv, HeldAgrees, Row
    <2>3. CASE j = cur[s]
      BY <2>1, <2>2, <2>3 DEF RowStep, HeldAgrees, Leasing, SchedulerInv, TypeOK
    <2>4. CASE j # cur[s]
      BY <2>1, <2>4 DEF RowStep, SchedulerInv, TypeOK
    <2> QED
      BY <2>3, <2>4
  <1> QED
    BY <1>1, <1>2

\* What any step may do to a row, the fact behind the action properties.
LEMMA EveryRowStep ==
  ASSUME SchedulerInv, [Next]_vars, NEW j \in Jobs
  PROVE  RowStep(j)
  <1> USE DEF SchedulerInv
  <1>1. ASSUME NEW i \in Jobs, NEW at \in Nat, SaveNew(i, at) PROVE RowStep(j)
    <2>1. /\ NewJob(at).gen = 0 /\ NewJob(at).attempts = 0
          /\ Save(i, NewJob(at))
      BY <1>1, NewJobType DEF SaveNew
    <2>2. Fenced(i, NewJob(at)) => /\ row[i].gen = 0 /\ row[i].attempts = 0
                                   /\ row[i].status \in {"absent", "pending"}
      BY <2>1 DEF Fenced, RowInv
    <2> QED
      BY <2>1, <2>2 DEF Save, RowStep, TypeOK
  <1>2. ASSUME NEW s \in Schedulers, Acquire(s) PROVE RowStep(j)
    <2> DEFINE k == Head(batch[s])
               r == LeaseJob(row[k], opNow[s] + LeaseDuration)
    <2>1. k \in Jobs
      <3>1. batch[s] \in Seq(Jobs) /\ batch[s] # <<>>
        BY <1>2 DEF Acquire, TypeOK, BatchInv
      <3> QED
        BY <3>1
    <2>2. CASE ~Acquirable(k, opNow[s])
      BY <1>2, <2>2 DEF Acquire, RowStep
    <2>3. CASE Acquirable(k, opNow[s])
      <3>1. row' = [row EXCEPT ![k] = r]
        BY <1>2, <2>3 DEF Acquire
      <3>2. row[k] \in Row /\ opNow[s] \in Nat
        BY <2>1 DEF TypeOK, Time
      <3>3. opNow[s] + LeaseDuration \in Nat
        BY <3>2, SchedulerAssumption
      <3>4. r.gen = row[k].gen + 1 /\ r.attempts = row[k].attempts
        BY <3>2, <3>3, LeaseJobType
      <3>5. row[k].status \notin Terminal
        BY <2>3 DEF Acquirable, Terminal
      <3> HIDE DEF r
      <3> QED
        BY <2>1, <3>1, <3>4, <3>5 DEF RowStep, TypeOK
    <2> QED
      BY <2>2, <2>3
  <1>3. ASSUME NEW s \in Schedulers, ExhaustSpent(s) PROVE RowStep(j)
    <2>1. Holding(s) /\ Save(cur[s], ExhaustJob(held[s]))
      BY <1>3 DEF ExhaustSpent, Holding
    <2>2. held[s] \in Row
      BY DEF TypeOK
    <2>3. /\ ExhaustJob(held[s]) \in Row /\ ExhaustJob(held[s]).gen = held[s].gen
          /\ ExhaustJob(held[s]).attempts = held[s].attempts
      BY <2>2, TransitionTypes
    <2>4. held[s].attempts >= held[s].attempts
      BY <2>2 DEF Row
    <2> QED
      BY <2>1, <2>3, <2>4, SaveRowStep
  <1>4. ASSUME NEW s \in Schedulers, Start(s) PROVE RowStep(j)
    <2>1. Holding(s) /\ Save(cur[s], StartJob(held[s]))
      BY <1>4 DEF Start, Holding
    <2>2. held[s] \in Row /\ held[s].attempts \in Nat
      BY DEF TypeOK, Row
    <2>5. /\ StartJob(held[s]) \in Row /\ StartJob(held[s]).gen = held[s].gen
          /\ StartJob(held[s]).attempts = held[s].attempts + 1
      BY <2>2, TransitionTypes
    <2>6. StartJob(held[s]).attempts >= held[s].attempts
      BY <2>2, <2>5
    <2> QED
      BY <2>1, <2>5, <2>6, SaveRowStep
  <1>5. ASSUME NEW s \in Schedulers, SaveOutcome(s) PROVE RowStep(j)
    <2>1. Holding(s) /\ Save(cur[s], held[s]) /\ held[s] \in Row
      BY <1>5 DEF SaveOutcome, Holding, TypeOK
    <2>2. held[s].attempts >= held[s].attempts
      BY <2>1 DEF Row
    <2> QED
      BY <2>1, <2>2, SaveRowStep
  <1>6. ASSUME row' = row PROVE RowStep(j)
    BY <1>6 DEF RowStep
  <1>7. CASE \E s \in Schedulers : SchedulerStep(s)
    BY <1>2, <1>3, <1>4, <1>5, <1>6, <1>7 DEF SchedulerStep, Tick, Find, RejectUnknown,
       HandlerSucceeds, HandlerFails, RunHandler
  <1>8. CASE \E s \in Schedulers : StatementFails(s) \/ Crash(s)
    BY <1>6, <1>8 DEF StatementFails, Crash
  <1> QED
    BY <1>1, <1>6, <1>7, <1>8, Producers DEF Next, AdvanceClock, WallTick, vars

\* A completed or exhausted job is never written again, and generations and
\* attempt counts of a stored job only grow.
THEOREM Monotonicity == Spec => JobsMoveForward
  <1>1. SchedulerInv /\ [Next]_vars =>
          [\A j \in Jobs :
             /\ row[j].status \in Terminal => row'[j] = row[j]
             /\ row'[j].gen >= row[j].gen /\ row'[j].attempts >= row[j].attempts]_vars
    <2> SUFFICES ASSUME SchedulerInv, [Next]_vars, NEW j \in Jobs
                 PROVE  /\ row[j].status \in Terminal => row'[j] = row[j]
                        /\ row'[j].gen >= row[j].gen /\ row'[j].attempts >= row[j].attempts
      OBVIOUS
    <2>1. row[j].gen \in Nat /\ row[j].attempts \in Nat
      BY DEF SchedulerInv, TypeOK, Row
    <2>2. row[j].status \in Terminal => row'[j] = row[j]
      BY EveryRowStep DEF RowStep, Terminal, Leasing
    <2> QED
      BY <2>1, <2>2, EveryRowStep DEF RowStep
  <1> QED
    BY <1>1, Invariance, PTL DEF Spec, JobsMoveForward

\* Only a new acquisition or the holder of the current generation replaces a
\* leased or running row.
THEOREM Fencing == Spec => WritesAreFenced
  <1>1. SchedulerInv /\ [Next]_vars =>
          [\A j \in Jobs : Leasing(j) /\ row'[j] # row[j] =>
              \/ row'[j].gen = row[j].gen + 1
              \/ \E s \in Schedulers :
                    Holding(s) /\ cur[s] = j /\ held[s].gen = row[j].gen]_vars
    BY EveryRowStep DEF RowStep, Leasing
  <1> QED
    BY <1>1, Invariance, PTL DEF Spec, WritesAreFenced
-----------------------------------------------------------------------------
(* Retries are leased when they are due, as long as there is one loop.     *)

\* Who changes a row, and to what: a producer to a job that was never tried, a
\* loop that leases the head of its batch, or a loop that saves the job it holds.
DueStep(j) ==
    \/ row'[j] = row[j]
    \/ row'[j].status = "pending" /\ row'[j].attempts = 0
    \/ \E s \in Schedulers : pc[s] = "batch" /\ batch[s] # <<>> /\ j = Head(batch[s])
                             /\ row'[j].status = "leased"
    \/ \E s \in Schedulers : Holding(s) /\ cur[s] = j /\ row'[j].status # "leased"

\* A save by a holder changes the row of the job in hand only.
LEMMA SaveDueStep ==
  ASSUME SchedulerInv, NEW s \in Schedulers, Holding(s), NEW r, Save(cur[s], r),
         r.status # "leased", NEW j \in Jobs
  PROVE  DueStep(j)
  <1>1. cur[s] \in Jobs
    BY DEF SchedulerInv, HeldInv, HeldAgrees
  <1>2. CASE row' = row
    BY <1>2 DEF DueStep
  <1>3. CASE row' = [row EXCEPT ![cur[s]] = r]
    BY <1>1, <1>3 DEF DueStep, SchedulerInv, TypeOK
  <1> QED
    BY <1>2, <1>3 DEF Save

\* Every step changes rows in one of these ways.
LEMMA EveryDueStep ==
  ASSUME SchedulerInv, [Next]_vars, NEW j \in Jobs
  PROVE  DueStep(j)
  <1> USE DEF SchedulerInv
  <1>1. ASSUME NEW i \in Jobs, NEW at \in Nat, SaveNew(i, at) PROVE DueStep(j)
    BY <1>1, NewJobType DEF SaveNew, Save, DueStep, TypeOK
  <1>2. ASSUME NEW s \in Schedulers, Acquire(s) PROVE DueStep(j)
    <2> DEFINE k == Head(batch[s])
               r == LeaseJob(row[k], opNow[s] + LeaseDuration)
    <2>1. pc[s] = "batch" /\ batch[s] # <<>> /\ batch[s] \in Seq(Jobs)
      BY <1>2 DEF Acquire, TypeOK, BatchInv
    <2>2. k \in Jobs
      BY <2>1
    <2>3. row[k] \in Row /\ opNow[s] \in Nat
      BY <2>2 DEF TypeOK, Time
    <2>4. opNow[s] + LeaseDuration \in Nat
      BY <2>3, SchedulerAssumption
    <2>5. r.status = "leased"
      BY <2>3, <2>4, LeaseJobType
    <2>6. row' = row \/ row' = [row EXCEPT ![k] = r]
      BY <1>2 DEF Acquire
    <2> HIDE DEF r
    <2> QED
      BY <2>1, <2>2, <2>5, <2>6 DEF DueStep, TypeOK
  <1>3. ASSUME NEW s \in Schedulers, ExhaustSpent(s) PROVE DueStep(j)
    <2>1. Holding(s) /\ Save(cur[s], ExhaustJob(held[s]))
      BY <1>3 DEF ExhaustSpent, Holding
    <2>2. ExhaustJob(held[s]).status # "leased"
      BY TransitionTypes DEF TypeOK
    <2> QED
      BY <2>1, <2>2, SaveDueStep
  <1>4. ASSUME NEW s \in Schedulers, Start(s) PROVE DueStep(j)
    <2>1. Holding(s) /\ Save(cur[s], StartJob(held[s]))
      BY <1>4 DEF Start, Holding
    <2>2. StartJob(held[s]).status # "leased"
      BY TransitionTypes DEF TypeOK
    <2> QED
      BY <2>1, <2>2, SaveDueStep
  <1>5. ASSUME NEW s \in Schedulers, SaveOutcome(s) PROVE DueStep(j)
    <2>1. Holding(s) /\ Save(cur[s], held[s]) /\ held[s].status # "leased"
      BY <1>5 DEF SaveOutcome, Holding, OutcomeInv
    <2> QED
      BY <2>1, SaveDueStep
  <1>6. ASSUME row' = row PROVE DueStep(j)
    BY <1>6 DEF DueStep
  <1>7. CASE \E s \in Schedulers : SchedulerStep(s)
    BY <1>2, <1>3, <1>4, <1>5, <1>6, <1>7 DEF SchedulerStep, Tick, Find, RejectUnknown,
       HandlerSucceeds, HandlerFails, RunHandler
  <1>8. CASE \E s \in Schedulers : StatementFails(s) \/ Crash(s)
    BY <1>6, <1>8 DEF StatementFails, Crash
  <1> QED
    BY <1>1, <1>6, <1>7, <1>8, Producers DEF Next, AdvanceClock, WallTick, vars

\* What a step does to the batch of a loop and to the job in its hand: nothing,
\* a new query, the next member, or the end of the batch.
LoopStep(s) ==
    \/ batch'[s] = batch[s] /\ (Holding(s)' => Holding(s) /\ cur'[s] = cur[s])
    \/ /\ batch'[s] \in Seq(Jobs) /\ FindExecutable(seen[s], batch'[s])
       /\ ~Holding(s)' /\ row' = row
    \/ /\ pc[s] = "batch" /\ batch'[s] = Tail(batch[s])
       /\ Holding(s)' => cur'[s] = Head(batch[s])
    \/ batch'[s] = <<>>

\* Turning to the next job is a step of this kind if what is left of the batch is.
LEMMA GoOnLoopStep ==
  ASSUME TypeOK, NEW s \in Schedulers, NEW rest, GoOn(s, rest)
  PROVE  /\ batch'[s] = rest /\ ~Holding(s)' /\ seen'[s] = 0
         /\ \A t \in Schedulers : t # s =>
              batch'[t] = batch[t] /\ pc'[t] = pc[t] /\ cur'[t] = cur[t] /\ seen'[t] = seen[t]
  BY DEF TypeOK, GoOn, Holding

\* Every step treats every loop in one of these ways, and reads the clock as it is.
LEMMA EveryLoopStep ==
  ASSUME SchedulerInv, [Next]_vars, NEW t \in Schedulers
  PROVE  LoopStep(t) /\ seen'[t] \in {seen[t], clock, 0}
  <1> USE DEF SchedulerInv
  <1>1. ASSUME UNCHANGED <<pc, seen, batch, cur>>
        PROVE  LoopStep(t) /\ seen'[t] \in {seen[t], clock, 0}
    BY <1>1 DEF LoopStep, Holding
  <1>2. ASSUME NEW s \in Schedulers, NEW rest, GoOn(s, rest),
               \/ rest = batch[s] \/ rest = <<>>
               \/ pc[s] = "batch" /\ rest = Tail(batch[s])
               \/ rest \in Seq(Jobs) /\ FindExecutable(seen[s], rest) /\ row' = row
        PROVE  LoopStep(t) /\ seen'[t] \in {seen[t], clock, 0}
    <2>1. CASE t = s
      BY <1>2, <2>1, GoOnLoopStep DEF LoopStep
    <2>2. CASE t # s
      BY <1>2, <2>2, GoOnLoopStep DEF LoopStep, Holding
    <2> QED
      BY <2>1, <2>2
  <1>3. ASSUME NEW s \in Schedulers, Tick(s)
        PROVE  LoopStep(t) /\ seen'[t] \in {seen[t], clock, 0}
    BY <1>3 DEF Tick, LoopStep, Holding, TypeOK
  <1>4. ASSUME NEW s \in Schedulers, Find(s)
        PROVE  LoopStep(t) /\ seen'[t] \in {seen[t], clock, 0}
    <2>1. PICK q \in Batches : FindExecutable(seen[s], q) /\ GoOn(s, q)
      BY <1>4 DEF Find
    <2>2. q \in Seq(Jobs) /\ row' = row
      BY <1>4, BatchesAreSequences DEF Find
    <2> QED
      BY <1>2, <2>1, <2>2
  <1>5. ASSUME NEW s \in Schedulers, Acquire(s)
        PROVE  LoopStep(t) /\ seen'[t] \in {seen[t], clock, 0}
    <2>1. CASE GoOn(s, Tail(batch[s]))
      BY <1>2, <1>5, <2>1 DEF Acquire
    <2>2. CASE /\ cur' = [cur EXCEPT ![s] = Head(batch[s])]
               /\ pc' = [pc EXCEPT ![s] = "acquired"]
               /\ batch' = [batch EXCEPT ![s] = Tail(batch[s])]
               /\ UNCHANGED tickVars
      BY <1>5, <2>2 DEF Acquire, LoopStep, Holding, TypeOK, tickVars
    <2> QED
      BY <1>5, <2>1, <2>2 DEF Acquire
  <1>6. ASSUME NEW s \in Schedulers, Holding(s), pc' = [pc EXCEPT ![s] = "running"]
                                            \/ pc' = [pc EXCEPT ![s] = "saving"],
               UNCHANGED <<seen, batch, cur>>
        PROVE  LoopStep(t) /\ seen'[t] \in {seen[t], clock, 0}
    BY <1>6 DEF LoopStep, Holding, TypeOK
  <1>7. ASSUME NEW s \in Schedulers, Start(s)
        PROVE  LoopStep(t) /\ seen'[t] \in {seen[t], clock, 0}
    BY <1>2, <1>6, <1>7 DEF Start, Holding, tickVars
  <1>8. ASSUME NEW s \in Schedulers, HandlerSucceeds(s) \/ HandlerFails(s)
        PROVE  LoopStep(t) /\ seen'[t] \in {seen[t], clock, 0}
    BY <1>6, <1>8 DEF HandlerSucceeds, HandlerFails, RunHandler, Holding, tickVars
  <1>9. ASSUME NEW s \in Schedulers, RejectUnknown(s) \/ ExhaustSpent(s) \/ SaveOutcome(s)
        PROVE  LoopStep(t) /\ seen'[t] \in {seen[t], clock, 0}
    BY <1>2, <1>9 DEF RejectUnknown, ExhaustSpent, SaveOutcome
  <1>10. ASSUME NEW s \in Schedulers, StatementFails(s) \/ Crash(s)
         PROVE  LoopStep(t) /\ seen'[t] \in {seen[t], clock, 0}
    BY <1>2, <1>10 DEF StatementFails, Crash
  <1>11. ASSUME NEW i \in Jobs, NEW at \in Nat, SaveNew(i, at)
         PROVE  LoopStep(t) /\ seen'[t] \in {seen[t], clock, 0}
    BY <1>1, <1>11 DEF SaveNew, tickVars
  <1>12. ASSUME AdvanceClock \/ WallTick \/ UNCHANGED vars
         PROVE  LoopStep(t) /\ seen'[t] \in {seen[t], clock, 0}
    BY <1>1, <1>12 DEF AdvanceClock, WallTick, vars, tickVars
  <1> QED
    BY <1>3, <1>4, <1>5, <1>7, <1>8, <1>9, <1>10, <1>11, <1>12, Producers DEF Next, SchedulerStep

\* Virtual time does not run back.
LEMMA ClockGrows ==
  ASSUME SchedulerInv, [Next]_vars
  PROVE  clock \in Nat /\ clock' \in Nat /\ clock <= clock'
  <1>1. clock \in Nat
    BY DEF SchedulerInv, TypeOK
  <1>2. clock' = clock \/ clock' = clock + 1
    BY DEF Next, SchedulerStep, vars, timeVars, Publish, Defer, SaveNew, Tick, Find, Acquire, RejectUnknown,
           ExhaustSpent, Start, HandlerSucceeds, HandlerFails, RunHandler, SaveOutcome,
           StatementFails, Crash, AdvanceClock, WallTick
  <1> QED
    BY <1>1, <1>2
\* What a query returns is due at the time asked for, and listed once.
LEMMA QueriesAreDue ==
  ASSUME TypeOK, NEW at \in Nat, NEW q \in Seq(Jobs), FindExecutable(at, q)
  PROVE  \A i \in DOMAIN q :
           /\ row[q[i]].status = "pending" => row[q[i]].next <= at
           /\ \A k \in DOMAIN q : i # k => q[i] # q[k]
  <1> SUFFICES ASSUME NEW i \in DOMAIN q
               PROVE  /\ row[q[i]].status = "pending" => row[q[i]].next <= at
                      /\ \A k \in DOMAIN q : i # k => q[i] # q[k]
    OBVIOUS
  <1>1. row[q[i]].status = "pending" => row[q[i]].next <= at
    BY DEF FindExecutable, Executable
  <1>2. ASSUME NEW j \in Jobs PROVE ~Before(j, j)
    BY SchedulerAssumption DEF Before, TypeOK, Row, Time
  <1>3. ASSUME NEW k \in DOMAIN q, i # k PROVE q[i] # q[k]
    <2>1. i < k \/ k < i
      BY <1>3
    <2>2. Before(q[i], q[k]) \/ Before(q[k], q[i])
      BY <1>3, <2>1 DEF FindExecutable
    <2> QED
      BY <1>2, <1>3, <2>2
  <1> QED
    BY <1>1, <1>3

\* Every step of a single loop, its producers and its clocks keeps retries due.
LEMMA DueNext ==
  ASSUME OneLoop, SchedulerInv, SchedulerInv', DueInv, [Next]_vars
  PROVE  DueInv'
  <1> SUFFICES ASSUME NEW s \in Schedulers
               PROVE  /\ seen'[s] <= clock'
                      /\ \A i \in DOMAIN batch'[s] :
                           /\ row'[batch'[s][i]].status = "pending"
                                /\ row'[batch'[s][i]].attempts > 0 =>
                                row'[batch'[s][i]].next <= clock'
                           /\ Holding(s)' => batch'[s][i] # cur'[s]
                           /\ \A k \in DOMAIN batch'[s] : i # k => batch'[s][i] # batch'[s][k]
    BY DEF DueInv
  <1>1. /\ batch[s] \in Seq(Jobs) /\ batch'[s] \in Seq(Jobs) /\ seen[s] \in Nat
        /\ \A j \in Jobs : row[j].next \in Nat
    BY DEF SchedulerInv, TypeOK, Time, Row
  <1>2. clock \in Nat /\ clock' \in Nat /\ clock <= clock'
    BY ClockGrows
  <1>3. seen'[s] <= clock'
    BY <1>1, <1>2, EveryLoopStep DEF DueInv
  \* A job the loop is not holding stays due, if it is not pushed back by it.
  <1>4. ASSUME NEW j \in Jobs,
               row[j].status = "pending" /\ row[j].attempts > 0 => row[j].next <= clock,
               Holding(s) => j # cur[s]
        PROVE  row'[j].status = "pending" /\ row'[j].attempts > 0 => row'[j].next <= clock'
    BY <1>1, <1>2, <1>4, EveryDueStep DEF DueStep, OneLoop
  <1>5. CASE batch'[s] = batch[s] /\ (Holding(s)' => Holding(s) /\ cur'[s] = cur[s])
    <2>1. ASSUME NEW i \in DOMAIN batch[s] PROVE batch[s][i] \in Jobs
      BY <1>1, <2>1
    <2> QED
      BY <1>3, <1>4, <1>5, <2>1 DEF DueInv
  <1>6. CASE /\ batch'[s] \in Seq(Jobs) /\ FindExecutable(seen[s], batch'[s])
             /\ ~Holding(s)' /\ row' = row
    <2>1. ASSUME NEW i \in DOMAIN batch'[s]
          PROVE  /\ row[batch'[s][i]].status = "pending" => row[batch'[s][i]].next <= seen[s]
                 /\ \A k \in DOMAIN batch'[s] : i # k => batch'[s][i] # batch'[s][k]
                 /\ batch'[s][i] \in Jobs
      BY <1>1, <1>6, <2>1, QueriesAreDue DEF SchedulerInv
    <2>2. seen[s] <= clock'
      BY <1>1, <1>2 DEF DueInv
    <2>3. ASSUME NEW i \in DOMAIN batch'[s]
          PROVE  row'[batch'[s][i]].status = "pending" => row'[batch'[s][i]].next <= clock'
      BY <1>1, <1>2, <1>6, <2>1, <2>2
    <2> QED
      BY <1>3, <1>6, <2>1, <2>3
  <1>7. CASE /\ pc[s] = "batch" /\ batch'[s] = Tail(batch[s])
             /\ Holding(s)' => cur'[s] = Head(batch[s])
    <2>1. batch[s] # <<>> /\ ~Holding(s)
      BY <1>7 DEF SchedulerInv, BatchInv, Holding
    <2>2. ASSUME NEW i \in DOMAIN batch'[s]
          PROVE  /\ i \in Nat /\ i + 1 \in DOMAIN batch[s] /\ 1 \in DOMAIN batch[s] /\ i + 1 # 1
                 /\ batch'[s][i] = batch[s][i + 1] /\ batch[s][i + 1] \in Jobs
                 /\ Head(batch[s]) = batch[s][1]
      BY <1>1, <1>7, <2>1, <2>2
    <2>3. ASSUME NEW i \in DOMAIN batch'[s]
          PROVE  row'[batch'[s][i]].status = "pending" /\ row'[batch'[s][i]].attempts > 0 =>
                   row'[batch'[s][i]].next <= clock'
      BY <1>4, <2>1, <2>2, <2>3 DEF DueInv
    <2>4. ASSUME NEW i \in DOMAIN batch'[s], Holding(s)' PROVE batch'[s][i] # cur'[s]
      BY <1>7, <2>2, <2>4 DEF DueInv
    <2>5. ASSUME NEW i \in DOMAIN batch'[s], NEW k \in DOMAIN batch'[s], i # k
          PROVE  batch'[s][i] # batch'[s][k]
      <3>1. i + 1 # k + 1
        BY <2>2, <2>5
      <3> QED
        BY <2>2, <2>5, <3>1 DEF DueInv
    <2> QED
      BY <1>3, <2>3, <2>4, <2>5
  <1>8. CASE batch'[s] = <<>>
    BY <1>3, <1>8
  <1> QED
    BY <1>5, <1>6, <1>7, <1>8, EveryLoopStep DEF LoopStep

\* In the application's one loop a failed job is leased again only once its delay
\* has passed, for any jobs, batch size, retry delays, faults and producers: acquire
\* does not compare next_attempt_at again, and for a retry need not.
THEOREM RetriesWait ==
  ASSUME OneLoop
  PROVE  Spec => BackoffIsKept
  <1>1. Init => DueInv
    BY DEF Init, DueInv
  <1>2. SchedulerInv /\ SchedulerInv' /\ DueInv /\ [Next]_vars => DueInv'
    BY DueNext
  <1>3. SchedulerInv /\ DueInv /\ [Next]_vars =>
          [\A j \in Jobs :
              row[j].status = "pending" /\ row[j].attempts > 0 /\ row'[j].status = "leased" =>
                 row[j].next <= clock]_vars
    <2> SUFFICES ASSUME SchedulerInv, DueInv, [Next]_vars, NEW j \in Jobs,
                        row[j].status = "pending", row[j].attempts > 0,
                        row'[j].status = "leased"
                 PROVE  row[j].next <= clock
      OBVIOUS
    <2>1. \E s \in Schedulers : batch[s] # <<>> /\ j = Head(batch[s])
      BY EveryDueStep DEF DueStep
    <2>2. PICK s \in Schedulers : batch[s] # <<>> /\ j = Head(batch[s])
      BY <2>1
    <2>3. batch[s] \in Seq(Jobs)
      BY DEF SchedulerInv, TypeOK
    <2>4. 1 \in DOMAIN batch[s] /\ j = batch[s][1]
      BY <2>2, <2>3
    <2> QED
      BY <2>4 DEF DueInv
  <1> QED
    BY <1>1, <1>2, <1>3, Invariance, PTL DEF Spec, BackoffIsKept
=============================================================================
