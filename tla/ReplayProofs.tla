---------------------------- MODULE ReplayProofs ----------------------------
(***************************************************************************)
(* The safety of replay, for any payments, scenarios and providers: a      *)
(* finished saga matches its payment, deferred work waits and is not lost, *)
(* and executions of one scenario agree.                                   *)
(***************************************************************************)
EXTENDS Replay, PaymentLemmas, FiniteSetTheorems, WellFoundedInduction

-----------------------------------------------------------------------------
(* Job ids.                                                                *)

\* The three ids of a payment's jobs, spelled out.
LEMMA IdValues ==
    ASSUME NEW p
    PROVE  /\ AsyncId(p) = <<"async", p>>
           /\ StartId(p) = <<"saga", p, "authorize", 1>>
           /\ CaptureId(p) = <<"saga", p, "capture", 2>>
BY RowFacts DEF AsyncId, StartId, CaptureId, MessageId

\* Ids tell payments and kinds of jobs apart.
LEMMA IdsDiffer ==
    ASSUME NEW p, NEW q
    PROVE  /\ AsyncId(p) # StartId(q) /\ AsyncId(p) # CaptureId(q) /\ StartId(p) # CaptureId(q)
           /\ AsyncId(p) = AsyncId(q) => p = q
           /\ StartId(p) = StartId(q) => p = q
           /\ CaptureId(p) = CaptureId(q) => p = q
           /\ AsyncId(p)[1] = "async" /\ StartId(p)[1] = "saga" /\ CaptureId(p)[1] = "saga"
           /\ AsyncId(p)[2] = p /\ StartId(p)[2] = p /\ CaptureId(p)[2] = p
<1>1. /\ AsyncId(p)[1] = "async" /\ StartId(p)[1] = "saga" /\ CaptureId(p)[1] = "saga"
      /\ AsyncId(p)[2] = p /\ StartId(p)[2] = p /\ CaptureId(p)[2] = p
      /\ StartId(p)[3] = "authorize" /\ CaptureId(p)[3] = "capture"
  BY IdValues
<1>2. /\ AsyncId(q)[1] = "async" /\ StartId(q)[1] = "saga" /\ CaptureId(q)[1] = "saga"
      /\ AsyncId(q)[2] = q /\ StartId(q)[2] = q /\ CaptureId(q)[2] = q
      /\ StartId(q)[3] = "authorize" /\ CaptureId(q)[3] = "capture"
  BY IdValues
<1> QED
  BY <1>1, <1>2

-----------------------------------------------------------------------------
(* Runs and their parts.                                                   *)

\* What the handlers change of a run.
With(r, pays, sagas, jobs, err) ==
    [phase |-> r.phase, cfg |-> r.cfg, commands |-> r.commands, index |-> r.index,
     pays |-> pays, sagas |-> sagas, jobs |-> jobs, clock |-> r.clock,
     ops |-> r.ops, ticks |-> r.ticks, batch |-> r.batch, err |-> err]
Put(jobs, id, job) == [k \in DOMAIN jobs \cup {id} |-> IF k = id THEN job ELSE jobs[k]]

\* The parts of a run.
LEMMA WithFields ==
    ASSUME NEW r, NEW pays, NEW sagas, NEW jobs, NEW err
    PROVE  LET w == With(r, pays, sagas, jobs, err)
           IN  /\ w.pays = pays /\ w.sagas = sagas /\ w.jobs = jobs /\ w.err = err
               /\ w.phase = r.phase /\ w.cfg = r.cfg /\ w.commands = r.commands
               /\ w.index = r.index /\ w.clock = r.clock /\ w.ops = r.ops
               /\ w.ticks = r.ticks /\ w.batch = r.batch
BY DEF With

\* Changing one part of a run.
LEMMA Updates ==
    ASSUME NEW r, RunType(r), NEW x, NEW p
    PROVE  /\ r = With(r, r.pays, r.sagas, r.jobs, r.err)
           /\ Raise(r, x) = With(r, r.pays, r.sagas, r.jobs, x)
           /\ PutJob(r, p, x) = With(r, r.pays, r.sagas, Put(r.jobs, p, x), r.err)
           /\ [r EXCEPT !.pays[p] = x] = With(r, [r.pays EXCEPT ![p] = x], r.sagas, r.jobs, r.err)
           /\ [r EXCEPT !.sagas[p].saga = x] =
                With(r, r.pays, [r.sagas EXCEPT ![p].saga = x], r.jobs, r.err)
<1>1. r = With(r, r.pays, r.sagas, r.jobs, r.err)
  BY DEF RunType, With
<1>2. Raise(r, x) = With(r, r.pays, r.sagas, r.jobs, x)
  BY <1>1 DEF Raise, With
<1>3. PutJob(r, p, x) = With(r, r.pays, r.sagas, Put(r.jobs, p, x), r.err)
  BY <1>1 DEF PutJob, With, Put
<1>4. [r EXCEPT !.pays[p] = x] = With(r, [r.pays EXCEPT ![p] = x], r.sagas, r.jobs, r.err)
  BY <1>1 DEF With
<1>5. [r EXCEPT !.sagas[p].saga = x] =
        With(r, r.pays, [r.sagas EXCEPT ![p].saga = x], r.jobs, r.err)
  BY <1>1 DEF With
<1> QED
  BY <1>1, <1>2, <1>3, <1>4, <1>5

\* A part of a run that keeps its value.
LEMMA SameParts ==
    ASSUME NEW r, RunType(r), NEW p \in PaymentIds, NEW x
    PROVE  /\ [r.pays EXCEPT ![p] = r.pays[p]] = r.pays
           /\ [r.sagas EXCEPT ![p] = r.sagas[p]] = r.sagas
           /\ [r.sagas EXCEPT ![p].saga = x] =
                [r.sagas EXCEPT ![p] = [saga |-> x, money |-> r.sagas[p].money]]
<1>1. [r.pays EXCEPT ![p] = r.pays[p]] = r.pays
  BY DEF RunType
<1>2. [r.sagas EXCEPT ![p] = r.sagas[p]] = r.sagas
  BY DEF RunType
<1>3. [r.sagas[p] EXCEPT !.saga = x] = [saga |-> x, money |-> r.sagas[p].money]
  BY DEF RunType
<1>4. [r.sagas EXCEPT ![p].saga = x] = [r.sagas EXCEPT ![p] = [r.sagas[p] EXCEPT !.saga = x]]
  BY DEF RunType
<1> QED
  BY <1>1, <1>2, <1>3, <1>4

\* A job map with one more job, or with one replaced.
LEMMA PutFacts ==
    ASSUME NEW r, RunType(r), NEW job \in Jobs, NEW id \in JobIds, NEW jobs,
           jobs = Put(r.jobs, id, job)
    PROVE  /\ DOMAIN jobs \subseteq JobIds /\ IsFiniteSet(DOMAIN jobs)
           /\ \A k \in DOMAIN jobs : jobs[k] \in Jobs
<1>1. DOMAIN jobs = DOMAIN r.jobs \cup {id}
  BY DEF Put
<1>2. IsFiniteSet(DOMAIN r.jobs) /\ DOMAIN r.jobs \subseteq JobIds
      /\ \A k \in DOMAIN r.jobs : r.jobs[k] \in Jobs
  BY DEF RunType
<1>3. IsFiniteSet(DOMAIN jobs)
  BY <1>1, <1>2, FS_AddElement
<1>4. \A k \in DOMAIN jobs : jobs[k] \in Jobs
  BY <1>1, <1>2 DEF Put
<1> QED
  BY <1>1, <1>2, <1>3, <1>4

\* The jobs of other payments are the same in two job maps.
OthersKept(jobs, old, p) ==
    \A q \in PaymentIds \ {p} : \A id \in {AsyncId(q), StartId(q), CaptureId(q)} :
        /\ id \in DOMAIN jobs <=> id \in DOMAIN old
        /\ id \in DOMAIN old => jobs[id] = old[id]

\* Putting a job of one payment leaves those of the others.
LEMMA PutKeepsOthers ==
    ASSUME NEW old, NEW p \in PaymentIds, NEW job,
           NEW id \in {AsyncId(p), StartId(p), CaptureId(p)},
           NEW q \in PaymentIds \ {p}, NEW k \in {AsyncId(q), StartId(q), CaptureId(q)}
    PROVE  k # id /\ (k \in DOMAIN Put(old, id, job) <=> k \in DOMAIN old)
           /\ (k \in DOMAIN old => Put(old, id, job)[k] = old[k])
<1>1. k # id
  BY IdsDiffer
<1> QED
  BY <1>1 DEF Put

\* A change of one payment, its saga and its jobs is sound if it is for that
\* payment.
LEMMA SoundPart ==
    ASSUME NEW r, Sound(r), NEW p \in PaymentIds,
           NEW pays \in [PaymentIds -> Payments \cup {NoPayment}],
           NEW sagas \in [PaymentIds -> [saga : ReplayRows, money : Money]],
           \A q \in PaymentIds \ {p} : pays[q] = r.pays[q] /\ sagas[q] = r.sagas[q],
           NEW jobs, NEW err, DOMAIN r.jobs \subseteq DOMAIN jobs,
           DOMAIN jobs \subseteq JobIds, IsFiniteSet(DOMAIN jobs),
           \A id \in DOMAIN jobs : jobs[id] \in Jobs,
           OthersKept(jobs, r.jobs, p),
           NEW w, w = With(r, pays, sagas, jobs, err), PaymentInv(w, p)
    PROVE  Sound(w)
<1>1. /\ w.pays = pays /\ w.sagas = sagas /\ w.jobs = jobs /\ w.err = err
      /\ w.phase = r.phase /\ w.cfg = r.cfg /\ w.commands = r.commands
      /\ w.index = r.index /\ w.clock = r.clock /\ w.ops = r.ops
      /\ w.ticks = r.ticks /\ w.batch = r.batch
  BY WithFields
<1>2. RunType(r)
  BY DEF Sound
<1>4. r.batch \in Seq(DOMAIN jobs)
  <2>1. r.batch \in Seq(DOMAIN r.jobs)
    BY <1>2 DEF RunType
  <2> QED
    BY <2>1
<1>5. \A n \in DOMAIN r.ops : AsyncId(r.ops[n].pay) \in DOMAIN jobs
  BY <1>2 DEF RunType
<1>6. w = [phase |-> w.phase, cfg |-> w.cfg, commands |-> w.commands, index |-> w.index,
           pays |-> w.pays, sagas |-> w.sagas, jobs |-> w.jobs, clock |-> w.clock,
           ops |-> w.ops, ticks |-> w.ticks, batch |-> w.batch, err |-> w.err]
  BY DEF With
<1>7. RunType(w)
  BY <1>1, <1>2, <1>4, <1>5, <1>6 DEF RunType
<1>8. ASSUME NEW q \in PaymentIds PROVE PaymentInv(w, q)
  <2>2. CASE q # p
    <3>1. pays[q] = r.pays[q] /\ sagas[q] = r.sagas[q]
      BY <2>2
    <3>2. PaymentInv(r, q)
      BY DEF Sound
    <3>3. \A id \in {AsyncId(q), StartId(q), CaptureId(q)} :
            /\ id \in DOMAIN jobs <=> id \in DOMAIN r.jobs
            /\ id \in DOMAIN r.jobs => jobs[id] = r.jobs[id]
      BY <2>2 DEF OthersKept
    <3> QED
      BY <1>1, <3>1, <3>2, <3>3 DEF PaymentInv
  <2> QED
    BY <2>2
<1> QED
  BY <1>7, <1>8 DEF Sound

\* The same, for a payment and a saga that are replaced.
LEMMA SoundWith ==
    ASSUME NEW r, Sound(r), NEW p \in PaymentIds, NEW y \in Payments \cup {NoPayment},
           NEW c \in [saga : ReplayRows, money : Money], NEW jobs, NEW err,
           DOMAIN r.jobs \subseteq DOMAIN jobs,
           DOMAIN jobs \subseteq JobIds, IsFiniteSet(DOMAIN jobs),
           \A id \in DOMAIN jobs : jobs[id] \in Jobs,
           OthersKept(jobs, r.jobs, p),
           PaymentInv(With(r, [r.pays EXCEPT ![p] = y], [r.sagas EXCEPT ![p] = c], jobs, err), p)
    PROVE  Sound(With(r, [r.pays EXCEPT ![p] = y], [r.sagas EXCEPT ![p] = c], jobs, err))
<1> DEFINE pays == [r.pays EXCEPT ![p] = y]
           sagas == [r.sagas EXCEPT ![p] = c]
           w == With(r, pays, sagas, jobs, err)
<1>1. RunType(r)
  BY DEF Sound
<1>2. /\ pays \in [PaymentIds -> Payments \cup {NoPayment}]
      /\ sagas \in [PaymentIds -> [saga : ReplayRows, money : Money]]
      /\ \A q \in PaymentIds \ {p} : pays[q] = r.pays[q] /\ sagas[q] = r.sagas[q]
  BY <1>1 DEF RunType
<1>3. PaymentInv(w, p)
  OBVIOUS
<1> HIDE DEF pays, sagas
<1>4. w = With(r, pays, sagas, jobs, err)
  OBVIOUS
<1> HIDE DEF w
<1>5. Sound(w)
  BY <1>2, <1>3, <1>4, SoundPart
<1> QED
  BY <1>5 DEF w, pays, sagas

\* An error changes nothing else.
LEMMA RaiseKeeps ==
    ASSUME NEW r, Sound(r), NEW e
    PROVE  /\ Sound(Raise(r, e))
           /\ Raise(r, e) = With(r, r.pays, r.sagas, r.jobs, e)
<1>1. RunType(r) /\ Raise(r, e) = With(r, r.pays, r.sagas, r.jobs, e)
  BY Updates DEF Sound
<1> DEFINE w == With(r, r.pays, r.sagas, r.jobs, e)
<1>2. /\ w.pays = r.pays /\ w.sagas = r.sagas /\ w.jobs = r.jobs
      /\ w.phase = r.phase /\ w.cfg = r.cfg /\ w.commands = r.commands
      /\ w.index = r.index /\ w.clock = r.clock /\ w.ops = r.ops
      /\ w.ticks = r.ticks /\ w.batch = r.batch /\ w.err = e
  BY WithFields
<1>3. w = [phase |-> w.phase, cfg |-> w.cfg, commands |-> w.commands, index |-> w.index,
           pays |-> w.pays, sagas |-> w.sagas, jobs |-> w.jobs, clock |-> w.clock,
           ops |-> w.ops, ticks |-> w.ticks, batch |-> w.batch, err |-> w.err]
  BY DEF With
<1> HIDE DEF w
<1>4. RunType(w)
  BY <1>1, <1>2, <1>3 DEF RunType
<1>5. \A p \in PaymentIds : PaymentInv(w, p)
  BY <1>2 DEF Sound, PaymentInv
<1> QED
  BY <1>1, <1>4, <1>5 DEF Sound, w

-----------------------------------------------------------------------------
(* Payments of a run.                                                      *)

\* What an accepted command on an existing payment comes to.
Moved(y, n) ==
    /\ n \in Payments /\ Valid(n)
    /\ y.status \notin TerminalStatuses /\ n.status # "pending"
    /\ y.captured <= n.captured

\* The status a command leaves is never "pending".
LEMMA NotPending ==
    ASSUME NEW p \in Payments, NEW a \in Int, NEW c
    PROVE  /\ Authorize(p).err = "none" => Authorize(p).pay.status = "authorized"
           /\ Capture(p, a, c).err = "none" => Capture(p, a, c).pay.status # "pending"
           /\ Refund(p, a, c).err = "none" => Refund(p, a, c).pay.status # "pending"
<1>1. Authorize(p).err = "none" => Authorize(p).pay.status = "authorized"
  BY DEF Authorize, Ok, Error, Payments
<1>2. ASSUME Capture(p, a, c).err = "none"
      PROVE  Capture(p, a, c).pay.status # "pending"
  <2> DEFINE s == IF p.captured + a = p.authorized THEN "captured" ELSE "partially_captured"
             n == p.captured + a
             v == p.version + 1
             m == [p EXCEPT !.captured = n, !.status = s, !.version = v]
  <2>1. Capture(p, a, c) = Ok(m)
    BY <1>2 DEF Capture, Error
  <2>2. s # "pending"
    OBVIOUS
  <2> HIDE DEF s, n, v
  <2>3. m.status = s
    BY DEF Payments
  <2> HIDE DEF m
  <2> QED
    BY <2>1, <2>2, <2>3 DEF Ok
<1>3. ASSUME Refund(p, a, c).err = "none"
      PROVE  Refund(p, a, c).pay.status # "pending"
  <2> DEFINE s == IF p.refunded + a = p.captured THEN "refunded" ELSE "partially_refunded"
             n == p.refunded + a
             v == p.version + 1
             m == [p EXCEPT !.refunded = n, !.status = s, !.version = v]
  <2>1. Refund(p, a, c) = Ok(m)
    BY <1>3 DEF Refund, Error
  <2>2. s # "pending"
    OBVIOUS
  <2> HIDE DEF s, n, v
  <2>3. m.status = s
    BY DEF Payments
  <2> HIDE DEF m
  <2> QED
    BY <2>1, <2>2, <2>3 DEF Ok
<1> QED
  BY <1>1, <1>2, <1>3

\* An accepted command of the provider's operations; only an authorization
\* needs no earlier one, and a capture captures its amount.
LEMMA CommandMoves ==
    ASSUME NEW y \in Payments, Valid(y), NEW op \in SagaSteps, NEW a \in Int, NEW c,
           CommandOf(y, op, a, c).err = "none"
    PROVE  LET n == CommandOf(y, op, a, c).pay
           IN  /\ Moved(y, n)
               /\ op # "authorize" => y.authorized > 0
               /\ op = "capture" => n.captured >= a
<1> DEFINE res == CommandOf(y, op, a, c)
<1>1. y.captured \in Int /\ y.captured >= 0 /\ y.authorized \in Int
  BY DEF Payments, Valid
<1>2. CASE op = "authorize"
  <2>1. res = Authorize(y)
    BY <1>2 DEF CommandOf
  <2>2. res.pay \in Payments /\ Valid(res.pay) /\ Forward(y, res.pay) /\ res.pay.status = "authorized"
    BY <2>1, AuthorizeKeepsValid, NotPending
  <2> HIDE DEF res
  <2> QED
    BY <1>2, <2>2 DEF Moved, Forward, res
<1>3. CASE op = "cancel"
  <2>1. res = Cancel(y)
    BY <1>3 DEF CommandOf
  <2>2. /\ res.pay \in Payments /\ Valid(res.pay) /\ Forward(y, res.pay)
        /\ res.pay.status = "cancelled"
    BY <2>1, CancelKeepsValid, CommandEffects
  <2>3. y.authorized > 0
    BY <2>1 DEF Cancel, Error, Payments, Valid, Consistent
  <2> HIDE DEF res
  <2> QED
    BY <1>3, <2>2, <2>3 DEF Moved, Forward, res
<1>4. CASE op = "capture"
  <2>1. res = Capture(y, a, c)
    BY <1>4 DEF CommandOf, Error
  <2>2. res.pay \in Payments /\ Valid(res.pay) /\ Forward(y, res.pay) /\ res.pay.status # "pending"
    BY <2>1, CaptureKeepsValid, NotPending
  <2>3. y.authorized > 0
    BY <2>1 DEF Capture, Error, Payments, Valid, Consistent
  <2>4. res.pay.captured = y.captured + a
    BY <2>1, CommandEffects
  <2>5. res.pay.captured >= a
    BY <1>1, <2>4
  <2> HIDE DEF res
  <2> QED
    BY <1>4, <2>2, <2>3, <2>5 DEF Moved, Forward, res
<1>5. CASE op = "refund"
  <2>1. res = Refund(y, a, c)
    BY <1>5 DEF CommandOf, Error
  <2>2. res.pay \in Payments /\ Valid(res.pay) /\ Forward(y, res.pay) /\ res.pay.status # "pending"
    BY <2>1, RefundKeepsValid, NotPending
  <2>3. y.authorized > 0
    BY <2>1 DEF Refund, Error, Payments, Valid, Consistent
  <2> HIDE DEF res
  <2> QED
    BY <1>5, <2>2, <2>3 DEF Moved, Forward, res
<1> QED
  BY <1>2, <1>3, <1>4, <1>5 DEF SagaSteps

\* A rejected authorization.
LEMMA FailMoves ==
    ASSUME NEW y \in Payments, Valid(y), Fail(y).err = "none"
    PROVE  /\ Moved(y, Fail(y).pay)
           /\ Fail(y).pay.status = "failed" /\ Fail(y).pay.authorized = 0
<1>1. /\ Fail(y).pay \in Payments /\ Valid(Fail(y).pay) /\ Forward(y, Fail(y).pay)
      /\ Fail(y).pay.status = "failed"
  BY FailKeepsValid, CommandEffects
<1> QED
  BY <1>1 DEF Moved, Forward, Valid, Consistent

\* A payment that does not exist can be neither authorized nor failed.
LEMMA NothingToMove == Authorize(NoPayment).err # "none" /\ Fail(NoPayment).err # "none"
BY DEF Authorize, Fail, NoPayment, Error

\* The part of a run outside what handlers change.
Frame(r, w) ==
    /\ w.phase = r.phase /\ w.cfg = r.cfg /\ w.commands = r.commands
    /\ w.index = r.index /\ w.clock = r.clock /\ w.ops = r.ops
    /\ w.ticks = r.ticks /\ w.batch = r.batch

\* What is changed with the handlers' constructor has its frame.
LEMMA WithFrame ==
    ASSUME NEW r, NEW pays, NEW sagas, NEW jobs, NEW err
    PROVE  Frame(r, With(r, pays, sagas, jobs, err))
BY WithFields DEF Frame

\* An error leaves payments, sagas and jobs.
LEMMA RaiseFrame ==
    ASSUME NEW r, Sound(r), NEW e
    PROVE  LET w == Raise(r, e)
           IN  Sound(w) /\ Frame(r, w) /\ w.err = e
               /\ w.pays = r.pays /\ w.sagas = r.sagas /\ w.jobs = r.jobs
BY RaiseKeeps, WithFrame, WithFields

\* Changing an existing payment by a command.
LEMMA ChangedKeeps ==
    ASSUME NEW r, Sound(r), NEW p \in PaymentIds, NEW res, r.pays[p] \in Payments,
           res.err = "none" => Moved(r.pays[p], res.pay)
    PROVE  LET w == Changed(r, p, res)
           IN  /\ Sound(w) /\ Frame(r, w)
               /\ w.sagas = r.sagas /\ w.jobs = r.jobs
               /\ w.pays = IF res.err = "none" THEN [r.pays EXCEPT ![p] = res.pay] ELSE r.pays
               /\ w.err = IF res.err = "none" THEN r.err ELSE res.err
<1> DEFINE w == Changed(r, p, res)
           y == res.pay
<1>0. RunType(r) /\ PaymentInv(r, p)
  BY DEF Sound
<1>1. CASE res.err # "none"
  <2>1. w = Raise(r, res.err)
    BY <1>1 DEF Changed
  <2> QED
    BY <1>1, <2>1, RaiseFrame
<1>2. CASE res.err = "none"
  <2> DEFINE pays == [r.pays EXCEPT ![p] = y]
             sagas == [r.sagas EXCEPT ![p] = r.sagas[p]]
             v == With(r, pays, sagas, r.jobs, r.err)
  <2>0. sagas = r.sagas
    BY <1>0, SameParts
  <2>1. w = v
    <3>1. [r EXCEPT !.pays[p] = y] = With(r, pays, r.sagas, r.jobs, r.err)
      BY <1>0, Updates
    <3> HIDE DEF pays, sagas
    <3> QED
      BY <1>2, <2>0, <3>1 DEF Changed
  <2>2. /\ v.pays = [r.pays EXCEPT ![p] = y] /\ v.sagas = r.sagas /\ v.jobs = r.jobs
        /\ v.err = r.err /\ v.cfg = r.cfg
    <3>1. v.pays = pays /\ v.sagas = sagas /\ v.jobs = r.jobs /\ v.err = r.err /\ v.cfg = r.cfg
      BY WithFields
    <3> QED
      BY <2>0, <3>1
  <2>3. v.pays[p] = y
    BY <1>0, <2>2 DEF RunType
  <2>4. Moved(r.pays[p], y)
    BY <1>2
  <2>5. r.sagas[p] \in [saga : ReplayRows, money : Money] /\ r.sagas[p].money[1] \in Int
        /\ r.pays[p].captured \in Int /\ y.captured \in Int
    BY <1>0, <2>4 DEF RunType, Money, Payments, Moved
  <2> HIDE DEF v
  <2>6. PaymentInv(v, p)
    <3>1. y \in Payments /\ Valid(y) /\ y.status # "pending" /\ r.pays[p].status # "failed"
      BY <2>4 DEF Moved, TerminalStatuses
    <3>2. r.sagas[p].saga # Rejected
      BY <1>0, <3>1 DEF PaymentInv
    <3>3. r.sagas[p].saga = Completed => y.captured >= r.sagas[p].money[1]
      BY <1>0, <2>4, <2>5 DEF PaymentInv, Moved
    <3> QED
      BY <1>0, <2>2, <2>3, <3>1, <3>2, <3>3 DEF PaymentInv
  <2>7. /\ DOMAIN r.jobs \subseteq JobIds /\ IsFiniteSet(DOMAIN r.jobs)
        /\ \A id \in DOMAIN r.jobs : r.jobs[id] \in Jobs
        /\ OthersKept(r.jobs, r.jobs, p)
    BY <1>0 DEF RunType, OthersKept
  <2>8. y \in Payments \cup {NoPayment}
    BY <2>4 DEF Moved
  <2>9. Sound(v)
    BY <2>5, <2>6, <2>7, <2>8, SoundWith DEF v
  <2>10. Frame(r, v)
    BY WithFrame DEF v
  <2> HIDE DEF w
  <2> QED
    BY <1>2, <2>1, <2>2, <2>9, <2>10 DEF w
<1> QED
  BY <1>1, <1>2

-----------------------------------------------------------------------------
(* Jobs and sagas of a run.                                                *)

\* The parts of a run with one more job.
LEMMA PutParts ==
    ASSUME NEW r, RunType(r), NEW id, NEW job
    PROVE  LET w == PutJob(r, id, job)
           IN  /\ w = With(r, r.pays, r.sagas, Put(r.jobs, id, job), r.err)
               /\ Frame(r, w) /\ w.pays = r.pays /\ w.sagas = r.sagas
               /\ w.jobs = Put(r.jobs, id, job) /\ w.err = r.err
<1> DEFINE jobs == Put(r.jobs, id, job)
           v == With(r, r.pays, r.sagas, jobs, r.err)
<1>1. PutJob(r, id, job) = v
  BY Updates
<1> HIDE DEF jobs
<1>2. v.pays = r.pays /\ v.sagas = r.sagas /\ v.jobs = jobs /\ v.err = r.err
  BY WithFields
<1>3. Frame(r, v)
  BY WithFrame
<1> QED
  BY <1>1, <1>2, <1>3 DEF jobs

\* Putting a job is sound if it is so for the payment of the job.
LEMMA PutKeeps ==
    ASSUME NEW r, Sound(r), NEW p \in PaymentIds, NEW job \in Jobs,
           NEW id \in {AsyncId(p), StartId(p), CaptureId(p)},
           PaymentInv(PutJob(r, id, job), p)
    PROVE  Sound(PutJob(r, id, job))
<1>0. RunType(r)
  BY DEF Sound
<1> DEFINE pays == [r.pays EXCEPT ![p] = r.pays[p]]
           sagas == [r.sagas EXCEPT ![p] = r.sagas[p]]
           jobs == Put(r.jobs, id, job)
<1>1. pays = r.pays /\ sagas = r.sagas
  BY <1>0, SameParts
<1>2. r.pays[p] \in Payments \cup {NoPayment} /\ r.sagas[p] \in [saga : ReplayRows, money : Money]
  BY <1>0 DEF RunType
<1>3. /\ DOMAIN r.jobs \subseteq DOMAIN jobs
      /\ DOMAIN jobs \subseteq JobIds /\ IsFiniteSet(DOMAIN jobs)
      /\ \A k \in DOMAIN jobs : jobs[k] \in Jobs
  <2>1. id \in JobIds
    BY DEF JobIds
  <2>2. jobs = Put(r.jobs, id, job)
    OBVIOUS
  <2>3. DOMAIN r.jobs \subseteq DOMAIN jobs
    BY DEF Put
  <2> HIDE DEF jobs
  <2> QED
    BY <1>0, <2>1, <2>2, <2>3, PutFacts, Zenon
<1>4. OthersKept(jobs, r.jobs, p)
  BY PutKeepsOthers DEF OthersKept
<1>5. PutJob(r, id, job) = With(r, r.pays, r.sagas, jobs, r.err)
  BY <1>0, PutParts
<1> HIDE DEF jobs
<1>6. PaymentInv(With(r, pays, sagas, jobs, r.err), p)
  BY <1>1, <1>5
<1>7. Sound(With(r, pays, sagas, jobs, r.err))
  BY <1>2, <1>3, <1>4, <1>6, SoundWith
<1> QED
  BY <1>1, <1>5, <1>7

\* A job made by JobOf.
LEMMA JobOfParts ==
    ASSUME NEW type \in {"saga.step", "provider.async"}, NEW step \in {"authorize", "capture"},
           NEW money \in Money, NEW due \in Nat
    PROVE  LET j == JobOf(type, step, money, due)
           IN  /\ j \in Jobs /\ j.status = "pending" /\ j.type = type /\ j.step = step
               /\ j.money = money /\ j.due = due
BY DEF JobOf, Jobs

\* No amount is an amount a job may carry, and a delay is a number.
LEMMA Amounts ==
    /\ Nothing \in Money
    /\ \A r : RunType(r) => Delay(r.cfg) \in Nat /\ r.clock + Delay(r.cfg) \in Nat /\ r.clock \in Nat
<1>1. Nothing \in Money
  BY DEF Nothing, Money
<1>2. ASSUME NEW r, RunType(r) PROVE Delay(r.cfg) \in Nat /\ r.clock \in Nat
  <2>1. r.cfg.seed \in Nat /\ r.clock \in Nat
    BY <1>2 DEF RunType
  <2> QED
    BY <2>1 DEF Delay
<1> QED
  BY <1>1, <1>2

\* A payment's authorization is deferred.
LEMMA DeferKeeps ==
    ASSUME NEW r, Sound(r), NEW p \in PaymentIds, r.pays[p] \in Payments, Defers(r.cfg),
           NEW type \in {"saga.step", "provider.async"},
           type = "saga.step" => r.sagas[p].saga # NoSaga
    PROVE  LET w == PutJob(r, AsyncId(p), JobOf(type, "authorize", Nothing, r.clock + Delay(r.cfg)))
           IN  /\ Sound(w) /\ Frame(r, w) /\ w.pays = r.pays /\ w.sagas = r.sagas
               /\ w.err = r.err /\ DOMAIN w.jobs = DOMAIN r.jobs \cup {AsyncId(p)}
               /\ \A k \in DOMAIN r.jobs : k # AsyncId(p) => w.jobs[k] = r.jobs[k]
<1> DEFINE job == JobOf(type, "authorize", Nothing, r.clock + Delay(r.cfg))
           w == PutJob(r, AsyncId(p), job)
<1>0. RunType(r) /\ PaymentInv(r, p)
  BY DEF Sound
<1>1. job \in Jobs /\ job.status = "pending" /\ job.type = type /\ job.step = "authorize"
  BY <1>0, JobOfParts, Amounts
<1> HIDE DEF job
<1>2. Frame(r, w) /\ w.pays = r.pays /\ w.sagas = r.sagas
      /\ w.jobs = Put(r.jobs, AsyncId(p), job) /\ w.err = r.err
  BY <1>0, PutParts
<1>3. /\ DOMAIN w.jobs = DOMAIN r.jobs \cup {AsyncId(p)}
      /\ w.jobs[AsyncId(p)] = job
      /\ \A k \in DOMAIN r.jobs : k # AsyncId(p) => w.jobs[k] = r.jobs[k]
  BY <1>2 DEF Put
<1>4. w.cfg = r.cfg
  BY <1>2 DEF Frame
<1> HIDE DEF w
<1>5. StartId(p) # AsyncId(p) /\ CaptureId(p) # AsyncId(p)
  BY IdsDiffer
<1>6. PaymentInv(w, p)
  BY <1>0, <1>1, <1>2, <1>3, <1>4, <1>5 DEF PaymentInv
<1>7. Sound(w)
  BY <1>1, <1>6, PutKeeps DEF w
<1> QED
  BY <1>2, <1>3, <1>7 DEF w, job

\* Putting a job into a run that was changed.
LEMMA PutIntoWith ==
    ASSUME NEW r, NEW pays, NEW sagas, NEW jobs, NEW err, NEW id, NEW job
    PROVE  PutJob(With(r, pays, sagas, jobs, err), id, job)
             = With(r, pays, sagas, Put(jobs, id, job), err)
BY DEF PutJob, With, Put

\* A saga whose step is done, or rejected, advances; a running one publishes its
\* next step.
LEMMA AdvanceKeeps ==
    ASSUME NEW r, Sound(r), NEW p \in PaymentIds, r.pays[p] \in Payments,
           NEW out \in {"succeeded", "failed"},
           r.sagas[p].saga \in {NewSaga, Capturing},
           r.sagas[p].saga = Capturing =>
             out = "succeeded" /\ r.pays[p].captured >= r.sagas[p].money[1],
           r.sagas[p].saga = NewSaga /\ out = "succeeded" => r.pays[p].status # "pending",
           r.sagas[p].saga = NewSaga /\ out = "failed" => r.pays[p].status = "failed"
    PROVE  LET w == SagaAdvances(r, p, out)
           IN  /\ Sound(w) /\ Frame(r, w) /\ w.pays = r.pays
               /\ DOMAIN r.jobs \subseteq DOMAIN w.jobs
               /\ DOMAIN w.jobs \subseteq DOMAIN r.jobs \cup {CaptureId(p)}
               /\ \A k \in DOMAIN r.jobs :
                    k # CaptureId(p) \/ r.sagas[p].saga = Capturing => w.jobs[k] = r.jobs[k]
<1> DEFINE s == r.sagas[p].saga
           n == Advanced(s, out)
           c == [saga |-> n, money |-> r.sagas[p].money]
           pays == [r.pays EXCEPT ![p] = r.pays[p]]
           sagas == [r.sagas EXCEPT ![p] = c]
           saved == With(r, r.pays, sagas, r.jobs, r.err)
           w == SagaAdvances(r, p, out)
<1>0. RunType(r) /\ PaymentInv(r, p)
  BY DEF Sound
<1>1. /\ r.pays[p] \in Payments \cup {NoPayment} /\ Valid(r.pays[p])
      /\ r.sagas[p].money \in Money /\ r.sagas[p].money[1] \in Int /\ r.sagas \in [PaymentIds -> [saga : ReplayRows, money : Money]]
  BY <1>0, NoPaymentIsNone DEF RunType, PaymentInv, Money
<1>2. pays = r.pays
  BY <1>0, SameParts
<1>3. [r EXCEPT !.sagas[p].saga = n] = saved
  <2>1. [r EXCEPT !.sagas[p].saga = n] =
          With(r, r.pays, [r.sagas EXCEPT ![p].saga = n], r.jobs, r.err)
    BY <1>0, Updates
  <2> HIDE DEF n
  <2>2. [r.sagas EXCEPT ![p].saga = n] = sagas
    <3>1. [r.sagas[p] EXCEPT !.saga = n] = c
      BY <1>1
    <3> HIDE DEF c
    <3> QED
      BY <1>1, <3>1
  <2> QED
    BY <2>1, <2>2
<1>4. /\ DOMAIN r.jobs \subseteq JobIds /\ IsFiniteSet(DOMAIN r.jobs)
      /\ \A id \in DOMAIN r.jobs : r.jobs[id] \in Jobs
      /\ OthersKept(r.jobs, r.jobs, p)
  BY <1>0 DEF RunType, OthersKept
<1>5. /\ NewSaga # NoSaga /\ Capturing # NoSaga /\ Completed # NoSaga /\ Rejected # NoSaga
      /\ NewSaga # Capturing /\ Capturing # Completed /\ Capturing # Rejected
      /\ Completed # Rejected /\ NewSaga # Cancelling /\ Capturing # Cancelling
      /\ Open(Capturing) /\ ~Open(Completed) /\ ~Open(Rejected)
  BY RowFacts DEF Open
<1>6. n = IF s = NewSaga THEN (IF out = "succeeded" THEN Capturing ELSE Rejected) ELSE Completed
  BY <1>5, AdvancedRows
<1>7. w = IF Open(n) THEN PutJob(saved, MessageId(p, n),
                                 JobOf("saga.step", n.step, r.sagas[p].money, r.clock))
          ELSE saved
  BY <1>3 DEF SagaAdvances
<1>8. CASE s = NewSaga /\ out = "succeeded"
  <2> DEFINE job == JobOf("saga.step", "capture", r.sagas[p].money, r.clock)
             jobs == Put(r.jobs, CaptureId(p), job)
             v == With(r, pays, sagas, jobs, r.err)
  <2>1. n = Capturing /\ n.step = "capture" /\ Open(n) /\ MessageId(p, n) = CaptureId(p)
    BY <1>5, <1>6, <1>8, RowFacts DEF CaptureId
  <2>2. w = v
    <3>1. w = PutJob(saved, CaptureId(p), job)
      BY <1>7, <2>1
    <3>2. PutJob(saved, CaptureId(p), job) = With(r, r.pays, sagas, jobs, r.err)
      BY PutIntoWith
    <3> QED
      BY <1>2, <3>1, <3>2
  <2>3. /\ job \in Jobs /\ job.type = "saga.step" /\ job.step = "capture"
        /\ job.money = r.sagas[p].money
    BY <1>0, <1>1, JobOfParts, Amounts
  <2> HIDE DEF job
  <2>4. /\ DOMAIN jobs = DOMAIN r.jobs \cup {CaptureId(p)} /\ jobs[CaptureId(p)] = job
        /\ \A k \in DOMAIN r.jobs : k # CaptureId(p) => jobs[k] = r.jobs[k]
    BY DEF Put
  <2>5. CaptureId(p) \in JobIds
    BY DEF JobIds
  <2>6. OthersKept(jobs, r.jobs, p)
    BY PutKeepsOthers DEF OthersKept
  <2>7. jobs = Put(r.jobs, CaptureId(p), job)
    OBVIOUS
  <2> HIDE DEF jobs
  <2>8. /\ DOMAIN jobs \subseteq JobIds /\ IsFiniteSet(DOMAIN jobs)
        /\ \A k \in DOMAIN jobs : jobs[k] \in Jobs
    BY <1>0, <2>3, <2>5, <2>7, PutFacts, Zenon
  <2>9. v.pays = pays /\ v.sagas = sagas /\ v.jobs = jobs /\ v.cfg = r.cfg /\ Frame(r, v)
    BY WithFields, WithFrame
  <2>10. c \in [saga : ReplayRows, money : Money] /\ sagas[p] = c /\ c.saga = Capturing
         /\ c.money = r.sagas[p].money
    BY <1>1, <2>1 DEF ReplayRows
  <2>11. AsyncId(p) # CaptureId(p) /\ StartId(p) # CaptureId(p)
    BY IdsDiffer
  <2> HIDE DEF v, sagas, c, pays
  <2>12. PaymentInv(v, p)
    BY <1>0, <1>1, <1>2, <1>5, <1>8, <2>3, <2>4, <2>9, <2>10, <2>11 DEF PaymentInv
  <2>13. Sound(v)
    BY <1>1, <2>4, <2>6, <2>8, <2>10, <2>12, SoundWith DEF v, sagas, pays
  <2> HIDE DEF w
  <2> QED
    BY <1>2, <1>5, <1>8, <2>2, <2>4, <2>9, <2>13 DEF w
<1>9. CASE ~(s = NewSaga /\ out = "succeeded")
  <2> DEFINE v == With(r, pays, sagas, r.jobs, r.err)
  <2>1. ~Open(n) /\ n \in {Completed, Rejected} /\ (n = Completed <=> s = Capturing)
    BY <1>5, <1>6, <1>9
  <2>2. w = v
    BY <1>2, <1>7, <2>1
  <2>3. v.pays = pays /\ v.sagas = sagas /\ v.jobs = r.jobs /\ v.cfg = r.cfg /\ Frame(r, v)
    BY WithFields, WithFrame
  <2>4. c \in [saga : ReplayRows, money : Money] /\ sagas[p] = c /\ c.saga = n
         /\ c.money = r.sagas[p].money
    BY <1>1, <2>1 DEF ReplayRows
  <2> HIDE DEF v, sagas, c, pays, n
  <2>5. PaymentInv(v, p)
    BY <1>0, <1>1, <1>2, <1>5, <1>9, <2>1, <2>3, <2>4 DEF PaymentInv
  <2>6. Sound(v)
    BY <1>1, <1>4, <2>4, <2>5, SoundWith DEF v, sagas, pays
  <2> HIDE DEF w
  <2> QED
    BY <1>2, <2>2, <2>3, <2>6 DEF w
<1> QED
  BY <1>8, <1>9

\* The end of a job: only a deferred authorization asks something of it.
LEMMA SettleKeeps ==
    ASSUME NEW r, Sound(r), NEW p \in PaymentIds,
           NEW id \in {AsyncId(p), StartId(p), CaptureId(p)}, id \in DOMAIN r.jobs,
           id = AsyncId(p) => r.pays[p].status # "pending",
           NEW job \in Jobs, job.type = r.jobs[id].type, job.step = r.jobs[id].step,
           job.money = r.jobs[id].money, NEW w, w = PutJob(r, id, job)
    PROVE  /\ Sound(w) /\ Frame(r, w) /\ w.pays = r.pays /\ w.sagas = r.sagas
           /\ w.err = r.err /\ DOMAIN w.jobs = DOMAIN r.jobs
<1>0. RunType(r) /\ PaymentInv(r, p)
  BY DEF Sound
<1>3. Frame(r, w) /\ w.pays = r.pays /\ w.sagas = r.sagas
      /\ w.jobs = Put(r.jobs, id, job) /\ w.err = r.err
  BY <1>0, PutParts
<1>4. /\ DOMAIN w.jobs = DOMAIN r.jobs /\ w.jobs[id] = job
      /\ \A k \in DOMAIN r.jobs : k # id => w.jobs[k] = r.jobs[k]
  BY <1>3 DEF Put
<1>5. w.cfg = r.cfg
  BY <1>3 DEF Frame
<1>6. AsyncId(p) # StartId(p) /\ AsyncId(p) # CaptureId(p) /\ StartId(p) # CaptureId(p)
  BY IdsDiffer
<1>7. PaymentInv(w, p)
  <2>1. CASE id = AsyncId(p)
    BY <1>0, <1>3, <1>4, <1>5, <1>6, <2>1 DEF PaymentInv
  <2>2. CASE id = StartId(p)
    BY <1>0, <1>3, <1>4, <1>5, <1>6, <2>2 DEF PaymentInv
  <2>3. CASE id = CaptureId(p)
    BY <1>0, <1>3, <1>4, <1>5, <1>6, <2>3 DEF PaymentInv
  <2> QED
    BY <2>1, <2>2, <2>3
<1>8. Sound(w)
  BY <1>7, PutKeeps
<1> QED
  BY <1>3, <1>4, <1>8

-----------------------------------------------------------------------------
(* The handlers.                                                           *)

\* What a handler leaves of the run, of the job it handles, of the payment whose
\* authorization it resumes, and of the other payments.
Handled(r, w, id, p) ==
    /\ Sound(w) /\ Frame(r, w)
    /\ DOMAIN r.jobs \subseteq DOMAIN w.jobs
    /\ w.jobs[id] = r.jobs[id]
    /\ id = AsyncId(p) => w.pays[p].status # "pending"
    /\ \A q \in PaymentIds : w.pays[q].authorized > 0 =>
         r.pays[q].authorized > 0 \/ ~Defers(r.cfg) \/ id = AsyncId(q)

\* The answers of a provider.
LEMMA Answers ==
    ASSUME NEW cfg
    PROVE  /\ Outcome(cfg, "authorize") \in {"succeeded", "failed", "pending"}
           /\ \A op \in {"capture", "refund", "cancel"} : Outcome(cfg, op) = "succeeded"
           /\ AsyncOutcome = "succeeded"
BY DEF Outcome, AsyncOutcome

\* A valid payment that is neither new nor failed is authorized, a new one not.
LEMMA AuthorizedWhen ==
    ASSUME NEW y \in Payments, Valid(y)
    PROVE  /\ y.status \in {"pending", "failed"} => y.authorized = 0
           /\ y.status = "pending" => y.authorized # y.amount
           /\ y.captured \in Int /\ y.captured >= 0 /\ y.authorized \in Int
BY DEF Payments, Valid, Consistent

\* The payment and the saga a saga message is about.
LEMMA MessageFacts ==
    ASSUME NEW r, Sound(r), NEW p \in PaymentIds,
           NEW id \in {AsyncId(p), StartId(p), CaptureId(p)}, id \in DOMAIN r.jobs,
           r.jobs[id].type = "saga.step"
    PROVE  /\ id[2] = p /\ (id[1] = "async" <=> id = AsyncId(p))
           /\ r.jobs[id].step = (IF id = CaptureId(p) THEN "capture" ELSE "authorize")
           /\ r.jobs[id].money \in Money /\ r.jobs[id].money[1] \in Int
           /\ r.sagas[p].saga \in {NewSaga, Capturing, Completed, Rejected}
           /\ r.sagas[p].saga = Capturing /\ id = CaptureId(p) => r.jobs[id].money = r.sagas[p].money
           /\ id = AsyncId(p) => Defers(r.cfg) /\ r.pays[p] \in Payments
           /\ r.pays[p] = NoPayment \/ (r.pays[p] \in Payments /\ Valid(r.pays[p]))
<1>0. RunType(r) /\ PaymentInv(r, p)
  BY DEF Sound
<1>1. id[2] = p /\ (id[1] = "async" <=> id = AsyncId(p))
      /\ AsyncId(p) # StartId(p) /\ AsyncId(p) # CaptureId(p) /\ StartId(p) # CaptureId(p)
  BY IdsDiffer
<1>2. r.jobs[id] \in Jobs /\ r.pays[p] \in Payments \cup {NoPayment}
      /\ r.sagas[p].saga \in ReplayRows
  BY <1>0 DEF RunType
<1>3. r.jobs[id].money \in Money /\ r.jobs[id].money[1] \in Int
  BY <1>2 DEF Jobs, Money
<1>4. r.sagas[p].saga # NoSaga
  BY <1>0 DEF PaymentInv
<1>5. r.jobs[id].step = (IF id = CaptureId(p) THEN "capture" ELSE "authorize")
  BY <1>0, <1>1 DEF PaymentInv
<1>6. /\ r.sagas[p].saga = Capturing /\ id = CaptureId(p) => r.jobs[id].money = r.sagas[p].money
      /\ id = AsyncId(p) => Defers(r.cfg) /\ r.pays[p] \in Payments
      /\ r.pays[p] = NoPayment \/ Valid(r.pays[p])
  BY <1>0 DEF PaymentInv
<1> QED
  BY <1>1, <1>2, <1>3, <1>4, <1>5, <1>6 DEF ReplayRows

\* A handler that leaves the payments alone.
LEMMA HandledPays ==
    ASSUME NEW r, NEW w, w.pays = r.pays, NEW id
    PROVE  \A q \in PaymentIds : w.pays[q].authorized > 0 =>
             r.pays[q].authorized > 0 \/ ~Defers(r.cfg) \/ id = AsyncId(q)
OBVIOUS

\* handleSaga.
LEMMA HandleSagaKeeps ==
    ASSUME NEW r, Sound(r), NEW p \in PaymentIds,
           NEW id \in {AsyncId(p), StartId(p), CaptureId(p)}, id \in DOMAIN r.jobs,
           r.jobs[id].type = "saga.step"
    PROVE  Handled(r, HandleSaga(r, id), id, p)
<1> DEFINE w == HandleSaga(r, id)
           y == r.pays[p]
           s == r.sagas[p].saga
           step == r.jobs[id].step
           money == r.jobs[id].money
           out == IF id = AsyncId(p) THEN AsyncOutcome ELSE Outcome(r.cfg, step)
           res == IF out = "failed" THEN Fail(y) ELSE CommandOf(y, step, money[1], money[2])
           applied == Changed(r, p, res)
<1>0. RunType(r) /\ PaymentInv(r, p)
  BY DEF Sound
<1>1. /\ id[2] = p /\ (id[1] = "async" <=> id = AsyncId(p))
      /\ step = (IF id = CaptureId(p) THEN "capture" ELSE "authorize")
      /\ money \in Money /\ money[1] \in Int
      /\ s \in {NewSaga, Capturing, Completed, Rejected}
      /\ s = Capturing /\ id = CaptureId(p) => money = r.sagas[p].money
      /\ id = AsyncId(p) => Defers(r.cfg) /\ y \in Payments
      /\ y = NoPayment \/ (y \in Payments /\ Valid(y))
  BY MessageFacts
<1>2. w = IF SagaTerminal(s) \/ s.step # step THEN r
          ELSE IF y = NoPayment THEN Raise(r, "not_found")
          ELSE IF StepAlreadyApplied(y, step, money[1]) THEN SagaAdvances(r, p, "succeeded")
          ELSE IF step = "capture" /\ AmountRefused(y.currency, money[1], money[2])
          THEN Raise(r, "operation_amount")
          ELSE IF out = "pending"
          THEN PutJob(r, AsyncId(p), JobOf("saga.step", step, Nothing, r.clock + Delay(r.cfg)))
          ELSE IF applied.err # "none" THEN applied
          ELSE SagaAdvances(applied, p, out)
  BY <1>1 DEF HandleSaga
<1>3. /\ s = NewSaga => s.step = "authorize" /\ ~SagaTerminal(s)
      /\ s = Capturing => s.step = "capture" /\ ~SagaTerminal(s)
      /\ s \in {Completed, Rejected} => SagaTerminal(s)
      /\ NewSaga # Capturing
  BY RowFacts DEF SagaTerminal
<1>4. /\ out \in {"succeeded", "failed", "pending"}
      /\ out # "succeeded" => step = "authorize" /\ id = StartId(p) /\ out = Outcome(r.cfg, "authorize")
      /\ Defers(r.cfg) /\ step = "authorize" => id = AsyncId(p) \/ out = "pending"
      /\ id = AsyncId(p) => out = "succeeded"
  BY <1>1, Answers DEF Defers
<1>5. AsyncId(p) # StartId(p) /\ AsyncId(p) # CaptureId(p) /\ StartId(p) # CaptureId(p)
  BY IdsDiffer
<1> HIDE DEF w, out
<1>6. CASE SagaTerminal(s) \/ s.step # step
  <2>1. w = r
    BY <1>2, <1>6
  <2>2. id = AsyncId(p) => y.status # "pending"
    BY <1>0, <1>1, <1>3, <1>5, <1>6 DEF PaymentInv
  <2> QED
    BY <2>1, <2>2 DEF Handled, Frame, w
<1>7. CASE ~(SagaTerminal(s) \/ s.step # step) /\ y = NoPayment
  <2>1. w = Raise(r, "not_found")
    BY <1>2, <1>7
  <2>2. id # AsyncId(p)
    BY <1>1, <1>7, NoPaymentIsNone
  <2> QED
    BY <2>1, <2>2, RaiseFrame DEF Handled, w
<1>8. CASE ~(SagaTerminal(s) \/ s.step # step) /\ y # NoPayment
  <2>0. /\ y \in Payments /\ Valid(y) /\ s \in {NewSaga, Capturing}
        /\ s = NewSaga => step = "authorize" /\ id # CaptureId(p)
        /\ s = Capturing => step = "capture" /\ id = CaptureId(p) /\ money = r.sagas[p].money
                            /\ out = "succeeded"
    BY <1>1, <1>3, <1>4, <1>5, <1>8
  <2>1. CASE StepAlreadyApplied(y, step, money[1])
    <3>1. w = SagaAdvances(r, p, "succeeded")
      BY <1>2, <1>8, <2>1
    <3>2. s = NewSaga => y.status # "pending"
      BY <2>0, <2>1, AuthorizedWhen DEF StepAlreadyApplied
    <3>3. s = Capturing => y.captured >= r.sagas[p].money[1]
      BY <2>0, <2>1 DEF StepAlreadyApplied
    <3>4. /\ Sound(w) /\ Frame(r, w) /\ w.pays = r.pays
          /\ DOMAIN r.jobs \subseteq DOMAIN w.jobs
          /\ \A k \in DOMAIN r.jobs : k # CaptureId(p) \/ s = Capturing => w.jobs[k] = r.jobs[k]
      BY <1>3, <2>0, <3>1, <3>2, <3>3, AdvanceKeeps
    <3>5. w.jobs[id] = r.jobs[id]
      BY <2>0, <3>4
    <3>6. id = AsyncId(p) => w.pays[p].status # "pending"
      BY <1>5, <2>0, <3>2, <3>4
    <3> QED
      BY <3>4, <3>5, <3>6, HandledPays DEF Handled, w
  <2>2. CASE ~StepAlreadyApplied(y, step, money[1]) /\ step = "capture"
              /\ AmountRefused(y.currency, money[1], money[2])
    <3>1. w = Raise(r, "operation_amount")
      BY <1>2, <1>8, <2>2
    <3>2. id # AsyncId(p)
      BY <1>1, <1>5, <2>2
    <3> QED
      BY <3>1, <3>2, RaiseFrame DEF Handled, w
  <2>3. CASE ~StepAlreadyApplied(y, step, money[1]) /\ out = "pending"
              /\ ~(step = "capture" /\ AmountRefused(y.currency, money[1], money[2]))
    <3>1. step = "authorize" /\ id = StartId(p) /\ Defers(r.cfg)
      BY <1>4, <2>3 DEF Defers
    <3>2. w = PutJob(r, AsyncId(p), JobOf("saga.step", "authorize", Nothing, r.clock + Delay(r.cfg)))
      BY <1>2, <1>8, <2>3, <3>1
    <3>3. s # NoSaga
      BY <2>0, RowFacts
    <3>4. /\ Sound(w) /\ Frame(r, w) /\ w.pays = r.pays
          /\ DOMAIN w.jobs = DOMAIN r.jobs \cup {AsyncId(p)}
          /\ \A k \in DOMAIN r.jobs : k # AsyncId(p) => w.jobs[k] = r.jobs[k]
      BY <2>0, <3>1, <3>2, <3>3, DeferKeeps
    <3>5. w.jobs[id] = r.jobs[id] /\ id # AsyncId(p)
      BY <1>5, <3>1, <3>4
    <3> QED
      BY <3>4, <3>5, HandledPays DEF Handled, w
  <2>4. CASE ~StepAlreadyApplied(y, step, money[1]) /\ out # "pending"
              /\ ~(step = "capture" /\ AmountRefused(y.currency, money[1], money[2]))
    <3>1. w = IF applied.err # "none" THEN applied ELSE SagaAdvances(applied, p, out)
      BY <1>2, <1>8, <2>4
    <3>2. step \in SagaSteps
      BY <1>1 DEF SagaSteps
    <3>3. ASSUME res.err = "none"
          PROVE  /\ Moved(y, res.pay)
                 /\ step = "capture" => y.authorized > 0 /\ res.pay.captured >= money[1]
                 /\ out = "failed" => res.pay.status = "failed" /\ res.pay.authorized = 0
      <4>1. CASE out = "failed"
        <5>1. res = Fail(y) /\ step # "capture"
          BY <1>4, <4>1
        <5> QED
          BY <2>0, <3>3, <5>1, FailMoves
      <4>2. CASE out # "failed"
        <5>1. res = CommandOf(y, step, money[1], money[2])
          BY <4>2
        <5> QED
          BY <1>1, <2>0, <3>2, <3>3, <4>2, <5>1, CommandMoves
      <4> QED
        BY <4>1, <4>2
    <3>4. ASSUME res.err # "none", id = AsyncId(p)
          PROVE  y.status # "pending"
      <4>1. step = "authorize" /\ out = "succeeded"
        BY <1>1, <1>4, <1>5, <3>4
      <4>2. res = Authorize(y)
        BY <4>1 DEF CommandOf
      <4> QED
        BY <3>4, <4>2 DEF Authorize, Ok
    <3> HIDE DEF res
    <3>5. /\ Sound(applied) /\ Frame(r, applied)
          /\ applied.sagas = r.sagas /\ applied.jobs = r.jobs
          /\ applied.pays = IF res.err = "none" THEN [r.pays EXCEPT ![p] = res.pay] ELSE r.pays
          /\ applied.err = IF res.err = "none" THEN r.err ELSE res.err
      BY <2>0, <3>3, ChangedKeeps
    <3> HIDE DEF applied
    <3>6. applied.pays[p] = (IF res.err = "none" THEN res.pay ELSE y)
          /\ \A q \in PaymentIds \ {p} : applied.pays[q] = r.pays[q]
      BY <1>0, <3>5 DEF RunType
    <3>7. id = AsyncId(p) => applied.pays[p].status # "pending"
      BY <3>3, <3>4, <3>6 DEF Moved
    <3>8. \A q \in PaymentIds : applied.pays[q].authorized > 0 =>
            r.pays[q].authorized > 0 \/ ~Defers(r.cfg) \/ id = AsyncId(q)
      <4>1. ASSUME applied.pays[p].authorized > 0, ~(y.authorized > 0), Defers(r.cfg)
            PROVE  id = AsyncId(p)
        <5>1. res.err = "none"
          BY <3>6, <4>1
        <5>2. step # "capture"
          BY <3>3, <4>1, <5>1
        <5> QED
          BY <1>1, <1>4, <2>4, <4>1, <5>2
      <4> QED
        BY <3>6, <4>1
    <3>9. CASE applied.err # "none"
      BY <3>1, <3>5, <3>7, <3>8, <3>9 DEF Handled, w
    <3>10. CASE applied.err = "none"
      <4>1. res.err = "none"
        BY <3>5, <3>10
      <4>2. applied.pays[p] = res.pay /\ Moved(y, res.pay) /\ applied.sagas[p] = r.sagas[p]
        BY <3>3, <3>5, <3>6, <4>1
      <4>3. /\ applied.pays[p] \in Payments
            /\ applied.pays[p].status # "pending"
            /\ s = Capturing => applied.pays[p].captured >= r.sagas[p].money[1]
            /\ out = "failed" => applied.pays[p].status = "failed"
        BY <2>0, <3>3, <4>1, <4>2 DEF Moved
      <4>4. w = SagaAdvances(applied, p, out) /\ out \in {"succeeded", "failed"}
        BY <1>4, <2>4, <3>1, <3>10
      <4>5. /\ Sound(w) /\ Frame(applied, w) /\ w.pays = applied.pays
            /\ DOMAIN applied.jobs \subseteq DOMAIN w.jobs
            /\ \A k \in DOMAIN applied.jobs :
                 k # CaptureId(p) \/ s = Capturing => w.jobs[k] = applied.jobs[k]
        <5>1. /\ applied.sagas[p].saga = s /\ applied.sagas[p].money = r.sagas[p].money
              /\ s \in {NewSaga, Capturing} /\ (s = Capturing => out = "succeeded")
          BY <2>0, <4>2
        <5> HIDE DEF s
        <5>2. /\ applied.sagas[p].saga \in {NewSaga, Capturing}
              /\ applied.sagas[p].saga = Capturing =>
                   out = "succeeded" /\ applied.pays[p].captured >= applied.sagas[p].money[1]
          BY <4>3, <5>1
        <5> QED
          BY <3>5, <4>3, <4>4, <5>1, <5>2, AdvanceKeeps
      <4>6. Frame(r, w) /\ w.jobs[id] = r.jobs[id] /\ DOMAIN r.jobs \subseteq DOMAIN w.jobs
        BY <2>0, <3>5, <4>5 DEF Frame
      <4> QED
        BY <3>7, <3>8, <4>5, <4>6 DEF Handled, w
    <3> QED
      BY <3>9, <3>10
  <2> QED
    BY <2>1, <2>2, <2>3, <2>4
<1> QED
  BY <1>6, <1>7, <1>8 DEF w

\* handleAsync.
LEMMA HandleAsyncKeeps ==
    ASSUME NEW r, Sound(r), NEW p \in PaymentIds,
           NEW id \in {AsyncId(p), StartId(p), CaptureId(p)}, id \in DOMAIN r.jobs,
           r.jobs[id].type # "saga.step"
    PROVE  Handled(r, HandleAsync(r, id), id, p)
<1> DEFINE y == r.pays[p]
           res == Authorize(y)
           w == Changed(r, p, res)
<1>0. RunType(r) /\ PaymentInv(r, p)
  BY DEF Sound
<1>1. id = AsyncId(p) /\ id[2] = p /\ r.jobs[id].step = "authorize" /\ y \in Payments /\ Valid(y)
  BY <1>0, IdsDiffer, NoPaymentIsNone DEF PaymentInv
<1>2. HandleAsync(r, id) = w
  BY <1>1 DEF HandleAsync, Apply, AsyncOutcome, CommandOf
<1>3. res.err = "none" => Moved(y, res.pay)
  <2>1. CommandOf(y, "authorize", 0, "none") = res /\ "authorize" \in SagaSteps
    BY DEF CommandOf, SagaSteps
  <2> QED
    BY <1>1, <2>1, CommandMoves
<1>4. res.err # "none" => y.status # "pending"
  BY DEF Authorize, Ok
<1> HIDE DEF res
<1>5. /\ Sound(w) /\ Frame(r, w) /\ w.sagas = r.sagas /\ w.jobs = r.jobs
      /\ w.pays = IF res.err = "none" THEN [r.pays EXCEPT ![p] = res.pay] ELSE r.pays
  BY <1>1, <1>3, ChangedKeeps
<1> HIDE DEF w
<1>6. w.pays[p] = (IF res.err = "none" THEN res.pay ELSE y)
      /\ \A q \in PaymentIds \ {p} : w.pays[q] = r.pays[q]
  BY <1>0, <1>5 DEF RunType
<1>7. w.pays[p].status # "pending"
  BY <1>3, <1>4, <1>6 DEF Moved
<1> QED
  BY <1>1, <1>2, <1>5, <1>6, <1>7 DEF Handled

\* Acquire and Execute: a run stays sound, and only the resumption of its
\* deferred authorization authorizes a payment of a provider that defers.
LEMMA ExecutedKeeps ==
    ASSUME NEW r, Sound(r), NEW id \in DOMAIN r.jobs
    PROVE  LET w == Executed(r, id)
           IN  /\ Sound(w) /\ Frame(r, w) /\ DOMAIN r.jobs \subseteq DOMAIN w.jobs
               /\ \A q \in PaymentIds : w.pays[q].authorized > 0 =>
                    \/ r.pays[q].authorized > 0 \/ ~Defers(r.cfg)
                    \/ id = AsyncId(q) /\ r.jobs[id].status = "pending"
<1> DEFINE after == IF r.jobs[id].type = "saga.step" THEN HandleSaga(r, id) ELSE HandleAsync(r, id)
           status == IF after.err = "none" THEN "completed" ELSE "failed"
           w == Executed(r, id)
<1>1. CASE r.jobs[id].status # "pending"
  <2>1. w = Raise(r, "job_transition")
    BY <1>1 DEF Executed
  <2> HIDE DEF w
  <2>2. Sound(w) /\ Frame(r, w) /\ w.pays = r.pays /\ w.jobs = r.jobs
    BY <2>1, RaiseFrame
  <2> QED
    BY <2>2 DEF w
<1>2. CASE r.jobs[id].status = "pending"
  <2>1. PICK p \in PaymentIds : id \in {AsyncId(p), StartId(p), CaptureId(p)}
    BY DEF Sound, RunType, JobIds
  <2>2. Handled(r, after, id, p)
    BY <2>1, HandleSagaKeeps, HandleAsyncKeeps
  <2>3. w = PutJob(after, id, [r.jobs[id] EXCEPT !.status = status])
    BY <1>2 DEF Executed
  <2>4. status \in {"completed", "failed"}
    OBVIOUS
  <2> HIDE DEF after, status, w
  <2>5. /\ Sound(after) /\ Frame(r, after) /\ DOMAIN r.jobs \subseteq DOMAIN after.jobs
        /\ id \in DOMAIN after.jobs /\ after.jobs[id] = r.jobs[id]
        /\ id = AsyncId(p) => after.pays[p].status # "pending"
        /\ \A q \in PaymentIds : after.pays[q].authorized > 0 =>
             r.pays[q].authorized > 0 \/ ~Defers(r.cfg) \/ id = AsyncId(q)
    BY <2>2 DEF Handled
  <2>6. w = PutJob(after, id, [after.jobs[id] EXCEPT !.status = status])
    BY <2>3, <2>5
  <2>7. Sound(w) /\ Frame(after, w) /\ w.pays = after.pays /\ DOMAIN w.jobs = DOMAIN after.jobs
    <3> DEFINE job == [after.jobs[id] EXCEPT !.status = status]
    <3>1. after.jobs[id] \in Jobs
      BY <2>5 DEF Sound, RunType
    <3>2. /\ job \in Jobs /\ job.type = after.jobs[id].type
          /\ job.step = after.jobs[id].step /\ job.money = after.jobs[id].money
      BY <2>4, <3>1 DEF Jobs
    <3>3. w = PutJob(after, id, job)
      BY <2>6
    <3> HIDE DEF job
    <3> QED
      BY <2>1, <2>5, <3>2, <3>3, SettleKeeps
  <2>8. Frame(r, w)
    BY <2>5, <2>7 DEF Frame
  <2> QED
    BY <1>2, <2>5, <2>7, <2>8 DEF w
<1> QED
  BY <1>1, <1>2

-----------------------------------------------------------------------------
(* The steps of a run.                                                     *)

\* What the runner itself changes of a run.
Framed(r, phase, index, clock, ops, ticks, batch, err) ==
    [phase |-> phase, cfg |-> r.cfg, commands |-> r.commands, index |-> index,
     pays |-> r.pays, sagas |-> r.sagas, jobs |-> r.jobs, clock |-> clock,
     ops |-> ops, ticks |-> ticks, batch |-> batch, err |-> err]

\* The parts of such a run.
LEMMA FramedFields ==
    ASSUME NEW r, NEW phase, NEW index, NEW clock, NEW ops, NEW ticks, NEW batch, NEW err
    PROVE  LET w == Framed(r, phase, index, clock, ops, ticks, batch, err)
           IN  /\ w.pays = r.pays /\ w.sagas = r.sagas /\ w.jobs = r.jobs /\ w.err = err
               /\ w.phase = phase /\ w.cfg = r.cfg /\ w.commands = r.commands
               /\ w.index = index /\ w.clock = clock /\ w.ops = ops
               /\ w.ticks = ticks /\ w.batch = batch
BY DEF Framed

\* It is sound when its new parts have their types.
LEMMA FramedKeeps ==
    ASSUME NEW r, Sound(r), NEW phase \in {"command", "find", "dispatch", "failed"},
           NEW index \in Nat \ {0}, NEW clock \in Nat, NEW ops \in Seq(Ops), NEW ticks,
           NEW batch \in Seq(DOMAIN r.jobs), NEW err,
           \A n \in DOMAIN ops : AsyncId(ops[n].pay) \in DOMAIN r.jobs,
           NEW w, w = Framed(r, phase, index, clock, ops, ticks, batch, err)
    PROVE  Sound(w)
<1>1. /\ w.pays = r.pays /\ w.sagas = r.sagas /\ w.jobs = r.jobs /\ w.err = err
      /\ w.phase = phase /\ w.cfg = r.cfg /\ w.commands = r.commands
      /\ w.index = index /\ w.clock = clock /\ w.ops = ops
      /\ w.ticks = ticks /\ w.batch = batch
  BY FramedFields
<1>2. w = [phase |-> w.phase, cfg |-> w.cfg, commands |-> w.commands, index |-> w.index,
           pays |-> w.pays, sagas |-> w.sagas, jobs |-> w.jobs, clock |-> w.clock,
           ops |-> w.ops, ticks |-> w.ticks, batch |-> w.batch, err |-> w.err]
  BY DEF Framed
<1>3. RunType(r)
  BY DEF Sound
<1>4. RunType(w)
  BY <1>1, <1>2, <1>3 DEF RunType
<1>5. \A p \in PaymentIds : PaymentInv(w, p)
  BY <1>1 DEF Sound, PaymentInv
<1> QED
  BY <1>4, <1>5 DEF Sound

\* The parts of a sound run, and the same run built from them.
LEMMA FrameTypes ==
    ASSUME NEW r, Sound(r)
    PROVE  /\ RunType(r) /\ r.phase \in {"command", "find", "dispatch", "failed"}
           /\ r.index \in Nat \ {0} /\ r.clock \in Nat /\ r.ops \in Seq(Ops)
           /\ r.batch \in Seq(DOMAIN r.jobs)
           /\ \A n \in DOMAIN r.ops : AsyncId(r.ops[n].pay) \in DOMAIN r.jobs
           /\ r = Framed(r, r.phase, r.index, r.clock, r.ops, r.ticks, r.batch, r.err)
<1>1. RunType(r)
  BY DEF Sound
<1>2. r = Framed(r, r.phase, r.index, r.clock, r.ops, r.ticks, r.batch, r.err)
  BY <1>1 DEF RunType, Framed
<1> QED
  BY <1>1, <1>2 DEF RunType

\* Two runs with the same payments, sagas, jobs and provider at the same time.
SameWorld(r, w) ==
    /\ w.pays = r.pays /\ w.sagas = r.sagas /\ w.jobs = r.jobs /\ w.cfg = r.cfg
    /\ w.clock = r.clock /\ w.ops = r.ops /\ w.batch = r.batch

\* The end of a command keeps a run sound.
LEMMA ProceedKeeps ==
    ASSUME NEW r, Sound(r), NEW w, w = Proceed(r)
    PROVE  Sound(w) /\ SameWorld(r, w)
<1> DEFINE phase == IF r.err = "none" THEN "command" ELSE "failed"
           index == IF r.err = "none" THEN r.index + 1 ELSE r.index
           v == Framed(r, phase, index, r.clock, r.ops, r.ticks, r.batch, r.err)
<1>1. r.index \in Nat \ {0} /\ r.clock \in Nat /\ r.ops \in Seq(Ops) /\ r.batch \in Seq(DOMAIN r.jobs)
      /\ \A n \in DOMAIN r.ops : AsyncId(r.ops[n].pay) \in DOMAIN r.jobs
  BY FrameTypes
<1>2. r = Framed(r, r.phase, r.index, r.clock, r.ops, r.ticks, r.batch, r.err)
  BY FrameTypes
<1>3. w = v
  BY <1>2 DEF Proceed, Framed
<1>4. phase \in {"command", "find", "dispatch", "failed"} /\ index \in Nat \ {0}
  BY <1>1
<1> HIDE DEF phase, index
<1>5. SameWorld(r, v)
  BY FramedFields DEF SameWorld
<1>6. Sound(w)
  BY <1>1, <1>3, <1>4, FramedKeeps
<1> QED
  BY <1>3, <1>5, <1>6

\* What the run may become without breaking a promise: time and jobs only grow,
\* the batch resumes what is due, and only a promise that has come authorizes.
Come(p, time) == \E t \in promised[p] : t <= time
KeepsPromises(w) ==
    /\ Sound(w) /\ w.cfg = run.cfg /\ run.clock <= w.clock
    /\ DOMAIN run.jobs \subseteq DOMAIN w.jobs
    /\ \A p \in PaymentIds : \A n \in DOMAIN w.batch :
         w.batch[n] = AsyncId(p) => Come(p, w.clock)
    /\ \A p \in PaymentIds : w.pays[p].authorized > 0 =>
         run.pays[p].authorized > 0 \/ ~Defers(run.cfg) \/ Come(p, w.clock)

\* Such a step keeps the invariant.
LEMMA BecomesKeeps ==
    ASSUME ReplayInv, run # NoRun, NEW w, KeepsPromises(w), Becomes(w)
    PROVE  ReplayInv'
<1>1. /\ run' = w /\ promised' = [p \in PaymentIds |-> promised[p] \cup DeferredTo(w, p)]
      /\ stored' = stored
  BY DEF Becomes
<1>2. Sound(w) /\ RunType(w) /\ w.phase # "none" /\ run.clock \in Nat /\ w.clock \in Nat
  BY FrameTypes DEF KeepsPromises, ReplayInv
<1>3. w # NoRun
  BY <1>2 DEF NoRun
<1>4. \A p \in PaymentIds : promised'[p] = promised[p] \cup DeferredTo(w, p)
  BY <1>1
<1>5. ASSUME NEW p \in PaymentIds PROVE DeferredTo(w, p) \subseteq Nat
  <2>1. \A n \in DOMAIN w.ops : w.ops[n].due \in Nat
    <3>1. w.ops \in Seq(Ops)
      BY <1>2 DEF RunType
    <3>2. \A n \in DOMAIN w.ops : w.ops[n] \in Ops
      BY <3>1
    <3> QED
      BY <3>2 DEF Ops
  <2>2. \A id \in DOMAIN w.jobs : w.jobs[id].due \in Nat
    BY <1>2 DEF RunType, Jobs
  <2> QED
    BY <2>1, <2>2 DEF DeferredTo
<1>6. ASSUME NEW p \in PaymentIds, DeferredTo(w, p) # {} PROVE AsyncId(p) \in DOMAIN w.jobs
  BY <1>2, <1>6 DEF DeferredTo, RunType
<1>7. ASSUME NEW p \in PaymentIds, AsyncId(p) \in DOMAIN w.jobs
      PROVE  w.jobs[AsyncId(p)].due \in DeferredTo(w, p)
  BY <1>7 DEF DeferredTo
<1>8. ASSUME NEW p \in PaymentIds, NEW time \in Nat, Come(p, time), time <= w.clock
      PROVE  \E t \in promised'[p] : t <= w.clock
  <2>1. PICK t \in promised[p] : t <= time
    BY <1>8 DEF Come
  <2>2. t \in promised'[p] /\ t \in Nat
    BY <1>4, <2>1 DEF ReplayInv
  <2> QED
    BY <1>2, <1>8, <2>1, <2>2
<1>9. ASSUME NEW p \in PaymentIds
      PROVE  /\ promised'[p] # {} => AsyncId(p) \in DOMAIN w.jobs
             /\ AsyncId(p) \in DOMAIN w.jobs => w.jobs[AsyncId(p)].due \in promised'[p]
             /\ \A n \in DOMAIN w.batch :
                  w.batch[n] = AsyncId(p) => \E t \in promised'[p] : t <= w.clock
             /\ Defers(w.cfg) /\ w.pays[p].authorized > 0 /\ ~(stored.payments[p].authorized > 0)
                  => \E t \in promised'[p] : t <= w.clock
  <2>0. PromiseInv(p)
    BY DEF ReplayInv
  <2>1. promised'[p] # {} => AsyncId(p) \in DOMAIN w.jobs
    BY <1>4, <1>6, <2>0 DEF KeepsPromises, PromiseInv
  <2>2. AsyncId(p) \in DOMAIN w.jobs => w.jobs[AsyncId(p)].due \in promised'[p]
    BY <1>4, <1>7
  <2>3. \A n \in DOMAIN w.batch :
          w.batch[n] = AsyncId(p) => \E t \in promised'[p] : t <= w.clock
    BY <1>2, <1>8 DEF KeepsPromises
  <2>4. ASSUME Defers(w.cfg), w.pays[p].authorized > 0, ~(stored.payments[p].authorized > 0)
        PROVE  \E t \in promised'[p] : t <= w.clock
    <3>1. w.cfg = run.cfg /\ run.clock <= w.clock
          /\ (run.pays[p].authorized > 0 \/ Come(p, w.clock))
      BY <2>4 DEF KeepsPromises
    <3>2. run.pays[p].authorized > 0 => Come(p, run.clock)
      BY <2>0, <2>4, <3>1 DEF PromiseInv, Come, GivenAuthorized
    <3> QED
      BY <1>2, <1>8, <3>1, <3>2
  <2> QED
    BY <2>1, <2>2, <2>3, <2>4
<1>10. stored \in Scenarios /\ \A p \in PaymentIds : promised[p] \subseteq Nat
  BY DEF ReplayInv
<1>11. \A p \in PaymentIds : PromiseInv(p)'
  BY <1>1, <1>9 DEF PromiseInv, GivenAuthorized
<1>12. promised' = [p \in PaymentIds |-> promised'[p]] /\ \A p \in PaymentIds : promised'[p] \subseteq Nat
  BY <1>1, <1>4, <1>5, <1>10
<1> QED
  BY <1>1, <1>2, <1>3, <1>10, <1>11, <1>12 DEF ReplayInv

\* The run a command, or a tick, is part of.
LEMMA RunFacts ==
    ASSUME ReplayInv, run.phase # "none"
    PROVE  run # NoRun /\ Sound(run) /\ run.clock \in Nat /\ RunType(run)
           /\ \A p \in PaymentIds : PromiseInv(p) /\ promised[p] \subseteq Nat
<1>1. run # NoRun
  BY DEF NoRun
<1> QED
  BY <1>1, FrameTypes DEF ReplayInv

\* The command under way.
LEMMA CurrentFacts ==
    ASSUME ReplayInv, NEW types, At(types)
    PROVE  /\ run.phase # "none" /\ run # NoRun /\ Sound(run) /\ run.clock \in Nat /\ RunType(run)
           /\ Current \in Commands /\ ValidCommand(Current) /\ Current.type \in types
           /\ Current.amount \in Int /\ Current.duration \in Int
           /\ Current.pay \in PaymentIds \cup {0}
<1>1. run.phase # "none" /\ Current.type \in types /\ run.index <= Len(run.commands)
  BY DEF At
<1>2. run # NoRun /\ Sound(run) /\ run.clock \in Nat /\ RunType(run)
  BY <1>1, RunFacts
<1>3. /\ run.commands \in Seq(Commands) /\ run.index \in Nat \ {0}
      /\ \A n \in DOMAIN run.commands : ValidCommand(run.commands[n])
  BY <1>2 DEF RunType
<1>4. run.index \in DOMAIN run.commands
  BY <1>1, <1>3
<1>5. Current \in Commands /\ ValidCommand(Current)
  BY <1>3, <1>4 DEF Current
<1>6. Current.amount \in Int /\ Current.duration \in Int /\ Current.pay \in PaymentIds \cup {0}
  BY <1>5 DEF Commands
<1> QED
  BY <1>1, <1>2, <1>5, <1>6

\* A promise that had come by an earlier time has come.
LEMMA StillCome ==
    ASSUME ReplayInv, NEW p \in PaymentIds, NEW a \in Nat, NEW b \in Nat, a <= b, Come(p, a)
    PROVE  Come(p, b)
<1>1. PICK t \in promised[p] : t <= a
  BY DEF Come
<1>2. t \in Nat
  BY DEF ReplayInv
<1> QED
  BY <1>1, <1>2 DEF Come

\* What a command does before the run proceeds.
LEMMA ProceedsKeeps ==
    ASSUME ReplayInv, run.phase # "none", NEW r, Sound(r), r.cfg = run.cfg,
           run.clock <= r.clock, DOMAIN run.jobs \subseteq DOMAIN r.jobs, r.batch = run.batch,
           \A p \in PaymentIds : r.pays[p].authorized > 0 =>
             run.pays[p].authorized > 0 \/ ~Defers(run.cfg) \/ Come(p, r.clock),
           NEW w, w = Proceed(r) \/ w = r
    PROVE  KeepsPromises(w)
<1>1. Sound(w) /\ SameWorld(r, w)
  BY ProceedKeeps DEF SameWorld
<1>2. run.clock \in Nat /\ r.clock \in Nat
  BY RunFacts, FrameTypes
<1>3. ASSUME NEW p \in PaymentIds, NEW n \in DOMAIN w.batch, w.batch[n] = AsyncId(p)
      PROVE  Come(p, r.clock)
  <2>1. PromiseInv(p)
    BY RunFacts
  <2>2. w.batch = run.batch
    BY <1>1 DEF SameWorld
  <2>3. Come(p, run.clock)
    BY <1>3, <2>1, <2>2 DEF PromiseInv, Come
  <2> QED
    BY <1>2, <2>3, StillCome
<1> QED
  BY <1>1, <1>3 DEF KeepsPromises, SameWorld

\* A payment is created.
LEMMA CreatedKeeps ==
    ASSUME NEW r, Sound(r), NEW p \in PaymentIds, r.pays[p] \notin Payments,
           NEW res, res.err = "none", res.pay \in Payments, Valid(res.pay)
    PROVE  LET w == Changed(r, p, res) IN
           /\ Sound(w) /\ Frame(r, w) /\ w.jobs = r.jobs
           /\ w.pays[p] = res.pay /\ \A q \in PaymentIds \ {p} : w.pays[q] = r.pays[q]
<1> DEFINE y == res.pay
           w == Changed(r, p, res)
           pays == [r.pays EXCEPT ![p] = y]
           sagas == [r.sagas EXCEPT ![p] = r.sagas[p]]
           v == With(r, pays, sagas, r.jobs, r.err)
<1>0. RunType(r) /\ PaymentInv(r, p)
  BY DEF Sound
<1>1. sagas = r.sagas
  BY <1>0, SameParts
<1>2. w = v
  <2>1. [r EXCEPT !.pays[p] = y] = With(r, pays, r.sagas, r.jobs, r.err)
    BY <1>0, Updates
  <2> HIDE DEF pays, sagas
  <2> QED
    BY <1>1, <2>1 DEF Changed
<1>3. v.pays = pays /\ v.sagas = sagas /\ v.jobs = r.jobs /\ v.cfg = r.cfg /\ Frame(r, v)
  BY WithFields, WithFrame
<1>4. pays[p] = y /\ \A q \in PaymentIds \ {p} : pays[q] = r.pays[q]
  BY <1>0 DEF RunType
<1>5. /\ r.sagas[p] \in [saga : ReplayRows, money : Money]
      /\ DOMAIN r.jobs \subseteq JobIds /\ IsFiniteSet(DOMAIN r.jobs)
      /\ \A id \in DOMAIN r.jobs : r.jobs[id] \in Jobs
      /\ OthersKept(r.jobs, r.jobs, p)
  BY <1>0 DEF RunType, OthersKept
<1>6. r.sagas[p].saga \notin {Capturing, Completed, Rejected} /\ AsyncId(p) \notin DOMAIN r.jobs
  <2>1. NoPayment.status # "failed"
    BY DEF NoPayment
  <2>2. r.pays[p] = NoPayment
    BY <1>0 DEF RunType
  <2> QED
    BY <1>0, <2>1, <2>2, NoPaymentIsNone DEF PaymentInv
<1>7. y \in Payments \cup {NoPayment}
  OBVIOUS
<1>10. /\ pays \in [PaymentIds -> Payments \cup {NoPayment}]
       /\ sagas \in [PaymentIds -> [saga : ReplayRows, money : Money]]
       /\ \A q \in PaymentIds \ {p} : sagas[q] = r.sagas[q]
  BY <1>0, <1>1, <1>7 DEF RunType
<1>11. v = With(r, pays, sagas, r.jobs, r.err)
  OBVIOUS
<1> HIDE DEF v, pays, sagas
<1>8. PaymentInv(v, p)
  BY <1>0, <1>1, <1>3, <1>4, <1>6 DEF PaymentInv
<1>9. Sound(v)
  BY <1>4, <1>5, <1>8, <1>10, <1>11, SoundPart
<1> QED
  BY <1>2, <1>3, <1>4, <1>9

\* CreatePayment.
LEMMA CreatePaymentStep ==
    ASSUME ReplayInv, CreatePayment
    PROVE  ReplayInv'
<1> DEFINE p == Current.pay
           res == New(Current.amount, Current.currency)
           r == IF run.pays[p] # NoPayment THEN Raise(run, "already_exists")
                ELSE Changed(run, p, res)
<1>1. /\ run.phase # "none" /\ run # NoRun /\ Sound(run) /\ run.clock \in Nat /\ RunType(run)
      /\ ValidCommand(Current) /\ Current.type = "create_payment" /\ Current.amount \in Int
      /\ p \in PaymentIds \cup {0}
  BY CurrentFacts DEF CreatePayment
<1>2. p \in PaymentIds /\ Current.currency \in Currencies
  BY <1>1 DEF ValidCommand, MoneyError
<1>3. Becomes(Proceed(r))
  BY DEF CreatePayment, Created
<1>4. /\ Sound(r) /\ r.cfg = run.cfg /\ r.clock = run.clock /\ r.jobs = run.jobs
      /\ r.batch = run.batch
      /\ \A q \in PaymentIds : r.pays[q].authorized > 0 => run.pays[q].authorized > 0
  <2>1. CASE run.pays[p] # NoPayment \/ res.err # "none"
    <3>1. \E e : r = Raise(run, e)
      BY <2>1 DEF Changed
    <3> HIDE DEF r
    <3>2. Sound(r) /\ Frame(run, r) /\ r.pays = run.pays /\ r.jobs = run.jobs
      BY <1>1, <3>1, RaiseFrame
    <3> QED
      BY <3>2 DEF Frame
  <2>2. CASE run.pays[p] = NoPayment /\ res.err = "none"
    <3> DEFINE y == res.pay
    <3>1. y \in Payments /\ Valid(y)
      BY <1>1, <1>2, <2>2, NewIsValid
    <3>2. y.authorized = 0
      BY <2>2 DEF New, Ok, Error, NoPayment
    <3>3. r = Changed(run, p, res) /\ y = res.pay /\ res.err = "none"
      BY <2>2
    <3>4. run.pays[p] \notin Payments /\ p \in PaymentIds
      BY <1>2, <2>2, NoPaymentIsNone
    <3> HIDE DEF y, r, p, res
    <3>5. /\ Sound(r) /\ Frame(run, r) /\ r.jobs = run.jobs
          /\ r.pays[p] = y /\ \A q \in PaymentIds \ {p} : r.pays[q] = run.pays[q]
      BY <1>1, <3>1, <3>3, <3>4, CreatedKeeps
    <3> QED
      BY <3>2, <3>5 DEF Frame
  <2> QED
    BY <2>1, <2>2
<1> HIDE DEF r
<1>5. KeepsPromises(Proceed(r))
  BY <1>1, <1>4, ProceedsKeeps
<1> QED
  BY <1>1, <1>3, <1>5, BecomesKeeps

\* A deferred operation is reported.
LEMMA ReportedKeeps ==
    ASSUME NEW r, Sound(r), NEW p \in PaymentIds, AsyncId(p) \in DOMAIN r.jobs,
           NEW op \in Ops, op.pay = p
    PROVE  LET w == [r EXCEPT !.ops = Append(@, op)] IN
           /\ Sound(w) /\ w.cfg = r.cfg /\ w.clock = r.clock /\ w.jobs = r.jobs
           /\ w.batch = r.batch /\ w.pays = r.pays
<1> DEFINE ops == Append(r.ops, op)
           w == [r EXCEPT !.ops = Append(@, op)]
<1>1. /\ RunType(r) /\ r.phase \in {"command", "find", "dispatch", "failed"}
      /\ r.index \in Nat \ {0} /\ r.clock \in Nat /\ r.ops \in Seq(Ops)
      /\ r.batch \in Seq(DOMAIN r.jobs)
      /\ \A n \in DOMAIN r.ops : AsyncId(r.ops[n].pay) \in DOMAIN r.jobs
  BY FrameTypes
<1>2. r = Framed(r, r.phase, r.index, r.clock, r.ops, r.ticks, r.batch, r.err)
  BY FrameTypes
<1>3. w = [r EXCEPT !.ops = ops]
  OBVIOUS
<1>5. ops \in Seq(Ops) /\ \A n \in DOMAIN ops : AsyncId(ops[n].pay) \in DOMAIN r.jobs
  <2>1. ops \in Seq(Ops) /\ Len(ops) = Len(r.ops) + 1 /\ ops[Len(r.ops) + 1] = op
        /\ \A n \in 1..Len(r.ops) : ops[n] = r.ops[n]
    BY <1>1
  <2> QED
    BY <1>1, <2>1
<1> HIDE DEF ops
<1>6. w = Framed(r, r.phase, r.index, r.clock, ops, r.ticks, r.batch, r.err)
  BY <1>2, <1>3 DEF Framed
<1> HIDE DEF w
<1>7. Sound(w)
  BY <1>1, <1>5, <1>6, FramedKeeps
<1>8. /\ w.cfg = r.cfg /\ w.clock = r.clock /\ w.jobs = r.jobs
      /\ w.batch = r.batch /\ w.pays = r.pays
  BY <1>6, FramedFields
<1> QED
  BY <1>7, <1>8 DEF w

\* What a run may become without anything being resumed.
Unresumed(r, w) ==
    /\ Sound(w) /\ w.cfg = r.cfg /\ w.clock = r.clock /\ w.batch = r.batch
    /\ DOMAIN r.jobs \subseteq DOMAIN w.jobs
    /\ \A q \in PaymentIds : w.pays[q].authorized > 0 =>
         r.pays[q].authorized > 0 \/ ~Defers(r.cfg)

\* An error is such a change.
LEMMA RaiseUnresumed ==
    ASSUME NEW r, Sound(r), NEW e
    PROVE  Unresumed(r, Raise(r, e))
<1> DEFINE w == Raise(r, e)
<1>1. Sound(w) /\ Frame(r, w) /\ w.pays = r.pays /\ w.jobs = r.jobs
  BY RaiseFrame
<1> HIDE DEF w
<1> QED
  BY <1>1 DEF Unresumed, Frame, w

\* The answer of the provider to an operation.
LEMMA ApplyKeeps ==
    ASSUME NEW r, Sound(r), NEW p \in PaymentIds, r.pays[p] \in Payments,
           NEW op \in SagaSteps, NEW a \in Int, NEW c, NEW out, out = Outcome(r.cfg, op),
           NEW w, w = Apply(r, op, p, a, c, out)
    PROVE  /\ Unresumed(r, w)
           /\ out = "pending" => op = "authorize" /\ AsyncId(p) \in DOMAIN w.jobs
<1> DEFINE y == r.pays[p]
           res == IF out = "failed" THEN Fail(y) ELSE CommandOf(y, op, a, c)
           v == Changed(r, p, res)
<1>0. RunType(r) /\ PaymentInv(r, p) /\ Valid(y)
  BY NoPaymentIsNone DEF Sound, PaymentInv
<1>1. /\ out \in {"succeeded", "failed", "pending"}
      /\ out # "succeeded" => op = "authorize"
      /\ op = "authorize" => (Defers(r.cfg) <=> out = "pending")
  BY Answers DEF SagaSteps, Defers
<1>2. CASE out = "pending"
  <2>1. op = "authorize" /\ Defers(r.cfg)
    BY <1>1, <1>2
  <2>2. w = PutJob(r, AsyncId(p), JobOf("provider.async", "authorize", Nothing, r.clock + Delay(r.cfg)))
    BY <1>2, <2>1 DEF Apply
  <2>3. /\ Sound(w) /\ Frame(r, w) /\ w.pays = r.pays
        /\ DOMAIN w.jobs = DOMAIN r.jobs \cup {AsyncId(p)}
    BY <2>1, <2>2, DeferKeeps
  <2> QED
    BY <2>1, <2>3 DEF Unresumed, Frame
<1>3. CASE out # "pending"
  <2>1. w = v
    BY <1>1, <1>3 DEF Apply
  <2>2. ASSUME res.err = "none"
        PROVE  /\ Moved(y, res.pay)
               /\ res.pay.authorized > 0 => y.authorized > 0 \/ ~Defers(r.cfg)
    <3>1. CASE out = "failed"
      <4>1. res = Fail(y)
        BY <3>1
      <4> QED
        BY <1>0, <2>2, <4>1, FailMoves
    <3>2. CASE out # "failed"
      <4>1. res = CommandOf(y, op, a, c)
        BY <3>2
      <4>2. Moved(y, res.pay) /\ (op # "authorize" => y.authorized > 0)
        BY <1>0, <2>2, <4>1, CommandMoves
      <4> HIDE DEF res
      <4> QED
        BY <1>1, <1>3, <4>2
    <3> QED
      BY <3>1, <3>2
  <2> HIDE DEF res
  <2>3. /\ Sound(v) /\ Frame(r, v) /\ v.jobs = r.jobs
        /\ v.pays = IF res.err = "none" THEN [r.pays EXCEPT ![p] = res.pay] ELSE r.pays
    BY <2>2, ChangedKeeps
  <2> HIDE DEF v
  <2>4. v.pays[p] = (IF res.err = "none" THEN res.pay ELSE y)
        /\ \A q \in PaymentIds \ {p} : v.pays[q] = r.pays[q]
    BY <1>0, <2>3 DEF RunType
  <2>5. \A q \in PaymentIds : v.pays[q].authorized > 0 =>
          r.pays[q].authorized > 0 \/ ~Defers(r.cfg)
    BY <2>2, <2>4
  <2> QED
    BY <1>3, <2>1, <2>3, <2>5 DEF Unresumed, Frame
<1> QED
  BY <1>2, <1>3

\* A command that resumes nothing keeps the invariant.
LEMMA UnresumedKeeps ==
    ASSUME ReplayInv, run.phase # "none", NEW r, Unresumed(run, r), Becomes(Proceed(r))
    PROVE  ReplayInv'
<1>1. run # NoRun /\ run.clock \in Nat
  BY RunFacts
<1>2. KeepsPromises(Proceed(r))
  BY <1>1, ProceedsKeeps DEF Unresumed
<1> QED
  BY <1>1, <1>2, BecomesKeeps

\* authorize, capture, refund, cancel.
LEMMA OperateStep ==
    ASSUME ReplayInv, Operate
    PROVE  ReplayInv'
<1> DEFINE op == Current.type
           p == Current.pay
           a == Current.amount
           c == Current.currency
           out == Outcome(run.cfg, op)
           r == Apply(run, op, p, a, c, out)
           done == [pay |-> p, type |-> op, due |-> r.clock + Delay(r.cfg)]
           told == [r EXCEPT !.ops = Append(@, done)]
           w == IF run.pays[p] = NoPayment THEN Raise(run, "not_found")
                ELSE IF op \in {"capture", "refund"} /\ AmountRefused(run.pays[p].currency, a, c)
                THEN Raise(run, "operation_amount")
                ELSE IF out = "pending" THEN told ELSE r
<1>1. /\ run.phase # "none" /\ Sound(run) /\ RunType(run) /\ ValidCommand(Current)
      /\ op \in {"authorize", "capture", "refund", "cancel"} /\ a \in Int
      /\ p \in PaymentIds \cup {0}
  BY CurrentFacts DEF Operate
<1>2. p \in PaymentIds /\ op \in SagaSteps
  BY <1>1 DEF ValidCommand, SagaSteps
<1>3. Becomes(Proceed(w))
  BY DEF Operate, Operated
<1>4. out = Outcome(run.cfg, op) /\ r = Apply(run, op, p, a, c, out)
  OBVIOUS
<1> HIDE DEF r, out, op, p, a, c
<1>5. Unresumed(run, w)
  <2>1. CASE run.pays[p] = NoPayment \/ (op \in {"capture", "refund"} /\ AmountRefused(run.pays[p].currency, a, c))
    <3>1. \E e : w = Raise(run, e)
      BY <2>1
    <3> HIDE DEF w
    <3> QED
      BY <1>1, <3>1, RaiseUnresumed
  <2>2. CASE ~(run.pays[p] = NoPayment \/ (op \in {"capture", "refund"} /\ AmountRefused(run.pays[p].currency, a, c)))
    <3>1. run.pays[p] \in Payments
      BY <1>1, <1>2, <2>2 DEF RunType
    <3>2. /\ Unresumed(run, r)
          /\ out = "pending" => op = "authorize" /\ AsyncId(p) \in DOMAIN r.jobs
      BY <1>1, <1>2, <1>4, <3>1, ApplyKeeps
    <3>3. CASE out # "pending"
      BY <2>2, <3>2, <3>3
    <3>4. CASE out = "pending"
      <4>1. w = told /\ Sound(r) /\ AsyncId(p) \in DOMAIN r.jobs /\ op = "authorize"
        BY <2>2, <3>2, <3>4 DEF Unresumed
      <4>2. done \in Ops /\ done.pay = p
        <5>1. RunType(r)
          BY <4>1, FrameTypes
        <5>2. r.clock + Delay(r.cfg) \in Nat
          BY <5>1, Amounts
        <5> QED
          BY <1>2, <4>1, <5>2 DEF Ops
      <4> HIDE DEF done
      <4>3. /\ Sound(told) /\ told.cfg = r.cfg /\ told.clock = r.clock /\ told.jobs = r.jobs
            /\ told.batch = r.batch /\ told.pays = r.pays
        BY <1>2, <4>1, <4>2, ReportedKeeps
      <4> HIDE DEF told
      <4>4. Unresumed(run, told)
        BY <3>2, <4>3 DEF Unresumed
      <4> QED
        BY <4>1, <4>4
    <3> QED
      BY <3>3, <3>4
  <2> QED
    BY <2>1, <2>2
<1> HIDE DEF w
<1> QED
  BY <1>1, <1>3, <1>5, UnresumedKeeps

\* AdvanceTime: the clock moves forward.
LEMMA AdvanceTimeStep ==
    ASSUME ReplayInv, AdvanceTime
    PROVE  ReplayInv'
<1> DEFINE clock == run.clock + Current.duration
           r == [run EXCEPT !.clock = clock]
<1>1. /\ run.phase # "none" /\ run # NoRun /\ Sound(run) /\ run.clock \in Nat
      /\ ValidCommand(Current) /\ Current.type = "advance_time" /\ Current.duration \in Int
  BY CurrentFacts DEF AdvanceTime
<1>2. clock \in Nat /\ run.clock <= clock
  BY <1>1 DEF ValidCommand
<1>3. Becomes(Proceed(r))
  BY DEF AdvanceTime
<1>4. /\ run.phase \in {"command", "find", "dispatch", "failed"} /\ run.index \in Nat \ {0}
      /\ run.ops \in Seq(Ops) /\ run.batch \in Seq(DOMAIN run.jobs)
      /\ \A n \in DOMAIN run.ops : AsyncId(run.ops[n].pay) \in DOMAIN run.jobs
  BY <1>1, FrameTypes
<1> HIDE DEF clock
<1>5. r = Framed(run, run.phase, run.index, clock, run.ops, run.ticks, run.batch, run.err)
  <2>1. run = Framed(run, run.phase, run.index, run.clock, run.ops, run.ticks, run.batch, run.err)
    BY <1>1, FrameTypes
  <2> QED
    BY <2>1 DEF Framed
<1> HIDE DEF r
<1>6. Sound(r)
  BY <1>1, <1>2, <1>4, <1>5, FramedKeeps
<1>7. /\ r.pays = run.pays /\ r.jobs = run.jobs /\ r.cfg = run.cfg /\ r.clock = clock
      /\ r.batch = run.batch
  BY <1>5, FramedFields
<1>8. KeepsPromises(Proceed(r))
  BY <1>1, <1>2, <1>6, <1>7, ProceedsKeeps
<1> QED
  BY <1>1, <1>3, <1>8, BecomesKeeps

\* ExecuteAsync: an operation is resumed when it is due.
LEMMA ExecuteAsyncStep ==
    ASSUME ReplayInv, ExecuteAsync
    PROVE  ReplayInv'
<1> DEFINE id == Current.operation
           w == IF id \notin DOMAIN run.jobs THEN Raise(run, "async_not_found")
                ELSE IF run.jobs[id].status = "pending" /\ run.jobs[id].due > run.clock
                THEN Raise(run, "async_not_due")
                ELSE Executed(run, id)
<1>1. run.phase # "none" /\ run # NoRun /\ Sound(run) /\ run.clock \in Nat /\ RunType(run)
  BY CurrentFacts DEF ExecuteAsync
<1>2. Becomes(Proceed(w))
  BY DEF ExecuteAsync, Resumed
<1> HIDE DEF id
<1>3. CASE id \notin DOMAIN run.jobs \/ (run.jobs[id].status = "pending" /\ run.jobs[id].due > run.clock)
  <2>1. \E e : w = Raise(run, e)
    BY <1>3
  <2> HIDE DEF w
  <2> QED
    BY <1>1, <1>2, <2>1, RaiseUnresumed, UnresumedKeeps
<1>4. CASE ~(id \notin DOMAIN run.jobs \/ (run.jobs[id].status = "pending" /\ run.jobs[id].due > run.clock))
  <2>1. w = Executed(run, id) /\ id \in DOMAIN run.jobs
        /\ ~(run.jobs[id].status = "pending" /\ run.jobs[id].due > run.clock)
    BY <1>4
  <2> HIDE DEF w
  <2>2. /\ Sound(w) /\ Frame(run, w) /\ DOMAIN run.jobs \subseteq DOMAIN w.jobs
        /\ \A q \in PaymentIds : w.pays[q].authorized > 0 =>
             \/ run.pays[q].authorized > 0 \/ ~Defers(run.cfg)
             \/ id = AsyncId(q) /\ run.jobs[id].status = "pending"
    BY <1>1, <2>1, ExecutedKeeps
  <2>3. w.cfg = run.cfg /\ w.clock = run.clock /\ w.batch = run.batch
    BY <2>2 DEF Frame
  <2>4. ASSUME NEW q \in PaymentIds, id = AsyncId(q), run.jobs[id].status = "pending"
        PROVE  Come(q, run.clock)
    <3>1. PromiseInv(q)
      BY <1>1, RunFacts
    <3>2. run.jobs[id].due \in promised[q]
      BY <2>1, <2>4, <3>1 DEF PromiseInv
    <3>3. run.jobs[id].due \in Nat
      BY <1>1, <2>1 DEF RunType, Jobs
    <3> QED
      BY <1>1, <2>1, <2>4, <3>2, <3>3 DEF Come
  <2>5. KeepsPromises(Proceed(w))
    BY <1>1, <2>2, <2>3, <2>4, ProceedsKeeps
  <2> QED
    BY <1>1, <1>2, <2>5, BecomesKeeps
<1> QED
  BY <1>3, <1>4

\* A saga is started, or started again, with its first message.
LEMMA StartedKeeps ==
    ASSUME NEW r, Sound(r), NEW p \in PaymentIds, NEW money \in Money
    PROVE  Unresumed(r, Started(r, p, money))
<1> DEFINE c == [saga |-> NewSaga, money |-> money]
           v == [r EXCEPT !.sagas[p] = c, !.ticks = 2, !.phase = "find"]
           job == JobOf("saga.step", "authorize", money, r.clock)
           w == PutJob(v, MessageId(p, NewSaga), JobOf("saga.step", "authorize", money, v.clock))
           sagas == [r.sagas EXCEPT ![p] = c]
           jobs == Put(r.jobs, StartId(p), job)
           u == With(r, r.pays, sagas, jobs, r.err)
<1>0. RunType(r) /\ PaymentInv(r, p)
  BY DEF Sound
<1>1. /\ r.index \in Nat \ {0} /\ r.clock \in Nat /\ r.ops \in Seq(Ops)
      /\ r.batch \in Seq(DOMAIN r.jobs)
      /\ \A n \in DOMAIN r.ops : AsyncId(r.ops[n].pay) \in DOMAIN r.jobs
  BY FrameTypes
<1>2. job \in Jobs /\ job.type = "saga.step" /\ job.step = "authorize"
  BY <1>1, JobOfParts
<1>3. c \in [saga : ReplayRows, money : Money] /\ c.saga = NewSaga
  BY DEF ReplayRows
<1>4. /\ sagas \in [PaymentIds -> [saga : ReplayRows, money : Money]] /\ sagas[p] = c
      /\ \A q \in PaymentIds \ {p} : r.pays[q] = r.pays[q] /\ sagas[q] = r.sagas[q]
  <2> HIDE DEF c
  <2> QED
    BY <1>0, <1>3 DEF RunType
<1>5. v.clock = r.clock
  BY <1>0 DEF RunType
<1>6. w = Framed(u, "find", r.index, r.clock, r.ops, 2, r.batch, r.err)
  <2>1. r = With(r, r.pays, r.sagas, r.jobs, r.err)
    BY <1>0, Updates
  <2>2. w = PutJob(v, StartId(p), job)
    BY <1>5 DEF StartId
  <2> HIDE DEF job, c, w
  <2>3. v = Framed(With(r, r.pays, sagas, r.jobs, r.err), "find", r.index, r.clock, r.ops, 2, r.batch, r.err)
    <3> DEFINE z == With(r, r.pays, sagas, r.jobs, r.err)
    <3>1. [r EXCEPT !.sagas[p] = c] = z
      BY <2>1 DEF With
    <3>2. v = [[[r EXCEPT !.sagas[p] = c] EXCEPT !.ticks = 2] EXCEPT !.phase = "find"]
      OBVIOUS
    <3> HIDE DEF sagas, v
    <3>3. v = [[z EXCEPT !.ticks = 2] EXCEPT !.phase = "find"]
      BY <3>1, <3>2
    <3> QED
      BY <3>3 DEF With, Framed
  <2> HIDE DEF v, sagas
  <2> QED
    BY <2>2, <2>3 DEF PutJob, With, Framed, Put
<1> HIDE DEF job, c, v, w
<1>7. /\ DOMAIN jobs = DOMAIN r.jobs \cup {StartId(p)} /\ jobs[StartId(p)] = job
      /\ \A k \in DOMAIN r.jobs : k # StartId(p) => jobs[k] = r.jobs[k]
  BY DEF Put
<1>8. OthersKept(jobs, r.jobs, p)
  BY PutKeepsOthers DEF OthersKept
<1>9. /\ DOMAIN jobs \subseteq JobIds /\ IsFiniteSet(DOMAIN jobs)
      /\ \A k \in DOMAIN jobs : jobs[k] \in Jobs
  <2>1. StartId(p) \in JobIds
    BY DEF JobIds
  <2>2. jobs = Put(r.jobs, StartId(p), job)
    OBVIOUS
  <2> HIDE DEF jobs
  <2> QED
    BY <1>0, <1>2, <2>1, <2>2, PutFacts, Zenon
<1> HIDE DEF jobs, sagas
<1>10. u.pays = r.pays /\ u.sagas = sagas /\ u.jobs = jobs /\ u.cfg = r.cfg
  BY WithFields
<1>11. u = With(r, r.pays, sagas, jobs, r.err)
  OBVIOUS
<1> HIDE DEF u
<1>12. PaymentInv(u, p)
  <2>1. AsyncId(p) # StartId(p) /\ CaptureId(p) # StartId(p)
    BY IdsDiffer
  <2>2. NewSaga \notin {NoSaga, Capturing, Completed, Rejected}
    BY RowFacts
  <2> QED
    BY <1>0, <1>2, <1>3, <1>4, <1>7, <1>10, <2>1, <2>2 DEF PaymentInv
<1>13. Sound(u)
  <2>1. r.pays \in [PaymentIds -> Payments \cup {NoPayment}]
    BY <1>0 DEF RunType
  <2>2. DOMAIN r.jobs \subseteq DOMAIN jobs
    BY <1>7
  <2> QED
    BY <1>4, <1>8, <1>9, <1>11, <1>12, <2>1, <2>2, SoundPart
<1>14. Sound(w)
  <2>1. r.batch \in Seq(DOMAIN u.jobs) /\ \A n \in DOMAIN r.ops : AsyncId(r.ops[n].pay) \in DOMAIN u.jobs
    BY <1>1, <1>7, <1>10
  <2> QED
    BY <1>1, <1>6, <1>13, <2>1, FramedKeeps
<1>15. w.pays = r.pays /\ w.jobs = jobs /\ w.cfg = r.cfg /\ w.clock = r.clock /\ w.batch = r.batch
  BY <1>6, <1>10, FramedFields
<1> QED
  BY <1>7, <1>14, <1>15 DEF Unresumed, Started, w, v, c

\* StartPaymentSaga.
LEMMA StartPaymentSagaStep ==
    ASSUME ReplayInv, StartPaymentSaga
    PROVE  ReplayInv'
<1> DEFINE p == Current.pay
           money == <<Current.amount, Current.currency>>
           w == Started(run, p, money)
<1>1. /\ run.phase # "none" /\ run # NoRun /\ Sound(run) /\ run.clock \in Nat
      /\ ValidCommand(Current) /\ Current.type = "start_payment_saga" /\ Current.amount \in Int
      /\ p \in PaymentIds \cup {0}
  BY CurrentFacts DEF StartPaymentSaga
<1>2. p \in PaymentIds /\ money \in Money
  BY <1>1 DEF ValidCommand, MoneyError, Money
<1>3. Becomes(w)
  BY DEF StartPaymentSaga
<1> HIDE DEF p, money
<1>4. Unresumed(run, w)
  BY <1>1, <1>2, StartedKeeps
<1> HIDE DEF w
<1>5. KeepsPromises(w)
  BY <1>1, <1>4, ProceedsKeeps DEF Unresumed
<1> QED
  BY <1>1, <1>3, <1>5, BecomesKeeps

\* The jobs a tick finds.
DueJobs(r) == {id \in DOMAIN r.jobs : r.jobs[id].status = "pending" /\ r.jobs[id].due <= r.clock}
Found(r) == IF Cardinality(DueJobs(r)) < BatchSize THEN Cardinality(DueJobs(r)) ELSE BatchSize

\* They are finitely many, and a batch lists some of them.
LEMMA BatchFacts ==
    ASSUME NEW r, Sound(r)
    PROVE  /\ IsFiniteSet(DueJobs(r)) /\ Cardinality(DueJobs(r)) \in Nat /\ Found(r) \in Nat
           /\ \A b \in Batches(r) :
                /\ b \in [1..Found(r) -> DueJobs(r)] /\ b \in Seq(DOMAIN r.jobs)
                /\ Len(b) = Found(r) /\ \A n \in DOMAIN b : b[n] \in DueJobs(r)
<1>1. IsFiniteSet(DOMAIN r.jobs)
  BY DEF Sound, RunType
<1>2. DueJobs(r) \subseteq DOMAIN r.jobs
  BY DEF DueJobs
<1>3. IsFiniteSet(DueJobs(r))
  BY <1>1, <1>2, FS_Subset
<1>4. Cardinality(DueJobs(r)) \in Nat
  BY <1>3, FS_CardinalityType
<1>5. Found(r) \in Nat
  BY <1>4, ReplayAssumption DEF Found
<1>6. ASSUME NEW b \in Batches(r)
      PROVE  /\ b \in [1..Found(r) -> DueJobs(r)] /\ b \in Seq(DOMAIN r.jobs)
             /\ Len(b) = Found(r) /\ \A n \in DOMAIN b : b[n] \in DueJobs(r)
  <2>1. b \in [1..Found(r) -> DueJobs(r)]
    BY DEF Batches, Found, DueJobs
  <2>2. \A n \in 1..Found(r) : b[n] \in DueJobs(r)
    BY <2>1
  <2>3. b \in [1..Found(r) -> DOMAIN r.jobs]
    BY <1>2, <2>1
  <2>4. b \in Seq(DOMAIN r.jobs) /\ Len(b) = Found(r) /\ DOMAIN b = 1..Found(r)
    BY <1>5, <2>3
  <2> QED
    BY <2>1, <2>2, <2>4
<1> QED
  BY <1>3, <1>4, <1>5, <1>6

\* FindExecutable: what the tick will resume is due.
LEMMA FindExecutableStep ==
    ASSUME ReplayInv, FindExecutable
    PROVE  ReplayInv'
<1>1. PICK b \in Batches(run) :
        Becomes([run EXCEPT !.batch = b, !.phase = "dispatch", !.ticks = @ - 1])
  BY DEF FindExecutable
<1>2. run.phase # "none"
  BY DEF FindExecutable
<1>3. run # NoRun /\ Sound(run) /\ run.clock \in Nat /\ RunType(run)
  BY <1>2, RunFacts
<1> DEFINE ticks == run.ticks - 1
           w == [run EXCEPT !.batch = b, !.phase = "dispatch", !.ticks = ticks]
<1>4. Becomes(w)
  BY <1>1
<1> HIDE DEF ticks
<1>5. w = Framed(run, "dispatch", run.index, run.clock, run.ops, ticks, b, run.err)
  <2> DEFINE z == Framed(run, run.phase, run.index, run.clock, run.ops, run.ticks, run.batch, run.err)
  <2>1. run = z
    BY <1>3, FrameTypes
  <2>2. w = [[[run EXCEPT !.batch = b] EXCEPT !.phase = "dispatch"] EXCEPT !.ticks = ticks]
    OBVIOUS
  <2> HIDE DEF w
  <2>3. w = [[[z EXCEPT !.batch = b] EXCEPT !.phase = "dispatch"] EXCEPT !.ticks = ticks]
    BY <2>1, <2>2
  <2> QED
    BY <2>3 DEF Framed
<1> HIDE DEF w
<1>6. b \in Seq(DOMAIN run.jobs) /\ \A n \in DOMAIN b : b[n] \in DueJobs(run)
  BY <1>3, BatchFacts
<1>7. Sound(w)
  <2>1. /\ run.index \in Nat \ {0} /\ run.ops \in Seq(Ops)
        /\ \A n \in DOMAIN run.ops : AsyncId(run.ops[n].pay) \in DOMAIN run.jobs
    BY <1>3, FrameTypes
  <2> QED
    BY <1>3, <1>5, <1>6, <2>1, FramedKeeps
<1>8. /\ w.pays = run.pays /\ w.jobs = run.jobs /\ w.cfg = run.cfg /\ w.clock = run.clock
      /\ w.batch = b
  BY <1>5, FramedFields
<1>9. ASSUME NEW p \in PaymentIds, NEW n \in DOMAIN b, b[n] = AsyncId(p)
      PROVE  Come(p, run.clock)
  <2>1. PromiseInv(p)
    BY <1>2, RunFacts
  <2>2. AsyncId(p) \in DOMAIN run.jobs /\ run.jobs[AsyncId(p)].due <= run.clock
    BY <1>6, <1>9 DEF DueJobs
  <2> QED
    BY <2>1, <2>2 DEF PromiseInv, Come
<1>10. KeepsPromises(w)
  BY <1>3, <1>7, <1>8, <1>9 DEF KeepsPromises
<1> QED
  BY <1>3, <1>4, <1>10, BecomesKeeps

\* The first member of a batch, and the rest.
LEMMA HeadAndTail ==
    ASSUME NEW S, NEW s \in Seq(S), s # <<>>
    PROVE  /\ Head(s) \in S /\ Head(s) = s[1] /\ 1 \in DOMAIN s
           /\ Tail(s) \in Seq(S)
           /\ \A n \in DOMAIN Tail(s) : n + 1 \in DOMAIN s /\ Tail(s)[n] = s[n + 1]
<1>1. Len(s) \in Nat /\ Len(s) # 0 /\ DOMAIN s = 1..Len(s)
  BY EmptySeq
<1>2. Tail(s) \in Seq(S) /\ Len(Tail(s)) = Len(s) - 1
      /\ \A n \in 1..Len(Tail(s)) : Tail(s)[n] = s[n + 1]
  BY HeadTailProperties
<1>3. DOMAIN Tail(s) = 1..Len(Tail(s)) /\ Len(Tail(s)) \in Nat
  BY <1>2
<1>4. Head(s) = s[1] /\ 1 \in DOMAIN s /\ s[1] \in S
  BY <1>1
<1> QED
  BY <1>1, <1>2, <1>3, <1>4

\* Dispatch: the next job of the batch.
LEMMA DispatchStep ==
    ASSUME ReplayInv, Dispatch
    PROVE  ReplayInv'
<1> DEFINE r == Raise(run, "none")
           id == Head(run.batch)
           v == Executed(r, id)
           rest == Tail(run.batch)
           err == IF run.err = "none" THEN v.err ELSE run.err
           w == [v EXCEPT !.batch = rest, !.err = err]
<1>1. run.phase = "dispatch" /\ run.phase # "none" /\ run.batch # <<>> /\ Becomes(w)
  BY DEF Dispatch, Dispatched
<1>2. run # NoRun /\ Sound(run) /\ run.clock \in Nat /\ RunType(run)
  BY <1>1, RunFacts
<1>3. Sound(r) /\ Frame(run, r) /\ r.pays = run.pays /\ r.jobs = run.jobs
  BY <1>2, RaiseFrame
<1>4. run.batch \in Seq(DOMAIN run.jobs)
  BY <1>2, FrameTypes
<1>5. /\ id \in DOMAIN run.jobs /\ id = run.batch[1] /\ 1 \in DOMAIN run.batch
      /\ rest \in Seq(DOMAIN run.jobs)
      /\ \A n \in DOMAIN rest : n + 1 \in DOMAIN run.batch /\ rest[n] = run.batch[n + 1]
  BY <1>1, <1>4, HeadAndTail
<1> HIDE DEF r, id, rest
<1>6. /\ Sound(v) /\ Frame(r, v) /\ DOMAIN r.jobs \subseteq DOMAIN v.jobs
      /\ \A q \in PaymentIds : v.pays[q].authorized > 0 =>
           \/ r.pays[q].authorized > 0 \/ ~Defers(r.cfg)
           \/ id = AsyncId(q) /\ r.jobs[id].status = "pending"
  BY <1>3, <1>5, ExecutedKeeps
<1>7. /\ v.cfg = run.cfg /\ v.clock = run.clock /\ r.cfg = run.cfg
  BY <1>3, <1>6 DEF Frame
<1> HIDE DEF v, err
<1>8. /\ v.phase \in {"command", "find", "dispatch", "failed"}
      /\ v.index \in Nat \ {0} /\ v.clock \in Nat /\ v.ops \in Seq(Ops)
      /\ \A n \in DOMAIN v.ops : AsyncId(v.ops[n].pay) \in DOMAIN v.jobs
  BY <1>6, FrameTypes
<1>9. w = Framed(v, v.phase, v.index, v.clock, v.ops, v.ticks, rest, err)
  <2> DEFINE z == Framed(v, v.phase, v.index, v.clock, v.ops, v.ticks, v.batch, v.err)
  <2>1. v = z
    BY <1>6, FrameTypes
  <2>2. w = [[v EXCEPT !.batch = rest] EXCEPT !.err = err]
    OBVIOUS
  <2> HIDE DEF w
  <2>3. w = [[z EXCEPT !.batch = rest] EXCEPT !.err = err]
    BY <2>1, <2>2
  <2> QED
    BY <2>3 DEF Framed
<1> HIDE DEF w
<1>10. Sound(w)
  <2>1. rest \in Seq(DOMAIN v.jobs)
    BY <1>3, <1>5, <1>6
  <2> QED
    BY <1>6, <1>8, <1>9, <2>1, FramedKeeps
<1>11. w.pays = v.pays /\ w.jobs = v.jobs /\ w.cfg = v.cfg /\ w.clock = v.clock /\ w.batch = rest
  BY <1>9, FramedFields
<1>12. ASSUME NEW p \in PaymentIds, NEW n \in DOMAIN run.batch, run.batch[n] = AsyncId(p)
       PROVE  Come(p, run.clock)
  <2>1. PromiseInv(p)
    BY <1>1, RunFacts
  <2> QED
    BY <1>12, <2>1 DEF PromiseInv, Come
<1>13. \A p \in PaymentIds : \A n \in DOMAIN w.batch : w.batch[n] = AsyncId(p) => Come(p, w.clock)
  BY <1>5, <1>7, <1>11, <1>12
<1>14. \A p \in PaymentIds : w.pays[p].authorized > 0 =>
         run.pays[p].authorized > 0 \/ ~Defers(run.cfg) \/ Come(p, w.clock)
  BY <1>3, <1>5, <1>6, <1>7, <1>11, <1>12
<1>15. KeepsPromises(w)
  BY <1>2, <1>3, <1>6, <1>7, <1>10, <1>11, <1>13, <1>14 DEF KeepsPromises
<1> QED
  BY <1>1, <1>2, <1>15, BecomesKeeps

\* EndTick: the second tick, or the end of the command.
LEMMA EndTickStep ==
    ASSUME ReplayInv, EndTick
    PROVE  ReplayInv'
<1> DEFINE v == [run EXCEPT !.phase = "find"]
           w == IF run.err = "none" /\ run.ticks > 0 THEN v ELSE Proceed(run)
<1>1. run.phase # "none" /\ Becomes(w)
  BY DEF EndTick
<1>2. run # NoRun /\ Sound(run) /\ run.clock \in Nat
  BY <1>1, RunFacts
<1>3. v = Framed(run, "find", run.index, run.clock, run.ops, run.ticks, run.batch, run.err)
  <2>1. run = Framed(run, run.phase, run.index, run.clock, run.ops, run.ticks, run.batch, run.err)
    BY <1>2, FrameTypes
  <2> QED
    BY <2>1 DEF Framed
<1> HIDE DEF v
<1>4. Sound(v)
  <2>1. /\ run.index \in Nat \ {0} /\ run.ops \in Seq(Ops) /\ run.batch \in Seq(DOMAIN run.jobs)
        /\ \A n \in DOMAIN run.ops : AsyncId(run.ops[n].pay) \in DOMAIN run.jobs
    BY <1>2, FrameTypes
  <2> QED
    BY <1>2, <1>3, <2>1, FramedKeeps
<1>5. /\ v.pays = run.pays /\ v.jobs = run.jobs /\ v.cfg = run.cfg /\ v.clock = run.clock
      /\ v.batch = run.batch
  BY <1>3, FramedFields
<1>6. KeepsPromises(v)
  BY <1>1, <1>2, <1>4, <1>5, ProceedsKeeps
<1>7. KeepsPromises(Proceed(run))
  BY <1>1, <1>2, ProceedsKeeps
<1>8. KeepsPromises(w)
  BY <1>6, <1>7
<1> HIDE DEF w
<1> QED
  BY <1>1, <1>2, <1>8, BecomesKeeps

\* A new run is sound.
LEMMA NewRunKeeps ==
    ASSUME NEW s \in Scenarios, ValidScenario(s)
    PROVE  /\ Sound(NewRun(s)) /\ NewRun(s).pays = s.payments
           /\ DOMAIN NewRun(s).jobs = {} /\ DOMAIN NewRun(s).batch = {}
<1> DEFINE w == NewRun(s)
<1>1. /\ w.phase = "command" /\ w.cfg = Configure(s.provider, s.profile, s.seed)
      /\ w.commands = s.commands /\ w.index = 1 /\ w.pays = s.payments
      /\ w.sagas = [p \in PaymentIds |-> [saga |-> NoSaga, money |-> Nothing]]
      /\ w.jobs = <<>> /\ w.clock = 0 /\ w.ops = <<>> /\ w.batch = <<>>
  BY DEF NewRun
<1>2. w = [phase |-> w.phase, cfg |-> w.cfg, commands |-> w.commands, index |-> w.index,
           pays |-> w.pays, sagas |-> w.sagas, jobs |-> w.jobs, clock |-> w.clock,
           ops |-> w.ops, ticks |-> w.ticks, batch |-> w.batch, err |-> w.err]
  BY DEF NewRun
<1> HIDE DEF w
<1>3. DOMAIN w.jobs = {} /\ DOMAIN w.batch = {} /\ DOMAIN w.ops = {}
  BY <1>1
<1>4. w.cfg.seed \in Nat /\ w.commands \in Seq(Commands)
      /\ w.pays \in [PaymentIds -> Payments \cup {NoPayment}]
  <2>1. s.seed \in Nat /\ s.commands \in Seq(Commands)
        /\ s.payments \in [PaymentIds -> Payments \cup {NoPayment}]
    BY DEF Scenarios
  <2>2. Configure(s.provider, s.profile, s.seed).seed = s.seed
    BY DEF Configure
  <2> QED
    BY <1>1, <2>1, <2>2
<1>5. w.sagas \in [PaymentIds -> [saga : ReplayRows, money : Money]]
      /\ \A p \in PaymentIds : w.sagas[p].saga = NoSaga
  <2>1. NoSaga \in ReplayRows /\ Nothing \in Money
    BY Amounts DEF ReplayRows
  <2> QED
    BY <1>1, <2>1
<1>6. IsFiniteSet(DOMAIN w.jobs) /\ w.ops \in Seq(Ops) /\ w.batch \in Seq(DOMAIN w.jobs)
  BY <1>1, <1>3, FS_EmptySet
<1>7. \A n \in DOMAIN w.commands : ValidCommand(w.commands[n])
  BY <1>1 DEF ValidScenario
<1>8. RunType(w)
  BY <1>1, <1>2, <1>3, <1>4, <1>5, <1>6, <1>7 DEF RunType
<1>9. ASSUME NEW p \in PaymentIds PROVE PaymentInv(w, p)
  <2>1. w.pays[p] = NoPayment \/ Valid(w.pays[p])
    BY <1>1 DEF ValidScenario
  <2>2. NoSaga \notin {Capturing, Completed, Rejected}
    BY RowFacts
  <2> QED
    BY <1>3, <1>5, <2>1, <2>2 DEF PaymentInv
<1> QED
  BY <1>1, <1>3, <1>8, <1>9 DEF Sound, w

\* What is stored is a scenario.
LEMMA RequestsAreScenarios ==
    ASSUME NEW s \in Requests \cup Rivals
    PROVE  FromRequest(s) \in Scenarios
<1>1. s \in Scenarios
  BY ReplayAssumption
<1> DEFINE commands == [n \in DOMAIN s.commands |-> Parsed(s.commands[n])]
<1>2. s.commands \in Seq(Commands)
  BY <1>1 DEF Scenarios
<1>3. ASSUME NEW c \in Commands PROVE Parsed(c) \in Commands
  <2>1. [c EXCEPT !.amount = 0, !.currency = "none"]
          = [type |-> c.type, pay |-> c.pay, amount |-> 0, currency |-> "none",
             duration |-> c.duration, operation |-> c.operation]
    <3>1. [c EXCEPT !.amount = 0, !.currency = "none"]
            = [[c EXCEPT !.amount = 0] EXCEPT !.currency = "none"]
      OBVIOUS
    <3>2. c = [type |-> c.type, pay |-> c.pay, amount |-> c.amount, currency |-> c.currency,
               duration |-> c.duration, operation |-> c.operation]
      BY DEF Commands
    <3>3. [c EXCEPT !.amount = 0]
            = [type |-> c.type, pay |-> c.pay, amount |-> 0, currency |-> c.currency,
               duration |-> c.duration, operation |-> c.operation]
      BY <3>2
    <3> DEFINE z == [type |-> c.type, pay |-> c.pay, amount |-> 0, currency |-> c.currency,
                     duration |-> c.duration, operation |-> c.operation]
    <3>4. [z EXCEPT !.currency = "none"]
            = [type |-> c.type, pay |-> c.pay, amount |-> 0, currency |-> "none",
               duration |-> c.duration, operation |-> c.operation]
      OBVIOUS
    <3>5. [c EXCEPT !.amount = 0] = z
      BY <3>3
    <3> HIDE DEF z
    <3> QED
      BY <3>1, <3>4, <3>5
  <2>2. /\ c.type \in STRING /\ c.pay \in PaymentIds \cup {0} /\ c.duration \in Int
        /\ c.operation \in Operations \cup {<<>>}
    BY DEF Commands
  <2>3. [c EXCEPT !.amount = 0, !.currency = "none"] \in Commands
    BY <2>1, <2>2 DEF Commands
  <2> QED
    BY <2>3 DEF Parsed
<1>4. commands \in Seq(Commands)
  <2>1. Len(s.commands) \in Nat /\ DOMAIN s.commands = 1..Len(s.commands)
        /\ \A n \in DOMAIN s.commands : s.commands[n] \in Commands
    BY <1>2
  <2>2. commands \in [1..Len(s.commands) -> Commands]
    BY <1>3, <2>1
  <2> HIDE DEF commands
  <2> QED
    BY <2>1, <2>2
<1> HIDE DEF commands
<1>5. FromRequest(s) = [s EXCEPT !.commands = commands]
  BY DEF FromRequest, commands
<1> QED
  BY <1>1, <1>4, <1>5 DEF Scenarios

\* NoScenario is none.
LEMMA NoScenarioIsNone == NoScenario \notin Scenarios
<1>1. ASSUME NEW s \in Scenarios PROVE "seed" \in DOMAIN s
  BY DEF Scenarios
<1>2. "seed" \notin DOMAIN NoScenario
  BY DEF NoScenario
<1> QED
  BY <1>1, <1>2

\* Create: the first valid scenario is stored.
LEMMA CreateStep ==
    ASSUME ReplayInv, NEW s \in Requests \cup Rivals, Create(s)
    PROVE  ReplayInv' /\ (stored # NoScenario => stored' = stored)
<1>1. stored' = Save(FromRequest(s)) /\ run' = run /\ results' = results /\ promised' = promised
  BY DEF Create
<1>2. FromRequest(s) \in Scenarios
  BY RequestsAreScenarios
<1>3. stored # NoScenario => stored' = stored
  BY <1>1 DEF Save
<1>4. stored' = NoScenario \/ stored' \in Scenarios
  BY <1>1, <1>2 DEF Save, ReplayInv
<1>5. CASE run = NoRun
  <2>1. /\ promised = [p \in PaymentIds |-> promised[p]]
        /\ \A p \in PaymentIds : promised[p] \subseteq Nat /\ promised[p] = {}
    BY <1>5 DEF ReplayInv
  <2>2. /\ promised' = [p \in PaymentIds |-> promised'[p]]
        /\ \A p \in PaymentIds : promised'[p] \subseteq Nat /\ promised'[p] = {}
    BY <1>1, <2>1
  <2> QED
    BY <1>1, <1>3, <1>4, <1>5, <2>2 DEF ReplayInv
<1>6. CASE run # NoRun
  <2>1. stored \in Scenarios /\ stored' = stored
    BY <1>3, <1>6, NoScenarioIsNone DEF ReplayInv
  <2>2. \A p \in PaymentIds : PromiseInv(p)'
    BY <1>1, <1>6, <2>1 DEF ReplayInv, PromiseInv, GivenAuthorized
  <2> QED
    BY <1>1, <1>6, <2>1, <2>2 DEF ReplayInv
<1> QED
  BY <1>3, <1>5, <1>6

\* Execute: a run begins, or the scenario is refused.
LEMMA ExecuteStep ==
    ASSUME ReplayInv, Execute
    PROVE  ReplayInv'
<1>1. stored # NoScenario /\ run = NoRun /\ stored' = stored /\ promised' = promised
  BY DEF Execute
<1>2. stored \in Scenarios /\ \A p \in PaymentIds : promised[p] = {}
  BY <1>1 DEF ReplayInv
<1>3. CASE ~Runnable(stored)
  <2>1. run' = run
    BY <1>3 DEF Execute
  <2> QED
    BY <1>1, <1>2, <2>1 DEF ReplayInv
<1>4. CASE Runnable(stored)
  <2> DEFINE w == NewRun(stored)
  <2>1. run' = w
    BY <1>4 DEF Execute
  <2>2. Sound(w) /\ w.pays = stored.payments /\ DOMAIN w.jobs = {} /\ DOMAIN w.batch = {}
    BY <1>2, <1>4, NewRunKeeps DEF Runnable
  <2> HIDE DEF w
  <2>3. w # NoRun
    <3>1. w.phase # "none"
      BY <2>2, FrameTypes
    <3> QED
      BY <3>1 DEF NoRun
  <2>4. \A p \in PaymentIds : PromiseInv(p)'
    BY <1>1, <1>2, <2>1, <2>2 DEF PromiseInv, GivenAuthorized
  <2> QED
    BY <1>1, <1>2, <2>1, <2>2, <2>3, <2>4 DEF ReplayInv
<1> QED
  BY <1>3, <1>4

\* The invariant holds of every reachable state: run, sagas and jobs agree with
\* the payments, and what is deferred is resumed when it is due and not before.
THEOREM ReplayInvariance == Spec => []ReplayInv
<1>1. Init => ReplayInv
  BY DEF Init, ReplayInv
<1>2. ReplayInv /\ [Next]_vars => ReplayInv'
  <2> SUFFICES ASSUME ReplayInv, [Next]_vars PROVE ReplayInv'
    OBVIOUS
  <2>1. ASSUME NEW s \in Requests \cup Rivals, Create(s) PROVE ReplayInv'
    BY <2>1, CreateStep
  <2>2. CASE Execute
    BY <2>2, ExecuteStep
  <2>3. CASE CreatePayment
    BY <2>3, CreatePaymentStep
  <2>4. CASE Operate
    BY <2>4, OperateStep
  <2>5. CASE AdvanceTime
    BY <2>5, AdvanceTimeStep
  <2>6. CASE ExecuteAsync
    BY <2>6, ExecuteAsyncStep
  <2>7. CASE StartPaymentSaga
    BY <2>7, StartPaymentSagaStep
  <2>8. CASE FindExecutable
    BY <2>8, FindExecutableStep
  <2>9. CASE Dispatch
    BY <2>9, DispatchStep
  <2>10. CASE EndTick
    BY <2>10, EndTickStep
  <2>11. CASE Finish
    BY <2>11 DEF Finish, ReplayInv
  <2>12. CASE UNCHANGED vars
    <3>1. stored' = stored /\ run' = run /\ promised' = promised
      BY <2>12 DEF vars
    <3>2. run # NoRun => \A p \in PaymentIds : PromiseInv(p)'
      BY <3>1 DEF ReplayInv, PromiseInv, GivenAuthorized
    <3> QED
      BY <3>1, <3>2 DEF ReplayInv
  <2>13. ASSUME NEW s \in (IF stored = NoScenario THEN Requests ELSE Rivals), Create(s) PROVE ReplayInv'
    BY <2>1, <2>13
  <2> QED
    BY <2>2, <2>3, <2>4, <2>5, <2>6, <2>7, <2>8, <2>9, <2>10, <2>11, <2>12, <2>13 DEF Next
<1> QED
  BY <1>1, <1>2, PTL DEF Spec

\* A saga of a replay is over only when its payment shows it.
THEOREM SagasMatchPayments == Spec => []SagaMatchesPayment
<1>1. ReplayInv => SagaMatchesPayment
  <2> SUFFICES ASSUME ReplayInv, run # NoRun, NEW p \in PaymentIds
               PROVE  /\ run.sagas[p].saga.status = "completed" =>
                           run.pays[p].captured >= run.sagas[p].money[1]
                      /\ run.sagas[p].saga.status = "failed" => run.pays[p].status = "failed"
    BY DEF SagaMatchesPayment
  <2>1. RunType(run) /\ PaymentInv(run, p)
    BY DEF ReplayInv, Sound
  <2>2. run.sagas[p].saga \in ReplayRows
    BY <2>1 DEF RunType
  <2>3. /\ run.sagas[p].saga.status = "completed" => run.sagas[p].saga = Completed
        /\ run.sagas[p].saga.status = "failed" => run.sagas[p].saga = Rejected
    BY <2>2, RowFacts DEF ReplayRows
  <2> QED
    BY <2>1, <2>3 DEF PaymentInv
<1> QED
  BY <1>1, ReplayInvariance, PTL

\* No deferred authorization takes effect before a time it was deferred to.
THEOREM DeferralsWait == Spec => []DeferredWaits
<1>1. ReplayInv => DeferredWaits
  <2> SUFFICES ASSUME ReplayInv, NEW p \in PaymentIds, Deferred(p),
                      run.pays[p].authorized > 0, ~GivenAuthorized(p)
               PROVE  \E t \in promised[p] : t <= run.clock
    BY DEF DeferredWaits
  <2>1. run # NoRun /\ promised[p] # {}
    BY DEF Deferred
  <2>2. PromiseInv(p) /\ PaymentInv(run, p)
    BY <2>1 DEF ReplayInv, Sound
  <2>3. AsyncId(p) \in DOMAIN run.jobs
    BY <2>1, <2>2 DEF PromiseInv
  <2>4. Defers(run.cfg)
    BY <2>2, <2>3 DEF PaymentInv
  <2> QED
    BY <2>2, <2>4 DEF PromiseInv
<1> QED
  BY <1>1, ReplayInvariance, PTL

\* No deferred authorization is lost.
THEOREM DeferralsAreKept == Spec => []DeferredIsKept
<1>1. ReplayInv => DeferredIsKept
  <2> SUFFICES ASSUME ReplayInv, NEW p \in PaymentIds, Deferred(p), run.pays[p].status = "pending"
               PROVE  /\ AsyncId(p) \in DOMAIN run.jobs
                      /\ run.jobs[AsyncId(p)].status = "pending"
                      /\ run.jobs[AsyncId(p)].type = "saga.step" =>
                           run.sagas[p].saga.step = "authorize"
    BY DEF DeferredIsKept
  <2>1. run # NoRun /\ promised[p] # {}
    BY DEF Deferred
  <2>2. PromiseInv(p) /\ PaymentInv(run, p) /\ RunType(run)
    BY <2>1 DEF ReplayInv, Sound
  <2>3. AsyncId(p) \in DOMAIN run.jobs
    BY <2>1, <2>2 DEF PromiseInv
  <2>4. run.jobs[AsyncId(p)].status = "pending"
    BY <2>2, <2>3 DEF PaymentInv
  <2>5. run.sagas[p].saga \in {NoSaga, NewSaga}
    BY <2>2 DEF PaymentInv, RunType, ReplayRows
  <2>6. NoSaga.step = "authorize" /\ NewSaga.step = "authorize"
    BY RowFacts
  <2> QED
    BY <2>3, <2>4, <2>5, <2>6
<1> QED
  BY <1>1, ReplayInvariance, PTL

-----------------------------------------------------------------------------
(* Executions agree: a run takes one course.                               *)

\* The ids of jobs are totally ordered.
LEMMA IdsAreOrdered ==
    ASSUME NEW cfg, NEW a \in JobIds, NEW b \in JobIds, a # b
    PROVE  IdBefore(cfg, a, b) \/ IdBefore(cfg, b, a)
<1>1. PICK p \in PaymentIds : a \in {AsyncId(p), StartId(p), CaptureId(p)}
  BY DEF JobIds
<1>2. PICK q \in PaymentIds : b \in {AsyncId(q), StartId(q), CaptureId(q)}
  BY DEF JobIds
<1>3. a[2] = p /\ b[2] = q /\ p \in Nat /\ q \in Nat
  BY <1>1, <1>2, IdsDiffer, ReplayAssumption
<1>4. a[1] \in {"async", "saga"} /\ b[1] \in {"async", "saga"}
  BY <1>1, <1>2, IdsDiffer
<1>5. CASE a[1] # b[1]
  BY <1>4, <1>5 DEF IdBefore
<1>6. CASE a[1] = b[1] /\ p # q
  BY <1>3, <1>6 DEF IdBefore
<1>7. CASE a[1] = b[1] /\ p = q
  <2>1. AsyncId(p)[1] = "async" /\ StartId(p)[1] = "saga" /\ CaptureId(p)[1] = "saga"
    BY IdsDiffer
  <2>2. \/ a = StartId(p) /\ b = CaptureId(p)
        \/ a = CaptureId(p) /\ b = StartId(p)
    BY <1>1, <1>2, <1>7, <2>1
  <2>3. /\ StartId(p)[3] = "authorize" /\ CaptureId(p)[3] = "capture"
        /\ StartId(p)[4] = 1 /\ CaptureId(p)[4] = 2
    BY IdValues
  <2>4. StepRank["authorize"] < StepRank["capture"]
    BY DEF StepRank
  <2> QED
    BY <1>3, <1>7, <2>1, <2>2, <2>3, <2>4 DEF IdBefore
<1> QED
  BY <1>3, <1>5, <1>6, <1>7

\* So are the jobs in the order FindExecutable sorts by.
LEMMA JobsAreOrdered ==
    ASSUME NEW r, Sound(r), NEW a \in DOMAIN r.jobs, NEW b \in DOMAIN r.jobs, a # b
    PROVE  FoundInOrder(r, a, b) \/ FoundInOrder(r, b, a)
<1>1. RunType(r)
  BY DEF Sound
<1>2. a \in JobIds /\ b \in JobIds /\ r.jobs[a] \in Jobs /\ r.jobs[b] \in Jobs
  BY <1>1 DEF RunType
<1>3. r.jobs[a].due \in Nat /\ r.jobs[b].due \in Nat
  BY <1>2 DEF Jobs
<1>4. IdBefore(r.cfg, a, b) \/ IdBefore(r.cfg, b, a)
  BY <1>2, IdsAreOrdered
<1> QED
  BY <1>3, <1>4 DEF FoundInOrder

\* The first member of a set of numbers.
LEMMA FirstMember ==
    ASSUME NEW S \in SUBSET Nat, S # {}
    PROVE  \E n \in S : \A k \in S : n <= k
<1>1. PICK n \in S : \A k \in S : ~(<<k, n>> \in OpToRel(<, Nat))
  BY NatLessThanWellFounded, WFMin, Zenon
<1>2. \A k \in S : k \in Nat /\ n \in Nat /\ ~(k < n)
  BY <1>1 DEF OpToRel
<1> QED
  BY <1>2

\* The sort leaves one list.
LEMMA OneBatch ==
    ASSUME NEW r, Sound(r), NEW b \in Batches(r), NEW d \in Batches(r)
    PROVE  b = d
<1> DEFINE size == Found(r)
           apart == {n \in 1..size : b[n] # d[n]}
<1>1. size \in Nat /\ b \in [1..size -> DueJobs(r)] /\ d \in [1..size -> DueJobs(r)]
  BY BatchFacts
<1>2. /\ \A i, j \in 1..size : i < j => b[i] # b[j] /\ ~FoundInOrder(r, b[j], b[i])
      /\ \A i \in 1..size, id \in DueJobs(r) :
           (\A j \in 1..size : b[j] # id) => ~FoundInOrder(r, id, b[i])
      /\ \A i, j \in 1..size : i < j => d[i] # d[j] /\ ~FoundInOrder(r, d[j], d[i])
      /\ \A i \in 1..size, id \in DueJobs(r) :
           (\A j \in 1..size : d[j] # id) => ~FoundInOrder(r, id, d[i])
  BY DEF Batches, Found, DueJobs
<1> HIDE DEF size
<1>3. ASSUME apart # {} PROVE FALSE
  <2>1. PICK i \in apart : \A k \in apart : i <= k
    <3>1. apart \in SUBSET Nat
      BY <1>1
    <3> HIDE DEF apart
    <3> QED
      BY <1>3, <3>1, FirstMember
  <2>2. i \in 1..size /\ b[i] # d[i] /\ \A j \in 1..size : j < i => b[j] = d[j]
    BY <1>1, <2>1
  <2>3. b[i] \in DueJobs(r) /\ d[i] \in DueJobs(r)
    BY <1>1, <2>2
  <2>4. FoundInOrder(r, b[i], d[i]) \/ FoundInOrder(r, d[i], b[i])
    BY <2>2, <2>3, JobsAreOrdered DEF DueJobs
  <2>5. CASE FoundInOrder(r, b[i], d[i])
    <3>1. PICK j \in 1..size : d[j] = b[i]
      BY <1>2, <2>2, <2>3, <2>5
    <3>2. j < i \/ j = i \/ i < j
      BY <1>1, <2>2, <3>1
    <3> QED
      BY <1>2, <2>2, <2>5, <3>1, <3>2
  <2>6. CASE FoundInOrder(r, d[i], b[i])
    <3>1. PICK j \in 1..size : b[j] = d[i]
      BY <1>2, <2>2, <2>3, <2>6
    <3>2. j < i \/ j = i \/ i < j
      BY <1>1, <2>2, <3>1
    <3> QED
      BY <1>2, <2>2, <2>6, <3>1, <3>2
  <2> QED
    BY <2>4, <2>5, <2>6
<1>4. \A n \in 1..size : b[n] = d[n]
  BY <1>3
<1> QED
  BY <1>1, <1>4

\* A run that is over, and what one that is not may become next.
Ended(r) == r.phase = "failed" \/ (r.phase = "command" /\ r.index > Len(r.commands))
Commanded(r, c) ==
    IF c.type = "create_payment" THEN Proceed(Created(r, c))
    ELSE IF c.type \in {"authorize", "capture", "refund", "cancel"} THEN Proceed(Operated(r, c))
    ELSE IF c.type = "advance_time" THEN Proceed([r EXCEPT !.clock = @ + c.duration])
    ELSE IF c.type = "execute_async" THEN Proceed(Resumed(r, c.operation))
    ELSE Started(r, c.pay, <<c.amount, c.currency>>)
Ticked(r) ==
    IF r.batch # <<>> THEN Dispatched(r)
    ELSE IF r.err = "none" /\ r.ticks > 0 THEN [r EXCEPT !.phase = "find"]
    ELSE Proceed(r)
Course(r, w) ==
    IF r.phase = "find"
    THEN \E b \in Batches(r) : w = [r EXCEPT !.batch = b, !.phase = "dispatch", !.ticks = @ - 1]
    ELSE w = IF r.phase = "dispatch" THEN Ticked(r) ELSE Commanded(r, r.commands[r.index])

\* A run has one course.
LEMMA OneCourse ==
    ASSUME NEW r, Sound(r), NEW v, NEW w, Course(r, v), Course(r, w)
    PROVE  v = w
<1>1. CASE r.phase = "find"
  <2>1. PICK b \in Batches(r) : v = [r EXCEPT !.batch = b, !.phase = "dispatch", !.ticks = @ - 1]
    BY <1>1 DEF Course
  <2>2. PICK d \in Batches(r) : w = [r EXCEPT !.batch = d, !.phase = "dispatch", !.ticks = @ - 1]
    BY <1>1 DEF Course
  <2>3. b = d
    BY OneBatch
  <2> QED
    BY <2>1, <2>2, <2>3
<1>2. CASE r.phase # "find"
  BY <1>2 DEF Course
<1> QED
  BY <1>1, <1>2

\* The steps of an execution that is under way.
RunStep ==
    \/ CreatePayment \/ Operate \/ AdvanceTime \/ ExecuteAsync \/ StartPaymentSaga
    \/ FindExecutable \/ Dispatch \/ EndTick

\* They follow its course.
LEMMA RunStepsFollow ==
    ASSUME ReplayInv, RunStep
    PROVE  /\ run # NoRun /\ Sound(run) /\ ~Ended(run) /\ Course(run, run')
           /\ stored' = stored /\ results' = results
<1> DEFINE c == Current
<1>1. ASSUME NEW types, At(types)
      PROVE  run.phase = "command" /\ c.type \in types /\ run # NoRun /\ Sound(run) /\ ~Ended(run)
  <2>1. run.phase = "command" /\ run.index <= Len(run.commands) /\ c.type \in types
    BY <1>1 DEF At
  <2>2. run # NoRun /\ Sound(run) /\ RunType(run)
    BY <1>1, CurrentFacts
  <2>3. run.index \in Nat /\ Len(run.commands) \in Nat
    BY <2>2 DEF RunType
  <2> QED
    BY <2>1, <2>2, <2>3 DEF Ended
<1>2. ASSUME run.phase \in {"find", "dispatch"}
      PROVE  run # NoRun /\ Sound(run) /\ ~Ended(run)
  BY <1>2, RunFacts DEF Ended
<1>3. Course(run, run') <=>
        IF run.phase = "find"
        THEN \E b \in Batches(run) :
               run' = [run EXCEPT !.batch = b, !.phase = "dispatch", !.ticks = @ - 1]
        ELSE run' = IF run.phase = "dispatch" THEN Ticked(run) ELSE Commanded(run, c)
  BY DEF Course, Current
<1>4. CASE CreatePayment
  <2>1. At({"create_payment"}) /\ run' = Proceed(Created(run, c)) /\ stored' = stored /\ results' = results
    BY <1>4 DEF CreatePayment, Becomes
  <2>2. run.phase = "command" /\ c.type = "create_payment" /\ run # NoRun /\ Sound(run) /\ ~Ended(run)
    BY <1>1, <2>1
  <2> QED
    BY <1>3, <2>1, <2>2 DEF Commanded
<1>5. CASE Operate
  <2>1. /\ At({"authorize", "capture", "refund", "cancel"}) /\ run' = Proceed(Operated(run, c))
        /\ stored' = stored /\ results' = results
    BY <1>5 DEF Operate, Becomes
  <2>2. /\ run.phase = "command" /\ c.type \in {"authorize", "capture", "refund", "cancel"}
        /\ run # NoRun /\ Sound(run) /\ ~Ended(run)
    BY <1>1, <2>1
  <2> QED
    BY <1>3, <2>1, <2>2 DEF Commanded
<1>6. CASE AdvanceTime
  <2>1. /\ At({"advance_time"}) /\ run' = Proceed([run EXCEPT !.clock = @ + c.duration])
        /\ stored' = stored /\ results' = results
    BY <1>6 DEF AdvanceTime, Becomes
  <2>2. run.phase = "command" /\ c.type = "advance_time" /\ run # NoRun /\ Sound(run) /\ ~Ended(run)
    BY <1>1, <2>1
  <2> QED
    BY <1>3, <2>1, <2>2 DEF Commanded
<1>7. CASE ExecuteAsync
  <2>1. /\ At({"execute_async"}) /\ run' = Proceed(Resumed(run, c.operation))
        /\ stored' = stored /\ results' = results
    BY <1>7 DEF ExecuteAsync, Becomes
  <2>2. run.phase = "command" /\ c.type = "execute_async" /\ run # NoRun /\ Sound(run) /\ ~Ended(run)
    BY <1>1, <2>1
  <2> QED
    BY <1>3, <2>1, <2>2 DEF Commanded
<1>8. CASE StartPaymentSaga
  <2>1. /\ At({"start_payment_saga"}) /\ run' = Started(run, c.pay, <<c.amount, c.currency>>)
        /\ stored' = stored /\ results' = results
    BY <1>8 DEF StartPaymentSaga, Becomes
  <2>2. run.phase = "command" /\ c.type = "start_payment_saga" /\ run # NoRun /\ Sound(run) /\ ~Ended(run)
    BY <1>1, <2>1
  <2> QED
    BY <1>3, <2>1, <2>2 DEF Commanded
<1>9. CASE FindExecutable
  <2>1. run.phase = "find"
    BY <1>9 DEF FindExecutable
  <2>2. PICK b \in Batches(run) :
          Becomes([run EXCEPT !.batch = b, !.phase = "dispatch", !.ticks = @ - 1])
    BY <1>9 DEF FindExecutable
  <2>3. /\ run' = [run EXCEPT !.batch = b, !.phase = "dispatch", !.ticks = @ - 1]
        /\ stored' = stored /\ results' = results
    BY <2>2 DEF Becomes
  <2>4. \E d \in Batches(run) :
          run' = [run EXCEPT !.batch = d, !.phase = "dispatch", !.ticks = @ - 1]
    BY <2>3
  <2> QED
    BY <1>2, <1>3, <2>1, <2>3, <2>4
<1>10. CASE Dispatch
  <2>1. /\ run.phase = "dispatch" /\ run' = Ticked(run)
        /\ stored' = stored /\ results' = results
    BY <1>10 DEF Dispatch, Becomes, Ticked
  <2> QED
    BY <1>2, <1>3, <2>1
<1>11. CASE EndTick
  <2>1. /\ run.phase = "dispatch" /\ run' = Ticked(run)
        /\ stored' = stored /\ results' = results
    BY <1>11 DEF EndTick, Becomes, Ticked
  <2> QED
    BY <1>2, <1>3, <2>1
<1> QED
  BY <1>4, <1>5, <1>6, <1>7, <1>8, <1>9, <1>10, <1>11 DEF RunStep

\* The runs c[0], ..., c[n] are the beginning of an execution of s.
Path(s, n, c) ==
    /\ c[0] = NewRun(s)
    /\ \A i \in 0..n : Sound(c[i])
    /\ \A i \in 1..n : ~Ended(c[i - 1]) /\ Course(c[i - 1], c[i])

\* One more step.
LEMMA PathGrows ==
    ASSUME NEW s, NEW n \in Nat, NEW c, Path(s, n, c), ~Ended(c[n]),
           NEW w, Sound(w), Course(c[n], w)
    PROVE  \E d : Path(s, n + 1, d) /\ d[n + 1] = w
<1> DEFINE d == [i \in 0..(n + 1) |-> IF i = n + 1 THEN w ELSE c[i]]
<1>1. d[n + 1] = w /\ \A i \in 0..n : d[i] = c[i]
  OBVIOUS
<1> HIDE DEF d
<1>2. d[0] = NewRun(s)
  BY <1>1 DEF Path
<1>3. \A i \in 0..(n + 1) : Sound(d[i])
  <2>1. \A i \in 0..(n + 1) : i = n + 1 \/ i \in 0..n
    OBVIOUS
  <2> QED
    BY <1>1, <2>1 DEF Path
<1>4. ASSUME NEW i \in 1..(n + 1) PROVE ~Ended(d[i - 1]) /\ Course(d[i - 1], d[i])
  <2>1. CASE i = n + 1
    <3>1. i - 1 = n /\ n \in 0..n
      BY <2>1
    <3> QED
      BY <1>1, <2>1, <3>1
  <2>2. CASE i # n + 1
    <3>1. i \in 1..n /\ i \in 0..n /\ i - 1 \in 0..n
      BY <2>2
    <3> QED
      BY <1>1, <3>1 DEF Path
  <2> QED
    BY <2>1, <2>2
<1>5. Path(s, n + 1, d)
  BY <1>2, <1>3, <1>4 DEF Path
<1> QED
  BY <1>1, <1>5

\* Executions of the same scenario run side by side.
LEMMA PathsCoincide ==
    ASSUME NEW s, NEW n \in Nat, NEW c, Path(s, n, c), NEW m \in Nat, NEW d, Path(s, m, d)
    PROVE  \A i \in 0..n : i <= m => c[i] = d[i]
<1> DEFINE apart == {i \in 0..n : i <= m /\ c[i] # d[i]}
<1>1. ASSUME apart # {} PROVE FALSE
  <2>1. PICK i \in apart : \A k \in apart : i <= k
    <3>1. apart \in SUBSET Nat
      OBVIOUS
    <3> HIDE DEF apart
    <3> QED
      BY <1>1, <3>1, FirstMember
  <2>2. i \in 0..n /\ i <= m /\ c[i] # d[i]
    BY <2>1
  <2>3. i # 0
    BY <2>2 DEF Path
  <2>4. i \in 1..n /\ i \in 1..m /\ i - 1 \in 0..n /\ i - 1 <= m /\ i - 1 < i /\ i - 1 \in Nat
    BY <2>2, <2>3
  <2>5. c[i - 1] = d[i - 1]
    <3>1. i - 1 \notin apart
      BY <2>1, <2>4
    <3> QED
      BY <2>4, <3>1
  <2>6. Sound(c[i - 1]) /\ Course(c[i - 1], c[i]) /\ Course(c[i - 1], d[i])
    BY <2>4, <2>5 DEF Path
  <2>7. c[i] = d[i]
    BY <2>6, OneCourse
  <2> QED
    BY <2>2, <2>7
<1> QED
  BY <1>1

\* and end alike.
LEMMA EndsAgree ==
    ASSUME NEW s, NEW n \in Nat, NEW c, Path(s, n, c), Ended(c[n]),
           NEW m \in Nat, NEW d, Path(s, m, d), Ended(d[m])
    PROVE  c[n] = d[m]
<1>1. \A i \in 0..n : i <= m => c[i] = d[i]
  BY PathsCoincide
<1>2. CASE n < m
  <2>1. n + 1 \in 1..m /\ (n + 1) - 1 = n /\ n \in 0..n /\ n <= m
    BY <1>2
  <2>2. ~Ended(d[n])
    BY <2>1 DEF Path
  <2> QED
    BY <1>1, <2>1, <2>2
<1>3. CASE m < n
  <2>1. m + 1 \in 1..n /\ (m + 1) - 1 = m /\ m \in 0..n /\ m <= m
    BY <1>3
  <2>2. ~Ended(c[m])
    BY <2>1 DEF Path
  <2> QED
    BY <1>1, <2>1, <2>2
<1>4. CASE n = m
  <2>1. n \in 0..n /\ n <= m
    BY <1>4
  <2> QED
    BY <1>1, <1>4, <2>1
<1> QED
  BY <1>2, <1>3, <1>4

\* The run is on the path of the stored scenario, and each result is what a
\* finished path gives.
Reached(s, r) == \E n \in Nat : \E c : Path(s, n, c) /\ c[n] = r
Result(s, res) ==
    IF Runnable(s) THEN \E r : Reached(s, r) /\ Ended(r) /\ res = ResultOf(r)
    ELSE res = ErrorResult("scenario", 0)
CourseInv ==
    /\ \E S : results \in Seq(S)
    /\ stored = NoScenario => run = NoRun /\ results = <<>>
    /\ run # NoRun => Runnable(stored) /\ Reached(stored, run)
    /\ \A m \in DOMAIN results : Result(stored, results[m])

\* One more result.
LEMMA AppendedResults ==
    ASSUME NEW S, NEW s \in Seq(S), NEW x
    PROVE  /\ \E T : Append(s, x) \in Seq(T)
           /\ \A m \in DOMAIN Append(s, x) :
                Append(s, x)[m] = x \/ (m \in DOMAIN s /\ Append(s, x)[m] = s[m])
<1> DEFINE T == S \cup {x}
           t == Append(s, x)
<1>1. s \in Seq(T) /\ x \in T
  OBVIOUS
<1>2. t \in Seq(T)
  BY <1>1, AppendProperties
<1>3. Len(t) = Len(s) + 1 /\ t[Len(s) + 1] = x /\ \A m \in 1..Len(s) : t[m] = s[m]
  BY AppendProperties
<1>4. DOMAIN t = 1..Len(t) /\ DOMAIN s = 1..Len(s) /\ Len(s) \in Nat
  BY <1>2
<1> HIDE DEF t
<1>5. \A m \in DOMAIN t : t[m] = x \/ (m \in DOMAIN s /\ t[m] = s[m])
  BY <1>3, <1>4
<1> QED
  BY <1>2, <1>5 DEF t

\* An execution begins.
LEMMA PathBegins ==
    ASSUME NEW s, Sound(NewRun(s))
    PROVE  Reached(s, NewRun(s))
<1> DEFINE c == [i \in {0} |-> NewRun(s)]
<1>1. c[0] = NewRun(s)
  OBVIOUS
<1> HIDE DEF c
<1>2. Path(s, 0, c)
  BY <1>1 DEF Path
<1> QED
  BY <1>1, <1>2 DEF Reached

\* It goes on.
LEMMA PathGoesOn ==
    ASSUME NEW s, NEW r, Reached(s, r), ~Ended(r), NEW w, Sound(w), Course(r, w)
    PROVE  Reached(s, w)
<1>1. PICK n \in Nat : \E c : Path(s, n, c) /\ c[n] = r
  BY DEF Reached
<1>2. \E d : Path(s, n + 1, d) /\ d[n + 1] = w
  BY <1>1, PathGrows
<1> QED
  BY <1>2 DEF Reached

\* Every run is on the one path of its scenario, and every result is its end.
THEOREM CourseInvariance == Spec => []CourseInv
<1>1. Init => CourseInv
  <2> SUFFICES ASSUME Init PROVE CourseInv
    OBVIOUS
  <2>1. results = <<>> /\ run = NoRun
    BY DEF Init
  <2>2. results \in Seq({}) /\ DOMAIN results = {}
    BY <2>1
  <2> QED
    BY <2>1, <2>2 DEF CourseInv
<1>2. ReplayInv /\ ReplayInv' /\ CourseInv /\ [Next]_vars => CourseInv'
  <2> SUFFICES ASSUME ReplayInv, ReplayInv', CourseInv, [Next]_vars PROVE CourseInv'
    OBVIOUS
  <2>1. PICK S : results \in Seq(S)
    BY DEF CourseInv
  <2>2. CASE \E s \in Requests \cup Rivals : Create(s)
    <3>1. /\ stored # NoScenario => stored' = stored
          /\ run' = run /\ results' = results
      BY <2>2, CreateStep DEF Create
    <3>2. CASE stored = NoScenario
      <4>1. run' = NoRun /\ results' = <<>>
        BY <3>1, <3>2 DEF CourseInv
      <4>2. results' \in Seq({}) /\ DOMAIN results' = {}
        BY <4>1
      <4> QED
        BY <4>1, <4>2 DEF CourseInv
    <3>3. CASE stored # NoScenario
      BY <3>1, <3>3 DEF CourseInv
    <3> QED
      BY <3>2, <3>3
  <2>3. CASE Execute
    <3>1. stored # NoScenario /\ run = NoRun /\ stored' = stored
      BY <2>3 DEF Execute
    <3>2. CASE Runnable(stored)
      <4>1. run' = NewRun(stored) /\ results' = results
        BY <2>3, <3>2 DEF Execute
      <4>2. Sound(NewRun(stored))
        BY <3>1, <3>2, NewRunKeeps DEF ReplayInv, Runnable
      <4>3. Reached(stored, NewRun(stored))
        BY <4>2, PathBegins
      <4> QED
        BY <3>1, <3>2, <4>1, <4>3 DEF CourseInv
    <3>3. CASE ~Runnable(stored)
      <4> DEFINE x == ErrorResult("scenario", 0)
      <4>1. run' = run /\ results' = Append(results, x)
        BY <2>3, <3>3 DEF Execute
      <4>2. Result(stored, x)
        BY <3>3 DEF Result
      <4> HIDE DEF x
      <4>3. /\ \E T : results' \in Seq(T)
            /\ \A m \in DOMAIN results' :
                 results'[m] = x \/ (m \in DOMAIN results /\ results'[m] = results[m])
        BY <2>1, <4>1, AppendedResults
      <4>4. \A m \in DOMAIN results' : Result(stored', results'[m])
        BY <3>1, <4>2, <4>3 DEF CourseInv
      <4> QED
        BY <3>1, <4>1, <4>3, <4>4 DEF CourseInv
    <3> QED
      BY <3>2, <3>3
  <2>4. CASE RunStep
    <3>1. /\ run # NoRun /\ Sound(run) /\ ~Ended(run) /\ Course(run, run')
          /\ stored' = stored /\ results' = results
      BY <2>4, RunStepsFollow
    <3>2. Runnable(stored) /\ Reached(stored, run)
      BY <3>1 DEF CourseInv
    <3>3. run' # NoRun => Reached(stored, run')
      <4>1. run' # NoRun => Sound(run')
        BY DEF ReplayInv
      <4> QED
        BY <3>1, <3>2, <4>1, PathGoesOn
    <3> QED
      BY <3>1, <3>2, <3>3 DEF CourseInv
  <2>5. CASE Finish
    <3> DEFINE x == ResultOf(run)
    <3>1. run' = NoRun /\ results' = Append(results, x) /\ stored' = stored /\ Ended(run)
      BY <2>5 DEF Finish, Ended
    <3>2. run # NoRun
      BY <3>1 DEF Ended, NoRun
    <3>3. Result(stored, x)
      BY <3>1, <3>2 DEF CourseInv, Result
    <3> HIDE DEF x
    <3>4. /\ \E T : results' \in Seq(T)
          /\ \A m \in DOMAIN results' :
               results'[m] = x \/ (m \in DOMAIN results /\ results'[m] = results[m])
      BY <2>1, <3>1, AppendedResults
    <3>5. stored # NoScenario
      BY <3>2 DEF CourseInv
    <3>6. \A m \in DOMAIN results' : Result(stored', results'[m])
      BY <3>1, <3>3, <3>4 DEF CourseInv
    <3> QED
      BY <3>1, <3>4, <3>5, <3>6 DEF CourseInv
  <2>6. CASE UNCHANGED vars
    BY <2>6 DEF CourseInv, vars
  <2> QED
    BY <2>2, <2>3, <2>4, <2>5, <2>6 DEF Next, RunStep
<1> QED
  BY <1>1, <1>2, ReplayInvariance, PTL DEF Spec

\* Executing a stored scenario again gives an equivalent result, or the same
\* error at the same command.
THEOREM ExecutionsAgree == Spec => []ReplaysAgree
<1>1. CourseInv => ReplaysAgree
  <2> SUFFICES ASSUME CourseInv, NEW m \in DOMAIN results, NEW n \in DOMAIN results
               PROVE  results[m] = results[n]
    BY DEF ReplaysAgree, Equivalent
  <2>1. Result(stored, results[m]) /\ Result(stored, results[n])
    BY DEF CourseInv
  <2>2. CASE ~Runnable(stored)
    BY <2>1, <2>2 DEF Result
  <2>3. CASE Runnable(stored)
    <3>1. PICK r : Reached(stored, r) /\ Ended(r) /\ results[m] = ResultOf(r)
      BY <2>1, <2>3 DEF Result
    <3>2. PICK w : Reached(stored, w) /\ Ended(w) /\ results[n] = ResultOf(w)
      BY <2>1, <2>3 DEF Result
    <3>3. r = w
      <4>1. PICK i \in Nat : \E c : Path(stored, i, c) /\ c[i] = r
        BY <3>1 DEF Reached
      <4>2. PICK j \in Nat : \E d : Path(stored, j, d) /\ d[j] = w
        BY <3>2 DEF Reached
      <4> QED
        BY <3>1, <3>2, <4>1, <4>2, EndsAgree
    <3> QED
      BY <3>1, <3>2, <3>3
  <2> QED
    BY <2>2, <2>3
<1> QED
  BY <1>1, CourseInvariance, PTL
=============================================================================
