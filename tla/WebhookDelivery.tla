-------------------------- MODULE WebhookDelivery --------------------------
(***************************************************************************)
(* Delivering one webhook: the callback handler, the audit row of every    *)
(* attempt and the receiver, under the scheduler's attempts.               *)
(*                                                                         *)
(* The scheduler gives every run of the handler its own attempt number and *)
(* fences what is saved about the job, so an attempt is a process here:    *)
(* when its lease expires the next one starts while it may still be        *)
(* running, and only the newest one decides about the job.                 *)
(***************************************************************************)
EXTENDS Integers

CONSTANT MaxAttempts     \* attempt budget of the retry policy

ASSUME WebhookDeliveryAssumption == MaxAttempts \in Nat \ {0}

Attempts == 1..MaxAttempts

VARIABLES
    job,       \* status and number of started attempts of the delivery job
    audit,     \* webhook_delivery_audit: outcome recorded for each attempt
    pc,        \* where each attempt is
    result,    \* what the handler of each attempt will return
    received   \* what the receiver saw: requests of each attempt

vars == <<job, audit, pc, result, received>>

Init ==
    /\ job = [status |-> "pending", attempts |-> 0]
    /\ audit = [a \in Attempts |-> "none"]
    /\ pc = [a \in Attempts |-> "new"]
    /\ result = [a \in Attempts |-> "none"]
    /\ received = [a \in Attempts |-> 0]

Goto(a, at) == pc' = [pc EXCEPT ![a] = at]
Return(a, r) == Goto(a, "returned") /\ result' = [result EXCEPT ![a] = r]

-----------------------------------------------------------------------------
\* The scheduler acquires the job and starts an attempt: it is due, or the
\* lease of the attempt before has expired, whether or not that one is alive.
StartAttempt(a) ==
    /\ a = job.attempts + 1
    /\ job.status \in {"pending", "running"}
    /\ job' = [status |-> "running", attempts |-> a]
    /\ Goto(a, "begin")
    /\ UNCHANGED <<audit, result, received>>

\* The last lease expires without an outcome: the budget is spent.
ExhaustSpent ==
    /\ job.status = "running" /\ job.attempts = MaxAttempts
    /\ job' = [job EXCEPT !.status = "exhausted"]
    /\ UNCHANGED <<audit, pc, result, received>>

\* The audit repository: an attempt is inserted once, and its outcome is only
\* written over the marker.
MarkStarted(a) == [audit EXCEPT ![a] = IF @ = "none" THEN "started" ELSE @]
MarkEnded(a) == [audit EXCEPT ![a] = IF @ = "started" THEN result[a] ELSE @]

\* Mutant of RecordStart: the request is sent even if the marker is not stored.
RecordStartOptional(a) ==
    /\ pc[a] = "begin"
    /\ \/ audit' = MarkStarted(a)
       \/ UNCHANGED audit
    /\ Goto(a, "send")
    /\ UNCHANGED <<job, result, received>>

\* start: the marker is recorded before anything is sent, or the handler fails.
RecordStart(a) ==
    /\ pc[a] = "begin"
    /\ \/ /\ audit' = MarkStarted(a)
          /\ Goto(a, "send")
          /\ UNCHANGED result
       \/ /\ Return(a, "failed")
          /\ UNCHANGED audit
    /\ UNCHANGED <<job, received>>

\* Finding the endpoint and sending the request.  The receiver accepts it and
\* is heard; it gets the request but rejects it or is not heard in time; or
\* the request never arrives.
Send(a) ==
    /\ pc[a] = "send"
    /\ \E r \in {"succeeded", "failed"}, n \in {0, 1} :
         /\ r = "succeeded" => n = 1
         /\ received' = [received EXCEPT ![a] = @ + n]
         /\ result' = [result EXCEPT ![a] = r]
    /\ Goto(a, "finish")
    /\ UNCHANGED <<job, audit>>

\* Mutants of RecordTerminal: a failing write is ignored, or the update names
\* the job and not the attempt.
RecordTerminalBestEffort(a) ==
    /\ pc[a] = "finish"
    /\ \/ audit' = MarkEnded(a)
       \/ UNCHANGED audit
    /\ Return(a, result[a])
    /\ UNCHANGED <<job, received>>
RecordTerminalAllRows(a) ==
    /\ pc[a] = "finish"
    /\ audit' = [b \in Attempts |-> IF audit[b] = "none" THEN "none" ELSE result[a]]
    /\ Return(a, result[a])
    /\ UNCHANGED <<job, received>>

\* finish: the outcome replaces the marker; a failing write makes the handler
\* fail even if the receiver accepted.
RecordTerminal(a) ==
    /\ pc[a] = "finish"
    /\ \/ /\ audit' = MarkEnded(a)
          /\ Return(a, result[a])
       \/ /\ Return(a, "failed")
          /\ UNCHANGED audit
    /\ UNCHANGED <<job, received>>

\* Mutant of SaveJob: a failed attempt leaves the job "failed".
SaveJobFailed(a) ==
    /\ pc[a] = "returned"
    /\ Goto(a, "over")
    /\ job' = [job EXCEPT !.status = IF result[a] = "succeeded" THEN "completed" ELSE "failed"]
    /\ UNCHANGED <<audit, result, received>>

\* The worker saves the outcome, fenced: an attempt that was overtaken changes
\* nothing.
SaveJob(a) ==
    /\ pc[a] = "returned"
    /\ Goto(a, "over")
    /\ job' = IF job.attempts # a \/ job.status # "running" THEN job
              ELSE [job EXCEPT !.status =
                      IF result[a] = "succeeded" THEN "completed"
                      ELSE IF a < MaxAttempts THEN "pending" ELSE "exhausted"]
    /\ UNCHANGED <<audit, result, received>>

\* The process dies in the middle of an attempt.
Crash(a) ==
    /\ pc[a] \in {"begin", "send", "finish", "returned"}
    /\ Goto(a, "over")
    /\ UNCHANGED <<job, audit, result, received>>

Next ==
    \/ ExhaustSpent
    \/ \E a \in Attempts :
         \/ StartAttempt(a) \/ RecordStart(a) \/ Send(a)
         \/ RecordTerminal(a) \/ SaveJob(a) \/ Crash(a)

Spec == Init /\ [][Next]_vars

-----------------------------------------------------------------------------
\* Types of the job, the audit rows, the attempts and the receiver.
TypeOK ==
    /\ job \in [status : {"pending", "running", "completed", "exhausted"},
                attempts : 0..MaxAttempts]
    /\ audit \in [Attempts -> {"none", "started", "succeeded", "failed"}]
    /\ pc \in [Attempts -> {"new", "begin", "send", "finish", "returned", "over"}]
    /\ result \in [Attempts -> {"none", "succeeded", "failed"}]
    /\ received \in [Attempts -> Nat]

\* Nothing reaches a receiver that the audit does not know of, and an attempt
\* the audit shows as succeeded did reach it, exactly once.
AuditTellsTruth ==
    \A a \in Attempts :
        /\ audit[a] = "none" => received[a] = 0
        /\ audit[a] = "succeeded" => received[a] = 1
        /\ received[a] <= 1

\* A completed job was delivered: the attempt that completed it is recorded as
\* a success.
CompletedMeansDelivered ==
    job.status = "completed" => audit[job.attempts] = "succeeded"

\* The outcome recorded for an attempt is never rewritten, not even by an
\* overtaken attempt that ends late.
AuditIsFinal ==
    [][\A a \in Attempts : audit[a] \in {"succeeded", "failed"} => audit'[a] = audit[a]]_vars

-----------------------------------------------------------------------------
(* The inductive invariant behind the safety properties.                   *)

\* What an attempt's place in the handler says about its audit row, its
\* receiver and the job.
AttemptInv(a) ==
    /\ a > job.attempts <=> pc[a] = "new"
    /\ pc[a] \in {"new", "begin"} => audit[a] = "none" /\ received[a] = 0
    /\ pc[a] = "send" => audit[a] = "started" /\ received[a] = 0
    /\ pc[a] = "finish" => /\ audit[a] = "started"
                           /\ received[a] <= 1
                           /\ result[a] = "succeeded" => received[a] = 1
                           /\ result[a] # "none"
    /\ pc[a] = "returned" => /\ result[a] # "none"
                             /\ result[a] = "succeeded" => audit[a] = "succeeded"

DeliveryInv ==
    /\ TypeOK
    /\ AuditTellsTruth
    /\ CompletedMeansDelivered
    /\ \A a \in Attempts : AttemptInv(a)
    /\ job.status = "completed" => job.attempts > 0
=============================================================================
