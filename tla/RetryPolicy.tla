---------------------------- MODULE RetryPolicy ----------------------------
(***************************************************************************)
(* ExponentialBackoffPolicy.Decide, loop iteration by loop iteration, over *)
(* durations of a bounded signed integer type: the delay after attempt n   *)
(* doubles from the initial delay and is capped.                           *)
(***************************************************************************)
EXTENDS Integers

CONSTANTS
    MaxDuration,   \* the largest value of the duration type
    Policies,      \* [maxAttempts, initial, maxDelay] the constructor is asked for
    Calls          \* attempt numbers Decide is called with

ASSUME RetryPolicyAssumption ==
    /\ MaxDuration \in Nat \ {0}
    /\ Policies \subseteq [maxAttempts : Nat, initial : Int, maxDelay : 0..MaxDuration]
    /\ Calls \subseteq Nat

VARIABLES policy, attempt, retryNumber, delay, pc, decision

vars == <<policy, attempt, retryNumber, delay, pc, decision>>

NoDecision == [retry |-> FALSE, after |-> 0]

\* NewExponentialBackoffPolicy refuses every other policy.
Acceptable(p) == p.maxAttempts # 0 /\ p.initial > 0 /\ p.maxDelay >= p.initial

\* delay *= 2, wrapping around as a signed integer of the type's width does.
Double(d) == IF 2 * d <= MaxDuration THEN 2 * d ELSE 2 * d - 2 * (MaxDuration + 1)

Init ==
    /\ policy \in {p \in Policies : Acceptable(p)}
    /\ attempt \in Calls
    /\ retryNumber = 0
    /\ delay = 0
    /\ pc = "called"
    /\ decision = NoDecision

Decided(retry, after) ==
    /\ decision' = [retry |-> retry, after |-> after]
    /\ pc' = "decided"
    /\ UNCHANGED <<policy, attempt, retryNumber, delay>>

\* Mutants of Enter: the loop counts from zero, or from one retry less.
EnterFrom(start) ==
    /\ pc = "called"
    /\ attempt # 0 /\ attempt < policy.maxAttempts
    /\ pc' = "loop"
    /\ delay' = policy.initial
    /\ retryNumber' = start
    /\ UNCHANGED <<policy, attempt, decision>>
EnterFromZero == EnterFrom(0)

\* The checks before the loop; attempt zero is an error.
Enter ==
    /\ pc = "called"
    /\ \/ /\ attempt = 0
          /\ pc' = "error"
          /\ UNCHANGED <<policy, attempt, retryNumber, delay, decision>>
       \/ /\ attempt # 0 /\ attempt >= policy.maxAttempts
          /\ Decided(FALSE, 0)
       \/ /\ attempt # 0 /\ attempt < policy.maxAttempts
          /\ pc' = "loop"
          /\ delay' = policy.initial
          /\ retryNumber' = 1
          /\ UNCHANGED <<policy, attempt, decision>>

\* Mutant of Iterate: no cap inside the loop.
IterateUncapped ==
    /\ pc = "loop" /\ retryNumber < attempt
    /\ delay' = Double(delay)
    /\ retryNumber' = retryNumber + 1
    /\ UNCHANGED <<policy, attempt, pc, decision>>

\* One iteration: the cap, or another doubling.
Iterate ==
    /\ pc = "loop" /\ retryNumber < attempt
    /\ \/ /\ delay > policy.maxDelay \div 2
          /\ Decided(TRUE, policy.maxDelay)
       \/ /\ delay <= policy.maxDelay \div 2
          /\ delay' = Double(delay)
          /\ retryNumber' = retryNumber + 1
          /\ UNCHANGED <<policy, attempt, pc, decision>>

Leave ==
    /\ pc = "loop" /\ retryNumber >= attempt
    /\ Decided(TRUE, delay)

Next == Enter \/ Iterate \/ Leave

Spec == Init /\ [][Next]_vars

-----------------------------------------------------------------------------
\* Types of the policy, the loop and its decision.
TypeOK ==
    /\ policy \in Policies
    /\ attempt \in Calls
    /\ retryNumber \in Nat
    /\ delay \in Int
    /\ pc \in {"called", "loop", "decided", "error"}
    /\ decision \in [retry : BOOLEAN, after : Int]

\* The closed form: initial times 2 to the attempt - 1, capped.
Smaller(a, b) == IF a < b THEN a ELSE b
PowerOfTwo[n \in Nat] == IF n = 0 THEN 1 ELSE 2 * PowerOfTwo[n - 1]
Backoff == Smaller(policy.initial * PowerOfTwo[attempt - 1], policy.maxDelay)

\* The decision of Decide is the closed form, at every edge of the cap and of
\* the integer type, and there is none once the attempts are spent.
DecisionIsBackoff ==
    pc = "decided" =>
        /\ decision.retry <=> attempt < policy.maxAttempts
        /\ decision.retry => decision.after = Backoff

\* A retry is never asked for at once, in the past, or later than the cap: the
\* doubling cannot overflow.
RetryWithinCap ==
    decision.retry => decision.after > 0 /\ decision.after <= policy.maxDelay

-----------------------------------------------------------------------------
\* The running delay stays within the cap: the invariant behind RetryWithinCap.
LoopInv ==
    /\ TypeOK
    /\ Acceptable(policy)
    /\ pc = "loop" => delay > 0 /\ delay <= policy.maxDelay
    /\ RetryWithinCap

\* The running delay is the initial one doubled once for every iteration: the
\* invariant behind DecisionIsBackoff.
BackoffInv ==
    /\ LoopInv
    /\ pc = "loop" =>
         /\ retryNumber \in 1..attempt /\ attempt < policy.maxAttempts
         /\ delay = policy.initial * PowerOfTwo[retryNumber - 1]
    /\ DecisionIsBackoff
=============================================================================
