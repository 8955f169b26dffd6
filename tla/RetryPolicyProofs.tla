------------------------- MODULE RetryPolicyProofs -------------------------
(***************************************************************************)
(* The backoff never leaves the range its policy allows and is the closed  *)
(* form, for every width of the duration type, every policy and every      *)
(* attempt.                                                                *)
(***************************************************************************)
EXTENDS RetryPolicy, WellFoundedInduction, TLAPS

\* A delay of at most half the cap doubles without wrapping around, and stays
\* within the cap.
LEMMA DoubleWithinCap ==
    ASSUME NEW d \in Int, NEW cap \in 0..MaxDuration, d > 0, d <= cap \div 2
    PROVE  Double(d) = 2 * d /\ 2 * d > 0 /\ 2 * d <= cap
  BY RetryPolicyAssumption DEF Double

\* LoopInv is an invariant of the loop of Decide.
THEOREM LoopInvariance == Spec => []LoopInv
<1>1. Init => LoopInv
  BY RetryPolicyAssumption DEF Init, LoopInv, TypeOK, RetryWithinCap, NoDecision
<1>2. LoopInv /\ [Next]_vars => LoopInv'
  <2> SUFFICES ASSUME LoopInv, [Next]_vars PROVE LoopInv'
    OBVIOUS
  <2> USE DEF LoopInv, TypeOK
  <2>0. /\ policy \in [maxAttempts : Nat, initial : Int, maxDelay : 0..MaxDuration]
        /\ policy.initial > 0 /\ policy.maxDelay >= policy.initial
        /\ policy.initial \in Int /\ policy.maxDelay \in 0..MaxDuration
    BY RetryPolicyAssumption DEF Acceptable
  <2>1. CASE Enter
    <3>1. CASE attempt = 0 /\ pc' = "error"
               /\ UNCHANGED <<policy, attempt, retryNumber, delay, decision>>
      BY <3>1 DEF Acceptable, RetryWithinCap
    <3>2. CASE Decided(FALSE, 0)
      BY <3>2 DEF Decided, Acceptable, RetryWithinCap
    <3>3. CASE /\ pc' = "loop" /\ delay' = policy.initial /\ retryNumber' = 1
               /\ UNCHANGED <<policy, attempt, decision>>
      BY <2>0, <3>3 DEF Acceptable, RetryWithinCap
    <3> QED
      BY <2>1, <3>1, <3>2, <3>3 DEF Enter
  <2>2. CASE Iterate
    <3>1. CASE delay > policy.maxDelay \div 2 /\ Decided(TRUE, policy.maxDelay)
      BY <2>0, <2>2, <3>1, RetryPolicyAssumption
      DEF Iterate, Decided, Acceptable, RetryWithinCap
    <3>2. CASE /\ delay <= policy.maxDelay \div 2
               /\ delay' = Double(delay)
               /\ retryNumber' = retryNumber + 1
               /\ UNCHANGED <<policy, attempt, pc, decision>>
      <4>1. delay' = 2 * delay /\ delay' > 0 /\ delay' <= policy.maxDelay
        BY <2>0, <2>2, <3>2, DoubleWithinCap DEF Iterate
      <4> QED
        BY <2>0, <3>2, <4>1, RetryPolicyAssumption DEF Acceptable, RetryWithinCap
    <3> QED
      BY <2>2, <3>1, <3>2 DEF Iterate
  <2>3. CASE Leave
    BY <2>0, <2>3, RetryPolicyAssumption DEF Leave, Decided, Acceptable, RetryWithinCap
  <2>4. CASE UNCHANGED vars
    BY <2>4 DEF vars, Acceptable, RetryWithinCap
  <2> QED
    BY <2>1, <2>2, <2>3, <2>4 DEF Next
<1> QED
  BY <1>1, <1>2, PTL DEF Spec

\* Decide never asks for a retry at once, in the past or beyond the policy's
\* cap, and its doubling never overflows the duration type.
THEOREM BackoffWithinCap == Spec => []RetryWithinCap
<1>1. LoopInv => RetryWithinCap
  BY DEF LoopInv
<1> QED
  BY <1>1, LoopInvariance, PTL

-----------------------------------------------------------------------------
(***************************************************************************)
(* The powers of two of the closed form.  Induction is by the least        *)
(* counterexample; that the recursive definition defines a function at all *)
(* is shown by its finite initial parts.                                   *)
(***************************************************************************)
\* A set of naturals that is not empty has a least member.
LEMMA LeastMember ==
    ASSUME NEW T \in SUBSET Nat, T # {}
    PROVE  \E x \in T : \A y \in T : x <= y
<1>1. PICK x \in T : \A y \in T : ~(<<y, x>> \in OpToRel(<, Nat))
  BY NatLessThanWellFounded, WFMin, Zenon
<1>2. \A y \in T : y \in Nat /\ x \in Nat /\ ~(y < x)
  BY <1>1 DEF OpToRel
<1> QED
  BY <1>2

\* g holds the first powers of two, up to n.
Doubling(g, n) ==
    /\ g \in [0..n -> Int]
    /\ g[0] = 1
    /\ \A k \in 1..n : g[k] = 2 * g[k - 1]

\* Every initial part exists: one more doubling extends the part before it.
LEMMA DoublingExists == \A n \in Nat : \E g : Doubling(g, n)
<1> DEFINE T == {n \in Nat : ~\E g : Doubling(g, n)}
<1> SUFFICES ASSUME T # {} PROVE FALSE
  OBVIOUS
<1>1. PICK n \in T : \A y \in T : n <= y
  BY LeastMember
<1>2. n # 0
  <2>1. Doubling([k \in 0..0 |-> 1], 0)
    BY DEF Doubling
  <2> QED
    BY <1>1, <2>1
<1>3. n \in Nat /\ n - 1 \in Nat /\ ~(n <= n - 1)
  BY <1>2
<1>4. PICK g : Doubling(g, n - 1)
  BY <1>1, <1>3
<1> DEFINE h == [k \in 0..n |-> IF k = n THEN 2 * g[n - 1] ELSE g[k]]
<1>5. g[n - 1] \in Int
  BY <1>3, <1>4 DEF Doubling
<1>6. h \in [0..n -> Int]
  BY <1>3, <1>4, <1>5 DEF Doubling
<1>7. h[0] = 1
  BY <1>2, <1>3, <1>4 DEF Doubling
<1>8. \A k \in 1..n : h[k] = 2 * h[k - 1]
  BY <1>3, <1>4 DEF Doubling
<1>9. Doubling(h, n)
  BY <1>6, <1>7, <1>8 DEF Doubling
<1> QED
  BY <1>9

\* Two initial parts agree where both are defined.
LEMMA DoublingUnique ==
    ASSUME NEW m \in Nat, NEW n \in Nat, NEW g, NEW h, Doubling(g, m), Doubling(h, n)
    PROVE  \A k \in Nat : k <= m /\ k <= n => g[k] = h[k]
<1> DEFINE T == {k \in Nat : k <= m /\ k <= n /\ g[k] # h[k]}
<1> SUFFICES ASSUME T # {} PROVE FALSE
  OBVIOUS
<1>1. PICK k \in T : \A y \in T : k <= y
  BY LeastMember
<1>2. k # 0
  BY <1>1 DEF Doubling
<1>3. k - 1 \in Nat /\ k - 1 <= m /\ k - 1 <= n /\ k \in 1..m /\ k \in 1..n /\ ~(k <= k - 1)
  BY <1>1, <1>2
<1>4. g[k - 1] = h[k - 1]
  BY <1>1, <1>3
<1>5. g[k] = 2 * g[k - 1] /\ h[k] = 2 * h[k - 1]
  BY <1>3 DEF Doubling
<1> QED
  BY <1>1, <1>4, <1>5

\* PowerOfTwo satisfies its recursion and is an integer everywhere.
LEMMA PowerOfTwoDef ==
    /\ PowerOfTwo \in [Nat -> Int]
    /\ PowerOfTwo[0] = 1
    /\ \A n \in Nat \ {0} : PowerOfTwo[n] = 2 * PowerOfTwo[n - 1]
<1> DEFINE G(n) == CHOOSE g : Doubling(g, n)
           f == [n \in Nat |-> G(n)[n]]
<1>1. \A n \in Nat : Doubling(G(n), n)
  BY DoublingExists
<1> HIDE DEF G
<1>2. \A n \in Nat : f[n] \in Int
  BY <1>1 DEF Doubling
<1>3. f[0] = 1
  BY <1>1 DEF Doubling
<1>4. \A n \in Nat \ {0} : f[n] = 2 * f[n - 1]
  <2> TAKE n \in Nat \ {0}
  <2>1. n - 1 \in Nat /\ n \in 1..n /\ n - 1 <= n
    OBVIOUS
  <2>2. G(n)[n - 1] = G(n - 1)[n - 1]
    BY <1>1, <2>1, DoublingUnique
  <2>3. G(n)[n] = 2 * G(n)[n - 1]
    BY <1>1, <2>1 DEF Doubling
  <2> QED
    BY <2>1, <2>2, <2>3
<1>5. f = [n \in Nat |-> IF n = 0 THEN 1 ELSE 2 * f[n - 1]]
  BY <1>3, <1>4
<1> HIDE DEF f
<1>6. PowerOfTwo = [n \in Nat |-> IF n = 0 THEN 1 ELSE 2 * PowerOfTwo[n - 1]]
  BY <1>5 DEF PowerOfTwo
<1>7. PowerOfTwo[0] = 1 /\ \A n \in Nat \ {0} : PowerOfTwo[n] = 2 * PowerOfTwo[n - 1]
  BY <1>6
<1>8. \A n \in Nat : PowerOfTwo[n] \in Int
  <2> DEFINE T == {n \in Nat : PowerOfTwo[n] \notin Int}
  <2> SUFFICES ASSUME T # {} PROVE FALSE
    OBVIOUS
  <2>1. PICK n \in T : \A y \in T : n <= y
    BY LeastMember
  <2>2. n # 0
    BY <1>7, <2>1
  <2>3. n \in Nat \ {0} /\ n - 1 \in Nat /\ ~(n <= n - 1)
    BY <2>2
  <2>4. PowerOfTwo[n - 1] \in Int
    BY <2>1, <2>3
  <2> QED
    BY <1>7, <2>1, <2>3, <2>4
<1> QED
  BY <1>6, <1>7, <1>8

\* A power of two is at least every earlier one.
LEMMA PowersGrow ==
    ASSUME NEW m \in Nat
    PROVE  \A n \in Nat : n >= m => PowerOfTwo[n] >= PowerOfTwo[m] /\ PowerOfTwo[n] > 0
<1> DEFINE Z == {n \in Nat : ~(PowerOfTwo[n] > 0)}
           T == {n \in Nat : n >= m /\ ~(PowerOfTwo[n] >= PowerOfTwo[m])}
<1>1. \A n \in Nat : PowerOfTwo[n] \in Int
  BY PowerOfTwoDef
<1>2. Z = {}
  <2> SUFFICES ASSUME Z # {} PROVE FALSE
    OBVIOUS
  <2>1. PICK n \in Z : \A y \in Z : n <= y
    BY LeastMember
  <2>2. n # 0
    BY <2>1, PowerOfTwoDef
  <2>3. n \in Nat \ {0} /\ n - 1 \in Nat /\ ~(n <= n - 1)
    BY <2>2
  <2>4. PowerOfTwo[n - 1] > 0
    BY <2>1, <2>3
  <2>5. PowerOfTwo[n] = 2 * PowerOfTwo[n - 1]
    BY <2>3, PowerOfTwoDef
  <2> QED
    BY <1>1, <2>1, <2>3, <2>4, <2>5
<1>3. T = {}
  <2> SUFFICES ASSUME T # {} PROVE FALSE
    OBVIOUS
  <2>1. PICK n \in T : \A y \in T : n <= y
    BY LeastMember
  <2>2. n # m /\ n > m
    BY <1>1, <2>1
  <2>3. n \in Nat \ {0} /\ n - 1 \in Nat /\ n - 1 >= m /\ ~(n <= n - 1)
    BY <2>2
  <2>4. PowerOfTwo[n - 1] >= PowerOfTwo[m] /\ PowerOfTwo[n - 1] > 0
    BY <1>2, <2>1, <2>3
  <2>5. PowerOfTwo[n] = 2 * PowerOfTwo[n - 1]
    BY <2>3, PowerOfTwoDef
  <2> QED
    BY <1>1, <2>1, <2>3, <2>4, <2>5
<1> QED
  BY <1>2, <1>3

\* Multiplication by a delay keeps an order.
LEMMA ProductGrows ==
    ASSUME NEW a \in Nat, NEW b \in Int, NEW c \in Int, b <= c
    PROVE  a * b <= a * c /\ a * (2 * b) = 2 * (a * b)
  OBVIOUS

-----------------------------------------------------------------------------
\* BackoffInv is an invariant: the loop runs through the initial delay times
\* the powers of two until one of them passes half the cap.
THEOREM BackoffInvariance == Spec => []BackoffInv
<1>1. Init => BackoffInv
  <2>1. Init => LoopInv
    BY RetryPolicyAssumption DEF Init, LoopInv, TypeOK, RetryWithinCap, NoDecision
  <2> QED
    BY <2>1 DEF Init, BackoffInv, DecisionIsBackoff
<1>2. BackoffInv /\ LoopInv' /\ [Next]_vars => BackoffInv'
  <2> SUFFICES ASSUME BackoffInv, LoopInv', [Next]_vars PROVE BackoffInv'
    OBVIOUS
  <2>0. /\ policy.initial \in Int /\ policy.maxDelay \in Int /\ policy.maxAttempts \in Nat
        /\ policy.initial > 0 /\ policy.maxDelay >= policy.initial
        /\ attempt \in Nat /\ retryNumber \in Nat /\ delay \in Int
        /\ pc = "loop" => delay > 0 /\ delay <= policy.maxDelay
    BY RetryPolicyAssumption DEF BackoffInv, LoopInv, TypeOK, Acceptable
  <2>1. CASE Enter
    <3>1. CASE attempt = 0 /\ pc' = "error"
      BY <3>1 DEF BackoffInv, DecisionIsBackoff
    <3>2. CASE attempt # 0 /\ attempt >= policy.maxAttempts /\ Decided(FALSE, 0)
      BY <2>0, <3>2 DEF BackoffInv, DecisionIsBackoff, Decided
    <3>3. CASE /\ attempt # 0 /\ attempt < policy.maxAttempts
               /\ pc' = "loop" /\ delay' = policy.initial /\ retryNumber' = 1
               /\ UNCHANGED <<policy, attempt, decision>>
      <4>1. policy.initial = policy.initial * PowerOfTwo[1 - 1]
        BY <2>0, PowerOfTwoDef
      <4> QED
        BY <2>0, <3>3, <4>1 DEF BackoffInv, DecisionIsBackoff
    <3> QED
      BY <2>1, <3>1, <3>2, <3>3 DEF Enter
  <2>2. CASE Iterate
    <3>0. /\ pc = "loop" /\ retryNumber < attempt /\ retryNumber \in 1..attempt
          /\ attempt < policy.maxAttempts
          /\ delay = policy.initial * PowerOfTwo[retryNumber - 1]
      BY <2>2 DEF Iterate, BackoffInv
    <3>1. 2 * delay = policy.initial * PowerOfTwo[retryNumber]
      <4>1. PowerOfTwo[retryNumber] = 2 * PowerOfTwo[retryNumber - 1]
            /\ PowerOfTwo[retryNumber - 1] \in Int
        BY <3>0, PowerOfTwoDef
      <4> QED
        BY <2>0, <3>0, <4>1, ProductGrows
    <3>2. CASE delay > policy.maxDelay \div 2 /\ Decided(TRUE, policy.maxDelay)
      <4>1. /\ attempt - 1 \in Nat /\ attempt - 1 >= retryNumber
            /\ PowerOfTwo[attempt - 1] \in Int /\ PowerOfTwo[retryNumber] \in Int
        BY <2>0, <3>0, PowerOfTwoDef
      <4>2. PowerOfTwo[retryNumber] <= PowerOfTwo[attempt - 1]
        BY <2>0, <4>1, PowersGrow
      <4>3. policy.initial * PowerOfTwo[retryNumber] <= policy.initial * PowerOfTwo[attempt - 1]
        BY <2>0, <4>1, <4>2, ProductGrows
      <4> DEFINE closed == policy.initial * PowerOfTwo[attempt - 1]
      <4>4. closed \in Int /\ 2 * delay <= closed
        BY <2>0, <3>1, <4>1, <4>3
      <4> HIDE DEF closed
      <4>5. policy.maxDelay < 2 * delay
        BY <2>0, <3>2
      <4>6. ~(closed < policy.maxDelay)
        BY <2>0, <4>4, <4>5
      <4>7. Backoff = policy.maxDelay
        BY <4>6 DEF Backoff, Smaller, closed
      <4>8. Backoff' = Backoff
        BY <3>2 DEF Backoff, Decided
      <4> QED
        BY <3>0, <3>2, <4>7, <4>8 DEF BackoffInv, DecisionIsBackoff, Decided
    <3>3. CASE /\ delay <= policy.maxDelay \div 2
               /\ delay' = Double(delay)
               /\ retryNumber' = retryNumber + 1
               /\ UNCHANGED <<policy, attempt, pc, decision>>
      <4>1. delay' = 2 * delay
        BY <2>0, <3>0, <3>3, DoubleWithinCap, RetryPolicyAssumption
        DEF BackoffInv, LoopInv, TypeOK
      <4>2. retryNumber' \in 1..attempt /\ retryNumber' - 1 = retryNumber
        BY <2>0, <3>0, <3>3
      <4> QED
        BY <3>0, <3>1, <3>3, <4>1, <4>2 DEF BackoffInv, DecisionIsBackoff
    <3> QED
      BY <2>2, <3>2, <3>3 DEF Iterate
  <2>3. CASE Leave
    <3>1. /\ retryNumber = attempt /\ attempt < policy.maxAttempts
          /\ delay = policy.initial * PowerOfTwo[attempt - 1] /\ delay <= policy.maxDelay
      BY <2>0, <2>3 DEF Leave, BackoffInv
    <3>2. Backoff = delay
      BY <2>0, <3>1 DEF Backoff, Smaller
    <3>3. Backoff' = Backoff
      BY <2>3 DEF Leave, Backoff, Decided
    <3> QED
      BY <2>3, <3>1, <3>2, <3>3 DEF Leave, BackoffInv, DecisionIsBackoff, Decided
  <2>4. CASE UNCHANGED vars
    BY <2>4 DEF vars, BackoffInv, DecisionIsBackoff, Backoff
  <2> QED
    BY <2>1, <2>2, <2>3, <2>4 DEF Next
<1> QED
  BY <1>1, <1>2, LoopInvariance, PTL DEF Spec

\* Decide answers the closed form for every policy, every attempt and every
\* width of the duration type, and no retry once the attempts are spent.
THEOREM DecideIsClosedForm == Spec => []DecisionIsBackoff
<1>1. BackoffInv => DecisionIsBackoff
  BY DEF BackoffInv
<1> QED
  BY <1>1, BackoffInvariance, PTL
=============================================================================
