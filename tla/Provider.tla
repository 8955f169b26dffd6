------------------------------ MODULE Provider ------------------------------
(***************************************************************************)
(* The simulated payment providers: what a configured provider answers to  *)
(* an operation.  A configuration is the provider's id with the profile    *)
(* and the seed of a scenario; answers depend on nothing else but the      *)
(* virtual time of the request.                                            *)
(***************************************************************************)
EXTENDS Integers

\* The registry: the providers the composition root registers.
Registered == {"adyen", "fake", "stripe"}

\* Configure: an empty profile is the success profile.
Configure(id, profile, seed) ==
    [id |-> id, profile |-> IF profile = "" THEN "success" ELSE profile, seed |-> seed]

Seeded(cfg, remainder) == cfg.profile = "seeded" /\ cfg.seed % 3 = remainder

\* result: only authorizations are ever rejected or deferred.
Outcome(cfg, operation) ==
    IF operation # "authorize" THEN "succeeded"
    ELSE IF cfg.profile = "fail_authorize" \/ Seeded(cfg, 1) THEN "failed"
    ELSE IF cfg.profile = "pending_authorize" \/ Seeded(cfg, 2) THEN "pending"
    ELSE "succeeded"

\* pendingResult: minutes until a deferred operation is due.
Delay(cfg) == IF cfg.profile = "seeded" THEN (cfg.seed % 5) + 1 ELSE 1

\* ExecuteAsync: a deferred operation succeeds when it is resumed.
AsyncOutcome == "succeeded"

\* validateOperationAmount: amounts of captures and refunds a provider refuses.
AmountRefused(paymentCurrency, amount, currency) ==
    amount <= 0 \/ currency # paymentCurrency
=============================================================================
