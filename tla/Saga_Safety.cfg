\* Any provider, a crash, a failing statement, and HTTP clients on the same payment.
SPECIFICATION FairSpec
CONSTANTS
    Currencies = {"EUR"}
    Amount = 2
    CaptureAmount = 1
    Currency = "EUR"
    Outcomes <- AnyOutcome
    AsyncOutcomes <- AnyOutcome
    ClientAmounts = {1}
    MaxAttempts = 2
    MaxErrors = 1
    MaxCrashes = 1
INVARIANTS
    OutcomeMatchesPayment
    SagaCapturesOnce
PROPERTIES
    SagaMovesForward
    SagaSettles
CHECK_DEADLOCK FALSE
