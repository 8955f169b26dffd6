\* Scenarios of up to five commands, executed twice; a tick takes two jobs.
SPECIFICATION Spec
CONSTANTS
    Currencies = {"EUR", "USD"}
    PaymentIds = {1, 2}
    Requests <- MCRequests
    Rivals <- MCRivals
    BatchSize = 2
    MaxRuns = 2
INVARIANTS
    ReplaysAgree
    DeferredWaits
    DeferredIsKept
    SagaMatchesPayment
