\* One payment through its whole lifecycle under retried, duplicated and
\* conflicting idempotency keys, with a webhook endpoint and virtual time moving
\* between the commands.
SPECIFICATION Spec
CONSTANTS
    Currencies = {"EUR", "USD"}
    Ids = {"p1"}
    Endpoints = {1, 2}
    Requests <- LifecycleRequests
    NoKey = "-"
    MaxTime = 2
INVARIANTS
    PaymentsValid
    LedgerMatchesPayments
    HistoryReconstructs
    ReplayIsStable
    KeyAppliedOnce
    NoStuckReservation
    StoredSuccessIsDurable
PROPERTIES
    PaymentsMoveForward
    AtomicService
