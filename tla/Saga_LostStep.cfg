\* A crash between the saga row and its next message.
SPECIFICATION Spec
CONSTANTS
    Currencies = {"EUR"}
    Amount = 2
    CaptureAmount = 2
    Currency = "EUR"
    Outcomes <- AllSucceed
    AsyncOutcomes <- AllSucceed
    ClientAmounts = {}
    MaxAttempts = 2
    MaxErrors = 0
    MaxCrashes = 1
INVARIANTS
    NextStepIsScheduled
CHECK_DEADLOCK FALSE
