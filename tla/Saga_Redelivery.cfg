\* A crash between failing the payment and saving the saga.
SPECIFICATION FairSpec
CONSTANTS
    Currencies = {"EUR"}
    Amount = 2
    CaptureAmount = 2
    Currency = "EUR"
    Outcomes <- Rejecting
    AsyncOutcomes <- AllSucceed
    ClientAmounts = {}
    MaxAttempts = 2
    MaxErrors = 0
    MaxCrashes = 1
PROPERTIES
    FailedPaymentEndsSaga
CHECK_DEADLOCK FALSE
