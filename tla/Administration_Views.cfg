\* Two versions, two times, two overlapping delivery attempts that crash or
\* fail, and one administrator reading at any moment.
SPECIFICATION AdminSpec
CONSTANTS
    MaxAttempts = 2
    MaxVersion = 2
    MaxTime = 1
INVARIANTS
    AdminTypeOK
    AuditTellsTruth
    CompletedMeansDelivered
    TimelineCoversState
    DiagnosticsNotBehind
    HistoryIsCausal
PROPERTIES
    AuditIsFinal
CONSTRAINT UntilAnswered
CHECK_DEADLOCK FALSE
