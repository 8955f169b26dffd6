\* All policies and attempts over a five-bit signed duration.
SPECIFICATION Spec
CONSTANTS
    MaxDuration = 15
    Policies <- SmallPolicies
    Calls = {0, 1, 2, 3, 4, 5, 6, 7, 8}
INVARIANTS
    DecisionIsBackoff
    RetryWithinCap
CHECK_DEADLOCK FALSE
