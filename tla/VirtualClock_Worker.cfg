\* A command of the worker, whose context nobody cancels, meets an advance.
SPECIFICATION FairSpec
CONSTANTS
    Commands = {c1}
    Advances = {a1}
    Cancellable = {}
    Nobody = Nobody
    MaxTime = 3
    MaxCrashes = 0
PROPERTIES
    EveryCallReturns
CHECK_DEADLOCK FALSE
