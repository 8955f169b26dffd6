\* Two HTTP commands whose clients give up some day, two administrators, a
\* crash.
SPECIFICATION ImpatientSpec
CONSTANTS
    Commands = {c1, c2}
    Advances = {a1, a2}
    Cancellable = {c1, c2}
    Nobody = Nobody
    MaxTime = 3
    MaxCrashes = 1
INVARIANTS
    CommittedTimeIsStored
PROPERTIES
    TimeNeverRunsBack
    EveryCallReturns
