\* A refresh and a batch capture, wait for and reuse cycles.
CONSTANTS
    refresher = refresher
    b1 = b1
    Refresher = refresher
    Callers = {b1}
    Nobody = Nobody
    Day = 2
    MaxAge = 1
    Stale = 1
    MaxCalls = 3
    MaxTime = 3
    MaxCrashes = 1
    MaxResets = 1
SPECIFICATION FairSpec
INVARIANTS WaitersReuse
PROPERTIES OutcomesAreFinal EveryCallEnds
