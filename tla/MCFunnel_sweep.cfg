\* A cycle of the same day is never swept.
CONSTANTS
    refresher = refresher
    b1 = b1
    Refresher = refresher
    Callers = {b1}
    Nobody = Nobody
    Day = 3
    MaxAge = 1
    Stale = 1
    MaxCalls = 3
    MaxTime = 4
    MaxCrashes = 1
    MaxResets = 1
SPECIFICATION Spec
PROPERTIES StaleAreSwept
