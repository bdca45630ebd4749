SPECIFICATION ReportSpec
CONSTANTS
    Specs = {s1, s2}
    Errors = {e1, e2}
    MaxLag = 1
    Fuel <- FuelGet
INVARIANT SynchronizesUntilHealthy
CHECK_DEADLOCK FALSE
