SPECIFICATION FairReportSpec
CONSTANTS
    Specs = {s1, s2}
    Errors = {e1, e2}
    MaxLag = 2
    Fuel <- FuelFaults
INVARIANTS TypeOK RestsOnlyHealthy WritesPaidFor
PROPERTIES VerdictFitsSpec ReportsHonestly HealthyEventually UnhealthyEventually
CHECK_DEADLOCK FALSE
