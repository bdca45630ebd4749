SPECIFICATION Spec
CONSTANTS
    Pods = {p1, p2}
    Tracking = tracking
    OtherFinalizers = {other}
    NoOwner = noOwner
    Foreign = foreign
    MaxLag = 2
    Fuel <- FuelFaults
INVARIANTS GuardedCreate RestsOnlyConverged ServiceWritesPaidFor
PROPERTIES OnlyFinalizerWritten ImplementsProtocol
SYMMETRY Symmetry
CHECK_DEADLOCK FALSE
