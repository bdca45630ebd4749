SPECIFICATION Spec
CONSTANTS
    Pods = {p1, p2}
    Tracking = tracking
    OtherFinalizers = {}
    NoOwner = noOwner
    Foreign = foreign
    MaxLag = 2
    Fuel <- FuelPods
INVARIANTS TypeOK RightWhenInSync StaleWorkIsRedone 
PROPERTIES ForeignOwnerKept
SYMMETRY Symmetry
CHECK_DEADLOCK FALSE
