SPECIFICATION FairSpec
CONSTANTS
    Pods = {p1}
    Tracking = tracking
    OtherFinalizers = {}
    NoOwner = noOwner
    Foreign = foreign
    MaxLag = 1
    Fuel <- FuelLive
PROPERTIES ExposedEventually WithdrawnEventually DeletionCompletes PodsFollowService
CHECK_DEADLOCK FALSE
