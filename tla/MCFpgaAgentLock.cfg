CONSTANTS
    Callers = {c1, c2}
    Safety = Safety
    Images = {i1}
    NoImage = NoImage
    Subscribers = {}
    DiscoveryMissThreshold = 1
    TelemetryFailureThreshold = 1
    Failing = {"pl", "ps", "reset", "absent"}
SPECIFICATION FairSpec
INVARIANTS
    OneToolAtATime
    HotBoardIsLocked
PROPERTIES
    LockIsLeft
    ServiceSpec
