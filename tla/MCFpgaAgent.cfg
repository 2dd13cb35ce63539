CONSTANTS
    Callers = {c1, c2}
    Safety = Safety
    Images = {i1, i2}
    NoImage = NoImage
    Subscribers = {s1}
    DiscoveryMissThreshold = 1
    TelemetryFailureThreshold = 2
    Failing = {"telemetry", "absent"}
SPECIFICATION Spec
SYMMETRY Symmetry
INVARIANTS
    StreamIsCurrent
    HotBoardIsBlank
    RecordIsHonest
