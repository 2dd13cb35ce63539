CONSTANTS
    Processes = {p1, p2, p3, p4}
    NoProcess = NoProcess
    Stubborn = TRUE
    Viewers = {v1, v2}
    Leases = {d1, d2}
SPECIFICATION FairSpec
INVARIANTS
    OneOwner
    NoReplay
    CaptureIffWanted
    DemoKeepsCapture
    DemoSeesItself
PROPERTIES
    MonitoredStops
