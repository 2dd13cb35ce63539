CONSTANTS
    Users = {u1, u2}
    NoUser = NoUser
    Demos = {hdmi}
    NoDemo = NoDemo
    PLDemos = {hdmi}
    PSDemos = {}
    RuntimeDemos = {hdmi}
    MaxSessions = 2
    Contended = 1
    EndReasons = {}
    Troubles = {"fail_pl", "fail_rt", "fail_reset", "comm", "agent", "web", "heat", "mode", "end_starting"}
    MaxTroubles = 1
    MaxConns = 1
    MaxTime = 0
    EventBuffer = 1
SPECIFICATION FairSpec
INVARIANTS
    TypeOK
    LockIsLive
    OwnerIsServed
    ConnectedIsNotTimedOut
PROPERTIES
    QueueMoves
    EndingEnds
CHECK_DEADLOCK FALSE
