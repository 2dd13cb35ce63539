CONSTANTS
    Users = {u1, u2}
    NoUser = NoUser
    Demos = {full}
    NoDemo = NoDemo
    PLDemos = {full}
    PSDemos = {full}
    RuntimeDemos = {full}
    MaxSessions = 3
    Contended = 1
    EndReasons = {}
    Troubles = {"fail_pl", "fail_ps", "fail_rt"}
    MaxTroubles = 1
    MaxConns = 2
    MaxTime = 0
    EventBuffer = 1
SPECIFICATION Spec
SYMMETRY Symmetry
INVARIANTS
    OwnBoard
    CleanStart
    NoRuntimeLeaked
    DeadlineHasTimer
CHECK_DEADLOCK FALSE
