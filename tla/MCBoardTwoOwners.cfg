CONSTANTS
    Users = {u1, u2}
    NoUser = NoUser
    Demos = {full}
    NoDemo = NoDemo
    PLDemos = {full}
    PSDemos = {full}
    RuntimeDemos = {full}
    MaxSessions = 2
    Contended = 1
    EndReasons = {}
    Troubles = {"end_starting"}
    MaxTroubles = 1
    MaxConns = 1
    MaxTime = 0
    EventBuffer = 1
SPECIFICATION Spec
SYMMETRY Symmetry
INVARIANTS
    OnlyOwnerProgrammed
CHECK_DEADLOCK FALSE
