CONSTANTS
    Users = {u1, u2, u3}
    NoUser = NoUser
    Demos = {d1}
    NoDemo = NoDemo
    MaxSessions = 3
    Contended = 2
    EndReasons = {"expired", "fpga_fault"}
    MaxTime = 3
SPECIFICATION Spec
SYMMETRY Symmetry
INVARIANTS
    SingleOwner
    OneLiveSessionPerUser
    LimitedIffContended
    MinimumWindow
PROPERTIES
    DeadlineStands
    TurnsSpec
CHECK_DEADLOCK FALSE
