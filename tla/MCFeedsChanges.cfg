CONSTANTS
    Visitors = {u1, u2}
    Pages = {u1}
    Readers = {r1}
    Demos = {d1}
    NoDemo = NoDemo
    Boards = {"idle", "reserved"}
    SubscriberSize = 2
    OutgoingSize = 0
    MaxSessions = 2
    MaxEvents = 1
    MaxObservers = 1
SPECIFICATION Spec
INVARIANTS
    EveryChangeIsPublic
CHECK_DEADLOCK FALSE
