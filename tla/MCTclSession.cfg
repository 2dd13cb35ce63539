CONSTANTS
    NoContext = NoContext
    Chains <- MCChains
    MaxRuns = 4
SPECIFICATION Spec
INVARIANTS
    OkIsOwn
    LagsByOne
    BoardIsFree
    ContextIsBoard
PROPERTIES
    CallsEnd
