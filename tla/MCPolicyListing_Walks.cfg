SPECIFICATION Spec
CONSTANTS
    Null = Null
    MaxId = 3
    PageSize = 1
    Limit = 2
    MaxClock = 1
    Walks <- EveryWalk
CONSTRAINT Open
CHECK_DEADLOCK FALSE
INVARIANTS
    ConsistentlyOrdered
    NothingSkipped
    SectionCoversCount
