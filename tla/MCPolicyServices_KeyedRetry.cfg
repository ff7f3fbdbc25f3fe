SPECIFICATION Spec
CONSTANTS
    Null = Null
    Policies = {p1}
    Workers = {w1, w2}
    Keys = {k1}
    Validity = 1
    MaxClock = 0
    Requests <- EveryCall
INVARIANTS
    KeyedRetriesSafe
