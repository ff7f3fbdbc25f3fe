SPECIFICATION FairSpec
CONSTANTS
    Null = Null
    Policies = {p1, p2}
    Workers = {w1, w2}
    Keys = {k1}
    Validity = 1
    MaxClock = 0
    Requests <- KeyCalls
INVARIANTS
    KeysUnique
    ServerErrorOnlyAcrossPolicies
PROPERTIES
    ImplementsBook
    Answered
