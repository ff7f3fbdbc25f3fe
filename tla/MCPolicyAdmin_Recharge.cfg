SPECIFICATION AdminSpec
CONSTANTS
    Null = Null
    Policies = {p1}
    Workers = {w1}
    Keys = {}
    Validity = 1
    MaxClock = 0
    Staff = {s1}
    MaxForms = 1
    Requests <- PageCalls
INVARIANTS
    ChargedOnce
