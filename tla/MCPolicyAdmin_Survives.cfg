SPECIFICATION AdminSpec
CONSTANTS
    Null = Null
    Policies = {p1}
    Workers = {w1, w2}
    Keys = {}
    Validity = 1
    MaxClock = 1
    Staff = {s1}
    MaxForms = 3
    Requests <- PageCalls
SYMMETRY Symmetry
INVARIANTS
    AdminInv
    StateWasReal
    AddedPoliciesInert
    PaymentsNamed
PROPERTIES
    HistoryAppendOnly
