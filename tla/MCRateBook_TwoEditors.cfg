SPECIFICATION Spec
CONSTANTS
    Null = Null
    Scale = 2
    Staff = {s1, s2}
    RuleIds = {r1, r2}
    Shapes <- OneBand
    MaxRows = 1
    Edits = {"add"}
    Quotes = {}
    Ages = {1, 2, 3}
    Days = {1, 2, 3}
    TheProduct <- MCProduct
    Cover = 2
SYMMETRY Symmetry
CHECK_DEADLOCK FALSE
INVARIANTS
    TableNeverOverlaps
