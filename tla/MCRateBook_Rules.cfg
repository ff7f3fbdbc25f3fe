SPECIFICATION Spec
CONSTANTS
    Null = Null
    Scale = 2
    Staff = {s1, s2}
    RuleIds = {r1, r2}
    Shapes <- FewShapes
    MaxRows = 2
    Edits = {"add", "change", "delete"}
    Quotes = {q1}
    Ages = {1, 2}
    Days = {2, 3}
    TheProduct <- MCProduct
    Cover = 2
SYMMETRY Symmetry
CHECK_DEADLOCK FALSE
INVARIANTS
    QuotesExplained
    QuoteInv
PROPERTIES
    OverlapsExplained
