SPECIFICATION Spec
CONSTANTS
    Null = Null
    Policies = {p1, p2}
    Customers = {c1, c2}
    Accounts = {a1}
    Pressed = {"login", "createCustomer", "createQuote", "accept", "detail"}
    MaxCalls = 3
    MaxUnderWay = 2
    MaxTyped = 1
SYMMETRY Symmetry
CHECK_DEADLOCK FALSE
INVARIANTS
    PageInv
    StepsShareIds
    QuotesAccounted
    PanelPairs
