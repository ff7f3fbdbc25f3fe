SPECIFICATION Spec
CONSTANTS
    Null = Null
    Users = {u1, u2}
    Customers = {c1, c2}
    Policies = {p1}
    Workers = {w1}
    Requests <- EveryRequest
    Given = {"agent", "customer"}
    Changes = {"role", "link", "account", "customer", "owner", "policy", "catalogue", "unique"}
SYMMETRY Symmetry
INVARIANTS
    ViewsInv
    ScopeHolds
    TrailNamesAuthors
    BareErrorsExplained
    RoutesAgree
