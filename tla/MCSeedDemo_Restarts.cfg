SPECIFICATION Spec
CONSTANTS
    Null = Null
    UserIds = {u1, u2, u3}
    CustomerIds = {c1, c2}
    OtherEmails = {}
    Edits = {"customers", "users"}
SYMMETRY Symmetry
CHECK_DEADLOCK FALSE
INVARIANTS
    TypeOK
    FailedBootExplained
PROPERTIES
    BootRestoresDemo
