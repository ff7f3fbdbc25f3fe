SPECIFICATION Spec
CONSTANTS
    Null = Null
    Policies = {p1}
    Workers = {w1, w2}
    Keys = {k1}
    Validity = 1
    MaxClock = 3
    Requests <- EveryCall
SYMMETRY Symmetry
INVARIANTS
    ServiceInv
    HistoryNarrative
    PaymentsBind
    StampsMatchState
    PaidUnlessBoundByHand
    OneWinner
    RepliesTruthful
PROPERTIES
    KeyedRetryReplays
    LapsedStaysQuoted
