SPECIFICATION MCSpec
CONSTANTS
    NoAgreement = NoAgreement
    Agreements = {g1, g2}
    g1 = g1
    Kinds = {"invoice", "debit"}
    Getters = {u1}
INVARIANTS
    InvoicesFollowed
    StopEndsAgreements
PROPERTIES
    ActivityEndsAgreement
CHECK_DEADLOCK FALSE
