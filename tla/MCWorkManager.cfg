SPECIFICATION FairSpec
CONSTANTS
    k1 = k1  k2 = k2  w1 = w1  w2 = w2
    c1 = c1  c2 = c2  a1 = a1  a2 = a2
    NoActivity = NoActivity
    NoWork = NoWork
    Works = {k1, k2}
    Raising = {k2}
    Calls <- TwoCalls
    Workers = {w1}
    Copies = {c1, c2}
    Tries = 1
    PoolActivities = {a1, a2}
    Target = 2
INVARIANTS
    WorkConserved
PROPERTIES
    DoWorkReturns
CHECK_DEADLOCK FALSE
