SPECIFICATION MCSpec
CONSTANTS
    NoOne = NoOne
    NoProposal = NoProposal
    Proposals = {p1, p2, p3}
    Workers = {w1, w2}
    Getters = {u1, u2}
    Cancellable = {u2}
    MinSize = 1
    MaxSize = 2
    FillConcurrency = 2
    MaxStarts = 2
    MaxStops = 2
    Suspends = TRUE
    Faults = {"fill", "timer", "reject"}
INVARIANTS
    BufferExact
    TargetKept
PROPERTIES
    CalmServed
CHECK_DEADLOCK FALSE
