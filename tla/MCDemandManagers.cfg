SPECIFICATION MCSpec
CONSTANTS
    Refreshing = {r1}
    SingleUse = {s1}
    u1 = u1
    u2 = u2
    p1 = p1
    p2 = p2
    Users <- MCUsers
    Proposals <- MCProposals
    MaxDemands = 2
    MaxStarts = 2
    MaxStops = 1
    MaxFeeds = 2
    None = None
SYMMETRY Symmetry
INVARIANTS
    LeaksKnown
    ProposalsOnce
CHECK_DEADLOCK FALSE
