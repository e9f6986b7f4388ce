SPECIFICATION NegotiationSpec
CONSTANTS
    p1 = p1
    p2 = p2
    p3 = p3
    None = None
    u1 = u1
    u2 = u2
    Callers <- MCCallers
    Providers = {p1, p2, p3}
    Chain <- MCChain
    Blacklist = {p3}
    Whitelist = {p1, p2, p3}
    Cost <- MCCost
    MaxCost = 1
    RejectUnpriceable = TRUE
    Terms <- MCTerms
    Minimal <- MCMinimal
    Optimal <- MCOptimal
    MinAdjustment = 2
    Factor = 33
    Offers <- MCOffers
    DemandPlatforms = {"erc20"}
    Platforms <- MCPlatforms
    MaxLen = 4
    MaxChainStarts = 1
INVARIANTS
    AnswersKept
    TermsBargained
    NobodyLeftWaiting
SYMMETRY Symmetry
CHECK_DEADLOCK FALSE
