SPECIFICATION SpecAll
CONSTANTS
    None = None
    x1 = x1
    x2 = x2
    p1 = p1
    p2 = p2
    p3 = p3
    p4 = p4
    m1 = m1
    m2 = m2
    m3 = m3
    t1 = t1
    t2 = t2
    Rented = {x1, x2}
    Providers <- MCProviders
    Price <- MCPrice
    NoTime = NoTime
    Initial = 0
    Threads = 1
    Interval = 1
    PaymentTimeout = 2
    MaxCostGrace = 1
    LastNoteGrace = 1
    IntervalGrace = 1
    TimeoutGrace = 1
    AmountGrace = 0
    Delay = 1
    MaxTime = 4
    NoValue = NoValue
    Offer <- MCOffer
    Programs <- MCPrograms
    Proposals = {p1, p2, p3, p4}
    Getters = {g1, g2}
    MinSize = 1
    MaxSize = 2
    Faults = {"fill"}
    MaxStarts = 2
    Workers = {w1, w2}
    Machines = {m1, m2, m3}
    Answers = {1, 2}
    Owner <- MCOwner
    Jobs <- MCJobs
    MinSuccess <- MCMinSuccess
    Nil = Nil
    PoolSize = 1
    MaxTaskFaults = 1
    Cmds = {c1, c2, c3, c4}
    Sends = {c1, c2}
    Downloads = {c3}
    Raising = {"before", "execute", "after"}
    Elements <- MCElements
    Payloads <- MCPayloads
    Offers <- MCOffers
    Unset = Unset
    Package = "package"
    TimeKeys = {"expires"}
    Operators = {"&", "|"}
    MaxAdds = 3
    NoParent = NoParent
    Demand = demand
    Theirs = {a1, a2, b2}
    Ours = {b1}
    Early = {b1, b2}
    Prev <- MCPrev
    NoteLog <- MCNoteLog
    a1 = a1
    a2 = a2
    b1 = b1
    b2 = b2
    n1 = n1
    n2 = n2
    MaxNotFound = 3
    Errors = {"timeout", "not found", "other"}
    MaxStops = 2
    Sleepers = {s1, s2, s3}
    Needs <- MCNeeds
    MaxItems = 3
    MaxPuts = 4
    k1 = k1
    k2 = k2
    Todo <- MCTodo
    ManagerRetries <- MCManagerRetries
    WorkRetries <- MCWorkRetries
    Activities = {1, 2, 3, 4, 5, 6, 7, 8}
    MaxFaults = 2
INVARIANTS
    HonestPaid
    HeldBounded
    CheapestFirst
    TasksConserved
    ResultsBacked
    FilesHeld
    MeaningKept
    TreeKept
    NoteEventsKept
    WakeupsKept
    LeftPerFault
    TriedEnough
CHECK_DEADLOCK FALSE
