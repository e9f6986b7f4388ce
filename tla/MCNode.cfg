SPECIFICATION SpecAll
CONSTANTS
    act = act
    agr = agr
    alo = alo
    net = net
    a1 = a1
    a2 = a2
    p1 = p1
    Resources = {act, agr, alo, net}
    Kind <- MCKind
    Programs <- MCPrograms
    MaxStarts = 2
    Net = net
    Hosts = 2
    Agreements = {a1, a2}
    Requestors = {q1}
    Provider <- MCProvider
    None = None
INVARIANTS
    ClosedWhenFinished
    AddressesDistinct
CHECK_DEADLOCK FALSE
