SPECIFICATION Spec
CONSTANTS
    c1 = c1
    c2 = c2
    f1 = f1
    t1 = t1
    t2 = t2
    u1 = u1
    Main = main
    None = None
    Clients <- MCClients
    Files = {f1}
    Temps <- MCTemps
    Urls = {u1}
    Url <- MCUrl
SYMMETRY Symmetry
INVARIANTS
    CountExact
    ServedExactly
CHECK_DEADLOCK FALSE
