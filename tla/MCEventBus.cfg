SPECIFICATION FairSpec
CONSTANTS
    base = base
    sub = sub
    h1 = h1
    h2 = h2
    o1 = o1
    Types <- MCTypes
    Super <- MCSuper
    Handlers <- MCHandlers
    TypeOf <- MCTypeOf
    Accepts <- MCAccepts
    Once <- MCOnce
    MaxEvents = 2
INVARIANTS
    HandlersServed
    EventsAccounted
PROPERTIES
    StopReturns
CHECK_DEADLOCK FALSE
