------------------------------- MODULE MCHelpers -------------------------------
(***************************************************************************)
(* Components that share no state, in one run: an initial state chooses    *)
(* the one that moves, the variables of the others are None or empty.  The *)
(* two collectors of ResourceTree share no state either and move apart.    *)
(***************************************************************************)
EXTENDS
    SequentialWork, Commands, TaskApi, Waiter, ScoringBuffer, ResourceTree, Payments,
    DemandBuilding, TLC

CONSTANTS
    x1, x2, p1, p2, p3, p4, m1, m2, m3, t1, t2,
    a1, a2, b1, b2, n1, n2,
    k1, k2

VARIABLE part

\* Payments: a provider that sends what it can, three that keep to the agreement, of
\* whom one has a counter nobody knows and no mid-agreement payments, and one two
\* activities.
MCPrice == ("cpu" :> 1) @@ ("duration" :> 1) @@ ("other" :> 2)
Linear == <<"cpu", "duration">>
Provider(v, a, m, h, n) ==
    [vector |-> v, activities |-> a, midAgreement |-> m, hasty |-> h, notes |-> n]
MCProviders == {
    Provider(Linear, {x1}, TRUE, TRUE, 3), Provider(Linear, {x1}, TRUE, FALSE, 3),
    Provider(<<"other", "cpu">>, {x1}, FALSE, FALSE, 1),
    Provider(Linear, {x1, x2}, TRUE, FALSE, 1)}

\* Scoring: offers with and without prices and threads; scorers that normalize, flip,
\* raise and cancel each other out.
OneOffer(l, t, i, d, c) ==
    [linear |-> l, threads |-> t, initial |-> i, duration |-> d, cpu |-> c]
MCOffer == (p1 :> OneOffer(TRUE, 2, 0, 1, 2)) @@ (p2 :> OneOffer(TRUE, 4, 4, 0, 1))
           @@ (p3 :> OneOffer(TRUE, 0, 0, 0, 3)) @@ (p4 :> OneOffer(FALSE, 1, 0, 0, 0))
MapOf(by, n, f, w) == [kind |-> "map", by |-> by, normalize |-> n, flip |-> f, weight |-> w]
LerpOf(f, t, w) == [kind |-> "lerp", from |-> f, to |-> t, weight |-> w]
MCPrograms == {
    <<MapOf("coeff", TRUE, TRUE, 1)>>,
    <<MapOf("average", TRUE, TRUE, 2), LerpOf(<<0, 1>>, <<1, 3>>, 1)>>,
    <<MapOf("per cpu", FALSE, FALSE, 1)>>,
    <<MapOf("average per cpu", TRUE, TRUE, 1)>>,
    <<LerpOf(<<-1, 1>>, <<1, 3>>, 1), MapOf("coeff", TRUE, FALSE, -1)>>}

\* Task API: two machines of one provider and one of another.
MCOwner == (m1 :> "alice") @@ (m2 :> "bob") @@ (m3 :> "alice")
MCMinSuccess == <<2, 3>>
MCJobs == {
    [tasks |-> <<t1, t2>>, repeat |-> Nil], [tasks |-> <<>>, repeat |-> Nil],
    [tasks |-> <<t1, t1>>, repeat |-> 2], [tasks |-> <<t1, t2>>, repeat |-> 2],
    [tasks |-> <<t1>>, repeat |-> 1]}

\* Demands: groups of the three operators, a list, a zero, a time, an image.
One(name, op, v) == Constraint(name, op, FALSE, {v})
MCElements == <<
    One("mem", ">=", 1), One("cpu", "=", 2), Group("&", {1, 2}),
    Group("&", {}),
    One("mem", ">", 0), Group("&", {5}),
    One("mem", "<", 2), One("cpu", "=", 1), Group("!", {8}), Group("|", {7, 9}),
    Constraint("cpu", "<=", TRUE, {1, 2}), Group("!", {11}),
    One("cpu", "<=", 1), One("cpu", ">", 1), Group("|", {13, 14})>>
PayloadOf(props, cons, hash, image) ==
    [props |-> props, cons |-> cons, hash |-> hash, image |-> image]
MCPayloads == {
    PayloadOf([expires |-> [clock |-> 1500, zone |-> 0], name |-> Unset], 3, Unset, Unset),
    PayloadOf([expires |-> [clock |-> 2700, zone |-> 60], name |-> "n"], 4, Unset, Unset),
    PayloadOf([package |-> Unset], 6, "h", Unset),
    PayloadOf([package |-> Unset], 10, "h", "u"),
    PayloadOf([name |-> "m"], 12, Unset, Unset),
    PayloadOf([package |-> "given"], 15, Unset, Unset)}
MCOffers == [{"mem", "cpu"} -> 0..2]

\* Tree: an offer, our response, the provider's answer, and an offer that leads nowhere.
MCPrev == (a1 :> Demand) @@ (a2 :> Demand) @@ (b1 :> a1) @@ (b2 :> b1)
MCNoteLog == << [note |-> n1, date |-> 1], [note |-> n1, date |-> 2], [note |-> n2, date |-> 3],
              [note |-> n2, date |-> 4], [note |-> n1, date |-> 5] >>

\* Works: one retried by the manager alone, one also by its own plugin.
MCTodo == <<k1, k2>>
MCManagerRetries == <<1>>
MCWorkRetries == (k1 :> <<>>) @@ (k2 :> <<1>>)

\* Waiter: everybody waits for one item.
MCNeeds == [t \in Sleepers |-> 1]

ASSUME PartsAssumption ==
    /\ ScoringAssumption /\ BuilderAssumption /\ TreeAssumption

workAll ==
    <<callbacks, turn, caller, counts, attempts, hand, activity, ok, results, faults>>

OffPay == PayInit /\ provider.hasty
OffSco ==
    /\ scorers = <<>> /\ market = {} /\ FillInit /\ batch = <<>> /\ scored = <<>>
    /\ failed = FALSE /\ loop = "off" /\ getter = None /\ starts = 0 /\ started = FALSE
    /\ overdrawn = FALSE
OffTask ==
    /\ input = <<>> /\ repeat = Nil /\ rest = <<>> /\ queue = <<>> /\ taskCnt = 0
    /\ inStreamEmpty = FALSE /\ offered = {} /\ passed = {} /\ ended = FALSE
    /\ managed = Nil /\ idle = <<>> /\ destroyed = {} /\ worker = Nil /\ doing = Nil
    /\ machine = Nil /\ given = Nil /\ useless = {} /\ partial = <<>>
    /\ outcome = <<>> /\ errors = 0
OffCmd ==
    /\ stage = "off" /\ before = {} /\ after = {} /\ shared = {} /\ got = {}
    /\ broken = FALSE /\ lost = FALSE
OffBuild ==
    /\ constraints = Group("&", {}) /\ properties = <<>> /\ added = <<>> /\ raised = FALSE
OffTree ==
    /\ known = {} /\ parent = None /\ children = None /\ rooted = {} /\ events = None
    /\ noMore = None /\ inbox = <<>> /\ told = {} /\ responses = None /\ collector = None
    /\ notFound = None /\ issued = 0 /\ minTs = 0 /\ inHand = <<>> /\ listed = None
    /\ fetched = None /\ gathered = <<>> /\ placed = None /\ stops = 0
OffWait ==
    /\ stock = 0 /\ puts = 0 /\ deque = <<>> /\ at = None /\ swallowed = 0
OffWork ==
    /\ callbacks = {} /\ turn = None /\ caller = None /\ counts = None
    /\ attempts = None /\ hand = None /\ activity = None /\ ok = None
    /\ results = <<>> /\ faults = None

InitAll ==
    \/ /\ part = "payments" /\ PayInit
       /\ OffSco /\ OffTask /\ OffCmd /\ OffBuild /\ OffTree /\ OffWait /\ OffWork
    \/ /\ part = "scoring" /\ ScoInit
       /\ OffPay /\ OffTask /\ OffCmd /\ OffBuild /\ OffTree /\ OffWait /\ OffWork
    \/ /\ part = "tasks" /\ TaskInit
       /\ OffPay /\ OffSco /\ OffCmd /\ OffBuild /\ OffTree /\ OffWait /\ OffWork
    \/ /\ part = "commands" /\ CmdInit
       /\ OffPay /\ OffSco /\ OffTask /\ OffBuild /\ OffTree /\ OffWait /\ OffWork
    \/ /\ part = "demand" /\ BuildInit
       /\ OffPay /\ OffSco /\ OffTask /\ OffCmd /\ OffTree /\ OffWait /\ OffWork
    \/ /\ part \in {"tree", "notes"} /\ TreeInit
       /\ OffPay /\ OffSco /\ OffTask /\ OffCmd /\ OffBuild /\ OffWait /\ OffWork
    \/ /\ part = "waiter" /\ WaiterInit
       /\ OffPay /\ OffSco /\ OffTask /\ OffCmd /\ OffBuild /\ OffTree /\ OffWork
    \/ /\ part = "works" /\ SeqInit
       /\ OffPay /\ OffSco /\ OffTask /\ OffCmd /\ OffBuild /\ OffTree /\ OffWait

NextAll ==
    \/ /\ part = "payments"
       /\ UNCHANGED <<part, scoVars, taskVars, cmdVars, buildVars, treeVars, waiterVars, workAll>>
       /\ PayNext
    \/ /\ part = "scoring"
       /\ UNCHANGED <<part, payVars, taskVars, cmdVars, buildVars, treeVars, waiterVars, workAll>>
       /\ ScoNext
    \/ /\ part = "tasks"
       /\ UNCHANGED <<part, payVars, scoVars, cmdVars, buildVars, treeVars, waiterVars, workAll>>
       /\ TaskNext
    \/ /\ part = "commands"
       /\ UNCHANGED <<part, payVars, scoVars, taskVars, buildVars, treeVars, waiterVars, workAll>>
       /\ CmdNext
    \/ /\ part = "demand"
       /\ UNCHANGED <<part, payVars, scoVars, taskVars, cmdVars, treeVars, waiterVars, workAll>>
       /\ BuildNext
    \/ /\ part = "tree"
       /\ UNCHANGED <<part, payVars, scoVars, taskVars, cmdVars, buildVars, waiterVars, workAll>>
       /\ DemandNext
    \/ /\ part = "notes"
       /\ UNCHANGED <<part, payVars, scoVars, taskVars, cmdVars, buildVars, waiterVars, workAll>>
       /\ NoteNext
    \/ /\ part = "waiter"
       /\ UNCHANGED <<part, payVars, scoVars, taskVars, cmdVars, buildVars, treeVars, workAll>>
       /\ WaiterNext
    \/ /\ part = "works"
       /\ UNCHANGED <<part, payVars, scoVars, taskVars, cmdVars, buildVars, treeVars, waiterVars>>
       /\ SeqNext

SpecAll ==
    InitAll /\ [][NextAll]_<<part, payVars, scoVars, taskVars, cmdVars, buildVars, treeVars,
                              waiterVars, workAll>>
===============================================================================
