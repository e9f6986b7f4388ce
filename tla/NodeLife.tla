------------------------------- MODULE NodeLife -------------------------------
(***************************************************************************)
(* GolemNode (golem/node/node.py): its start, what is created and found    *)
(* through it, and aclose, which closes the resources of autoclose kind by *)
(* kind, with the part of Resource (golem/resources/base.py) this rests    *)
(* on: one object per id.                                                  *)
(*                                                                         *)
(* Requests of several tasks overlap; yagna executes a request, the answer *)
(* comes later, and either may go wrong.                                   *)
(***************************************************************************)
EXTENDS Integers, SequencesExt

CONSTANTS
    Resources,   \* what may be created at yagna
    Programs,    \* programs: sets of resources one of them creates
    MaxStarts    \* bound: starts of the node

CONSTANT Kind    \* the class of a resource

\* The order of _close_autoclose_resources.  Activities come there after their
\* pooling batches, which are no resources at yagna and left out.
Order == <<"activity", "agreement", "demand", "allocation", "network">>
Kinds == ToSet(Order)

ASSUME NodeAssumption == /\ Kind \in [Resources -> Kinds] /\ MaxStarts \in Nat
                          /\ Programs \subseteq SUBSET Resources

VARIABLES
    phase,       \* "off", "open", "closing", "leaving"
    starts,
    bus,         \* the event bus runs
    apis,        \* the API clients are open
    yagna,       \* resources that exist at yagna
    asked,       \* create calls: "none", "asked", "made", "answered"
    objects,     \* _resources
    auto,        \* _autoclose_resources: nothing is ever removed
    toClose,     \* the resources aclose made its calls for
    group,       \* the place in Order aclose has come to
    calls,       \* closing calls: "none", "running", "done", "raised"
    finished,    \* ShutdownFinished was emitted since the last start
    kept         \* history: resources whose creator had them before aclose

vars == <<phase, starts, bus, apis, yagna, asked, objects, auto, toClose, group,
          calls, finished, kept>>

TypeOK ==
    /\ phase \in {"off", "open", "closing", "leaving"}
    /\ starts \in 0..MaxStarts
    /\ bus \in BOOLEAN /\ apis \in BOOLEAN /\ finished \in BOOLEAN
    /\ yagna \subseteq Resources /\ objects \subseteq Resources
    /\ auto \subseteq objects /\ toClose \subseteq auto
    /\ kept \subseteq Resources
    /\ asked \in [Resources -> {"none", "asked", "made", "answered"}]
    /\ group \in 1..(Len(Order) + 1)
    /\ calls \in [Resources -> {"none", "running", "done", "raised"}]

Init ==
    /\ phase = "off" /\ starts = 0 /\ bus = FALSE /\ apis = FALSE
    /\ yagna = {}
    /\ \E program \in Programs :
          asked = [r \in Resources |-> IF r \in program THEN "none" ELSE "answered"]
    /\ objects = {} /\ auto = {} /\ toClose = {} /\ kept = {}
    /\ group = 1 /\ calls = [r \in Resources |-> "none"]
    /\ finished = FALSE

-----------------------------------------------------------------------------
(* The program.                                                            *)

\* Requests an earlier aclose gave up on are over by then.
Start ==
    /\ phase = "off" /\ starts < MaxStarts
    /\ \A r \in Resources : calls[r] # "running"
    /\ starts' = starts + 1
    /\ phase' = "open" /\ bus' = TRUE /\ apis' = TRUE
    /\ finished' = FALSE
    /\ UNCHANGED <<yagna, asked, objects, auto, toClose, group, calls, kept>>

Ask(r) ==
    /\ apis /\ asked[r] = "none"
    /\ asked' = [asked EXCEPT ![r] = "asked"]
    /\ UNCHANGED <<phase, starts, bus, apis, yagna, objects, auto, toClose,
                   group, calls, finished, kept>>

Execute(r) ==
    /\ asked[r] = "asked"
    /\ asked' = [asked EXCEPT ![r] = "made"]
    /\ yagna' = yagna \cup {r}
    /\ UNCHANGED <<phase, starts, bus, apis, objects, auto, toClose, group,
                   calls, finished, kept>>

\* The metaclass refuses data for an id it knows: these two bring data along.
Repeated(r) == r \in objects /\ Kind[r] \in {"allocation", "network"}

(* The creator has the object, registered for autoclose, also when the     *)
(* node is being closed: the bus may be stopped, nobody looks.             *)
Answer(r) ==
    /\ asked[r] = "made" /\ ~Repeated(r)
    /\ asked' = [asked EXCEPT ![r] = "answered"]
    /\ objects' = objects \cup {r}
    /\ auto' = auto \cup {r}
    /\ kept' = IF phase = "open" THEN kept \cup {r} ELSE kept
    /\ UNCHANGED <<phase, starts, bus, apis, yagna, toClose, group, calls, finished>>

\* An error, also after the request was executed, or the repeated id.
AnswerRaises(r) ==
    /\ asked[r] \in {"asked", "made"}
    /\ asked' = [asked EXCEPT ![r] = "answered"]
    /\ UNCHANGED <<phase, starts, bus, apis, yagna, objects, auto, toClose,
                   group, calls, finished, kept>>

(* allocations(), demands(), networks(): an object for everything yagna    *)
(* lists.  The first one that is known already makes the call raise.       *)
GetAll(k) ==
    LET found == {r \in yagna : Kind[r] = k} IN
    /\ apis /\ found # {} /\ k \in {"demand", "allocation", "network"}
    /\ IF found \cap objects = {}
       THEN objects' = objects \cup found
       ELSE \E before \in SUBSET (found \ objects) : objects' = objects \cup before
    /\ UNCHANGED <<phase, starts, bus, apis, yagna, asked, auto, toClose, group,
                   calls, finished, kept>>

\* An object for an id the program knows, without asking yagna.
Lookup(r) ==
    /\ r \in yagna
    /\ objects' = objects \cup {r}
    /\ UNCHANGED <<phase, starts, bus, apis, yagna, asked, auto, toClose, group,
                   calls, finished, kept>>

\* The program closes a resource itself: it is still in _autoclose_resources.
UserCloses(r) ==
    /\ apis /\ r \in objects \cap yagna
    /\ yagna' = yagna \ {r}
    /\ UNCHANGED <<phase, starts, bus, apis, asked, objects, auto, toClose,
                   group, calls, finished, kept>>

-----------------------------------------------------------------------------
(* aclose.                                                                 *)

Running(S, g) == [r \in Resources |-> IF r \in S /\ Kind[r] = Order[g]
                                      THEN "running" ELSE calls[r]]
InGroup(g) == {r \in toClose : Kind[r] = Order[g]}

(* ShutdownStarted is queued, the collectors stop, and the calls for every *)
(* kind are made into coroutines: nothing in this suspends.                *)
Close ==
    /\ phase = "open"
    /\ phase' = "closing"
    /\ toClose' = auto
    /\ group' = 1
    /\ calls' = [r \in Resources |-> IF r \in auto /\ Kind[r] = Order[1]
                                     THEN "running" ELSE "none"]
    /\ UNCHANGED <<starts, bus, apis, yagna, asked, objects, auto,
                   finished, kept>>

\* Only destroy() of an activity does not take "gone" for an answer.
Ends(r) ==
    /\ yagna' = yagna \ {r}
    /\ calls' = [calls EXCEPT ![r] = IF bus THEN "done" ELSE "raised"]

CallEnds(r) ==
    /\ calls[r] = "running"
    /\ Ends(r)
    /\ UNCHANGED <<phase, starts, bus, apis, asked, objects, auto, toClose,
                   group, finished, kept>>

\* Executed or not; the second destroy() of an activity may be refused.
CallRaises(r) ==
    /\ calls[r] = "running"
    /\ calls' = [calls EXCEPT ![r] = "raised"]
    /\ yagna' \in {yagna, yagna \ {r}}
    /\ UNCHANGED <<phase, starts, bus, apis, asked, objects, auto, toClose,
                   group, finished, kept>>

GroupGathered == \A r \in InGroup(group) : calls[r] # "running"
GroupReturned == \A r \in InGroup(group) : calls[r] = "done"

NextGroup ==
    /\ phase = "closing" /\ group <= Len(Order)
    /\ GroupReturned
    /\ group' = group + 1
    /\ calls' = IF group = Len(Order) THEN calls ELSE Running(toClose, group + 1)
    /\ UNCHANGED <<phase, starts, bus, apis, yagna, asked, objects, auto,
                   toClose, finished, kept>>

(* One call raises: gather does, the other calls go on alone, and nothing  *)
(* that comes later in the order is closed.                                *)
GroupRaises ==
    /\ phase = "closing" /\ group <= Len(Order)
    /\ \E r \in InGroup(group) : calls[r] = "raised"
    /\ phase' = "leaving"
    /\ UNCHANGED <<starts, bus, apis, yagna, asked, objects, auto, toClose,
                   group, calls, finished, kept>>

CloseApis ==
    /\ phase = "closing" /\ group = Len(Order) + 1
    /\ apis' = FALSE
    /\ finished' = TRUE
    /\ phase' = "leaving"
    /\ UNCHANGED <<starts, bus, yagna, asked, objects, auto, toClose, group,
                   calls, kept>>

StopBus ==
    /\ phase = "leaving"
    /\ bus' = FALSE
    /\ phase' = "off"
    /\ UNCHANGED <<starts, apis, yagna, asked, objects, auto, toClose, group,
                   calls, finished, kept>>

Next ==
    \/ Start \/ Close \/ NextGroup \/ GroupRaises \/ CloseApis \/ StopBus
    \/ \E r \in Resources :
          \/ Ask(r) \/ Execute(r) \/ Answer(r) \/ AnswerRaises(r) \/ Lookup(r)
          \/ UserCloses(r) \/ CallEnds(r) \/ CallRaises(r)
    \/ \E k \in Kinds : GetAll(k)

Spec == Init /\ [][Next]_vars

-----------------------------------------------------------------------------
(***************************************************************************)
(* ClosedWhenFinished: after ShutdownFinished nothing exists at yagna that *)
(* a create call of this node had returned before aclose, whatever was     *)
(* created, found or closed meanwhile, and also when an earlier aclose of  *)
(* the same node had failed (node.py aclose).                              *)
(***************************************************************************)
ClosedWhenFinished == finished => yagna \cap kept = {}

=============================================================================
