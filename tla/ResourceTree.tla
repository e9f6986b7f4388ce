----------------------------- MODULE ResourceTree -----------------------------
(***************************************************************************)
(* How resources find their place: one object per id, a parent for each,   *)
(* and the two kinds of collectors that read yagna's events, the one of a  *)
(* demand and the one of the node's debit notes (that of the invoices      *)
(* differs in the names only). The market is a few proposals of which      *)
(* Prev tells what each answers; Ours are made by respond.                 *)
(***************************************************************************)
EXTENDS Integers, Sequences, FiniteSets, SequencesExt

CONSTANTS Demand, Theirs, Ours, Prev, \* proposals, and what each one answers
          Early,        \* the proposals the requestor may look up by id
          NoteLog,      \* the debit note events of the node, by date
          MaxNotFound,  \* MAX_GSB_ENDPOINT_NOT_FOUND_ERRORS
          Errors,       \* how collecting may fail
          MaxStops,
          NoParent

Ids == Theirs \cup Ours

\* Proposals answer the other side, and no two events have one date.
TreeAssumption ==
    /\ Theirs \cap Ours = {} /\ Demand \notin Ids /\ NoParent \notin Ids \cup {Demand}
    /\ Prev \in [Ids -> Ids \cup {Demand}]
    /\ \A p \in Theirs : Prev[p] \in Ours \cup {Demand}
    /\ \A p \in Ours : Prev[p] \in Theirs
    /\ Early \subseteq Ids
    /\ NoteLog \in Seq([note : {n.note : n \in ToSet(NoteLog)}, date : Nat \ {0}])
    /\ \A i, j \in 1..Len(NoteLog) : i < j => NoteLog[i].date < NoteLog[j].date
    /\ MaxNotFound \in Nat /\ MaxStops \in Nat

Collectors == {"offers", "notes"}
Intermittent == {"timeout", "disconnected"}

VARIABLES
    known,      \* node._resources[Proposal]
    parent, children,
    rooted,     \* the proposals whose _demand is set
    events, noMore,
    inbox,      \* events of the demand yagna has not handed over
    told,       \* the events the market made
    responses,  \* how far the call of respond is, for each of Ours
    collector, notFound,
    issued,     \* how many of NoteLog happened
    minTs, inHand,
    listed,     \* node._resources[DebitNote]
    fetched,    \* the debit notes with data
    gathered,   \* the events added to their debit notes, in order
    placed,     \* the debit notes that are children of their activity
    stops       \* how often the collector of notes was stopped or died (history)

demandVars == <<known, parent, children, rooted, events, noMore, inbox, told, responses>>
noteVars == <<issued, minTs, inHand, listed, fetched, gathered, placed, stops>>
treeVars == <<demandVars, noteVars, collector, notFound>>

TreeInit ==
    /\ known = {} /\ rooted = {} /\ inbox = <<>> /\ told = {}
    /\ parent = [p \in Ids |-> NoParent]
    /\ children = [p \in Ids \cup {Demand} |-> <<>>]
    /\ events = [p \in Ids |-> <<>>]
    /\ noMore = [p \in Ids \cup {Demand} |-> "open"]
    /\ responses = [p \in Ours |-> "none"]
    /\ collector = [c \in Collectors |-> "on"]
    /\ notFound = [c \in Collectors |-> 0]
    /\ issued = 0 /\ minTs = 0 /\ inHand = <<>> /\ stops = 0
    /\ listed = {} /\ fetched = {} /\ gathered = <<>> /\ placed = {}

\* Proposal.demand: the parents lead to it, or it raises.
Reaches[p \in Ids] ==
    \/ p \in rooted \/ parent[p] = Demand
    \/ parent[p] \in Ids /\ Reaches[parent[p]]

-----------------------------------------------------------------------------
Event(kind, p) == [kind |-> kind, id |-> p]
Tell(e) == e \notin told /\ told' = told \cup {e} /\ inbox' = Append(inbox, e)

\* The market: offers, answers to what we sent, and rejections of it.
Offered(p) ==
    /\ Prev[p] \in Ours => responses[Prev[p]] # "none"
    /\ Tell(Event("proposal", p))
    /\ UNCHANGED <<known, parent, children, rooted, events, noMore, responses>>
Rejected(p) ==
    /\ responses[p] # "none"
    /\ Tell(Event("rejected", p))
    /\ UNCHANGED <<known, parent, children, rooted, events, noMore, responses>>

\* One object per id.
CreateObject(S) == known' = known \cup S

\* Mutant: a resource that exists already is not added.
AttachedKnown(p) == IF p \in known THEN children ELSE [children EXCEPT ![Prev[p]] = Append(@, p)]
\* add_child()
Attached(p) == [children EXCEPT ![Prev[p]] = Append(@, p)]
AddChild(p) == parent' = [parent EXCEPT ![p] = Prev[p]] /\ children' = Attached(p)
Close(p, how) == noMore' = [noMore EXCEPT ![p] = IF @ = "open" THEN how ELSE @]

\* demand.proposal(id): an object without a parent gets its demand.
Known(p) ==
    /\ CreateObject({p})
    /\ rooted' = IF parent[p] = NoParent THEN rooted \cup {p} ELSE rooted
Lookup(p) ==
    /\ p \in Ours => responses[p] # "none"
    /\ p \in Theirs => Event("proposal", p) \in told
    /\ Known(p)
    /\ UNCHANGED <<parent, children, events, noMore, inbox, told, responses>>

\* The demand's collector, one event at a time. The event of a proposal whose
\* object exists raises, and the collector ends without a word.
Next1(kind) == collector["offers"] = "on" /\ inbox # <<>> /\ Head(inbox).kind = kind
AddEvent == events' = [events EXCEPT ![Head(inbox).id] = Append(@, Head(inbox))]

ProposalEvent ==
    /\ Next1("proposal") /\ Head(inbox).id \notin known
    /\ LET p == Head(inbox).id IN
         /\ CreateObject({p, Prev[p]} \cap Ids)
         /\ AddChild(p)
    /\ AddEvent
    /\ inbox' = Tail(inbox)
    /\ UNCHANGED <<rooted, noMore, told, responses, collector>>
RepeatedId ==
    /\ Next1("proposal") /\ Head(inbox).id \in known
    /\ inbox' = Tail(inbox)
    /\ collector' = [collector EXCEPT !["offers"] = "dead"]
    /\ UNCHANGED <<known, parent, children, rooted, events, noMore, told, responses>>
RejectedEvent ==
    /\ Next1("rejected")
    /\ Known(Head(inbox).id)
    /\ AddEvent /\ Close(Head(inbox).id, "rejected")
    /\ inbox' = Tail(inbox)
    /\ UNCHANGED <<parent, children, told, responses, collector>>

\* respond: yagna makes the proposal, the answer comes later or not at all. An event
\* of the new proposal may be there first.
Respond(p) ==
    /\ responses[p] = "none" /\ Prev[p] \in known /\ Reaches[Prev[p]]
    /\ responses' = [responses EXCEPT ![p] = "sent"]
    /\ UNCHANGED <<known, parent, children, rooted, events, noMore, inbox, told>>
RespondReturns(p) ==
    /\ responses[p] = "sent"
    /\ responses' = [responses EXCEPT ![p] = "returned"]
    /\ CreateObject({p})
    /\ AddChild(p)
    /\ UNCHANGED <<rooted, events, noMore, inbox, told>>
RespondTimesOut(p) ==
    /\ responses[p] = "sent"
    /\ responses' = [responses EXCEPT ![p] = "failed"]
    /\ UNCHANGED <<known, parent, children, rooted, events, noMore, inbox, told>>

\* get_data(force=True) of a proposal the market calls rejected.
GetData(p) ==
    /\ p \in known /\ Reaches[p] /\ Event("rejected", p) \in told
    /\ Close(p, "rejected")
    /\ UNCHANGED <<known, parent, children, rooted, events, inbox, told, responses>>

Unsubscribe ==
    /\ Close(Demand, "ended")
    /\ collector' = [collector EXCEPT !["offers"] = "off"]
    /\ UNCHANGED <<known, parent, children, rooted, events, inbox, told, responses>>

-----------------------------------------------------------------------------
\* Debit notes. The collector takes what is later than the least time. That moves before
\* the debit note is fetched, so the event the collector is at when it stops is asked
\* for no more.
Issue ==
    /\ issued < Len(NoteLog)
    /\ issued' = issued + 1
    /\ UNCHANGED <<minTs, inHand, listed, fetched, gathered, placed, stops, collector>>

\* Mutant: the time of the last event of the batch.
LatestTs(batch) == IF batch = <<>> THEN minTs ELSE NoteLog[batch[Len(batch)]].date
ReachedTs(batch) == IF batch = <<>> THEN minTs ELSE NoteLog[Head(batch)].date
TakeUp(batch) == inHand' = batch /\ minTs' = ReachedTs(batch)

Collect ==
    /\ collector["notes"] = "on" /\ inHand = <<>>
    /\ \E seen \in 0..(issued - 1) :
         /\ \A i \in 1..issued : i > seen <=> NoteLog[i].date > minTs
         /\ TakeUp([k \in 1..(issued - seen) |-> seen + k])
    /\ UNCHANGED <<issued, listed, fetched, gathered, placed, stops, collector>>

Note == NoteLog[Head(inHand)].note
GetNote(S) == listed' = listed \cup S /\ fetched' = fetched \cup S
ProcessEvent ==
    /\ inHand # <<>>
    /\ GetNote({Note})
    /\ gathered' = Append(gathered, Head(inHand))
    /\ placed' = placed \cup {Note}
    /\ TakeUp(Tail(inHand))
    /\ UNCHANGED <<issued, stops, collector>>

\* The task is suspended where it waits for yagna: for events or for a new debit note.
Suspended == inHand # <<>> => Note \notin fetched
HandLost ==
    /\ listed' = IF inHand = <<>> THEN listed ELSE listed \cup {Note}
    /\ inHand' = <<>>
    /\ stops' = stops + 1
    /\ UNCHANGED <<issued, minTs, fetched, gathered, placed>>
GetNoteRaises ==
    /\ inHand # <<>> /\ Note \notin fetched /\ stops < MaxStops
    /\ collector' = [collector EXCEPT !["notes"] = "dead"]
    /\ HandLost
StopCollecting ==
    /\ collector["notes"] # "off" /\ Suspended /\ stops < MaxStops
    /\ collector' = [collector EXCEPT !["notes"] = "off"]
    /\ HandLost
\* The task of a dead collector is still set: only a stopped one starts.
StartCollecting ==
    /\ collector["notes"] = "off"
    /\ collector' = [collector EXCEPT !["notes"] = "on"]
    /\ notFound' = [notFound EXCEPT !["notes"] = 0]
    /\ UNCHANGED noteVars

\* node.debit_notes(): objects with data, up to the first that exists already.
ListNotes ==
    LET all == [i \in 1..issued |-> NoteLog[i].note]
        new == {all[i] : i \in {j \in 1..issued : \A k \in 1..j : all[k] \notin listed}}
    IN /\ GetNote(new)
       /\ UNCHANGED <<issued, minTs, inHand, gathered, placed, stops, collector>>

-----------------------------------------------------------------------------
\* A failed call of either collector: again at once, again three times, or the end.
CollectFails(c, e) ==
    /\ collector[c] = "on" /\ (c = "notes" => inHand = <<>>)
    /\ e \notin Intermittent
    /\ notFound' = [notFound EXCEPT ![c] = IF e = "not found" THEN @ + 1 ELSE @]
    /\ collector' = IF e = "not found" /\ notFound[c] < MaxNotFound THEN collector
                    ELSE [collector EXCEPT ![c] = "dead"]
    /\ UNCHANGED <<demandVars, noteVars>>
Answered(c) == notFound' = [notFound EXCEPT ![c] = 0]

DemandStep ==
    \/ \E p \in Theirs : Offered(p)
    \/ \E p \in Ours : Rejected(p) \/ Respond(p) \/ RespondReturns(p) \/ RespondTimesOut(p)
    \/ \E p \in Early : Lookup(p)
    \/ \E p \in Ids : GetData(p)
NoteStep == Issue \/ ProcessEvent \/ GetNoteRaises \/ StopCollecting \/ ListNotes

DemandNext ==
    \/ DemandStep /\ UNCHANGED <<noteVars, collector, notFound>>
    \/ Unsubscribe /\ UNCHANGED <<noteVars, notFound>>
    \/ (ProposalEvent \/ RepeatedId \/ RejectedEvent) /\ Answered("offers") /\ UNCHANGED noteVars
    \/ \E e \in Errors : CollectFails("offers", e)
NoteNext ==
    \/ NoteStep /\ UNCHANGED <<demandVars, notFound>>
    \/ Collect /\ Answered("notes") /\ UNCHANGED demandVars
    \/ StartCollecting /\ UNCHANGED demandVars
    \/ \E e \in Errors : CollectFails("notes", e)
TreeNext == DemandNext \/ NoteNext

TreeSpec == TreeInit /\ [][TreeNext]_treeVars

-----------------------------------------------------------------------------
\* Every proposal stands once, under the one it answers. Only those that were looked
\* up by id, and ours whose call has not returned or timed out, have no parent; no
\* event that was taken is missing or there twice while the collector lives.
HowOften(s, x) == Cardinality({i \in DOMAIN s : s[i] = x})
Placed(p) ==
    \/ parent[p] = Prev[p] /\ HowOften(children[Prev[p]], p) = 1
    \/ parent[p] = NoParent /\ p \in Early \cup {q \in Ours : responses[q] \in {"sent", "failed"}}
Heard(e) == HowOften(events[e.id], e)
TreeKept ==
    /\ \A p \in known : Placed(p)
    /\ \A e \in told \ ToSet(inbox) : Heard(e) <= 1 /\ (collector["offers"] = "on" => Heard(e) = 1)

\* Every event of a debit note is added to it once and in order. An interruption of
\* the collector costs one event at most, the one it was at.
Lost == {i \in 1..issued : NoteLog[i].date <= minTs
                           /\ i \notin ToSet(gathered) \cup ToSet(inHand)}
NoteEventsKept ==
    /\ \A i, j \in DOMAIN gathered : i < j => gathered[i] < gathered[j]
    /\ Cardinality(Lost) <= stops
===============================================================================
