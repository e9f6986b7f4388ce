----------------------------- MODULE Negotiation -----------------------------
(***************************************************************************)
(* From an initial proposal to a draft: a chain of proposal plugins        *)
(* (golem/managers/proposal), the negotiations its callers run at once,    *)
(* and the tree of proposals (golem/resources/proposal, resources/demand)  *)
(* that the collector of the demand fills while they wait for answers.     *)
(*                                                                         *)
(* The k-th proposal of the exchange with provider p is <<p, k>>: even     *)
(* ones are offers of the provider, odd ones our counter-proposals.  A     *)
(* call of the API is one step at yagna, and another when it returns.      *)
(***************************************************************************)
EXTENDS Integers, Sequences, FiniteSets

CONSTANTS
    Callers,        \* tasks in get_draft_proposal()
    Providers,
    Chain,          \* plugins in their order, "negotiate" once among filters
    Blacklist, Whitelist,
    Cost,           \* what the pricing says of a provider, or None
    MaxCost, RejectUnpriceable,
    Terms,          \* negotiated properties
    Minimal, Optimal, MinAdjustment,
    Factor,         \* the adjustment factor in percent
    Offers,         \* provider -> what it may offer, [Terms -> Int] or None
    DemandPlatforms, Platforms,
    MaxLen,         \* bound: the last proposal of an exchange
    MaxChainStarts, \* bound: calls of start()
    None

Exchanges == Providers \X (0..MaxLen)

ASSUME NegotiationAssumption ==
    /\ \A t \in Terms : Minimal[t] \in Nat /\ Optimal[t] \in Nat /\ Minimal[t] <= Optimal[t]
    /\ MinAdjustment \in Nat \ {0}
    /\ Factor \in 0..100
    /\ Chain \in Seq({"negotiate", "blacklist", "whitelist", "costs"})
    /\ \E i \in 1..Len(Chain) : \A j \in 1..Len(Chain) : Chain[j] = "negotiate" <=> j = i
    /\ \A p \in Providers : Offers[p] \subseteq [Terms -> Int] \cup {None}
    /\ MaxLen \in Nat /\ MaxChainStarts \in Nat
    /\ None \notin Exchanges \cup DemandPlatforms \cup Int

VARIABLES
    made,      \* proposals that exist at yagna
    terms,     \* their terms
    inbox,     \* events of the demand that were not collected yet
    told,      \* offers that we rejected at yagna
    known,     \* objects of the node
    parent,    \* _parent of an object, or None
    children,  \* _children of an object
    ended,     \* _no_more_children: "no", "rejected" or "closed"
    collector, \* the collector of the demand runs
    initialProposals,   \* those that wait for a caller
    chainStarts,        \* how often start() was called
    pc, level, offer, demand,   \* a call: its place, plugin, offer and demand data
    returned,  \* history: proposals given to the callers, in their order
    heard,     \* history: events the collector processed
    failed     \* history: offers a call about which raised or timed out

yagna == <<made, terms, inbox, told>>
tree == <<known, parent, children, ended, collector, initialProposals>>
calls == <<pc, level, offer, demand>>
history == <<returned, heard, failed>>
negotiationVars == <<yagna, tree, chainStarts, calls, history>>

Before(q) == <<q[1], q[2] - 1>>
After(q) == <<q[1], q[2] + 1>>
Initial(q) == q[2] = 0
Ours == {q \in Exchanges : q[2] % 2 = 1}

BaseDemand == [terms |-> [t \in Terms |-> None], platform |-> None]

NegotiationInit ==
    /\ made = {} /\ inbox = <<>> /\ told = {}
    /\ terms = [q \in Exchanges |-> None]
    /\ known = {} /\ collector = TRUE /\ initialProposals = <<>>
    /\ parent = [q \in Exchanges |-> None]
    /\ children = [q \in Exchanges |-> {}]
    /\ ended = [q \in Exchanges |-> "no"]
    /\ chainStarts = 0
    /\ pc = [g \in Callers |-> "idle"]
    /\ level = [g \in Callers |-> 1]
    /\ offer = [g \in Callers |-> None]
    /\ demand = [g \in Callers |-> BaseDemand]
    /\ returned = <<>> /\ heard = {} /\ failed = {}

-----------------------------------------------------------------------------
(* yagna and the providers: they match, answer a proposal once, or never. *)

Match(p) ==
    /\ <<p, 0>> \notin made
    /\ made' = made \cup {<<p, 0>>}
    /\ \E o \in Offers[p] : terms' = [terms EXCEPT ![<<p, 0>>] = o]
    /\ inbox' = Append(inbox, [kind |-> "proposal", of |-> <<p, 0>>])
    /\ UNCHANGED <<told, tree, chainStarts, calls, history>>

Answer(q) ==
    /\ q \in made \cap Ours
    /\ q[2] < MaxLen
    /\ After(q) \notin made /\ q \notin told
    /\ \/ /\ made' = made \cup {After(q)}
          /\ \E o \in Offers[q[1]] : terms' = [terms EXCEPT ![After(q)] = o]
          /\ inbox' = Append(inbox, [kind |-> "proposal", of |-> After(q)])
          /\ UNCHANGED told
       \/ /\ told' = told \cup {q}
          /\ inbox' = Append(inbox, [kind |-> "rejected", of |-> q])
          /\ UNCHANGED <<made, terms>>
    /\ UNCHANGED <<tree, chainStarts, calls, history>>

-----------------------------------------------------------------------------
(* The tree of resources *)

\* Mutant: an object that is made again replaces the one that was there.
ReplacedChildren(q) == [children EXCEPT ![q] = {}]

\* ResourceMeta: an object that is made again is the one that was there.
SameChildren(q) == children

\* add_child() asserts that the child has no parent.
CanAdd(q) == parent[q] = None

\* set_no_more_children(): the first reason stays.
EndedBy(q, why) == IF ended[q] = "no" THEN why ELSE ended[q]

\* Demand.proposal(), Proposal.add_event
RejectedEvent(q) ==
    /\ known' = known \cup {q}
    /\ ended' = [ended EXCEPT ![q] = EndedBy(q, "rejected")]
    /\ UNCHANGED <<parent, children, initialProposals, collector>>

\* ResourceMeta asserts that an object with data is new.
Repeated(q) == q \in known

\* An initial proposal waits for a caller.
InitialEvent(q) ==
    /\ known' = known \cup {q}
    /\ parent' = [parent EXCEPT ![q] = "demand"]
    /\ initialProposals' = Append(initialProposals, q)
    /\ UNCHANGED <<children, ended, collector>>

\* The parent of an answer is made, if respond() has not returned yet.
AnswerEvent(q) ==
    /\ known' = known \cup {q, Before(q)}
    /\ parent' = [parent EXCEPT ![q] = Before(q)]
    /\ children' = [SameChildren(Before(q)) EXCEPT ![Before(q)] = @ \cup {q}]
    /\ UNCHANGED <<initialProposals, ended, collector>>

\* Demand._process_event; AnswersKept says that no assertion fails here.
Collect ==
    LET e == Head(inbox)
        q == e.of
    IN  /\ collector
        /\ inbox # <<>>
        /\ inbox' = Tail(inbox)
        /\ \/ e.kind = "rejected" /\ RejectedEvent(q)
           \/ e.kind = "proposal" /\ Initial(q) /\ InitialEvent(q)
           \/ e.kind = "proposal" /\ ~ Initial(q) /\ AnswerEvent(q)
        /\ heard' = heard \cup {e}
        /\ UNCHANGED <<made, terms, told, chainStarts, calls, returned, failed>>

\* unsubscribe(), or a node that closes: set_no_more_children() for all that
\* is known, and no events any more.
Close ==
    /\ collector
    /\ collector' = FALSE
    /\ ended' = [q \in Exchanges |-> IF q \in known THEN EndedBy(q, "closed") ELSE ended[q]]
    /\ UNCHANGED <<yagna, known, parent, children, initialProposals, chainStarts, calls, history>>

-----------------------------------------------------------------------------
(* The negotiators: what becomes of the demand data, nothing for a rejection *)

CommonPlatforms(p) == DemandPlatforms \cap Platforms[p]

\* A platform is chosen once.
PlatformNegotiator(d, p) ==
    IF d.platform # None THEN {d}
    ELSE {[d EXCEPT !.platform = x] : x \in CommonPlatforms(p)}

Max2(a, b) == IF a >= b THEN a ELSE b
CeilPercent(x) == (x * Factor + 99) \div 100

\* Mutant: the adjustment may go below the minimum.
AdjustedFreely(offered, previous, minimal) ==
    Max2(previous - Max2(MinAdjustment, CeilPercent(previous - offered)), offered)

Adjusted(offered, previous, minimal) ==
    Max2(previous - Max2(MinAdjustment, CeilPercent(previous - offered)), Max2(minimal, offered))

\* _calculate_new_value_proposition; no value is a rejection.
NewValues(offered, previous, minimal, optimal, initial) ==
    IF previous = None \/ initial
      THEN {Max2(offered, Max2(optimal, IF previous = None THEN optimal ELSE previous))}
    ELSE IF offered >= previous THEN {offered}
    ELSE IF previous = minimal THEN {}
    ELSE {Adjusted(offered, previous, minimal)}

MidAgreementPayments(d, o, initial) ==
    IF o = None THEN {}
    ELSE IF o = d.terms THEN {d}
    ELSE LET V == [t \in Terms |-> NewValues(o[t], d.terms[t], Minimal[t], Optimal[t], initial)]
         IN  {[d EXCEPT !.terms = v] :
                 v \in {w \in [Terms -> UNION {V[t] : t \in Terms}] : \A t \in Terms : w[t] \in V[t]}}

Negotiated(d, q) ==
    UNION {MidAgreementPayments(e, terms[q], Initial(q)) : e \in PlatformNegotiator(d, q[1])}

-----------------------------------------------------------------------------
(* The chain of plugins *)

At(g, l) == pc[g] = l
Goto(g, l) == pc' = [pc EXCEPT ![g] = l]
Plugin(g) == Chain[level[g]]

\* DefaultProposalManager.start: the first plugin calls what was on top, the
\* source at the first start.
StartChain ==
    /\ chainStarts < MaxChainStarts
    /\ chainStarts' = chainStarts + 1
    /\ UNCHANGED <<yagna, tree, calls, history>>

\* After a second start the first plugin calls the last: RecursionError.
Call(g) ==
    /\ At(g, "idle")
    /\ chainStarts > 0
    /\ Goto(g, IF chainStarts = 1 THEN "source" ELSE "raised")
    /\ UNCHANGED <<yagna, tree, chainStarts, level, offer, demand, history>>

Source(g) ==
    /\ At(g, "source")
    /\ initialProposals # <<>>
    /\ initialProposals' = Tail(initialProposals)
    /\ offer' = [offer EXCEPT ![g] = Head(initialProposals)]
    /\ level' = [level EXCEPT ![g] = 1]
    /\ Goto(g, "plugin")
    /\ UNCHANGED <<yagna, known, parent, children, ended, collector, chainStarts, demand, history>>

\* The plugin returns the offer to the one above it, or to the caller.
Pass(g) ==
    IF level[g] < Len(Chain)
      THEN /\ Goto(g, "plugin")
           /\ level' = [level EXCEPT ![g] = @ + 1]
           /\ UNCHANGED returned
      ELSE /\ Goto(g, "idle")
           /\ returned' = Append(returned, [offer |-> offer[g], demand |-> demand[g]])
           /\ UNCHANGED level

Blacklisted(p) == p \in Blacklist
Unlisted(p) == p \notin Whitelist
TooExpensive(p) == IF Cost[p] = None THEN RejectUnpriceable ELSE MaxCost < Cost[p]

Dropped(f, p) ==
    CASE f = "blacklist" -> Blacklisted(p)
      [] f = "whitelist" -> Unlisted(p)
      [] f = "costs"     -> TooExpensive(p)

\* A provider is told that it is dropped if it has negotiated.
Filter(g) ==
    /\ At(g, "plugin") /\ Plugin(g) # "negotiate"
    /\ IF ~ Dropped(Plugin(g), offer[g][1])
         THEN Pass(g)
         ELSE /\ Goto(g, IF Initial(offer[g]) THEN "source" ELSE "reject")
              /\ UNCHANGED <<level, returned>>
    /\ UNCHANGED <<yagna, tree, chainStarts, offer, demand, heard, failed>>

Begin(g) ==
    /\ At(g, "plugin") /\ Plugin(g) = "negotiate"
    /\ demand' = [demand EXCEPT ![g] = BaseDemand]
    /\ Goto(g, "run")
    /\ UNCHANGED <<yagna, tree, chainStarts, level, offer, history>>

\* The negotiators have nothing to add to what the provider answered.
Agreed(q, d, e) == ~ Initial(q) /\ e = d

\* Mutant: the provider is never told.
UnsatisfiedSilent(q) == "source"

\* A RejectProposal goes to the provider unless it has not negotiated yet.
Unsatisfied(q) == IF Initial(q) THEN "source" ELSE "reject"

\* The negotiators run, and the counter-proposal is sent, if there is one.
Run(g) ==
    LET q == offer[g]
        d == demand[g]
    IN  /\ At(g, "run")
        /\ \/ /\ Negotiated(d, q) = {}
              /\ Goto(g, Unsatisfied(q))
              /\ UNCHANGED <<level, demand, returned>>
           \/ \E e \in Negotiated(d, q) :
                IF Agreed(q, d, e)
                  THEN Pass(g) /\ UNCHANGED demand
                  ELSE /\ demand' = [demand EXCEPT ![g] = e]
                       /\ Goto(g, "send")
                       /\ UNCHANGED <<level, returned>>
        /\ UNCHANGED <<yagna, tree, chainStarts, offer, heard, failed>>

\* yagna has the counter-proposal, the caller does not know yet.
Respond(g) ==
    LET q == After(offer[g])
    IN  /\ At(g, "send")
        /\ q[2] <= MaxLen
        /\ made' = made \cup {q}
        /\ terms' = [terms EXCEPT ![q] = demand[g].terms]
        /\ Goto(g, "sent")
        /\ UNCHANGED <<inbox, told, tree, chainStarts, level, offer, demand, history>>

\* respond() makes the object, or finds the one of the collector.
Responded(g) ==
    LET q == After(offer[g])
    IN  /\ At(g, "sent")
        /\ CanAdd(q)
        /\ known' = known \cup {q}
        /\ parent' = [parent EXCEPT ![q] = offer[g]]
        /\ children' = [SameChildren(q) EXCEPT ![offer[g]] = @ \cup {q}]
        /\ Goto(g, "wait")
        /\ UNCHANGED <<yagna, ended, collector, initialProposals, chainStarts, level, offer, demand, history>>

\* child_aiter(): children come first, then the end of the proposal.
Receive(g) ==
    LET q == After(offer[g])
    IN  /\ At(g, "wait")
        /\ \E c \in children[q] :
             /\ offer' = [offer EXCEPT ![g] = c]
             /\ Goto(g, "run")
        /\ UNCHANGED <<yagna, tree, chainStarts, level, demand, history>>

Sleep(g) ==
    /\ At(g, "wait")
    /\ children[After(offer[g])] = {}
    /\ Goto(g, "asleep")
    /\ UNCHANGED <<yagna, tree, chainStarts, level, offer, demand, history>>

\* Every 0.1 s, or when the proposal ends: what ended is not looked at again.
Wake(g) ==
    LET q == After(offer[g])
    IN  /\ At(g, "asleep")
        /\ IF ended[q] = "no"
             THEN Goto(g, "wait") /\ UNCHANGED failed
             ELSE Goto(g, "source") /\ failed' = failed \cup {offer[g]}
        /\ UNCHANGED <<yagna, tree, chainStarts, level, offer, demand, returned, heard>>

\* Any exception of a negotiation: the next initial proposal is tried.
GiveUp(g) ==
    /\ failed' = failed \cup {offer[g]}
    /\ Goto(g, "source")
    /\ UNCHANGED <<yagna, tree, chainStarts, level, offer, demand, returned, heard>>

\* A negotiator raises, or the data of the offer cannot be had or parsed.
RunRaises(g) == At(g, "run") /\ GiveUp(g)

\* The call raises, whether yagna has executed it or not.
SendRaises(g) == pc[g] \in {"send", "sent"} /\ GiveUp(g)

\* The provider is silent for proposal_response_timeout.
Timeout(g) == pc[g] \in {"wait", "asleep"} /\ GiveUp(g)

Reject(g) ==
    /\ At(g, "reject")
    /\ told' = told \cup {offer[g]}
    /\ Goto(g, "source")
    /\ UNCHANGED <<made, terms, inbox, tree, chainStarts, level, offer, demand, history>>

\* NegotiatingPlugin catches the exception, a filter passes it to the caller.
RejectRaises(g) ==
    /\ At(g, "reject")
    /\ failed' = failed \cup {offer[g]}
    /\ Goto(g, IF Plugin(g) = "negotiate" THEN "source" ELSE "raised")
    /\ UNCHANGED <<yagna, tree, chainStarts, level, offer, demand, returned, heard>>

Step(g) ==
    \/ Call(g) \/ Source(g) \/ Filter(g) \/ Begin(g) \/ Run(g) \/ Respond(g) \/ Responded(g)
    \/ RunRaises(g) \/ SendRaises(g) \/ Receive(g) \/ Sleep(g) \/ Wake(g) \/ Timeout(g)
    \/ Reject(g) \/ RejectRaises(g)

NegotiationNext ==
    \/ \E p \in Providers : Match(p)
    \/ \E q \in Exchanges : Answer(q)
    \/ Collect \/ Close \/ StartChain
    \/ \E g \in Callers : Step(g)

NegotiationSpec == NegotiationInit /\ [][NegotiationNext]_negotiationVars

-----------------------------------------------------------------------------
(***************************************************************************)
(* Properties                                                              *)
(***************************************************************************)

\* Whichever comes first, the return of respond() or the answer to it: every
\* answer the collector processed is a child of the proposal it answers, every
\* rejection has ended it, and no assertion of the tree stops the collector or
\* the call.
AnswersKept ==
    /\ \A e \in heard :
           IF e.kind = "rejected" THEN ended[e.of] # "no"
           ELSE Initial(e.of) \/ e.of \in children[Before(e.of)]
    /\ \A q \in known :
           IF Initial(q) THEN parent[q] = "demand" ELSE parent[q] \in {None, Before(q)}
    /\ inbox # <<>> /\ Head(inbox).kind = "proposal" =>
           ~ Repeated(Head(inbox).of) /\ CanAdd(Head(inbox).of)
    /\ \A g \in Callers : At(g, "sent") => CanAdd(After(offer[g]))

\* What get_draft_proposal() returns: an offer of a provider that no filter
\* drops, for a platform that both have, whose terms are those of our last
\* counter-proposal and not below the minimum; to one caller only, and never
\* an offer that was rejected or whose exchange went on.
AgreedTerms ==
    \A i \in 1..Len(returned) :
        LET q == returned[i].offer
        IN  /\ q \notin Ours /\ ~ Initial(q)
            /\ q \notin told /\ After(q) \notin made
            /\ \A l \in 1..Len(Chain) : Chain[l] # "negotiate" => ~ Dropped(Chain[l], q[1])
            /\ returned[i].demand.platform \in DemandPlatforms \cap Platforms[q[1]]
            /\ terms[q] = terms[Before(q)]
            /\ \A t \in Terms : terms[q][t] >= Minimal[t]
            /\ \A j \in 1..Len(returned) : returned[j].offer = q => i = j

Busy(q) == \E g \in Callers : offer[g] = q /\ pc[g] \notin {"source", "raised", "idle"}

\* A provider that negotiated hears of it when we leave: a counter-offer that
\* somebody received is in work, was countered, returned or rejected, unless a
\* call about it failed.
NobodyLeftWaiting ==
    \A q \in made \ Ours :
        (~ Initial(q) /\ \E g \in Callers : offer[g] = q) =>
            \/ Busy(q) \/ After(q) \in made \/ q \in told \cup failed
            \/ \E i \in 1..Len(returned) : returned[i].offer = q

Sent(p) == {k \in 0..MaxLen : <<p, k>> \in made \cap Ours}

\* Our counter-proposals go down until they meet the offers: each is lower in
\* a term than the one before, unless the provider raised an offer above it.
Converges ==
    \A p \in Providers : \A k \in Sent(p) :
        k >= 3 => \E t \in Terms :
            \/ terms[<<p, k>>][t] < terms[<<p, k - 2>>][t]
            \/ terms[<<p, k - 1>>][t] > terms[<<p, k - 2>>][t]

\* Bargaining ends in terms that both sides have named, and comes nearer to
\* them with every round.
TermsBargained == AgreedTerms /\ Converges

=============================================================================
