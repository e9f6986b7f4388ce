---------------------------- MODULE DemandManagers ----------------------------
(***************************************************************************)
(* Where initial proposals come from: RefreshingDemandManager and          *)
(* SingleUseDemandManager (golem/managers/demand), each with a background  *)
(* loop that subscribes demands and queues the proposals matched to them,  *)
(* and the AggregatingDemandManager above them, which runs a feed task     *)
(* per manager on behalf of all its callers, and more than one when a      *)
(* stop() forgot the one before.                                           *)
(*                                                                         *)
(* A step is what one task does between two awaits that can suspend it.    *)
(* The locks of the aggregator are never held across such an await.        *)
(***************************************************************************)
EXTENDS Integers, FiniteSets, SequencesExt

CONSTANTS
    Refreshing,   \* RefreshingDemandManagers
    SingleUse,    \* SingleUseDemandManagers
    Users,        \* tasks that call the aggregator's get_initial_proposal
    Proposals,    \* initial proposals that yagna may match
    MaxDemands,   \* bound: demands the managers create
    MaxStarts,    \* bound: starts of the managers
    MaxStops,     \* bound: stops of the aggregator
    MaxFeeds,     \* bound: feed tasks of a manager at once
    None

Managers == Refreshing \cup SingleUse
Demands == Managers \X (1..MaxDemands)
FeedTasks == Managers \X (1..MaxFeeds)

ASSUME DemandAssumption ==
    /\ Refreshing \cap SingleUse = {}
    /\ MaxDemands \in Nat /\ MaxStarts \in Nat /\ MaxStops \in Nat /\ MaxFeeds \in Nat
    /\ None \notin Proposals \cup Demands

VARIABLES
    loop,        \* where the background loop of a manager is
    starts,      \* times start() was called
    made,        \* demands that were created
    cur,         \* the demand in a local variable of the loop, or None
    listed,      \* _demands of a refreshing manager: never emptied
    subscribed,  \* demands yagna knows
    collecting,  \* demands whose event collector runs
    consuming,   \* demands whose proposals somebody awaits
    heard,       \* demands the single use managers have a proposal of
    backlog,     \* children of a demand that were not consumed yet
    initialProposals, \* _initial_proposals
    error,       \* the exception of _initial_proposals is set
    taskMap,     \* _task_map: the feed task of a manager, or 0
    feed,        \* where a feed task is
    hand,        \* the proposal a feed task has taken off a queue
    buffer,      \* _buffer of the aggregator
    bufferError, \* its exception is set
    waiters,     \* tasks that wait for its condition
    user,
    stops,
    stopping,    \* stops of the aggregator that await cancelled feed tasks
    returned, lost, abandoned   \* history

managerVars == <<loop, starts, made, cur, listed, subscribed, collecting,
                 consuming, heard, abandoned>>
aggregatorVars == <<taskMap, feed, hand, buffer, bufferError, waiters, user,
                    stops, stopping, returned, lost>>
demandVars == <<managerVars, aggregatorVars, backlog, initialProposals, error>>

DemandTypeOK ==
    /\ loop \in [Managers -> {"off", "create", "data", "wait", "run", "clean"}]
    /\ starts \in 0..MaxStarts
    /\ made \subseteq Demands
    /\ cur \in [Managers -> Demands \cup {None}]
    /\ listed \in [Managers -> Seq(Demands)]
    /\ subscribed \subseteq Demands /\ collecting \subseteq Demands
    /\ consuming \subseteq Demands /\ heard \subseteq Demands
    /\ backlog \in [Demands -> Seq(Proposals)]
    /\ initialProposals \in [Managers -> Seq(Proposals)]
    /\ error \in [Managers -> BOOLEAN]
    /\ taskMap \in [Managers -> 0..MaxFeeds]
    /\ feed \in [FeedTasks -> {"none", "get", "have", "raising", "raises", "cancelled", "orphan"}]
    /\ hand \in [FeedTasks -> Proposals \cup {None}]
    /\ buffer \in Seq(Proposals) /\ bufferError \in BOOLEAN
    /\ waiters \in Seq(Users)
    /\ user \in [Users -> {"idle", "wait", "woken"}]
    /\ stops \in 0..MaxStops /\ stopping \in Nat
    /\ returned \subseteq Proposals /\ lost \subseteq Proposals
    /\ abandoned \subseteq Demands

DemandInit ==
    /\ loop = [m \in Managers |-> "off"]
    /\ starts = 0 /\ made = {}
    /\ cur = [m \in Managers |-> None] /\ listed = [m \in Managers |-> <<>>]
    /\ subscribed = {} /\ collecting = {} /\ consuming = {} /\ heard = {}
    /\ backlog = [d \in Demands |-> <<>>]
    /\ initialProposals = [m \in Managers |-> <<>>] /\ error = [m \in Managers |-> FALSE]
    /\ taskMap = [m \in Managers |-> 0]
    /\ feed = [t \in FeedTasks |-> "none"] /\ hand = [t \in FeedTasks |-> None]
    /\ buffer = <<>> /\ bufferError = FALSE /\ waiters = <<>>
    /\ user = [u \in Users |-> "idle"]
    /\ stops = 0 /\ stopping = 0
    /\ returned = {} /\ lost = {} /\ abandoned = {}

-----------------------------------------------------------------------------
(* The background loops.                                                   *)

Goto(m, l) == loop' = [loop EXCEPT ![m] = l]
NextDemand(m) == <<m, 1 + Cardinality({d \in made : d[1] = m})>>
Listed(m) == ToSet(listed[m])

\* A refreshing manager that was stopped keeps its demands: started again it
\* first waits for the last of them to expire.
Start(m) ==
    /\ loop[m] = "off" /\ starts < MaxStarts
    /\ starts' = starts + 1
    /\ Goto(m, IF listed[m] = <<>> THEN "create" ELSE "wait")
    /\ UNCHANGED <<made, cur, listed, subscribed, collecting, consuming, heard,
                   abandoned, aggregatorVars, backlog, initialProposals, error>>

Creates(m) ==
    /\ loop[m] = "create" /\ Cardinality(made) < MaxDemands
    /\ made' = made \cup {NextDemand(m)}
    /\ subscribed' = subscribed \cup {NextDemand(m)}

(* The demand exists and is not in _demands before its data was fetched.   *)
Subscribe(m) ==
    /\ m \in Refreshing /\ Creates(m)
    /\ cur' = [cur EXCEPT ![m] = NextDemand(m)]
    /\ collecting' = collecting \cup {NextDemand(m)}
    /\ Goto(m, "data")
    /\ UNCHANGED <<starts, listed, consuming, heard, abandoned, aggregatorVars,
                   backlog, initialProposals, error>>

GotData(m) ==
    /\ loop[m] = "data"
    /\ listed' = [listed EXCEPT ![m] = Append(@, cur[m])]
    /\ consuming' = consuming \cup {cur[m]}
    /\ cur' = [cur EXCEPT ![m] = None]
    /\ Goto(m, "wait")
    /\ UNCHANGED <<starts, made, subscribed, collecting, heard, abandoned,
                   aggregatorVars, backlog, initialProposals, error>>

\* A single use manager consumes in the loop itself.
SubscribeSingle(m) ==
    /\ m \in SingleUse /\ Creates(m)
    /\ cur' = [cur EXCEPT ![m] = NextDemand(m)]
    /\ collecting' = collecting \cup {NextDemand(m)}
    /\ consuming' = consuming \cup {NextDemand(m)}
    /\ Goto(m, "run")
    /\ UNCHANGED <<starts, listed, heard, abandoned, aggregatorVars, backlog,
                   initialProposals, error>>

\* The demand's time is over for us; yagna's clock may not agree yet.
Expire(m) ==
    /\ loop[m] = "wait" /\ Cardinality(made) < MaxDemands
    /\ subscribed' \in {subscribed, subscribed \ {Last(listed[m])}}
    /\ consuming' = consuming \ Listed(m)
    /\ Goto(m, "create")
    /\ UNCHANGED <<starts, made, cur, listed, collecting, heard, abandoned,
                   aggregatorVars, backlog, initialProposals, error>>

(* The allocation, the payload or yagna raises: yagna may still have       *)
(* executed the request.  Only the refreshing manager tells its callers.   *)
LoopRaises(m) ==
    /\ \/ /\ loop[m] = "create" /\ Cardinality(made) < MaxDemands
          /\ \/ UNCHANGED <<made, subscribed, abandoned>>
             \/ /\ Creates(m)
                /\ abandoned' = abandoned \cup {NextDemand(m)}
       \/ /\ loop[m] = "data"
          /\ abandoned' = abandoned \cup {cur[m]}
          /\ UNCHANGED <<made, subscribed>>
    /\ cur' = [cur EXCEPT ![m] = None]
    /\ error' = [error EXCEPT ![m] = @ \/ m \in Refreshing]
    /\ consuming' = consuming \ Listed(m)
    /\ Goto(m, IF m \in Refreshing THEN "clean" ELSE "off")
    /\ UNCHANGED <<starts, listed, collecting, heard, aggregatorVars, backlog,
                   initialProposals>>

(* stop() cancels the loop: a demand that was being subscribed or fetched  *)
(* is in no list, and nobody unsubscribes it.                              *)
StopManager(m) ==
    /\ \/ /\ loop[m] = "create"
          /\ \/ UNCHANGED <<made, subscribed, abandoned>>
             \/ /\ Creates(m)
                /\ abandoned' = abandoned \cup {NextDemand(m)}
       \/ /\ loop[m] = "data"
          /\ abandoned' = abandoned \cup {cur[m]}
          /\ UNCHANGED <<made, subscribed>>
       \/ /\ loop[m] \in {"wait", "run"}
          /\ UNCHANGED <<made, subscribed, abandoned>>
    /\ cur' = [cur EXCEPT ![m] = IF loop[m] = "run" THEN @ ELSE None]
    /\ consuming' = consuming \ (Listed(m) \cup {cur[m]})
    /\ Goto(m, IF m \in SingleUse /\ loop[m] = "create" THEN "off" ELSE "clean")
    /\ UNCHANGED <<starts, listed, collecting, heard, aggregatorVars, backlog,
                   initialProposals, error>>

ToUnsubscribeLast(m) == IF listed[m] = <<>> THEN {cur[m]} \ {None} ELSE {Last(listed[m])}
ToUnsubscribe(m) == Listed(m) \cup ({cur[m]} \ {None})

(* The finally block.  Some calls may fail, or be interrupted by a stop()  *)
(* that comes now; a demand yagna does not know counts as unsubscribed.    *)
Clean(m) ==
    /\ loop[m] = "clean"
    /\ collecting' = collecting \ ToUnsubscribe(m)
    /\ \E failed \in SUBSET (ToUnsubscribe(m) \cap subscribed) :
          /\ subscribed' = subscribed \ (ToUnsubscribe(m) \ failed)
          /\ abandoned' = abandoned \cup failed
    /\ cur' = [cur EXCEPT ![m] = None]
    /\ Goto(m, "off")
    /\ UNCHANGED <<starts, made, listed, consuming, heard, aggregatorVars,
                   backlog, initialProposals, error>>

-----------------------------------------------------------------------------
(* Proposals of a demand.                                                  *)

Placed == (UNION {ToSet(backlog[d]) : d \in Demands})
          \cup (UNION {ToSet(initialProposals[m]) : m \in Managers})
          \cup {hand[t] : t \in FeedTasks} \cup ToSet(buffer) \cup returned \cup lost

\* The collector adds a child, also when nobody consumes the demand any more.
Match(d, p) ==
    /\ d \in collecting \cap subscribed
    /\ p \notin Placed
    /\ backlog' = [backlog EXCEPT ![d] = Append(@, p)]
    /\ UNCHANGED <<managerVars, aggregatorVars, initialProposals, error>>

Consume(d) ==
    /\ d \in consuming /\ backlog[d] # <<>>
    /\ initialProposals' = [initialProposals EXCEPT ![d[1]] = Append(@, Head(backlog[d]))]
    /\ backlog' = [backlog EXCEPT ![d] = Tail(@)]
    /\ heard' = IF d[1] \in SingleUse THEN heard \cup {d} ELSE heard
    /\ UNCHANGED <<loop, starts, made, cur, listed, subscribed, collecting,
                   consuming, abandoned, aggregatorVars, error>>

(* The node that closes ends the iteration over the children.  Before the  *)
(* first proposal that is an exception: the single use manager hands it to *)
(* its callers, the consumer task of the other one ends with it.           *)
ChildrenEnd(d) ==
    /\ d \in consuming
    /\ consuming' = consuming \ {d}
    /\ collecting' = collecting \ {d}
    /\ IF d[1] \in SingleUse
       THEN /\ Goto(d[1], "clean")
            /\ error' = [error EXCEPT ![d[1]] = @ \/ d \notin heard]
       ELSE UNCHANGED <<loop, error>>
    /\ UNCHANGED <<starts, made, cur, listed, subscribed, heard, abandoned,
                   aggregatorVars, backlog, initialProposals>>

-----------------------------------------------------------------------------
(* The aggregator.                                                         *)

\* condition.notify(): the first of those who wait.
Wake == IF waiters = <<>> THEN UNCHANGED <<user, waiters>>
        ELSE /\ user' = [user EXCEPT ![Head(waiters)] = "woken"]
             /\ waiters' = Tail(waiters)

SavedAny == buffer # <<>>

\* SimpleBuffer.get after the condition: an item, the exception, or wait.
TakeOrWait(u) ==
    IF SavedAny
    THEN /\ returned' = returned \cup {Head(buffer)}
         /\ buffer' = Tail(buffer)
         /\ user' = [user EXCEPT ![u] = "idle"]
         /\ UNCHANGED waiters
    ELSE /\ user' = [user EXCEPT ![u] = IF bufferError THEN "idle" ELSE "wait"]
         /\ waiters' = IF bufferError THEN waiters ELSE Append(waiters, u)
         /\ UNCHANGED <<returned, buffer>>

\* The functions that are run: none when a proposal is saved.
ToRun == {m \in Managers : buffer = <<>> /\ taskMap[m] = 0}

FreeFeeds(m) == {k \in 1..MaxFeeds : feed[<<m, k>>] = "none"}
NewFeed(m) == CHOOSE k \in FreeFeeds(m) : TRUE

\* The caller runs the functions that have no task, unless a proposal is saved.
GetInitialProposal(u) ==
    /\ user[u] = "idle"
    /\ \A m \in ToRun : FreeFeeds(m) # {}
    /\ taskMap' = [m \in Managers |-> IF m \in ToRun THEN NewFeed(m) ELSE taskMap[m]]
    /\ feed' = [t \in FeedTasks |-> IF t[1] \in ToRun /\ t[2] = NewFeed(t[1])
                                    THEN "get" ELSE feed[t]]
    /\ TakeOrWait(u)
    /\ UNCHANGED <<managerVars, backlog, initialProposals, error, hand, bufferError, stops,
                   stopping, lost>>

Woken(u) ==
    /\ user[u] = "woken"
    /\ TakeOrWait(u)
    /\ UNCHANGED <<managerVars, backlog, initialProposals, error, taskMap, feed, hand,
                   bufferError, stops, stopping, lost>>

LeftPeeked(m) == initialProposals[m]
Left(m) == Tail(initialProposals[m])

\* The inner task of ErrorReportingQueue.get takes the first item.
Takes(t) ==
    /\ initialProposals[t[1]] # <<>>
    /\ initialProposals' = [initialProposals EXCEPT ![t[1]] = Left(t[1])]
    /\ UNCHANGED <<managerVars, backlog, error, taskMap, buffer, bufferError, waiters,
                   user, stops, stopping, returned>>

\* The inner task has the item, the feed not yet.
FeedTakes(t) ==
    /\ feed[t] = "get"
    /\ Takes(t)
    /\ hand' = [hand EXCEPT ![t] = Head(initialProposals[t[1]])]
    /\ feed' = [feed EXCEPT ![t] = "have"]
    /\ UNCHANGED lost

\* The feed will raise the exception of an empty queue, which is never reset.
\* It first cancels the inner task and awaits that.
FeedFails(t) ==
    /\ feed[t] = "get" /\ initialProposals[t[1]] = <<>> /\ error[t[1]]
    /\ feed' = [feed EXCEPT ![t] = "raising"]
    /\ UNCHANGED <<managerVars, backlog, initialProposals, error, taskMap, hand, buffer,
                   bufferError, waiters, user, stops, stopping, returned, lost>>

\* The inner task takes an item that nobody asks it for any more.
FeedDrops(t) ==
    /\ feed[t] \in {"raising", "orphan"}
    /\ Takes(t)
    /\ lost' = lost \cup {Head(initialProposals[t[1]])}
    /\ feed' = [feed EXCEPT ![t] = IF @ = "raising" THEN "raises" ELSE "none"]
    /\ UNCHANGED hand

\* A feed task ends: the entry of its function is deleted, whose ever it is;
\* a KeyError when there is none is only logged.
FeedEnds(t) ==
    /\ Wake
    /\ taskMap' = [taskMap EXCEPT ![t[1]] = 0]
    /\ hand' = [hand EXCEPT ![t] = None]
    /\ feed' = [feed EXCEPT ![t] = "none"]
    /\ UNCHANGED <<managerVars, backlog, initialProposals, error, stops, stopping,
                   returned, lost>>

FeedReturns(t) ==
    /\ feed[t] = "have"
    /\ bufferError' = FALSE
    /\ buffer' = Append(buffer, hand[t])
    /\ FeedEnds(t)

FeedRaises(t) ==
    /\ feed[t] \in {"raising", "raises"}
    /\ bufferError' = TRUE
    /\ buffer' = buffer
    /\ FeedEnds(t)

\* The feed tasks stop() cancels: those in _task_map.
Mapped == {t \in FeedTasks : taskMap[t[1]] = t[2]}

\* Those that may just be cancelling their inner task.
Cancelling == {t \in Mapped : feed[t] \in {"raising", "cancelled"}}

Cancelled(t) == IF feed[t] \in {"get", "raising", "cancelled"} THEN "cancelled"
                ELSE IF feed[t] = "orphan" THEN "orphan" ELSE "none"

\* A cancelled feed task stays in _task_map; a proposal it had taken is gone.
\* If it is cancelled while it is about to cancel its inner task, that one
\* may be left waiting.
StopAggregator ==
    /\ stops < MaxStops
    /\ stops' = stops + 1
    /\ stopping' = stopping + 1
    /\ \E left \in SUBSET Cancelling :
        feed' = [t \in FeedTasks |-> IF t \in left THEN "orphan"
                                     ELSE IF t \in Mapped THEN Cancelled(t) ELSE feed[t]]
    /\ lost' = lost \cup ({hand[t] : t \in Mapped} \ {None})
    /\ hand' = [t \in FeedTasks |-> IF t \in Mapped THEN None ELSE hand[t]]
    /\ UNCHANGED <<managerVars, backlog, initialProposals, error, taskMap, buffer, bufferError,
                   waiters, user, returned>>

\* Every task is awaited, then the map is cleared, of tasks begun meanwhile
\* too: these go on.  Those who wait stay.
StopEnds ==
    /\ stopping > 0
    /\ stopping' = stopping - 1
    /\ taskMap' = [m \in Managers |-> 0]
    /\ feed' = [t \in FeedTasks |-> IF feed[t] = "cancelled" THEN "none" ELSE feed[t]]
    /\ UNCHANGED <<managerVars, backlog, initialProposals, error, hand, buffer, bufferError,
                   waiters, user, stops, returned, lost>>

DemandNext ==
    \/ \E m \in Managers :
          \/ Start(m) \/ StopManager(m) \/ Clean(m)
          \/ Subscribe(m) \/ SubscribeSingle(m) \/ GotData(m) \/ Expire(m) \/ LoopRaises(m)
    \/ \E t \in FeedTasks :
          FeedTakes(t) \/ FeedFails(t) \/ FeedDrops(t) \/ FeedReturns(t) \/ FeedRaises(t)
    \/ \E d \in Demands : Consume(d) \/ ChildrenEnd(d) \/ \E p \in Proposals : Match(d, p)
    \/ \E u \in Users : GetInitialProposal(u) \/ Woken(u)
    \/ StopAggregator \/ StopEnds

DemandSpec == DemandInit /\ [][DemandNext]_demandVars

-----------------------------------------------------------------------------
(***************************************************************************)
(* LeaksKnown: a manager whose loop has ended left no demand subscribed,   *)
(* however often it was refreshed and started, but one whose subscription, *)
(* first fetch or unsubscription failed or was interrupted (refreshing.py  *)
(* _background_loop and _unsubscribe_demands, single_use.py).              *)
(***************************************************************************)
LeaksKnown ==
    \A d \in subscribed : loop[d[1]] = "off" => d \in abandoned

(***************************************************************************)
(* ProposalsOnce: a proposal that was matched is in one place, also while  *)
(* two feed tasks of a manager take from its queue: with its demand, in    *)
(* the queue, in the hand of a feed task, saved by the aggregator,         *)
(* returned to one caller, or lost.  One is lost only with a feed task     *)
(* that a stop() of the aggregator cancelled, or that raises what the      *)
(* queue reports while its inner task takes the proposal (queue.py get,    *)
(* aggregating.py _feed_queue).                                            *)
(***************************************************************************)
Positions(s, p) == {i \in DOMAIN s : s[i] = p}

Places(p) ==
    (UNION {{<<"demand", d, i>> : i \in Positions(backlog[d], p)} : d \in Demands})
    \cup (UNION {{<<"queue", m, i>> : i \in Positions(initialProposals[m], p)} : m \in Managers})
    \cup {<<"hand", t>> : t \in {f \in FeedTasks : hand[f] = p}}
    \cup {<<"saved", i>> : i \in Positions(buffer, p)}
    \cup {<<"returned">> : r \in returned \cap {p}}
    \cup {<<"lost">> : r \in lost \cap {p}}

ProposalsOnce ==
    /\ \A p \in Placed \ {None} : Cardinality(Places(p)) = 1
    /\ lost # {} => stops > 0 \/ \E m \in Managers : error[m]

=============================================================================
