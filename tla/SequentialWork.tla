---------------------------- MODULE SequentialWork ----------------------------
(***************************************************************************)
(* SequentialWorkManager (src/golem/managers/work/sequential.py) on top of *)
(* SingleUseActivityManager (managers/activity/single_use.py): one caller  *)
(* does a list of works, each attempt of a work in an activity of its own. *)
(* The retry plugins wrap each other: those of the manager are inside,     *)
(* those the work was decorated with outside.  An activity and its         *)
(* agreement have one name: the agreement ends when its activity is closed *)
(* (AgreementPayment).                                                     *)
(***************************************************************************)
EXTENDS Naturals, Sequences, FiniteSets

CONSTANTS
    Todo,           \* the works of do_work_list
    ManagerRetries, \* the tries of the retry plugins of the manager
    WorkRetries,    \* those of the plugins of each work
    Activities,     \* numbers, in the order in which their agreements come
    MaxFaults,      \* bound: calls and callbacks that raise, cancellations
    None

ASSUME SequentialAssumption ==
    /\ Todo \in Seq(DOMAIN WorkRetries)
    /\ ManagerRetries \in Seq(Nat)
    /\ \A wk \in DOMAIN WorkRetries : WorkRetries[wk] \in Seq(Nat)
    /\ Activities \subseteq Nat /\ IsFiniteSet(Activities)
    /\ None \notin Nat
    /\ MaxFaults \in Nat

VARIABLES
    callbacks,  \* whether on_activity_start and on_activity_stop are given
    turn,       \* the place of the work in the list
    caller,     \* where do_work_list is
    counts,     \* counts[i]: the count of the i-th retry from inside
    attempts,   \* how often the work of this turn was called
    hand,       \* the activity, or its agreement, of this attempt
    activity,   \* activity[a]: what the provider has
    ok,         \* whether the work returned a result without an exception
    results,    \* results
    faults

\* _do_work_with_plugins: how the plugins of the manager and of a work are put
\* around each other, the innermost first.
Layers(wk) == ManagerRetries \o WorkRetries[wk]

SeqInit ==
    /\ callbacks \in SUBSET {"start", "stop"}
    /\ turn = 0
    /\ caller = "next"
    /\ counts = <<>>
    /\ attempts = 0
    /\ hand = None
    /\ activity = [a \in Activities |-> "none"]
    /\ ok = FALSE
    /\ results = <<>>
    /\ faults = 0

Fault == faults < MaxFaults /\ faults' = faults + 1

-----------------------------------------------------------------------------

\* The next work of the list, all counts are new.
NextWork ==
    /\ caller = "next"
    /\ turn < Len(Todo)
    /\ turn' = turn + 1
    /\ caller' = "agreement"
    /\ counts' = [i \in DOMAIN Layers(Todo[turn + 1]) |-> 0]
    /\ attempts' = 0
    /\ UNCHANGED <<callbacks, hand, activity, ok, results, faults>>

\* What an exception or a cancellation that reaches do_work_list leaves: the
\* results of the works before are in a local variable.
Abort ==
    /\ caller' = "raised"
    /\ hand' = None
    /\ results' = <<>>
    /\ UNCHANGED <<callbacks, turn, counts, attempts, ok>>

\* _get_agreement() is in no try: it ends the whole list when it raises.
AgreementRaises ==
    /\ caller = "agreement"
    /\ Fault
    /\ Abort
    /\ UNCHANGED activity

GetAgreement(a) ==
    /\ caller = "agreement"
    /\ activity[a] = "none"
    /\ \A b \in Activities : b < a => activity[b] # "none"
    /\ activity' = [activity EXCEPT ![a] = "agreed"]
    /\ hand' = a
    /\ caller' = "create"
    /\ UNCHANGED <<callbacks, turn, counts, attempts, ok, results, faults>>

\* create_activity() raises: the agreement is left as it is, the loop asks for
\* another.
CreateRaises ==
    /\ caller = "create"
    /\ Fault
    /\ caller' = "agreement"
    /\ hand' = None
    /\ UNCHANGED <<callbacks, turn, counts, attempts, activity, ok, results>>

Create ==
    /\ caller = "create"
    /\ activity' = [activity EXCEPT ![hand] = "runs"]
    /\ caller' = "start"
    /\ UNCHANGED <<callbacks, turn, counts, attempts, hand, ok, results, faults>>

\* The batch of on_activity_start fails: the activity runs on, the loop asks
\* for another agreement.
StartRaises ==
    /\ caller = "start"
    /\ "start" \in callbacks
    /\ Fault
    /\ caller' = "agreement"
    /\ hand' = None
    /\ UNCHANGED <<callbacks, turn, counts, attempts, activity, ok, results>>

\* The activity is deployed and started, or nobody asked for that: the work is
\* called.
Started ==
    /\ caller = "start"
    /\ caller' = "work"
    /\ attempts' = attempts + 1
    /\ UNCHANGED <<callbacks, turn, counts, hand, activity, ok, results, faults>>

\* SingleUseActivity.destroy(): on_activity_stop, without which the activity
\* is not destroyed.
Release ==
    activity' = IF "stop" \in callbacks
                THEN [activity EXCEPT ![hand] = "destroyed"]
                ELSE activity

\* The work calls terminate() of its context.
Terminate ==
    /\ caller = "work"
    /\ activity[hand] = "runs"
    /\ Release
    /\ UNCHANGED <<callbacks, turn, caller, counts, attempts, hand, ok, results, faults>>

\* Mutant: only a work that went well has its activity destroyed.
WorkEndsAt(result) == caller' = IF result THEN "destroy" ELSE "after"

\* The work has ended: its activity is destroyed whatever its result.
WorkLeaves(result) == caller' = "destroy"

\* The work returns or raises.
WorkEnds(result) ==
    /\ caller = "work"
    /\ WorkLeaves(result)
    /\ ok' = result
    /\ UNCHANGED <<callbacks, turn, counts, attempts, hand, activity, results, faults>>

Destroy ==
    /\ caller = "destroy"
    /\ Release
    /\ caller' = "after"
    /\ UNCHANGED <<callbacks, turn, counts, attempts, hand, ok, results, faults>>

\* The call fails, as it may for an activity that the work has terminated: no
\* handler above takes the exception.
DestroyRaises ==
    /\ caller = "destroy"
    /\ "stop" \in callbacks
    /\ \/ Fault
       \/ activity[hand] = "destroyed" /\ UNCHANGED faults
    /\ Abort
    /\ UNCHANGED activity

-----------------------------------------------------------------------------

\* The retries that have tries left.
Willing == {i \in DOMAIN counts : counts[i] < Layers(Todo[turn])[i]}

\* Mutant: the counts of the retries inside go on.
CountedOn(i) == [counts EXCEPT ![i] = @ + 1]

\* The i-th retry tries again: it counts, those inside it are called anew.
CountedBy(i) ==
    [j \in DOMAIN counts |-> IF j < i THEN 0 ELSE counts[j] + IF j = i THEN 1 ELSE 0]

\* The attempt failed: the innermost retry with tries left calls again.
Again ==
    /\ caller = "after"
    /\ ~ok
    /\ \E i \in Willing :
        /\ \A j \in Willing : i <= j
        /\ counts' = CountedBy(i)
    /\ caller' = "agreement"
    /\ hand' = None
    /\ UNCHANGED <<callbacks, turn, attempts, activity, ok, results, faults>>

\* extras["retry"] of a result: the outermost retry writes over the others.
Extras == IF counts = <<>> THEN None
          ELSE IF ok THEN counts[Len(counts)] ELSE counts[Len(counts)] + 1

\* The work succeeded, or every retry gave up.
Return ==
    /\ caller = "after"
    /\ ok \/ Willing = {}
    /\ results' = Append(results, [work |-> Todo[turn], ok |-> ok,
                                   attempts |-> attempts, tries |-> Extras])
    /\ caller' = "next"
    /\ hand' = None
    /\ UNCHANGED <<callbacks, turn, counts, attempts, activity, ok, faults>>

\* The task of the caller is cancelled.
Cancel ==
    /\ caller \notin {"next", "after", "raised"}
    /\ Fault
    /\ Abort
    /\ UNCHANGED activity

SeqNext ==
    \/ NextWork \/ AgreementRaises \/ CreateRaises \/ Create \/ StartRaises \/ Started
    \/ Terminate \/ Destroy \/ DestroyRaises \/ Again \/ Return \/ Cancel
    \/ \E a \in Activities : GetAgreement(a)
    \/ \E result \in BOOLEAN : WorkEnds(result)

-----------------------------------------------------------------------------
(* Properties.                                                             *)

Left == {a \in Activities \ {hand} : activity[a] \in {"agreed", "runs"}}

\* With an on_activity_stop each fault leaves at most one agreement or activity
\* that nobody holds and nobody ends: works that fail, are tried again or
\* terminate their activity leave none (single_use.py:41, work/mixins.py:63).
LeftPerFault == "stop" \in callbacks => Cardinality(Left) <= faults

\* All that retries with these tries may count, together.
Countings(L) ==
    {c \in [DOMAIN L -> UNION {0..L[i] : i \in DOMAIN L}] : \A i \in DOMAIN L : c[i] <= L[i]}

\* The works of the list have their results in order. A work that failed was
\* called once for all that the retries around it may count, which multiply,
\* one that succeeded at most as often; and a single retry reports the failures.
TriedEnough == \A n \in DOMAIN results :
    LET r == results[n]
        L == Layers(r.work)
        most == Cardinality(Countings(L))
    IN  /\ r.work = Todo[n]
        /\ r.attempts \in 1..most
        /\ ~r.ok => r.attempts = most
        /\ Len(L) = 1 => r.attempts = IF r.ok THEN r.tries + 1 ELSE r.tries

=============================================================================
