-------------------------------- MODULE Waiter --------------------------------
(***************************************************************************)
(* The Waiter of golem/utils/asyncio/waiter.py: tasks wait for a predicate *)
(* and are notified one by one, the one that waits longest first. As in    *)
(* the buffers it was made for, a task waits for so many items, and takes  *)
(* one when it returns; who puts an item notifies one task.                *)
(***************************************************************************)
EXTENDS Integers, Sequences, FiniteSets, SequencesExt

CONSTANTS Sleepers,   \* the tasks
          Needs,      \* Needs[t]: the items the predicate of t asks for
          MaxItems, MaxPuts

ASSUME WaiterAssumption ==
    /\ IsFiniteSet(Sleepers) /\ Needs \in [Sleepers -> Nat \ {0}]
    /\ MaxItems \in Nat /\ MaxPuts \in Nat

VARIABLES stock, puts,
          deque,      \* _waiters, the tasks of the futures
          at,         \* "out", "waiting", "notified", "cancelled" or "through"
          swallowed   \* notifications a cancelled task had (history)

waiterVars == <<stock, puts, deque, at, swallowed>>

WaiterInit ==
    /\ stock = 0 /\ puts = 0 /\ swallowed = 0
    /\ deque = <<>> /\ at = [t \in Sleepers |-> "out"]

Predicate(t) == stock >= Needs[t]

\* The places of the futures that are not done.
Pending == {i \in DOMAIN deque : at[deque[i]] = "waiting"}

\* Mutant: a waiter that is notified already counts again.
FirstNotified(count) == {deque[i] : i \in {j \in DOMAIN deque : j <= count}}

\* notify(): so many of those that are not notified yet.
ToNotify(count) ==
    {deque[i] : i \in {j \in Pending : Cardinality({k \in Pending : k < j}) < count}}

\* _notify_first(): the first, unless its future is done already.
First(s) == IF s # <<>> /\ at[s[1]] = "waiting" THEN {s[1]} ELSE {}

\* _waiters.remove(future)
Others(t) == RemoveAt(deque, CHOOSE i \in DOMAIN deque : deque[i] = t)

\* wait_for(): the predicate holds at once, or the task joins the others.
WaitFor(t) ==
    /\ at[t] = "out"
    /\ IF Predicate(t)
       THEN stock' = stock - 1 /\ at' = [at EXCEPT ![t] = "through"] /\ UNCHANGED deque
       ELSE deque' = Append(deque, t) /\ at' = [at EXCEPT ![t] = "waiting"] /\ UNCHANGED stock
    /\ UNCHANGED <<puts, swallowed>>

PutItems(count) ==
    /\ puts < MaxPuts /\ stock + count <= MaxItems
    /\ puts' = puts + 1 /\ stock' = stock + count
    /\ at' = [t \in Sleepers |-> IF t \in ToNotify(count) THEN "notified" ELSE at[t]]
    /\ UNCHANGED <<deque, swallowed>>

\* A notified task runs: it returns, or passes the notification on and waits again.
WakeUp(t) ==
    /\ at[t] = "notified"
    /\ IF Predicate(t)
       THEN /\ stock' = stock - 1 /\ deque' = Others(t)
            /\ at' = [at EXCEPT ![t] = "through"]
       ELSE /\ deque' = Append(Others(t), t) /\ stock' = stock
            /\ at' = [u \in Sleepers |-> IF u = t THEN "waiting"
                                         ELSE IF u \in First(Others(t)) THEN "notified" ELSE at[u]]
    /\ UNCHANGED <<puts, swallowed>>

\* cancel() of the task, whose future is done at once and removed when the task runs.
CancelWait(t) ==
    /\ at[t] \in {"waiting", "notified"}
    /\ swallowed' = IF at[t] = "notified" THEN swallowed + 1 ELSE swallowed
    /\ at' = [at EXCEPT ![t] = "cancelled"]
    /\ UNCHANGED <<stock, puts, deque>>

Interrupted(t) ==
    /\ at[t] = "cancelled"
    /\ deque' = Others(t) /\ at' = [at EXCEPT ![t] = "through"]
    /\ UNCHANGED <<stock, puts, swallowed>>

\* The user of a task calls again.
CallAgain(t) ==
    /\ at[t] = "through"
    /\ at' = [at EXCEPT ![t] = "out"]
    /\ UNCHANGED <<stock, puts, deque, swallowed>>

WaiterNext ==
    \/ \E t \in Sleepers :
          WaitFor(t) \/ WakeUp(t) \/ CancelWait(t) \/ Interrupted(t) \/ CallAgain(t)
    \/ \E count \in 1..2 : PutItems(count)

WaiterSpec == WaiterInit /\ [][WaiterNext]_waiterVars

-----------------------------------------------------------------------------
\* No wakeup is lost: while a task sleeps, every item is one that a notified task
\* will take or pass on, also when others came first and took items, or was one whose
\* notification a cancelled task had (waiter.py wait_for, notify).
Notified == {t \in Sleepers : at[t] = "notified"}
WakeupsKept == Pending # {} => stock <= Cardinality(Notified) + swallowed
===============================================================================
