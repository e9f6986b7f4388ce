---------------------------- MODULE ActivityPool ----------------------------
(***************************************************************************)
(* PoolActivityManager (src/golem/managers/activity/pool.py): a loop task  *)
(* that fills a queue of activities up to a target and releases them when  *)
(* it ends, and the tasks that borrow activities from the queue            *)
(* (get_activity, PoolActivity.destroy and _do_work of                     *)
(* managers/work/mixins.py).                                               *)
(*                                                                         *)
(* The loop waits in a sleep or in a gather.  A gather ends when all its   *)
(* tasks have, or with the first that raises; the others then go on by     *)
(* themselves.  The manager is started once, so that the branch of the     *)
(* loop for a pool above its target is never taken (NeverOverfull).        *)
(***************************************************************************)
EXTENDS Naturals, Sequences, FiniteSets, SequencesExt

CONSTANTS
    Activities, \* the activities it may create
    Users,      \* tasks that run a work in an activity: _do_work
    Target,     \* _pool_target_size
    Terminating,\* the users whose work calls WorkContext.terminate()
    Returning,  \* the users that come back with another work
    NoActivity  \* what a user holds before its first activity

ASSUME PoolAssumption ==
    /\ IsFiniteSet(Activities)
    /\ IsFiniteSet(Users)
    /\ Target \in Nat
    /\ Target <= Cardinality(Activities)
    /\ Terminating \subseteq Users
    /\ Returning \subseteq Users
    /\ NoActivity \notin Activities

VARIABLES
    loop,       \* where _background_loop is
    size,       \* _pool_current_size
    pool,       \* _pool
    preparing,  \* prepare tasks without an activity yet
    act,        \* act[a]: what became of activity a
    releasing,  \* release tasks waiting for the pool
    stops,      \* stops[a]: release tasks inside on_activity_stop(a)
    stopper,    \* the task in stop()
    user,       \* user[u]: where u is
    holds,      \* holds[u]: the activity of u, while it works
    \* history, read by the properties only
    lost,       \* how many users were cancelled holding an activity
    extra,      \* how often an activity was put back by terminate()
    fault       \* a task raised, or release tasks were cancelled

poolVars == <<size, pool, act, preparing>>
releaseVars == <<releasing, stops>>
userVars == <<user, holds, lost, extra>>
vars == <<loop, poolVars, releaseVars, stopper, userVars, fault>>

\* Activities inside on_activity_start.
Starting == {a \in Activities : act[a] = "starting"}

\* Tasks that hold the activity they were given.
Working == {u \in Users : user[u] \in {"work", "over"}}

Held(a) == \E u \in Working : holds[u] = a
Pooled(a) == \E i \in 1..Len(pool) : pool[i] = a

Init ==
    /\ loop = "off"
    /\ size = 0
    /\ pool = <<>>
    /\ preparing = 0
    /\ act = [a \in Activities |-> "new"]
    /\ releasing = 0
    /\ stops = [a \in Activities |-> 0]
    /\ stopper = "no"
    /\ user = [u \in Users |-> "idle"]
    /\ holds = [u \in Users |-> NoActivity]
    /\ lost = 0
    /\ extra = 0
    /\ fault = FALSE

-----------------------------------------------------------------------------
(* The loop and its tasks. *)

\* start(), to the first check of the pool's size.
Start ==
    /\ loop = "off"
    /\ stopper = "no"
    /\ loop' = "sleep"
    /\ UNCHANGED <<poolVars, releaseVars, stopper, userVars, fault>>

\* range(_pool_target_size - _pool_current_size)
Missing == Target - size

\* The pool is below its target: a gather of prepare tasks.
Fill ==
    /\ loop = "sleep"
    /\ size < Target
    /\ loop' = "prepare"
    /\ preparing' = Missing
    /\ UNCHANGED <<size, pool, act, releaseVars, stopper, userVars, fault>>

\* A task of the gather raises.
Raise ==
    /\ loop' = IF loop = "prepare" THEN "leaving" ELSE loop
    /\ fault' = TRUE

\* get_agreement() or create_activity() raises.
PrepareRaises ==
    /\ preparing > 0
    /\ preparing' = preparing - 1
    /\ Raise
    /\ UNCHANGED <<size, pool, act, releaseVars, stopper, userVars>>

\* create_activity() returns, on_activity_start is called.
Created(a) ==
    /\ preparing > 0
    /\ act[a] = "new"
    /\ preparing' = preparing - 1
    /\ act' = [act EXCEPT ![a] = "starting"]
    /\ UNCHANGED <<loop, size, pool, releaseVars, stopper, userVars, fault>>

\* on_activity_start raises: nobody destroys the activity.
StartRaises(a) ==
    /\ act[a] = "starting"
    /\ act' = [act EXCEPT ![a] = "abandoned"]
    /\ Raise
    /\ UNCHANGED <<preparing, size, pool, releaseVars, stopper, userVars>>

\* on_activity_start returns, the activity goes to the pool.
Started(a) ==
    /\ act[a] = "starting"
    /\ act' = [act EXCEPT ![a] = "ready"]
    /\ pool' = Append(pool, a)
    /\ size' = size + 1
    /\ UNCHANGED <<loop, preparing, releaseVars, stopper, userVars, fault>>

\* All the tasks of the gather are done.
Filled ==
    /\ loop = "prepare"
    /\ preparing = 0
    /\ Starting = {}

FillDone ==
    /\ Filled
    /\ loop' = "sleep"
    /\ UNCHANGED <<poolVars, releaseVars, stopper, userVars, fault>>

\* Mutant: the activity stays in the pool.
TakenStays == pool

\* What is left when an activity is taken.
Taken == Tail(pool)

\* Mutants: one task for each activity that is in the pool now; one for each
\* that should be; one too many.
ToReleasePooled == Len(pool)
ToReleaseTarget == Target
\* range(_pool_current_size)
ToRelease == size

\* The `finally` of the loop: a gather of release tasks.
Leave ==
    /\ loop = "leaving"
    /\ loop' = "release"
    /\ releasing' = ToRelease
    /\ UNCHANGED <<poolVars, stops, stopper, userVars, fault>>

\* A release task gets an activity from the pool.
ReleaseGet ==
    /\ releasing > 0
    /\ pool # <<>>
    /\ releasing' = releasing - 1
    /\ pool' = Taken
    /\ size' = size - 1
    /\ stops' = [stops EXCEPT ![Head(pool)] = @ + 1]
    /\ UNCHANGED <<loop, act, preparing, stopper, userVars, fault>>

\* on_activity_stop terminated the activity.
Stopped(a) ==
    /\ stops[a] > 0
    /\ stops' = [stops EXCEPT ![a] = @ - 1]
    /\ act' = [act EXCEPT ![a] = "destroyed"]
    /\ UNCHANGED <<loop, size, pool, preparing, releasing, stopper, userVars, fault>>

\* on_activity_stop raises, and with it the loop; the other tasks go on.
StopRaises(a) ==
    /\ stops[a] > 0
    /\ stops' = [stops EXCEPT ![a] = @ - 1]
    /\ act' = [act EXCEPT ![a] = IF @ = "destroyed" THEN @ ELSE "abandoned"]
    /\ loop' = "raised"
    /\ fault' = TRUE
    /\ UNCHANGED <<size, pool, preparing, releasing, stopper, userVars>>

\* All release tasks are done.
Released ==
    /\ loop = "release"
    /\ releasing = 0
    /\ \A a \in Activities : stops[a] = 0
    /\ loop' = "ended"
    /\ UNCHANGED <<poolVars, releaseVars, stopper, userVars, fault>>

\* stop(): the loop task is cancelled, in its sleep or before it runs again.
StopCall ==
    /\ loop \in {"sleep", "leaving"}
    /\ stopper = "no"
    /\ stopper' = "wait"
    /\ loop' = "leaving"
    /\ UNCHANGED <<poolVars, releaseVars, userVars, fault>>

\* stop() while the pool is filled: the prepare tasks are cancelled, and the
\* activities they were starting are left to nobody.
StopFilling ==
    /\ loop = "prepare"
    /\ stopper = "no"
    /\ stopper' = "wait"
    /\ loop' = "leaving"
    /\ preparing' = 0
    /\ act' = [a \in Activities |->
                    IF act[a] = "starting" THEN "abandoned" ELSE act[a]]
    /\ UNCHANGED <<size, pool, releaseVars, userVars, fault>>

\* stop() while the pool is released because the loop failed: the release
\* tasks are cancelled, inside on_activity_stop too.
StopReleasing ==
    /\ loop = "release"
    /\ stopper = "no"
    /\ stopper' = "wait"
    /\ loop' = "ended"
    /\ releasing' = 0
    /\ stops' = [a \in Activities |-> 0]
    /\ act' = [a \in Activities |->
                    IF stops[a] > 0 /\ act[a] # "destroyed"
                    THEN "abandoned" ELSE act[a]]
    /\ fault' = TRUE
    /\ UNCHANGED <<size, pool, preparing, userVars>>

\* stop() when the loop task is done: nothing to wait for.
StopLate ==
    /\ loop \in {"ended", "raised"}
    /\ stopper = "no"
    /\ stopper' = "done"
    /\ UNCHANGED <<loop, poolVars, releaseVars, userVars, fault>>

\* The loop task is done; what it raised is raised to the caller.
StopReturn ==
    /\ stopper = "wait"
    /\ loop \in {"ended", "raised"}
    /\ stopper' = IF loop = "ended" THEN "done" ELSE "raised"
    /\ UNCHANGED <<loop, poolVars, releaseVars, userVars, fault>>

-----------------------------------------------------------------------------
(* Users: _do_work of a work manager. *)

\* A task may begin: it is new, or it is over and another takes its place.
Free(u) ==
    \/ user[u] = "idle"
    \/ u \in Returning /\ user[u] \in {"ok", "failed", "cancelled"}

\* get_activity() is called, by several tasks at once if S is not a single one.
Begin(S) ==
    /\ \A u \in S : Free(u)
    /\ user' = [u \in Users |-> IF u \in S THEN "get" ELSE user[u]]
    /\ UNCHANGED <<loop, poolVars, releaseVars, stopper, holds, lost, extra, fault>>

\* get() returns.  A user that finds the queue not empty is served before
\* those that wait, so any may be next.
Take(u) ==
    /\ user[u] = "get"
    /\ pool # <<>>
    /\ user' = [user EXCEPT ![u] = "work"]
    /\ holds' = [holds EXCEPT ![u] = Head(pool)]
    /\ pool' = Taken
    /\ UNCHANGED <<loop, size, act, preparing, releaseVars, stopper, lost, extra, fault>>

\* The work calls terminate(), which puts the activity back.
Terminate(u) ==
    /\ u \in Terminating
    /\ user[u] = "work"
    /\ user' = [user EXCEPT ![u] = "over"]
    /\ pool' = Append(pool, holds[u])
    /\ extra' = extra + 1
    /\ UNCHANGED <<loop, size, act, preparing, releaseVars, stopper, holds, lost, fault>>

\* PoolActivity.destroy()
PutBack(u, result) == Append(pool, holds[u])

\* The work returned or raised, _do_work puts the activity back: ends as "ok"
\* or "failed".
Finish(u, result) ==
    /\ u \in Working
    /\ user' = [user EXCEPT ![u] = result]
    /\ pool' = PutBack(u, result)
    /\ UNCHANGED <<loop, size, act, preparing, releaseVars, stopper, holds, lost,
                   extra, fault>>

\* Tasks are cancelled (redundancy_cancel_others_on_first_done): the
\* activities they hold are not put back.
Cancel(S) ==
    /\ user' = [u \in Users |->
                    IF u \in S /\ user[u] \in {"get", "work", "over"}
                    THEN "cancelled" ELSE user[u]]
    /\ lost' = lost + Cardinality(S \cap Working)
    /\ UNCHANGED <<loop, poolVars, releaseVars, stopper, holds, extra, fault>>

-----------------------------------------------------------------------------

Manager ==
    \/ Start \/ Fill \/ PrepareRaises \/ FillDone
    \/ Leave \/ ReleaseGet \/ Released
    \/ StopCall \/ StopFilling \/ StopReleasing \/ StopLate \/ StopReturn
    \/ \E a \in Activities :
        Created(a) \/ StartRaises(a) \/ Started(a) \/ Stopped(a) \/ StopRaises(a)

User(u) ==
    \/ Begin({u}) \/ Take(u) \/ Terminate(u) \/ Cancel({u})
    \/ \E result \in {"ok", "failed"} : Finish(u, result)

Next == Manager \/ \E u \in Users : User(u)

Spec == Init /\ [][Next]_vars

\* The event loop runs every task that is ready; agreements, activities and
\* works end one way or the other.  Nothing forces stop() or a cancellation.
Fairness ==
    /\ WF_vars(Start) /\ WF_vars(Fill) /\ WF_vars(FillDone)
    /\ WF_vars(PrepareRaises \/ \E a \in Activities : Created(a))
    /\ \A a \in Activities : WF_vars(StartRaises(a) \/ Started(a))
    /\ WF_vars(Leave) /\ WF_vars(ReleaseGet) /\ WF_vars(Released)
    /\ \A a \in Activities : WF_vars(Stopped(a) \/ StopRaises(a))
    /\ WF_vars(StopReturn)
    /\ \A u \in Users :
        /\ WF_vars(Take(u))
        /\ WF_vars(\E result \in {"ok", "failed"} : Finish(u, result))

FairSpec == Spec /\ Fairness

-----------------------------------------------------------------------------
(* Properties.                                                             *)

LoopStates == {"off", "sleep", "prepare", "leaving", "release", "ended", "raised"}
UserStates == {"idle", "get", "work", "over", "ok", "failed", "cancelled"}
ActivityStates == {"new", "starting", "ready", "abandoned", "destroyed"}

\* The domains of all variables.
TypeOK ==
    /\ loop \in LoopStates
    /\ size \in Nat
    /\ pool \in Seq(Activities)
    /\ preparing \in Nat
    /\ act \in [Activities -> ActivityStates]
    /\ releasing \in Nat
    /\ stops \in [Activities -> Nat]
    /\ stopper \in {"no", "wait", "done", "raised"}
    /\ user \in [Users -> UserStates]
    /\ holds \in [Users -> Activities \cup {NoActivity}]
    /\ lost \in Nat
    /\ extra \in Nat
    /\ fault \in BOOLEAN

\* _pool_current_size counts the activities in the pool and those lent out: a
\* cancelled work makes it too large for good, a terminate() adds one in the
\* pool.  The final release trusts it (pool.py:67-70).
SizeAccounts ==
    Len(pool) + Cardinality(Working) + lost = size + extra

\* While the loop runs, the pool and the tasks filling it stay within the
\* target: the branch for a pool above it (pool.py:45-52) is never taken.
NeverOverfull ==
    loop \in {"sleep", "prepare"} =>
        size + preparing + Cardinality(Starting) <= Target

\* Two works run in one activity only after a terminate() put it back early.
ExclusiveUse ==
    \A u, v \in Working : u # v /\ holds[u] = holds[v] => extra > 0

\* An activity the pool counts is in it, lent to one work, or lost.
LentExactly == SizeAccounts /\ ExclusiveUse

\* What a work holds or finds in the pool is not being stopped or destroyed,
\* unless a terminate() put it back twice.
StoppedIsUnused ==
    extra = 0 => \A a \in Activities :
        (stops[a] > 0 \/ act[a] = "destroyed") => ~Pooled(a) /\ ~Held(a)

\* If no task raised, stop() returns after every activity that was ready is
\* destroyed, the lent out ones too.
StopReleasesAll ==
    (stopper = "done" /\ loop = "ended" /\ ~fault /\ extra = 0) =>
        /\ pool = <<>>
        /\ \A a \in Activities : act[a] \in {"new", "abandoned", "destroyed"}

\* stop() returns once the works at hand are over, unless one was cancelled
\* with its activity: then it waits for ever.
StopCompletes == stopper = "wait" ~> (stopper # "wait" \/ lost > 0)

=============================================================================
