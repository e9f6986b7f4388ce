----------------------------- MODULE WorkManager -----------------------------
(***************************************************************************)
(* ConcurrentWorkManager (src/golem/managers/work/concurrent.py) with the  *)
(* retry and redundancy plugins (plugins.py), on top of a pool of          *)
(* activities: the users of ActivityPool are the copies of a work that a   *)
(* worker runs at once.  Copies is a single one without the redundancy     *)
(* plugin, Tries is 0 without the retry plugin; as in                      *)
(* examples/managers/proposal_plugins.py every copy retries by itself.     *)
(***************************************************************************)
EXTENDS Naturals, Sequences, FiniteSets, SequencesExt

CONSTANTS
    Works,      \* the works
    Raising,    \* those that may raise CancelledError
    Calls,      \* the lists do_work_list is called with, one after the other
    Workers,    \* range(_size)
    Copies,     \* range(size) of redundancy_cancel_others_on_first_done
    Tries,      \* tries of retry
    PoolActivities, Target, NoActivity, \* see ActivityPool
    NoWork      \* what a worker has before its first work

ASSUME WorkAssumption ==
    /\ Calls \in Seq(Seq(Works))
    /\ Raising \subseteq Works
    /\ IsFiniteSet(Workers) /\ Workers # {}
    /\ IsFiniteSet(Copies) /\ Copies # {}
    /\ Tries \in Nat
    /\ NoWork \notin Works

VARIABLES
    loop, size, pool, preparing, act, releasing, stops, stopper, user, holds,
    lost, extra, fault, \* see ActivityPool
    called,     \* how many calls of do_work_list there were
    client,     \* the task in do_work_list
    queue,      \* _queue
    unfinished, \* the count of _queue.join()
    worker,     \* worker[w]: where the task of worker w is
    current,    \* current[w]: its work
    tries,      \* tries[u]: the count of the retry wrapper of copy u
    allResults  \* _results, of all the calls

poolVars == <<loop, size, pool, preparing, act, releasing, stops, stopper,
              user, holds, lost, extra, fault>>
workVars == <<called, client, queue, unfinished, worker, current, tries, allResults>>
vars == <<poolVars, workVars>>

Users == Workers \X Copies

Pool == INSTANCE ActivityPool WITH Activities <- PoolActivities,
                                   Terminating <- {}, Returning <- Users

\* The copies that worker w runs.
CopiesOf(w) == {w} \X Copies

Init ==
    /\ Pool!Init
    /\ called = 0
    /\ client = "ready"
    /\ queue = <<>>
    /\ unfinished = 0
    /\ worker = [w \in Workers |-> "off"]
    /\ current = [w \in Workers |-> NoWork]
    /\ tries = [u \in Users |-> 0]
    /\ allResults = <<>>

-----------------------------------------------------------------------------

\* do_work_list(), up to join(): new workers, the works are queued.
DoWorkList ==
    /\ client = "ready"
    /\ called < Len(Calls)
    /\ called' = called + 1
    /\ client' = "join"
    /\ queue' = queue \o Calls[called + 1]
    /\ unfinished' = unfinished + Len(Calls[called + 1])
    /\ worker' = [w \in Workers |-> "get"]
    /\ UNCHANGED <<poolVars, current, tries, allResults>>

\* A worker takes a work and starts its copies.
TakeWork(w) ==
    /\ worker[w] = "get"
    /\ queue # <<>>
    /\ queue' = Tail(queue)
    /\ worker' = [worker EXCEPT ![w] = "do"]
    /\ current' = [current EXCEPT ![w] = Head(queue)]
    /\ tries' = [u \in Users |-> IF u \in CopiesOf(w) THEN 0 ELSE tries[u]]
    /\ Pool!Begin(CopiesOf(w))
    /\ UNCHANGED <<called, client, unfinished, allResults>>

\* A copy gets its activity.
GetActivity(u) ==
    /\ Pool!Take(u)
    /\ UNCHANGED workVars

\* Mutant: an error is not counted.
CountedNever(u, result) == tries

\* The errors of a copy after an attempt that ended as result.
Counted(u, result) ==
    IF result = "failed" THEN [tries EXCEPT ![u] = @ + 1] ELSE tries

\* A copy returned or raised, its activity is back in the pool.
AttemptEnds(u, result) ==
    /\ Pool!Finish(u, result)
    /\ tries' = Counted(u, result)
    /\ UNCHANGED <<called, client, queue, unfinished, worker, current, allResults>>

\* while count <= tries
AttemptsLeft(u) == tries[u] <= Tries

\* The next attempt of a copy.
TryAgain(u) ==
    /\ worker[u[1]] = "do"
    /\ user[u] = "failed"
    /\ AttemptsLeft(u)
    /\ Pool!Begin({u})
    /\ UNCHANGED workVars

\* A work raises CancelledError, from a task or a future it awaits: it passes
\* every handler, and the activity is not put back.
Cancelled(u) ==
    /\ user[u] = "work"
    /\ current[u[1]] \in Raising
    /\ Pool!Cancel({u})
    /\ UNCHANGED workVars

\* The copy's task is done.
CopyDone(u) ==
    \/ user[u] \in {"ok", "cancelled"}
    \/ user[u] = "failed" /\ ~AttemptsLeft(u)

\* The copies that are cancelled because u is done.
Others(u) == {v \in CopiesOf(u[1]) : ~CopyDone(v)}

\* Mutant: only the results of works that returned are kept.
AddedOk(u) == IF user[u] = "ok"
              THEN Append(allResults, [work |-> current[u[1]], ok |-> TRUE, tries |-> tries[u]])
              ELSE allResults

\* _results.append(), with what retry says of the copy.
Added(u) ==
    Append(allResults, [work |-> current[u[1]], ok |-> user[u] = "ok", tries |-> tries[u]])

\* The wrapper sees that u, one of the copies that are done, has a result; the
\* others are cancelled.
Collect(u) ==
    /\ worker[u[1]] = "do"
    /\ CopyDone(u)
    /\ user[u] # "cancelled"
    /\ Pool!Cancel(Others(u))
    /\ worker' = [worker EXCEPT ![u[1]] = "get"]
    /\ unfinished' = unfinished - 1
    /\ allResults' = Added(u)
    /\ UNCHANGED <<called, client, queue, current, tries>>

\* The result of u is CancelledError, which ends the worker before task_done().
WorkerDies(u) ==
    /\ worker[u[1]] = "do"
    /\ user[u] = "cancelled"
    /\ Pool!Cancel(Others(u))
    /\ worker' = [worker EXCEPT ![u[1]] = "dead"]
    /\ UNCHANGED <<called, client, queue, unfinished, current, tries, allResults>>

\* join() returns.
Joined == unfinished = 0

\* do_work_list() cancels the workers and returns all of _results.
ReturnResults ==
    /\ client = "join"
    /\ Joined
    /\ client' = "ready"
    /\ worker' = [w \in Workers |-> "off"]
    /\ UNCHANGED <<poolVars, called, queue, unfinished, current, tries, allResults>>

-----------------------------------------------------------------------------

Copy(u) ==
    \/ GetActivity(u) \/ TryAgain(u) \/ Cancelled(u) \/ Collect(u) \/ WorkerDies(u)
    \/ \E result \in {"ok", "failed"} : AttemptEnds(u, result)

PoolStep == Pool!Manager /\ UNCHANGED workVars

Next ==
    \/ DoWorkList \/ ReturnResults \/ PoolStep
    \/ \E w \in Workers : TakeWork(w)
    \/ \E u \in Users : Copy(u)

Spec == Init /\ [][Next]_vars

\* The event loop runs every task that is ready, activities start and stop,
\* works end: every step but the calls of do_work_list() and stop() and the
\* ways to fail.
Fairness ==
    /\ WF_vars(ReturnResults)
    /\ \A w \in Workers : WF_vars(TakeWork(w))
    /\ \A u \in Users :
        /\ WF_vars(GetActivity(u))
        /\ WF_vars(\E result \in {"ok", "failed"} : AttemptEnds(u, result))
        /\ WF_vars(TryAgain(u))
        /\ WF_vars(Collect(u) \/ WorkerDies(u))
    /\ WF_vars((Pool!Start \/ Pool!Fill \/ Pool!FillDone \/ Pool!Leave \/ Pool!ReleaseGet
                \/ Pool!Released \/ Pool!StopReturn) /\ UNCHANGED workVars)
    /\ WF_vars((Pool!PrepareRaises \/ \E a \in PoolActivities : Pool!Created(a))
                /\ UNCHANGED workVars)
    /\ \A a \in PoolActivities :
        /\ WF_vars((Pool!StartRaises(a) \/ Pool!Started(a)) /\ UNCHANGED workVars)
        /\ WF_vars((Pool!Stopped(a) \/ Pool!StopRaises(a)) /\ UNCHANGED workVars)

FairSpec == Spec /\ Fairness

-----------------------------------------------------------------------------
(* Properties.                                                             *)

\* The domains of the variables of the work manager.
TypeOK ==
    /\ called \in 0..Len(Calls)
    /\ client \in {"ready", "join"}
    /\ queue \in Seq(Works)
    /\ unfinished \in Nat
    /\ worker \in [Workers -> {"off", "get", "do", "dead"}]
    /\ current \in [Workers -> Works \cup {NoWork}]
    /\ tries \in [Users -> 0..(Tries + 1)]
    /\ allResults \in Seq([work : Works, ok : BOOLEAN, tries : 0..(Tries + 1)])

\* Workers that have a work which is not marked as done.
Busy == {w \in Workers : worker[w] \in {"do", "dead"}}

\* The places of a work in the lists of the first n calls, and in a list.
Given(wk, n) ==
    {x \in UNION {{c} \X DOMAIN Calls[c] : c \in 1..n} : Calls[x[1]][x[2]] = wk}
Places(wk, s) == {i \in DOMAIN s : s[i] = wk}

\* No work is lost or done twice: each time it was given it is queued, with a
\* worker, or has one result.
WorkConserved == \A wk \in Works :
    Cardinality(Given(wk, called))
        = Cardinality(Places(wk, queue)) + Cardinality({w \in Busy : current[w] = wk})
          + Cardinality({i \in DOMAIN allResults : allResults[i].work = wk})

\* do_work_list() returns while the pool lasts, unless an activity or a worker
\* was lost.
DoWorkReturns == client = "join" ~>
    \/ client = "ready"
    \/ lost > 0
    \/ loop \notin {"off", "sleep", "prepare"}

=============================================================================
