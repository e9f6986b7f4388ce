-------------------------------- MODULE TaskApi --------------------------------
(***************************************************************************)
(* examples/task_api_draft: execute_tasks() gives the tasks of a stream to *)
(* workers that take idle activities from a pool, either every task once,  *)
(* repeated when it fails, or, with a RedundanceManager, every task on     *)
(* several providers, until enough of them agree on the result.            *)
(***************************************************************************)
EXTENDS Integers, FiniteSets, Sequences, SequencesExt

CONSTANTS
    Workers,    \* of the manager, or slots of the final Buffer
    Machines,   \* activities that proposals lead to
    Owner,      \* Owner[m]: the provider of m
    Jobs,       \* calls of execute_tasks(): tasks and min_repeat, or Nil
    Answers,    \* results a provider may come to
    PoolSize,   \* max_size of the pool
    MinSuccess, \* min_success, a fraction
    MaxTaskFaults, \* bound: tasks that raise
    Nil

ASSUME TaskApiAssumption ==
    /\ IsFiniteSet(Workers)
    /\ PoolSize \in Nat \ {0} /\ MaxTaskFaults \in Nat
    /\ MinSuccess \in Nat \X (Nat \ {0})
    /\ DOMAIN Owner = Machines
    /\ \A job \in Jobs :
           /\ job.tasks \in Seq(Range(job.tasks)) /\ Nil \notin Range(job.tasks)
           /\ job.repeat \in Nat \cup {Nil}

VARIABLES
    input,     \* the tasks
    repeat,    \* min_repeat of the RedundanceManager, Nil without one
    rest,      \* TaskDataStream.in_stream
    queue,     \* TaskDataStream._queue; remaining_tasks of the manager
    taskCnt, inStreamEmpty,
    offered,   \* machines whose proposal is to come
    passed,    \* machines on their way through the chain
    ended,     \* _in_stream_empty of the pool
    managed,   \* the manager task of a machine: "none", "new", "put", "free", "used", "gone"
    idle,      \* _idle_activities
    destroyed,
    worker,    \* "next", "get", "lock", "wait", "ready", "run", "close", "dead", "end"
    doing,     \* the task of a worker
    machine,   \* its activity
    given,     \* _provider_tasks
    useless,   \* _useless_providers
    partial,   \* _partial_results, with the provider
    outcome,   \* what execute_tasks() yields
    errors

taskVars == <<input, repeat, rest, queue, taskCnt, inStreamEmpty, offered, passed, ended,
              managed, idle, destroyed, worker, doing, machine, given, useless, partial,
              outcome, errors>>
redundant == repeat # Nil
stream == <<input, repeat, rest, taskCnt, inStreamEmpty>>
source == <<offered, passed>>
activities == <<managed, idle, destroyed, ended>>
judged == <<given, useless, partial, outcome, errors>>

Min2(m, n) == IF m < n THEN m ELSE n

\* The pool is empty, and a manager has given nothing to anybody.
PoolInit == managed = [m \in Machines |-> "none"] /\ idle = <<>> /\ ended = FALSE
ManagerInit ==
    /\ given = [p \in {Owner[m] : m \in Machines} |-> {}] /\ useless = {}
    /\ partial = <<>>

\* all_remaining_tasks() leaves nothing in the stream.
TaskInit ==
    /\ \E job \in Jobs : input = job.tasks /\ repeat = job.repeat
    /\ queue = IF redundant THEN input ELSE SubSeq(input, 1, Min2(1, Len(input)))
    /\ rest = IF redundant \/ input = <<>> THEN <<>> ELSE Tail(input)
    /\ taskCnt = Len(queue)
    /\ inStreamEmpty = (redundant \/ input = <<>>)
    /\ PoolInit /\ ManagerInit
    /\ offered = Machines /\ passed = {} /\ destroyed = {}
    /\ worker = [w \in Workers |-> "next"]
    /\ doing = [w \in Workers |-> Nil] /\ machine = [w \in Workers |-> Nil]
    /\ outcome = <<>> /\ errors = 0

\* execute_tasks() leaves its loop.
Finished == inStreamEmpty /\ taskCnt > 0 /\ Len(outcome) = taskCnt

-----------------------------------------------------------------------------
(* TaskDataStream and the chain before the pool.                           *)

\* Zip takes a task for the activity that the pool is to give; when the queue
\* is empty the next one is loaded.
TakeTask(w) ==
    /\ ~redundant /\ worker[w] = "next" /\ queue # <<>> /\ ~Finished
    /\ doing' = [doing EXCEPT ![w] = Head(queue)]
    /\ worker' = [worker EXCEPT ![w] = "get"]
    /\ IF Len(queue) > 1 \/ inStreamEmpty
       THEN queue' = Tail(queue) /\ UNCHANGED <<rest, taskCnt, inStreamEmpty>>
       ELSE IF rest = <<>>
       THEN queue' = <<>> /\ inStreamEmpty' = TRUE /\ UNCHANGED <<rest, taskCnt>>
       ELSE queue' = <<Head(rest)>> /\ rest' = Tail(rest) /\ taskCnt' = taskCnt + 1
            /\ UNCHANGED inStreamEmpty
    /\ UNCHANGED <<input, repeat, source, activities, machine, judged>>

\* filter_providers()
Filter(m) ==
    /\ m \in offered /\ (redundant => queue # <<>>)
    /\ offered' = offered \ {m}
    /\ passed' = IF redundant /\ Owner[m] \in useless THEN passed ELSE passed \cup {m}
    /\ UNCHANGED <<stream, queue, activities, worker, doing, machine, judged>>

-----------------------------------------------------------------------------
(* ActivityPool.                                                           *)

Running == {m \in Machines : managed[m] \notin {"none", "gone"}}

\* full()
Full == Cardinality(Running) >= PoolSize

\* _get_next_idle_activity()
Ask(w) ==
    /\ worker[w] = "get"
    /\ worker' = [worker EXCEPT ![w] = IF ~ended /\ idle = <<>> /\ ~Full THEN "lock" ELSE "wait"]
    /\ UNCHANGED <<stream, queue, source, activities, doing, machine, judged>>

\* _create_manager_task()
Manage(m) == managed' = [managed EXCEPT ![m] = "new"]

\* Under the lock, and whatever has become idle or has been added since.
FromStream(w, m) ==
    /\ worker[w] = "lock" /\ m \in passed
    /\ passed' = passed \ {m}
    /\ Manage(m)
    /\ worker' = [worker EXCEPT ![w] = "wait"]
    /\ UNCHANGED <<stream, queue, offered, ended, idle, destroyed, doing, machine, judged>>

StreamEnds(w) ==
    /\ worker[w] = "lock" /\ offered \cup passed = {}
    /\ ended' = TRUE
    /\ worker' = [worker EXCEPT ![w] = "get"]
    /\ UNCHANGED <<stream, queue, source, managed, idle, destroyed, doing, machine, judged>>

Get(w) ==
    /\ worker[w] = "wait" /\ idle # <<>>
    /\ idle' = Tail(idle)
    /\ IF Head(idle) \in destroyed
       THEN worker' = [worker EXCEPT ![w] = "get"] /\ UNCHANGED machine
       ELSE /\ worker' = [worker EXCEPT ![w] = "ready"]
            /\ machine' = [machine EXCEPT ![w] = Head(idle)]
    /\ UNCHANGED <<stream, queue, source, managed, destroyed, ended, doing, judged>>

\* _manage_activity(): the activity is created, or no longer busy.
Put(m) ==
    /\ managed[m] \in {"new", "put"}
    /\ managed' = [managed EXCEPT ![m] = "free"]
    /\ idle' = Append(idle, m)
    /\ UNCHANGED <<stream, queue, source, destroyed, ended, worker, doing, machine, judged>>

\* InputStreamExhausted instead of an activity.
NoMoreActivity(m) ==
    /\ managed[m] = "new"
    /\ managed' = [managed EXCEPT ![m] = "gone"]
    /\ UNCHANGED <<stream, queue, source, idle, destroyed, ended, worker, doing, machine, judged>>

\* _activity_destroyed_cleanup()
Cleanup(m) ==
    /\ m \in destroyed /\ managed[m] # "gone"
    /\ managed' = [managed EXCEPT ![m] = "gone"]
    /\ UNCHANGED <<stream, queue, source, idle, destroyed, ended, worker, doing, machine, judged>>

-----------------------------------------------------------------------------
(* A worker that has an activity.                                          *)

\* Mutant: the first remaining task, though the provider has worked on it.
FirstTask(p, remaining) == IF remaining = <<>> THEN Nil ELSE Head(remaining)

\* _task_for_provider()
TaskForProvider(p, remaining) ==
    LET i == SelectInSeq(remaining, LAMBDA d : d \notin given[p]) IN
    IF i = 0 THEN Nil ELSE remaining[i]

Busy(m) == managed' = [managed EXCEPT ![m] = IF @ = "free" THEN "used" ELSE @]

ExecuteTask(w) ==
    /\ worker[w] = "ready" /\ ~redundant
    /\ Busy(machine[w])
    /\ worker' = [worker EXCEPT ![w] = "run"]
    /\ UNCHANGED <<stream, queue, source, idle, destroyed, ended, doing, machine, judged>>

\* The loop of _worker_task(): "next" asks for an activity while tasks remain.
NextTurn(w) ==
    /\ redundant /\ worker[w] = "next"
    /\ worker' = [worker EXCEPT ![w] = IF queue = <<>> THEN "end" ELSE "get"]
    /\ UNCHANGED <<stream, queue, source, activities, doing, machine, judged>>

ExecuteRedundant(w) ==
    /\ worker[w] = "ready" /\ redundant
    /\ LET p == Owner[machine[w]]
           task == TaskForProvider(p, queue) IN
       IF task = Nil
       THEN /\ useless' = useless \cup {p}
            /\ worker' = [worker EXCEPT ![w] = "close"]
            /\ UNCHANGED <<managed, doing, given>>
       ELSE /\ Busy(machine[w])
            /\ given' = [given EXCEPT ![p] = @ \cup {task}]
            /\ doing' = [doing EXCEPT ![w] = task]
            /\ worker' = [worker EXCEPT ![w] = "run"]
            /\ UNCHANGED useless
    /\ UNCHANGED <<stream, queue, source, idle, destroyed, ended, machine, partial, outcome,
                   errors>>

\* The batch ends, and the manager is to see that the activity is idle.
NoLongerBusy(m) == managed' = [managed EXCEPT ![m] = IF @ = "used" THEN "put" ELSE @]

Votes(ballots, d, r) ==
    Cardinality({i \in DOMAIN ballots : ballots[i].data = d /\ ballots[i].result = r})
Count(ballots, d) == Cardinality({i \in DOMAIN ballots : ballots[i].data = d})

\* min_repeat and min_success
Agreed(ballots, d, r) ==
    /\ Count(ballots, d) >= repeat
    /\ \A o \in Answers : Votes(ballots, d, o) <= Votes(ballots, d, r)
    /\ Votes(ballots, d, r) * MinSuccess[2] >= Count(ballots, d) * MinSuccess[1]

\* _process_task_result(); of the most common results the one that came first.
Process(d, r, p) ==
    LET ballots == Append(partial, [data |-> d, result |-> r, by |-> p])
        first == SelectInSeq(ballots, LAMBDA b : b.data = d /\ Agreed(ballots, d, b.result)) IN
    IF d \notin Range(queue) THEN UNCHANGED <<queue, partial, outcome>>
    ELSE /\ partial' = ballots
         /\ IF first = 0 THEN UNCHANGED <<queue, outcome>>
            ELSE /\ queue' = RemoveAt(queue, SelectInSeq(queue, LAMBDA e : e = d))
                 /\ outcome' = Append(outcome, [data |-> d, result |-> ballots[first].result])

TaskDone(w, r) ==
    /\ worker[w] = "run"
    /\ NoLongerBusy(machine[w])
    /\ IF redundant THEN Process(doing[w], r, Owner[machine[w]])
       ELSE outcome' = Append(outcome, [data |-> doing[w], result |-> r])
            /\ UNCHANGED <<queue, partial>>
    /\ worker' = [worker EXCEPT ![w] = "next"]
    /\ doing' = [doing EXCEPT ![w] = Nil] /\ machine' = [machine EXCEPT ![w] = Nil]
    /\ UNCHANGED <<stream, source, idle, destroyed, ended, given, useless, errors>>

\* Mutant: the task is not put back.
Dropped(q, d) == q

Repeated(q, d) == Append(q, d)

\* close_agreement_repeat_task()
TaskRaises(w) ==
    /\ worker[w] = "run" /\ ~redundant /\ errors < MaxTaskFaults
    /\ errors' = errors + 1
    /\ NoLongerBusy(machine[w])
    /\ queue' = Repeated(queue, doing[w])
    /\ doing' = [doing EXCEPT ![w] = Nil]
    /\ worker' = [worker EXCEPT ![w] = "close"]
    /\ UNCHANGED <<stream, source, idle, destroyed, ended, machine, given, useless, partial,
                   outcome>>

\* _close_useless_activity() does not exist: nobody hears that the worker ends.
RedundantRaises(w) ==
    /\ worker[w] = "run" /\ redundant /\ errors < MaxTaskFaults
    /\ errors' = errors + 1
    /\ NoLongerBusy(machine[w])
    /\ given' = [given EXCEPT ![Owner[machine[w]]] = @ \ {doing[w]}]
    /\ doing' = [doing EXCEPT ![w] = Nil] /\ machine' = [machine EXCEPT ![w] = Nil]
    /\ worker' = [worker EXCEPT ![w] = "dead"]
    /\ UNCHANGED <<stream, queue, source, idle, destroyed, ended, useless, partial, outcome>>

\* agreement.close_all()
CloseAll(w) ==
    /\ worker[w] = "close"
    /\ destroyed' = destroyed \cup {machine[w]}
    /\ worker' = [worker EXCEPT ![w] = "next"]
    /\ machine' = [machine EXCEPT ![w] = Nil]
    /\ UNCHANGED <<stream, queue, source, managed, idle, ended, doing, judged>>

TaskNext ==
    \/ \E m \in Machines : Filter(m) \/ Put(m) \/ NoMoreActivity(m) \/ Cleanup(m)
    \/ \E w \in Workers :
          \/ TakeTask(w) \/ NextTurn(w) \/ Ask(w) \/ StreamEnds(w) \/ Get(w)
          \/ \E m \in Machines : FromStream(w, m)
          \/ ExecuteTask(w) \/ ExecuteRedundant(w) \/ TaskRaises(w) \/ RedundantRaises(w)
          \/ CloseAll(w) \/ \E r \in Answers : TaskDone(w, r)

TaskSpec == TaskInit /\ [][TaskNext]_taskVars

-----------------------------------------------------------------------------
Copies(s, d) == Cardinality({i \in DOMAIN s : s[i] = d})
InHand(d) == IF redundant THEN 0 ELSE Cardinality({w \in Workers : doing[w] = d})

(***************************************************************************)
(* TasksConserved: a task is still to come, in the queue, with a worker or *)
(* has given its one result, whatever fails and is repeated while the      *)
(* stream is read; execute_tasks() ends when all of them have              *)
(* (task_data_stream.py __anext__, execute_tasks.py,                       *)
(* redundance_manager.py _process_task_result).                            *)
(***************************************************************************)
TasksConserved ==
    /\ \A d \in Range(input) :
           Copies(input, d) = Copies(rest, d) + Copies(queue, d) + InHand(d) + Count(outcome, d)
    /\ Finished => Len(outcome) = Len(input)

By(ballots, d) == {b.by : b \in {c \in Range(ballots) : c.data = d}}

\* After n ballots enough providers agreed on r, each of them counted once.
BackedBy(n, d, r) ==
    LET ballots == SubSeq(partial, 1, n) IN
    Agreed(ballots, d, r) /\ Cardinality(By(ballots, d)) = Count(ballots, d)

(***************************************************************************)
(* ResultsBacked: at some time at least min_repeat providers, each counted *)
(* once, had worked on the task of a result, and min_success of them had   *)
(* come to it, though workers share providers, tasks fail and are given    *)
(* again and late results arrive (execute_tasks.py redundance).            *)
(***************************************************************************)
ResultsBacked ==
    redundant => \A i \in DOMAIN outcome :
        \E n \in 0..Len(partial) : BackedBy(n, outcome[i].data, outcome[i].result)

=============================================================================
