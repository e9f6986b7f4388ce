------------------------------- MODULE Pipeline -------------------------------
(***************************************************************************)
(* The pipes of golem/pipeline in the chain their documentation shows:     *)
(*                                                                         *)
(*   Chain(source, Sort(score), Zip(tasks), Map(func), Buffer(size),       *)
(*         Limit(max_items))                                               *)
(*                                                                         *)
(* Map yields awaitables without end, Buffer awaits some of them at the    *)
(* same time: an awaitable below is one of these with the task of the      *)
(* Buffer that awaits it.  A step is what a task does between two awaits.  *)
(***************************************************************************)
EXTENDS Integers, FiniteSets, Sequences

CONSTANTS
    Elements,     \* what the source yields, in any order
    Score,        \* the score of an element, or Nothing
    MinElements,  \* of Sort, or Nothing
    MaxWait,      \* Sort was given a max_wait
    Tasks,        \* number of elements of the main stream of Zip
    Size,         \* of Buffer
    MaxItems,     \* of Limit
    Failures,     \* bound: exceptions of the source, of score and func
    Nothing       \* Python's None

Awaitables == 1..Size

ASSUME PipelineAssumption ==
    /\ Score \in [Elements -> Int \cup {Nothing}]
    /\ MinElements \in Nat \cup {Nothing} /\ MaxWait \in BOOLEAN
    /\ Tasks \in Nat /\ Size \in Nat \ {0} /\ MaxItems \in Nat \ {0}
    /\ Failures \in Nat /\ Nothing \notin Elements \cup Int

VARIABLES
    source,     \* elements the source has not yielded
    sorter,     \* the task of _process_stream: "run", "done", "dead"
    scored,     \* _scored_elements
    ready,      \* _wait_until_ready has returned
    tasks,      \* elements left in the main stream of Zip
    locked,     \* _in_stream_lock of Map: the awaitable that has it, or Nothing
    awaitable,  \* "free", "lock", "next", "func"
    value,      \* the element an awaitable has
    main,       \* _process_in_stream runs
    permits,    \* the semaphore of Buffer
    exhausted,  \* _in_stream_exhausted
    resultQueue,\* _result_queue
    got,        \* the element get_result_task took off the queue, or Nothing
    stopped,    \* stop_task is done
    consumer,   \* "wait", "yielded", "ended", "left"
    out,        \* elements the program received
    dropped,    \* elements that left the chain on the way
    failures

pipeVars == <<source, sorter, scored, ready, tasks, locked, awaitable, value, main,
          permits, exhausted, resultQueue, got, stopped, consumer, out, dropped, failures>>
sortVars == <<source, sorter, scored, ready>>
mapVars == <<tasks, locked, awaitable, value, main, exhausted>>
bufferVars == <<resultQueue, got, stopped, consumer, out>>

PipeTypeOK ==
    /\ source \subseteq Elements /\ scored \subseteq Elements
    /\ sorter \in {"run", "done", "dead"} /\ ready \in BOOLEAN
    /\ tasks \in 0..Tasks /\ locked \in Awaitables \cup {Nothing}
    /\ awaitable \in [Awaitables -> {"free", "lock", "next", "func"}]
    /\ value \in [Awaitables -> Elements \cup {Nothing}]
    /\ main \in BOOLEAN /\ exhausted \in BOOLEAN /\ stopped \in BOOLEAN
    /\ permits \in 0..Size
    /\ resultQueue \in Seq(Elements) /\ got \in Elements \cup {Nothing}
    /\ consumer \in {"wait", "yielded", "ended", "left"}
    /\ out \subseteq Elements /\ dropped \subseteq Elements
    /\ failures \in 0..Failures

PipeInit ==
    /\ source = Elements /\ sorter = "run" /\ scored = {} /\ ready = FALSE
    /\ tasks = Tasks /\ locked = Nothing
    /\ awaitable = [w \in Awaitables |-> "free"] /\ value = [w \in Awaitables |-> Nothing]
    /\ main = TRUE /\ permits = Size /\ exhausted = FALSE
    /\ resultQueue = <<>> /\ got = Nothing /\ stopped = FALSE /\ consumer = "wait"
    /\ out = {} /\ dropped = {} /\ failures = 0

Fails == failures < Failures /\ failures' = failures + 1

-----------------------------------------------------------------------------
(* Sort.                                                                   *)

ScoreElement(e) ==
    /\ sorter = "run" /\ e \in source
    /\ source' = source \ {e}
    /\ scored' = IF Score[e] = Nothing THEN scored ELSE scored \cup {e}
    /\ dropped' = IF Score[e] = Nothing THEN dropped \cup {e} ELSE dropped
    /\ UNCHANGED <<sorter, ready, mapVars, permits, bufferVars, failures>>

NoMoreElements ==
    /\ sorter = "run" /\ source = {}
    /\ sorter' = "done"
    /\ UNCHANGED <<source, scored, ready, mapVars, permits, bufferVars, dropped, failures>>

\* The task ends with the exception, _no_more_elements is never set.
SortRaises ==
    /\ sorter = "run" /\ Fails
    /\ sorter' = "dead"
    /\ UNCHANGED <<source, scored, ready, mapVars, permits, bufferVars, dropped>>

\* The end of the stream is no reason to stop waiting for min_elements.
Ready ==
    /\ ~ready
    /\ MinElements = Nothing \/ Cardinality(scored) >= MinElements \/ MaxWait
    /\ ready' = TRUE
    /\ UNCHANGED <<source, sorter, scored, mapVars, permits, bufferVars, dropped, failures>>

Best == {e \in scored : \A f \in scored : Score[f] <= Score[e]}

-----------------------------------------------------------------------------
(* Map over Zip over Sort, and the tasks of Buffer that await it.          *)

To(w, l) == awaitable' = [awaitable EXCEPT ![w] = l]

\* One permit for every awaitable that is taken.
Spawn(w) ==
    /\ main /\ permits > 0 /\ awaitable[w] = "free"
    /\ permits' = permits - 1
    /\ To(w, "lock")
    /\ UNCHANGED <<sortVars, tasks, locked, value, main, exhausted, bufferVars,
                   dropped, failures>>

\* Zip takes from its main stream first.
Acquire(w) ==
    /\ awaitable[w] = "lock" /\ locked = Nothing /\ tasks > 0
    /\ locked' = w
    /\ tasks' = tasks - 1
    /\ To(w, "next")
    /\ UNCHANGED <<sortVars, value, main, permits, exhausted, bufferVars, dropped, failures>>

NextElement(w) ==
    /\ awaitable[w] = "next" /\ ready
    /\ \E e \in Best : /\ scored' = scored \ {e}
                       /\ value' = [value EXCEPT ![w] = e]
    /\ locked' = Nothing
    /\ To(w, "func")
    /\ UNCHANGED <<source, sorter, ready, tasks, main, permits, exhausted,
                   bufferVars, dropped, failures>>

(* One of the streams is at its end: InputStreamExhausted.  The Buffer     *)
(* stops taking awaitables, those it has go on.                            *)
Exhausted(w) ==
    /\ \/ awaitable[w] = "lock" /\ locked = Nothing /\ tasks = 0
       \/ awaitable[w] = "next" /\ ready /\ scored = {} /\ sorter = "done"
    /\ locked' = Nothing
    /\ To(w, "free")
    /\ main' = FALSE
    /\ exhausted' = TRUE
    /\ permits' = permits + 1
    /\ UNCHANGED <<sortVars, tasks, value, bufferVars, dropped, failures>>

FuncReturns(w) ==
    /\ awaitable[w] = "func"
    /\ resultQueue' = Append(resultQueue, value[w])
    /\ value' = [value EXCEPT ![w] = Nothing]
    /\ To(w, "free")
    /\ UNCHANGED <<sortVars, tasks, locked, main, permits, exhausted, got,
                   stopped, consumer, out, dropped, failures>>

\* on_exception returns, and the awaitable takes another element.
FuncRaises(w) ==
    /\ awaitable[w] = "func" /\ Fails
    /\ dropped' = dropped \cup {value[w]}
    /\ value' = [value EXCEPT ![w] = Nothing]
    /\ To(w, "lock")
    /\ UNCHANGED <<sortVars, tasks, locked, main, permits, exhausted, bufferVars>>

PermitKept == permits
PermitBack == permits + 1

\* on_exception raises as well: the Buffer gives the awaitable up.
AwaitRaises(w) ==
    /\ awaitable[w] = "func" /\ Fails
    /\ dropped' = dropped \cup {value[w]}
    /\ value' = [value EXCEPT ![w] = Nothing]
    /\ To(w, "free")
    /\ permits' = PermitBack
    /\ UNCHANGED <<sortVars, tasks, locked, main, exhausted, bufferVars>>

-----------------------------------------------------------------------------
(* The generator of Buffer, and Limit behind it.                           *)

GetResult ==
    /\ consumer = "wait" /\ got = Nothing /\ resultQueue # <<>>
    /\ got' = Head(resultQueue)
    /\ resultQueue' = Tail(resultQueue)
    /\ UNCHANGED <<sortVars, mapVars, permits, stopped, consumer, out, dropped, failures>>

\* Mutant: what the awaitables still do is not waited for.
ExhaustedIsAll == TRUE

AllDone == \A w \in Awaitables : awaitable[w] = "free"

\* _wait_until_empty polls every 0.01 s.
Stop ==
    /\ ~stopped /\ exhausted /\ resultQueue = <<>> /\ AllDone
    /\ stopped' = TRUE
    /\ UNCHANGED <<sortVars, mapVars, permits, resultQueue, got, consumer, out, dropped, failures>>

Yield ==
    /\ consumer = "wait" /\ got # Nothing /\ ~stopped
    /\ out' = out \cup {got}
    /\ got' = Nothing
    /\ consumer' = IF Cardinality(out') = MaxItems THEN "left" ELSE "yielded"
    /\ UNCHANGED <<sortVars, mapVars, permits, resultQueue, stopped, dropped, failures>>

\* The program asks for the next element.
Ask ==
    /\ consumer = "yielded"
    /\ permits' = permits + 1
    /\ consumer' = "wait"
    /\ UNCHANGED <<sortVars, mapVars, resultQueue, got, stopped, out, dropped, failures>>

\* Both tasks are done when the generator wakes up: the result is not looked at.
End ==
    /\ consumer = "wait" /\ stopped
    /\ dropped' = dropped \cup ({got} \ {Nothing})
    /\ got' = Nothing
    /\ consumer' = "ended"
    /\ UNCHANGED <<sortVars, mapVars, permits, resultQueue, stopped, out, failures>>

PipeNext ==
    \/ \E e \in Elements : ScoreElement(e)
    \/ NoMoreElements \/ SortRaises \/ Ready
    \/ \E w \in Awaitables :
          \/ Spawn(w) \/ Acquire(w) \/ NextElement(w) \/ Exhausted(w)
          \/ FuncReturns(w) \/ FuncRaises(w) \/ AwaitRaises(w)
    \/ GetResult \/ Stop \/ Yield \/ Ask \/ End

(* Tasks that are ready run, the source, score and func return or raise,   *)
(* and the program asks until it has enough.                               *)
PipeFairness ==
    /\ WF_pipeVars((\E e \in Elements : ScoreElement(e)) \/ NoMoreElements \/ SortRaises)
    /\ WF_pipeVars(Ready)
    /\ \A w \in Awaitables :
          /\ WF_pipeVars(Spawn(w)) /\ SF_pipeVars(Acquire(w)) /\ SF_pipeVars(Exhausted(w))
          /\ WF_pipeVars(NextElement(w))
          /\ WF_pipeVars(FuncReturns(w) \/ FuncRaises(w) \/ AwaitRaises(w))
    /\ WF_pipeVars(GetResult) /\ WF_pipeVars(Stop) /\ WF_pipeVars(Yield)
    /\ WF_pipeVars(Ask) /\ WF_pipeVars(End)

PipeSpec == PipeInit /\ [][PipeNext]_pipeVars /\ PipeFairness

-----------------------------------------------------------------------------
(***************************************************************************)
(* PermitsAccounted: every permit of the Buffer is free, with an awaitable,*)
(* with a result nobody has asked for yet, or with the one the program     *)
(* has: never more elements are on their way than size, and failures cost  *)
(* none (buffer.py __call__, _process_single_value).                       *)
(***************************************************************************)
PermitsAccounted ==
    consumer # "ended" =>
        Size = permits + Cardinality({w \in Awaitables : awaitable[w] # "free"})
               + Len(resultQueue) + (IF got = Nothing THEN 0 ELSE 1)
               + (IF consumer \in {"yielded", "left"} THEN 1 ELSE 0)

(***************************************************************************)
(* LoopEnds: the loop of the program ends, unless the task of Sort died    *)
(* with an exception or waits for more elements than there are (sort.py    *)
(* _process_stream, _wait_until_ready); and when it ends by itself it has  *)
(* received what func returned, but for the one result that was taken off  *)
(* the queue while the stop task ended (buffer.py _wait_until_empty).      *)
(***************************************************************************)
AllReceived ==
    /\ resultQueue = <<>> /\ \A w \in Awaitables : value[w] = Nothing
    /\ Cardinality({e \in dropped : Score[e] # Nothing}) <= failures + 1

LoopEnds ==
    <>(\/ consumer = "ended" /\ AllReceived
       \/ consumer = "left"
       \/ sorter = "dead" \/ [](~ready))
=============================================================================
