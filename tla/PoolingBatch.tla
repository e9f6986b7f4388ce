---------------------------- MODULE PoolingBatch ----------------------------
(***************************************************************************)
(* The batches of one Activity: Activity.execute_commands / execute_script *)
(* (resources/activity/activity.py), PoolingBatch                          *)
(* (resources/pooling_batch/pooling_batch.py) and the collector task of    *)
(* each batch (utils/low/event_collector.py), with the provider that runs  *)
(* the commands and the callers that wait for them.                        *)
(*                                                                         *)
(* A collector is suspended in the API call that polls the results         *)
(* ("poll") or in the sleep after a GSB error ("sleep").  Everything it    *)
(* does with one answer runs without giving the thread up: one action.  An *)
(* intermittent error makes it repeat the call: it stays in "poll".        *)
(***************************************************************************)
EXTENDS Naturals, Sequences, FiniteSets, SequencesExt

CONSTANTS
    Batches,    \* the batches executed in the activity
    Scripts,    \* those made with execute_script, which resolve futures
    Commands,   \* Commands[b]: the number of commands of b
    MaxGsb      \* MAX_GSB_ENDPOINT_NOT_FOUND_ERRORS

ASSUME BatchAssumption ==
    /\ IsFiniteSet(Batches)
    /\ Scripts \subseteq Batches
    /\ Commands \in [Batches -> Nat \ {0}]
    /\ MaxGsb \in Nat

VARIABLES
    call,       \* call[b]: where execute_commands is
    ran,        \* ran[b]: results of the commands the provider has run
    alive,      \* the activity exists at the provider
    bus,        \* the event bus is started: emit does not raise
    node,       \* "up", "closing" (collectors stopped), "cleaned"
    collector,  \* collector[b]: where the collecting task is
    gsb,        \* gsb[b]: gsb_endpoint_not_found_cnt
    events,     \* events[b]: PoolingBatch.events
    futures,    \* futures[b]: the futures the Script handed out
    finished,   \* finished[b]: finished_event is set
    counter,    \* Activity._running_batch_counter
    waiter,     \* waiter[b]: a task in PoolingBatch.wait()
    after,      \* after[b]: execute_after_task
    failure     \* history: why collecting ended early, "no" if it did not

callVars == <<call, after>>
outerVars == <<ran, alive, bus, node>>
batchVars == <<collector, gsb, events, finished, counter, failure>>
vars == <<callVars, outerVars, batchVars, futures, waiter>>

Outcomes == {"Ok", "Error"}

\* is_batch_finished of result i of b
Final(b, i) == i = Commands[b] \/ ran[b][i] = "Error"

\* The provider has nothing more to run.
Over(b) == Len(ran[b]) > 0 /\ Final(b, Len(ran[b]))

\* done
Done(b) == finished[b]

\* success, asked of a done batch
Success(b) == Len(events[b]) > 0 /\ events[b][Len(events[b])] = "Ok"

Init ==
    /\ call = [b \in Batches |-> "none"]
    /\ ran = [b \in Batches |-> <<>>]
    /\ alive = TRUE
    /\ bus = TRUE
    /\ node = "up"
    /\ collector = [b \in Batches |-> "off"]
    /\ gsb = [b \in Batches |-> 0]
    /\ events = [b \in Batches |-> <<>>]
    /\ futures = [b \in Batches |-> [i \in 1..Commands[b] |-> "pending"]]
    /\ finished = [b \in Batches |-> FALSE]
    /\ counter = 0
    /\ waiter = [b \in Batches |-> "none"]
    /\ after = [b \in Batches |-> "none"]
    /\ failure = [b \in Batches |-> "no"]

-----------------------------------------------------------------------------
(* The environment: provider, event bus, node.                             *)

\* The provider runs the next command; an error ends the batch.  It may do
\* so before call_exec has returned, and if the answer is lost.
Run(b) ==
    /\ alive
    /\ call[b] # "none"
    /\ ~Over(b)
    /\ \E r \in Outcomes : ran' = [ran EXCEPT ![b] = Append(@, r)]
    /\ UNCHANGED <<callVars, alive, bus, node, batchVars, futures, waiter>>

\* The activity is destroyed, by us or by the provider.
Lose ==
    /\ alive
    /\ alive' = FALSE
    /\ UNCHANGED <<callVars, ran, bus, node, batchVars, futures, waiter>>

\* The loop task of the bus ends (see EventBus), or stop() is called.
BusEnds ==
    /\ bus
    /\ bus' = FALSE
    /\ UNCHANGED <<callVars, ran, alive, node, batchVars, futures, waiter>>

\* Node._stop_event_collectors: all the tasks are cancelled.
StopCollectors ==
    /\ node = "up"
    /\ node' = "closing"
    /\ collector' = [b \in Batches |->
                        IF collector[b] = "off" THEN "off" ELSE "ended"]
    /\ UNCHANGED <<callVars, ran, alive, bus, gsb, events, finished, counter,
                   failure, futures, waiter>>

\* Node._close_autoclose_resources: cleanup() of all batches.
Cleanup ==
    /\ node = "closing"
    /\ node' = "cleaned"
    /\ after' = [b \in Batches |->
                    IF after[b] \in {"waiting", "running"} THEN "cancelled"
                                                           ELSE after[b]]
    /\ UNCHANGED <<call, ran, alive, bus, batchVars, futures, waiter>>

-----------------------------------------------------------------------------
(* Callers.                                                                *)

\* execute_commands / execute_script, up to the answer of call_exec.
Execute(b) ==
    /\ call[b] = "none"
    /\ call' = [call EXCEPT ![b] = "exec"]
    /\ UNCHANGED <<after, outerVars, batchVars, futures, waiter>>

\* before() of a command or call_exec raises, perhaps after the provider
\* accepted the batch: no PoolingBatch is made.
ExecuteRaises(b) ==
    /\ call[b] = "exec"
    /\ call' = [call EXCEPT ![b] = "failed"]
    /\ UNCHANGED <<after, outerVars, batchVars, futures, waiter>>

\* The answer of call_exec, to the end of execute_commands or execute_script:
\* nothing after the answer suspends.
Made(b) ==
    /\ call[b] = "exec"
    /\ call' = [call EXCEPT ![b] = "made"]
    /\ collector' = [collector EXCEPT ![b] = "poll"]
    /\ counter' = counter + 1
    /\ after' = [after EXCEPT ![b] = "waiting"]
    /\ UNCHANGED <<outerVars, gsb, events, finished, failure, futures, waiter>>

\* The holder of a future gives up on it (wait_for on the future).
CancelFuture(b) ==
    /\ b \in Scripts
    /\ \E i \in 1..Commands[b] :
        /\ futures[b][i] = "pending"
        /\ futures' = [futures EXCEPT ![b][i] = "cancelled"]
    /\ UNCHANGED <<callVars, outerVars, batchVars, waiter>>

Wait(b) ==
    /\ call[b] = "made"
    /\ waiter[b] \in {"none", "timeout"}
    /\ waiter' = [waiter EXCEPT ![b] = "waiting"]
    /\ UNCHANGED <<callVars, outerVars, batchVars, futures>>

\* finished_event is set: wait() returns the events or raises BatchError.
WaitReturns(b) ==
    /\ waiter[b] = "waiting"
    /\ Done(b)
    /\ waiter' = [waiter EXCEPT ![b] = IF Success(b) THEN "returned"
                                                     ELSE "error"]
    /\ UNCHANGED <<callVars, outerVars, batchVars, futures>>

\* BatchTimeoutError: the batch is not touched.
WaitTimeout(b) ==
    /\ waiter[b] = "waiting"
    /\ waiter' = [waiter EXCEPT ![b] = "timeout"]
    /\ UNCHANGED <<callVars, outerVars, batchVars, futures>>

\* execute_after: wait(ignore_errors=True), then after() of every command.
AfterRuns(b) ==
    /\ after[b] = "waiting"
    /\ Done(b)
    /\ after' = [after EXCEPT ![b] = "running"]
    /\ UNCHANGED <<call, outerVars, batchVars, futures, waiter>>

AfterDone(b) ==
    /\ after[b] = "running"
    /\ after' = [after EXCEPT ![b] = "done"]
    /\ UNCHANGED <<call, outerVars, batchVars, futures, waiter>>

-----------------------------------------------------------------------------
(* The collector task.                                                     *)

\* Mutant: finished_event is set before the emit that may raise.
SetFinishedEventFirst(b) ==
    /\ collector' = [collector EXCEPT ![b] = "ended"]
    /\ finished' = [finished EXCEPT ![b] = TRUE]
    /\ counter' = IF bus THEN counter - 1 ELSE counter

\* _set_finished.  If emit raises, nothing after it is done; raised by
\* _process_event, it is called again, and raises again.
SetFinished(b) ==
    /\ collector' = [collector EXCEPT ![b] = "ended"]
    /\ IF bus THEN /\ finished' = [finished EXCEPT ![b] = TRUE]
                   /\ counter' = counter - 1
              ELSE UNCHANGED <<finished, counter>>

\* The call raises something else, or GSB errors have lasted: the `except`
\* of PoolingBatch._collect_yagna_events.
PollRaises(b) ==
    /\ collector[b] = "poll"
    /\ SetFinished(b)
    /\ failure' = [failure EXCEPT ![b] = "api"]
    /\ UNCHANGED <<callVars, outerVars, gsb, events, futures, waiter>>

\* "GSB error: endpoint address not found"
GsbError(b) ==
    /\ collector[b] = "poll"
    /\ gsb[b] < MaxGsb
    /\ gsb' = [gsb EXCEPT ![b] = @ + 1]
    /\ collector' = [collector EXCEPT ![b] = "sleep"]
    /\ UNCHANGED <<callVars, outerVars, events, finished, counter, failure,
                   futures, waiter>>

SleepOver(b) ==
    /\ collector[b] = "sleep"
    /\ collector' = [collector EXCEPT ![b] = "poll"]
    /\ UNCHANGED <<callVars, outerVars, gsb, events, finished, counter,
                   failure, futures, waiter>>

\* The results among the first k that are not repeated.
NewResults(b, k) == (Len(events[b]) + 1)..k

Added(b, k) == SubSeq(ran[b], Len(events[b]) + 1, k)

\* Mutant: only the last command ends a batch.
IsBatchFinishedLast(b, i) == i = Commands[b]
IsBatchFinished(b, i) == Final(b, i)

\* The futures that result i of b resolves.
Targets(b, i) == IF b \notin Scripts THEN {}
                 ELSE IF ran[b][i] = "Ok" THEN {i} ELSE i..Commands[b]

\* Results that raise InvalidStateError: a future is already resolved.
Invalid(b, k) ==
    {i \in NewResults(b, k) : \E j \in Targets(b, i) : futures[b][j] # "pending"}

\* Of the first k results, the one the loop over them ends with.
StopsAt(b, k, last) ==
    /\ last \in NewResults(b, k)
    /\ \A i \in NewResults(b, k) : i < last => i \notin Invalid(b, k)
    /\ last = k \/ last \in Invalid(b, k)

\* Mutant: set_result without a look at the outcome.
ResolvedAsResult(b, i, f) ==
    IF \E j \in i..f : futures[b][j] # "pending" THEN futures[b][f]
    ELSE IF f = i THEN "result" ELSE "skipped"

\* What future f of b becomes when result i is processed; set_exception on
\* later futures ends at the first one that raises.
Resolved(b, i, f) ==
    IF \E j \in i..f : futures[b][j] # "pending" THEN futures[b][f]
    ELSE IF ran[b][i] = "Ok" THEN "result"
    ELSE IF f = i THEN "failed" ELSE "skipped"

\* The futures of b after the results up to the last one.
NewFutures(b, last) ==
    [f \in 1..Commands[b] |->
        LET by == {i \in NewResults(b, last) : f \in Targets(b, i)}
        IN  IF by = {} THEN futures[b][f]
            ELSE Resolved(b, CHOOSE i \in by : TRUE, f)]

\* _process_event for the first k results of the provider: they are added and
\* resolve futures, until one raises; the final one ends the batch.
Process(b, k) ==
    \E last \in 1..k :
        /\ StopsAt(b, k, last)
        /\ events' = [events EXCEPT ![b] = @ \o Added(b, last)]
        /\ futures' = [futures EXCEPT ![b] = NewFutures(b, last)]
        /\ IF Invalid(b, k) # {} \/ IsBatchFinished(b, last)
           THEN SetFinished(b)
           ELSE UNCHANGED <<collector, finished, counter>>
        /\ failure' = IF Invalid(b, k) = {} THEN failure
                      ELSE [failure EXCEPT ![b] = "future"]

\* The call returns the first k results of the provider.
PollUpTo(b, k) ==
    /\ collector[b] = "poll"
    /\ IF NewResults(b, k) = {}
       THEN UNCHANGED <<events, futures, collector, finished, counter, failure>>
       ELSE Process(b, k)
    /\ gsb' = [gsb EXCEPT ![b] = 0]
    /\ UNCHANGED <<callVars, outerVars, waiter>>

Poll(b) == \E k \in 0..Len(ran[b]) : PollUpTo(b, k)

-----------------------------------------------------------------------------

Environment == Lose \/ BusEnds \/ StopCollectors \/ Cleanup

Caller(b) ==
    \/ Execute(b) \/ ExecuteRaises(b) \/ Made(b) \/ CancelFuture(b)
    \/ Wait(b) \/ WaitReturns(b) \/ WaitTimeout(b)
    \/ AfterRuns(b) \/ AfterDone(b)

Collect(b) == PollRaises(b) \/ GsbError(b) \/ SleepOver(b) \/ Poll(b)

Next ==
    \/ Environment
    \/ \E b \in Batches : Run(b) \/ Caller(b) \/ Collect(b)

Spec == Init /\ [][Next]_vars

\* The callers' tasks and the collectors run; the provider runs what it was
\* given; the API answers again and again, with all results or, once the
\* activity is gone, with an error.
Fairness == \A b \in Batches :
    /\ WF_vars(Run(b))
    /\ WF_vars(Made(b) \/ ExecuteRaises(b))
    /\ WF_vars(WaitReturns(b))
    /\ WF_vars(AfterRuns(b)) /\ WF_vars(AfterDone(b))
    /\ WF_vars(SleepOver(b))
    /\ SF_vars(PollUpTo(b, Len(ran[b])))
    /\ SF_vars(~alive /\ PollRaises(b))

FairSpec == Spec /\ Fairness

-----------------------------------------------------------------------------
(* Properties.                                                             *)

FutureStates == {"pending", "result", "failed", "skipped", "cancelled"}

\* The domains of all variables.
TypeOK ==
    /\ call \in [Batches -> {"none", "exec", "failed", "made"}]
    /\ ran \in [Batches -> Seq(Outcomes)]
    /\ alive \in BOOLEAN
    /\ bus \in BOOLEAN
    /\ node \in {"up", "closing", "cleaned"}
    /\ collector \in [Batches -> {"off", "poll", "sleep", "ended"}]
    /\ gsb \in [Batches -> 0..MaxGsb]
    /\ events \in [Batches -> Seq(Outcomes)]
    /\ DOMAIN futures = Batches
    /\ \A b \in Batches : futures[b] \in [1..Commands[b] -> FutureStates]
    /\ finished \in [Batches -> BOOLEAN]
    /\ counter \in Nat
    /\ waiter \in [Batches -> {"none", "waiting", "returned", "error", "timeout"}]
    /\ after \in [Batches -> {"none", "waiting", "running", "done", "cancelled"}]
    /\ failure \in [Batches -> {"no", "api", "future"}]

RunningBatches == {b \in Batches : call[b] = "made" /\ ~finished[b]}

\* running_batch_counter is the number of batches that were executed and are
\* not done, whatever collectors, failed calls and a lost event bus do
\* (activity.py:51-61: the setter only asserts that it moves by one).
CounterExact == counter = Cardinality(RunningBatches)

\* The events are the provider's results in order, none twice though every
\* poll repeats them (pooling_batch.py:136-140), so event n is command n's.
EventsInOrder ==
    \A b \in Batches : IsPrefix(events[b], ran[b])

\* A future says what became of its command: a result or CommandFailed if its
\* event says so, CommandCancelled only after an error event, and it is
\* pending only while the event that resolves it was not processed, or after a
\* future that raised (pooling_batch.py:142-148).
FuturesMatchEvents ==
    \A b \in Scripts : \A f \in 1..Commands[b] :
        LET ok == f <= Len(events[b]) /\ events[b][f] = "Ok"
            failed == f <= Len(events[b]) /\ events[b][f] = "Error"
            skipped == \E i \in 1..Len(events[b]) : i < f /\ events[b][i] = "Error"
        IN  /\ futures[b][f] = "result" => ok
            /\ futures[b][f] = "failed" => failed
            /\ futures[b][f] = "skipped" => skipped
            /\ (futures[b][f] = "pending" /\ failure[b] # "future")
                    => ~(ok \/ failed \/ skipped)

\* A batch whose collecting did not fail is done only with one event for every
\* command, or for every command up to the failed one, and with all its
\* futures resolved (docs of PoolingBatch.events, pooling_batch.py:104-110).
DoneIsComplete ==
    \A b \in Batches : (finished[b] /\ failure[b] = "no") =>
        /\ Len(events[b]) > 0
        /\ \A i \in 1..Len(events[b]) :
              (i = Commands[b] \/ events[b][i] = "Error") <=> i = Len(events[b])
        /\ b \in Scripts =>
              \A f \in 1..Commands[b] : futures[b][f] # "pending"

\* What a batch says of its commands is true while it runs and complete when
\* it is done.
BatchTruthful == FuturesMatchEvents /\ DoneIsComplete

\* What wait() returned or raised can still be read off the batch: a done
\* batch stays done and its events stay as they are.
DoneIsFinal ==
    [][\A b \in Batches : finished[b] =>
        finished'[b] /\ events'[b] = events[b]]_vars

\* As long as the event bus and the node are up, an executed batch is done
\* one day, whatever the API answers meanwhile.
EventuallyDone == \A b \in Batches :
    call[b] = "made" ~> (finished[b] \/ ~bus \/ node # "up")

-----------------------------------------------------------------------------
(* The batches implement BatchLife.                                        *)

LifeStatus == [b \in Batches |->
    IF call[b] # "made" THEN "new" ELSE IF finished[b] THEN "done" ELSE "running"]

Life == INSTANCE BatchLife WITH status <- LifeStatus, results <- events,
                                idle <- (counter = 0)

\* Every step begins, reports or ends one batch as BatchLife says, or leaves
\* the activity as its users see it: Activity.idle tells exactly whether a
\* batch is running, and results do not change outside the life of a batch.
LifeSpec == Life!LifeSpec

=============================================================================
