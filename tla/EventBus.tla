------------------------------ MODULE EventBus ------------------------------
(***************************************************************************)
(* InMemoryEventBus (src/golem/event_bus/in_memory/event_bus.py): a queue  *)
(* of events and one loop task that takes them one by one and awaits the   *)
(* callbacks registered for their type.                                    *)
(*                                                                         *)
(* The program is single threaded.  The loop task gives the thread up in   *)
(* two places only: in `queue.get()` when the queue is empty (loop =       *)
(* "idle") and in `await callback(event)` (loop = "call").  In between it  *)
(* holds the thread, and the other actions are disabled (Free).  Whatever  *)
(* runs then, a callback's own body included, may register and remove      *)
(* handlers and emit events.                                               *)
(***************************************************************************)
EXTENDS Naturals, Sequences, FiniteSets, SequencesExt

CONSTANTS
    Types,      \* event classes
    Super,      \* Super[c]: the types a c-event is an instance of (c included)
    Handlers,   \* one for each call of on / on_once, with its callback
    TypeOf,     \* TypeOf[h]: the type h is registered for
    Accepts,    \* Accepts[h]: classes h's filter function lets through
    Once,       \* the handlers registered with on_once
    MaxEvents   \* bound on the events emitted

ASSUME BusAssumption ==
    /\ Types # {} /\ Handlers # {}
    /\ Super \in [Types -> SUBSET Types]
    /\ TypeOf \in [Handlers -> Types]
    /\ Accepts \in [Handlers -> SUBSET Types]
    /\ Once \subseteq Handlers
    /\ MaxEvents \in Nat

VARIABLES
    keys,       \* the keys of the dict _callbacks, in insertion order
    infos,      \* infos[t]: the list _callbacks[t]
    queue,      \* _event_queue
    unfinished, \* _event_queue._unfinished_tasks
    loop,       \* where the task of _process_event_queue_loop is
    ev,         \* the event it took last
    cur,        \* the callback_info it awaited last
    dictSize,   \* the size of the dict when the iteration over it began
    keyPos,     \* how many keys the iteration has returned
    listPos,    \* index of the next element of the list iteration
    toRemove,   \* callback_infos_to_remove
    stopper,    \* where the task inside stop() is
    fresh,      \* handlers that were not registered yet
    emitted,    \* number of events accepted by emit
    \* the rest is history, read by the properties only
    processed,  \* ids of the events whose processing ended in task_done
    aborted,    \* ids of the events the loop task died over
    due,        \* handlers registered for ev when it was taken
    considered, \* handlers the list iteration reached for ev
    shifted,    \* handlers a removal moved below the list iterator
    calls,      \* calls[h]: ids of the events h was called with, in order
    returned,   \* once-handlers that returned normally
    orphaned    \* once-handlers whose pending removal died with the loop

dictVars == <<keys, infos, fresh>>
queueVars == <<queue, unfinished, emitted>>
iterVars == <<ev, cur, dictSize, keyPos, listPos, toRemove>>
passVars == <<due, considered, shifted>>
logVars == <<processed, aborted, calls, returned, orphaned>>
vars == <<dictVars, queueVars, loop, iterVars, stopper, passVars, logVars>>

\* Another task than the loop's may run.
Free == loop \in {"off", "idle", "call"}

\* is_started()
Started == loop # "off"

\* The loop is between queue.get() and task_done().
Busy == loop \in {"keys", "list", "call", "remove"}

InList(h) == \E i \in 1..Len(infos[TypeOf[h]]) : infos[TypeOf[h]][i] = h
Registered == {h \in Handlers : InList(h)}

Init ==
    /\ keys = <<>>
    /\ infos = [t \in Types |-> <<>>]
    /\ queue = <<>>
    /\ unfinished = 0
    /\ loop = "off"
    /\ ev = [id |-> 0, class |-> CHOOSE t \in Types : TRUE]
    /\ cur = CHOOSE h \in Handlers : TRUE
    /\ dictSize = 0
    /\ keyPos = 0
    /\ listPos = 1
    /\ toRemove = <<>>
    /\ stopper = "no"
    /\ fresh = Handlers
    /\ emitted = 0
    /\ processed = {}
    /\ aborted = {}
    /\ due = {}
    /\ considered = {}
    /\ shifted = {}
    /\ calls = [h \in Handlers |-> <<>>]
    /\ returned = {}
    /\ orphaned = {}

-----------------------------------------------------------------------------
(* What any task may do while the loop is suspended or off. *)

\* Mutant: every start makes a new queue.
StartNewQueue ==
    /\ ~Started
    /\ stopper = "no"
    /\ loop' = "idle"
    /\ queue' = <<>>
    /\ unfinished' = 0
    /\ UNCHANGED <<dictVars, emitted, iterVars, stopper, passVars, logVars>>

\* start(): the node starts the bus before it stops it, never during stop().
Start ==
    /\ ~Started
    /\ stopper = "no"
    /\ loop' = "idle"
    /\ UNCHANGED <<dictVars, queueVars, iterVars, stopper, passVars, logVars>>

\* on(), on_once(): _callbacks is a defaultdict, so a first handler of a type
\* adds a key to it.
On(h) ==
    /\ Free
    /\ h \in fresh
    /\ LET t == TypeOf[h]
       IN  /\ keys' = IF \E i \in 1..Len(keys) : keys[i] = t THEN keys ELSE Append(keys, t)
           /\ infos' = [infos EXCEPT ![t] = Append(@, h)]
    /\ fresh' = fresh \ {h}
    /\ UNCHANGED <<queueVars, loop, iterVars, stopper, passVars, logVars>>

\* The list the loop iterates over is the one at index i of which loses an
\* element: the element at listPos, not reached yet, moves below the iterator.
Shifts(t, i) == loop = "call" /\ t = keys[keyPos] /\ i < listPos
MovedBelow(t) ==
    IF listPos \in 1..Len(infos[t]) THEN {infos[t][listPos]} ELSE {}

\* off(): list.remove.  (Of a handler that is not in the list it only raises.)
Off(h) ==
    /\ Free
    /\ \E i \in 1..Len(infos[TypeOf[h]]) :
        /\ infos[TypeOf[h]][i] = h
        /\ infos' = [infos EXCEPT ![TypeOf[h]] = RemoveAt(@, i)]
        /\ shifted' = IF Shifts(TypeOf[h], i)
                      THEN shifted \cup MovedBelow(TypeOf[h]) ELSE shifted
    /\ UNCHANGED <<keys, fresh, queueVars, loop, iterVars, stopper, due, considered, logVars>>

\* emit(): refused when the loop task is not running.
Emit(c) ==
    /\ Free
    /\ Started
    /\ emitted < MaxEvents
    /\ emitted' = emitted + 1
    /\ queue' = Append(queue, [id |-> emitted + 1, class |-> c])
    /\ unfinished' = unfinished + 1
    /\ UNCHANGED <<dictVars, loop, iterVars, stopper, passVars, logVars>>

-----------------------------------------------------------------------------
(* The loop task. *)

\* Mutant: stop() keeps the loop from taking events.
CanTakeUnstopped == stopper = "no" /\ queue # <<>>

\* A cancelled task takes no event any more.
CanTake == stopper # "cancelling" /\ queue # <<>>

\* Mutant: the newest event first.
TakeNewest ==
    /\ loop \in {"idle", "get"}
    /\ CanTake
    /\ ev' = Last(queue)
    /\ queue' = Front(queue)
    /\ loop' = "keys"
    /\ dictSize' = Len(keys)
    /\ keyPos' = 0
    /\ due' = {h \in Registered : TypeOf[h] \in Super[Last(queue).class]}
    /\ considered' = {}
    /\ shifted' = {}
    /\ UNCHANGED <<dictVars, unfinished, emitted, cur, listPos, toRemove, stopper, logVars>>

\* event = await self._event_queue.get(), then the iterator over the dict.
Take ==
    /\ loop \in {"idle", "get"}
    /\ CanTake
    /\ ev' = Head(queue)
    /\ queue' = Tail(queue)
    /\ loop' = "keys"
    /\ dictSize' = Len(keys)
    /\ keyPos' = 0
    /\ due' = {h \in Registered : TypeOf[h] \in Super[Head(queue).class]}
    /\ considered' = {}
    /\ shifted' = {}
    /\ UNCHANGED <<dictVars, unfinished, emitted, cur, listPos, toRemove, stopper, logVars>>

\* The loop task ends without task_done() for its event.
Die ==
    /\ loop' = "off"
    /\ aborted' = aborted \cup {ev.id}
    /\ orphaned' = orphaned \cup ToSet(toRemove)
    /\ toRemove' = <<>>
    /\ UNCHANGED <<dictVars, queueVars, ev, cur, dictSize, keyPos, listPos, passVars,
                   processed, calls, returned>>

\* Next key of the dict: a list of callbacks to process ...
NextKey ==
    /\ loop = "keys"
    /\ Len(keys) = dictSize
    /\ keyPos < dictSize
    /\ keyPos' = keyPos + 1
    /\ listPos' = 1
    /\ loop' = IF keys[keyPos'] \in Super[ev.class] THEN "list" ELSE "keys"
    /\ UNCHANGED <<dictVars, queueVars, ev, cur, dictSize, toRemove, stopper, passVars, logVars>>

\* ... or "RuntimeError: dictionary changed size during iteration" ...
DictChanged ==
    /\ loop = "keys"
    /\ Len(keys) # dictSize
    /\ Die
    /\ UNCHANGED stopper

\* task_done() wakes join() when the counter of unfinished events is zero.
Woken(n) == IF stopper = "join" /\ n = 0 THEN "joined" ELSE stopper

\* ... or no key is left: task_done().  With an
\* event in the queue the next get() does not suspend.
TaskDone ==
    /\ loop = "keys"
    /\ Len(keys) = dictSize
    /\ keyPos = dictSize
    /\ unfinished' = unfinished - 1
    /\ stopper' = Woken(unfinished')
    /\ loop' = IF queue = <<>> THEN "idle" ELSE "get"
    /\ processed' = processed \cup {ev.id}
    /\ UNCHANGED <<dictVars, queue, emitted, iterVars, passVars, aborted, calls, returned, orphaned>>

\* Next callback of the list: filtered out, or awaited.
NextCallback ==
    /\ loop = "list"
    /\ listPos \in 1..Len(infos[keys[keyPos]])
    /\ LET h == infos[keys[keyPos]][listPos]
       IN  /\ considered' = considered \cup {h}
           /\ IF ev.class \in Accepts[h]
              THEN /\ loop' = "call"
                   /\ cur' = h
                   /\ calls' = [calls EXCEPT ![h] = Append(@, ev.id)]
              ELSE UNCHANGED <<loop, cur, calls>>
    /\ listPos' = listPos + 1
    /\ UNCHANGED <<dictVars, queueVars, ev, dictSize, keyPos, toRemove, stopper, due, shifted,
                   processed, aborted, returned, orphaned>>

\* The callback raises: it is logged, and a once-handler stays.
CallbackRaises ==
    /\ loop = "call"
    /\ stopper # "cancelling"
    /\ loop' = "list"
    /\ UNCHANGED <<dictVars, queueVars, iterVars, stopper, passVars, logVars>>

\* callback_infos_to_remove, after the current callback returned
Marked == IF cur \in Once THEN Append(toRemove, cur) ELSE toRemove

CallbackReturns ==
    /\ loop = "call"
    /\ stopper # "cancelling"
    /\ loop' = "list"
    /\ toRemove' = Marked
    /\ returned' = returned \cup ({cur} \cap Once)
    /\ UNCHANGED <<dictVars, queueVars, ev, cur, dictSize, keyPos, listPos, stopper, passVars,
                   processed, aborted, calls, orphaned>>

\* The list is exhausted: the once-handlers that returned are removed ...
ListDone ==
    /\ loop = "list"
    /\ listPos \notin 1..Len(infos[keys[keyPos]])
    /\ loop' = "remove"
    /\ UNCHANGED <<dictVars, queueVars, iterVars, stopper, passVars, logVars>>

RemoveOnce ==
    /\ loop = "remove"
    /\ toRemove # <<>>
    /\ \E i \in 1..Len(infos[keys[keyPos]]) :
        /\ infos[keys[keyPos]][i] = Head(toRemove)
        /\ infos' = [infos EXCEPT ![keys[keyPos]] = RemoveAt(@, i)]
    /\ toRemove' = Tail(toRemove)
    /\ UNCHANGED <<keys, fresh, queueVars, loop, ev, cur, dictSize, keyPos, listPos, stopper,
                   passVars, logVars>>

\* ... unless off() has been called for one: list.remove raises ValueError.
RemoveMissing ==
    /\ loop = "remove"
    /\ toRemove # <<>>
    /\ \A i \in 1..Len(infos[keys[keyPos]]) : infos[keys[keyPos]][i] # Head(toRemove)
    /\ Die
    /\ UNCHANGED stopper

RemoveDone ==
    /\ loop = "remove"
    /\ toRemove = <<>>
    /\ loop' = "keys"
    /\ UNCHANGED <<dictVars, queueVars, iterVars, stopper, passVars, logVars>>

-----------------------------------------------------------------------------
(* stop(): join(), then ensure_cancelled() of the loop task. *)

StopCall ==
    /\ Free
    /\ stopper = "no"
    /\ \/ unfinished > 0 /\ stopper' = "join"
       \/ unfinished = 0 /\ Started /\ stopper' = "cancelling"
    /\ UNCHANGED <<dictVars, queueVars, loop, iterVars, passVars, logVars>>

\* join() has returned; task.cancel().
StopCancel ==
    /\ Free
    /\ stopper = "joined"
    /\ stopper' = IF Started THEN "cancelling" ELSE "no"
    /\ UNCHANGED <<dictVars, queueVars, loop, iterVars, passVars, logVars>>

\* CancelledError is thrown into the loop task where it waits.
CancelIdle ==
    /\ stopper = "cancelling"
    /\ loop = "idle"
    /\ loop' = "off"
    /\ stopper' = "no"
    /\ UNCHANGED <<dictVars, queueVars, iterVars, passVars, logVars>>

CancelCallback ==
    /\ stopper = "cancelling"
    /\ loop = "call"
    /\ Die
    /\ stopper' = "no"

-----------------------------------------------------------------------------
Loop ==
    \/ Take
    \/ NextKey \/ DictChanged \/ TaskDone
    \/ NextCallback \/ ListDone
    \/ RemoveOnce \/ RemoveMissing \/ RemoveDone
Callback == CallbackReturns \/ CallbackRaises
Stop == StopCancel \/ CancelIdle \/ CancelCallback

Next ==
    \/ Start
    \/ \E h \in Handlers : On(h) \/ Off(h)
    \/ \E c \in Types : Emit(c)
    \/ Loop \/ Callback
    \/ StopCall \/ Stop

Spec == Init /\ [][Next]_vars

\* Ready tasks are scheduled, and every callback ends.
Fairness == WF_vars(Loop) /\ WF_vars(Callback) /\ WF_vars(Stop)
FairSpec == Spec /\ Fairness

-----------------------------------------------------------------------------
QueuedIds == {queue[i].id : i \in 1..Len(queue)}
InFlight == IF Busy THEN {ev.id} ELSE {}

\* Every variable has its type, and the counter of unfinished events never
\* goes below zero (task_done() would raise ValueError).
TypeOK ==
    /\ keys \in Seq(Types)
    /\ infos \in [Types -> Seq(Handlers)]
    /\ queue \in Seq([id : 1..MaxEvents, class : Types])
    /\ unfinished \in Nat
    /\ loop \in {"off", "idle", "get", "keys", "list", "call", "remove"}
    /\ ev \in [id : 0..MaxEvents, class : Types]
    /\ cur \in Handlers
    /\ dictSize \in Nat /\ keyPos \in 0..dictSize
    /\ listPos \in Nat \ {0}
    /\ toRemove \in Seq(Once)
    /\ stopper \in {"no", "join", "joined", "cancelling"}
    /\ fresh \subseteq Handlers
    /\ emitted \in 0..MaxEvents
    /\ processed \subseteq 1..MaxEvents
    /\ aborted \subseteq 1..MaxEvents
    /\ due \subseteq Handlers
    /\ considered \subseteq Handlers
    /\ shifted \subseteq Handlers
    /\ calls \in [Handlers -> Seq(1..MaxEvents)]
    /\ returned \subseteq Once
    /\ orphaned \subseteq Once

\* Whatever registers, emits, stops, restarts or fails in between, a callback
\* is called for events in the order they were emitted and at most once for
\* each (the single loop over one FIFO queue, lines 116-125).
CalledInOrder ==
    \A h \in Handlers : \A i, j \in 1..Len(calls[h]) : i < j => calls[h][i] < calls[h][j]

\* Every accepted event is in exactly one place: waiting in the queue, being
\* processed, processed, or aborted with the loop task; and what join() waits
\* for is the ones of them without task_done(), the aborted included (so
\* stop() hangs once an event was aborted).
EventsAccounted ==
    /\ 1..emitted = QueuedIds \cup InFlight \cup processed \cup aborted
    /\ QueuedIds \cap (InFlight \cup processed \cup aborted) = {}
    /\ InFlight \cap (processed \cup aborted) = {}
    /\ processed \cap aborted = {}
    /\ unfinished = Len(queue) + Cardinality(InFlight) + Cardinality(aborted)

\* join() lets stop() go on only when every event emitted so far has been
\* given to its callbacks.
StopDrains ==
    [][stopper = "join" /\ stopper' = "joined" => processed' = 1..emitted']_vars

\* When the processing of an event completes, every handler registered for it
\* from the beginning to the end has had its turn, except those that an off()
\* moved below the list iterator of line 142 (they are silently skipped).
OnlyShiftedSkipped ==
    loop = "keys" /\ keyPos = dictSize /\ Len(keys) = dictSize
        => due \cap Registered \subseteq considered \cup shifted

\* A callback misses no event and sees them once and in order, but for the
\* events from which an off() has moved it away.
HandlersServed == CalledInOrder /\ OnlyShiftedSkipped

\* A once-callback that returned is not called again, unless the loop task
\* died between its return and the removal of lines 187-188 and was restarted.
OnceReturnsOnce ==
    loop = "call" /\ cur \in returned => cur \in orphaned

\* stop() returns, unless it waits for an event nobody will process: the loop
\* task died over one, or is not running.
StopReturns == stopper # "no" ~> (stopper = "no" \/ ~Started \/ aborted # {})

=============================================================================
