---------------------------- MODULE ProposalBuffer ----------------------------
(***************************************************************************)
(* ProposalBuffer (src/golem/managers/proposal/plugins/buffer.py) with the *)
(* buffers it is composed of (src/golem/utils/asyncio/buffer.py): a        *)
(* SimpleBuffer behind one condition, an ExpirableBuffer whose timers      *)
(* remove proposals, and a BackgroundFillBuffer whose workers take charges *)
(* from a SingleUseSemaphore (src/golem/utils/asyncio/semaphore.py).       *)
(*                                                                         *)
(* An action is what one task does between two suspensions.  The lock of   *)
(* the condition is held over a suspension in two places only: in put(),   *)
(* while the expiration of the proposal is computed, and in get(), while   *)
(* the timer of the proposal is cancelled.                                 *)
(***************************************************************************)
EXTENDS Integers, Sequences, FiniteSets, SequencesExt

CONSTANTS
    Proposals,
    Workers,     \* bound: worker tasks alive at once
    FillConcurrency, \* fill_concurrency_size
    Getters,     \* tasks that call get_proposal(), again and again
    Cancellable, \* getters that may be cancelled
    MinSize,
    MaxSize,
    MaxStarts,   \* bound: calls of start()
    MaxStops,    \* bound: calls of stop() by the user
    Suspends,    \* get_expiration_func suspends
    Faults,      \* what may raise: "fill", "timer" or "reject"
    NoOne,       \* who holds the lock when it is free
    NoProposal   \* what a worker carries when it has nothing

ASSUME BufferAssumption ==
    /\ IsFiniteSet(Workers) /\ IsFiniteSet(Getters)
    /\ Workers \cap Getters = {}
    /\ Cancellable \subseteq Getters
    /\ MinSize \in Nat /\ MaxSize \in Nat
    /\ MinSize <= MaxSize
    /\ FillConcurrency \in Nat /\ MaxStarts \in Nat /\ MaxStops \in Nat
    /\ Suspends \in BOOLEAN
    /\ Faults \subseteq {"fill", "timer", "reject"}
    /\ NoOne \notin Workers \cup Getters
    /\ NoProposal \notin Proposals

VARIABLES
    fate,     \* fate[p]: what became of proposal p
    queue,    \* _items
    lock,     \* who holds the lock of the condition
    waiters,  \* the getters that wait to be notified, in their order
    error,    \* set_exception() was called
    getter,   \* getter[u]: where get_proposal() of u is
    worker,   \* worker[w]: where _worker_loop() is
    carry,    \* carry[w]: the proposal it puts
    value,    \* _value of the semaphore
    pending,  \* _pending
    doubled,  \* history: requested while a proposal was stored and pending
    started,  \* _is_started
    tasks,    \* _worker_tasks
    starts,   \* how often start() was called
    stops,    \* how often the user called stop()
    stopping, \* how many calls of stop() await the workers
    due       \* calls of stop() that failed workers have scheduled

buffer == <<fate, queue, lock, waiters, error>>
charges == <<value, pending, doubled>>
lifetime == <<started, tasks, starts, stops, stopping>>
control == <<lifetime, due>>
vars == <<buffer, getter, worker, carry, charges, control>>

Init ==
    /\ fate = [p \in Proposals |-> "market"]
    /\ queue = <<>>
    /\ lock = NoOne
    /\ waiters = <<>>
    /\ error = FALSE
    /\ getter = [u \in Getters |-> "idle"]
    /\ worker = [w \in Workers |-> "dead"]
    /\ carry = [w \in Workers |-> NoProposal]
    /\ value = 0 /\ pending = 0 /\ doubled = FALSE
    /\ started = FALSE /\ tasks = {}
    /\ starts = 0 /\ stops = 0 /\ stopping = 0 /\ due = 0

-----------------------------------------------------------------------------
(* The condition and the semaphore. *)

\* The lock can be taken without waiting.
Free ==
    /\ lock = NoOne
    /\ \A u \in Getters : getter[u] # "lock"
    /\ \A w \in Workers : worker[w] \notin {"put", "failing"}

\* Mutant: nobody is notified.
NotifyNone == UNCHANGED <<waiters, getter>>

\* notify(): the one that waits longest.
Notify ==
    IF waiters = <<>>
    THEN UNCHANGED <<waiters, getter>>
    ELSE /\ waiters' = Tail(waiters)
         /\ getter' = [getter EXCEPT ![Head(waiters)] = "woken"]

Asleep == {w \in Workers : worker[w] = "wait"}

\* Mutant: proposals being fetched are not counted.
MissingPending == MaxSize - (Len(queue) + value)

\* What _request_proposals() requests.
Missing == MaxSize - (Len(queue) + value + pending)

\* A proposal that is put is in the buffer, and still counted as pending,
\* until its timer runs.
Overlap == \E w \in Workers : worker[w] = "timer"

\* increase(): so many charges more, and as many workers notified.
Request ==
    /\ value' = value + Missing
    /\ doubled' = (doubled \/ Overlap)
    /\ \E S \in SUBSET Asleep :
        /\ \/ S = Asleep /\ Missing >= Cardinality(Asleep)
           \/ S = {} /\ Missing <= 0
           \/ Cardinality(S) = Missing
        /\ worker' = [w \in Workers |-> IF w \in S THEN "woken" ELSE worker[w]]
    /\ UNCHANGED pending

\* Mutant: release() is forgotten.
AcquireKeeps(w, back) ==
    /\ value' = IF value # 0 THEN value - 1 ELSE value
    /\ pending' = IF value # 0 THEN pending + 1 ELSE pending
    /\ worker' = [worker EXCEPT ![w] = IF value # 0 THEN "fill" ELSE "wait"]
    /\ doubled' = doubled

\* acquire() at the head of the loop, when the worker has given back `back`
\* of the pending count.
Acquire(w, back) ==
    /\ IF value # 0
       THEN /\ value' = value - 1
            /\ pending' = pending - back + 1
            /\ worker' = [worker EXCEPT ![w] = "fill"]
       ELSE /\ value' = value
            /\ pending' = pending - back
            /\ worker' = [worker EXCEPT ![w] = "wait"]
    /\ doubled' = doubled

-----------------------------------------------------------------------------
(* get_proposal() *)

\* Those the semaphore of max_size has let in.
Inside == {u \in Getters : getter[u] \notin {"idle", "raised"}}

\* get() with the lock: take the first proposal, raise, or wait.
Locked(u) ==
    /\ IF queue # <<>>
       THEN /\ queue' = Tail(queue)
            /\ fate' = [fate EXCEPT ![Head(queue)] = "taken"]
            /\ lock' = u
            /\ getter' = [getter EXCEPT ![u] = "popped"]
            /\ waiters' = waiters
       ELSE /\ getter' = [getter EXCEPT ![u] = IF error THEN "raised" ELSE "wait"]
            /\ waiters' = IF error THEN waiters ELSE Append(waiters, u)
            /\ UNCHANGED <<queue, fate, lock>>
    /\ error' = error

\* An empty buffer is filled first.
Enter(u) ==
    /\ getter[u] = "idle"
    /\ Cardinality(Inside) < MaxSize
    /\ IF queue = <<>> THEN Request ELSE UNCHANGED <<worker, charges>>
    /\ IF Free
       THEN Locked(u)
       ELSE getter' = [getter EXCEPT ![u] = "lock"] /\ UNCHANGED buffer
    /\ UNCHANGED <<carry, control>>

\* The lock is there, for the first time or after a notification.
Resume(u) ==
    /\ getter[u] \in {"lock", "woken"}
    /\ lock = NoOne
    /\ Locked(u)
    /\ UNCHANGED <<worker, carry, charges, control>>

\* The buffer is to be filled up again.
Below == Len(queue) < MinSize

\* The timer of the proposal is cancelled, and the proposal returned.
Return(u) ==
    /\ getter[u] = "popped"
    /\ getter' = [getter EXCEPT ![u] = "idle"]
    /\ lock' = NoOne
    /\ IF Below THEN Request ELSE UNCHANGED <<worker, charges>>
    /\ UNCHANGED <<fate, queue, waiters, error, carry, control>>

\* The task is cancelled.  A notification it had is lost (Python before 3.13).
Cancel(u) ==
    /\ u \in Cancellable
    /\ getter[u] \in {"lock", "wait", "woken"}
    /\ IF getter[u] = "wait"
       THEN \E i \in 1..Len(waiters) :
                waiters[i] = u /\ waiters' = RemoveAt(waiters, i)
       ELSE waiters' = waiters
    /\ getter' = [getter EXCEPT ![u] = "idle"]
    /\ UNCHANGED <<fate, queue, lock, error, worker, carry, charges, control>>

\* The task calls get_proposal() again after an exception.
Retry(u) ==
    /\ getter[u] = "raised"
    /\ getter' = [getter EXCEPT ![u] = "idle"]
    /\ UNCHANGED <<buffer, worker, carry, charges, control>>

-----------------------------------------------------------------------------
(* _worker_loop() *)

\* The worker begins, or was notified.
Look(w) ==
    /\ worker[w] = "woken"
    /\ Acquire(w, 0)
    /\ UNCHANGED <<buffer, getter, carry, control>>

\* put() with the lock.
Put(w, p) ==
    /\ queue' = Append(queue, p)
    /\ fate' = [fate EXCEPT ![p] = IF Suspends THEN "buffered" ELSE "timed"]
    /\ carry' = [carry EXCEPT ![w] = IF Suspends THEN p ELSE NoProposal]
    /\ Notify
    /\ IF Suspends
       THEN /\ lock' = w
            /\ worker' = [worker EXCEPT ![w] = "timer"]
            /\ UNCHANGED charges
       ELSE lock' = lock /\ Acquire(w, 1)
    /\ error' = error

\* fill_func() returns.
Fetch(w, p) ==
    /\ worker[w] = "fill"
    /\ fate[p] = "market"
    /\ IF Free
       THEN Put(w, p)
       ELSE /\ worker' = [worker EXCEPT ![w] = "put"]
            /\ carry' = [carry EXCEPT ![w] = p]
            /\ fate' = [fate EXCEPT ![p] = "fetched"]
            /\ UNCHANGED <<queue, lock, waiters, error, getter, charges>>
    /\ UNCHANGED control

PutLocked(w) ==
    /\ worker[w] = "put"
    /\ lock = NoOne
    /\ Put(w, carry[w])
    /\ UNCHANGED control

\* get_expiration_func returns: the timer runs, and the worker goes on.
TimerSet(w) ==
    /\ worker[w] = "timer"
    /\ fate' = [fate EXCEPT ![carry[w]] = "timed"]
    /\ lock' = NoOne
    /\ Acquire(w, 1)
    /\ carry' = [carry EXCEPT ![w] = NoProposal]
    /\ UNCHANGED <<queue, waiters, error, getter, control>>

\* It raises, and nobody catches that: the worker is gone.
TimerRaises(w) ==
    /\ "timer" \in Faults
    /\ worker[w] = "timer"
    /\ worker' = [worker EXCEPT ![w] = "dead"]
    /\ lock' = NoOne
    /\ carry' = [carry EXCEPT ![w] = NoProposal]
    /\ pending' = pending - 1
    /\ UNCHANGED <<fate, queue, waiters, error, getter, value, doubled, control>>

\* set_exception() with the lock; the worker ends and stop() is scheduled.
SetError(w) ==
    /\ error' = TRUE
    /\ Notify
    /\ worker' = [worker EXCEPT ![w] = "dead"]
    /\ pending' = pending - 1
    /\ due' = due + 1
    /\ UNCHANGED <<fate, queue, lock, carry, value, doubled, lifetime>>

\* fill_func() raises.
FillRaises(w) ==
    /\ "fill" \in Faults
    /\ worker[w] = "fill"
    /\ IF Free
       THEN SetError(w)
       ELSE /\ worker' = [worker EXCEPT ![w] = "failing"]
            /\ UNCHANGED <<buffer, getter, carry, charges, control>>

ErrorLocked(w) ==
    /\ worker[w] = "failing"
    /\ lock = NoOne
    /\ SetError(w)

-----------------------------------------------------------------------------
(* Expiration *)

\* remove()
RemoveItem(p) ==
    \E i \in 1..Len(queue) : queue[i] = p /\ queue' = RemoveAt(queue, i)

\* The timer fires; its task holds the lock only while it cancels itself.
Expire(p) ==
    /\ fate[p] = "timed"
    /\ lock = NoOne
    /\ RemoveItem(p)
    /\ fate' = [fate EXCEPT ![p] = "expired"]
    /\ UNCHANGED <<lock, waiters, error, getter, worker, carry, charges, control>>

\* _on_expired(), after reject().
ExpireRequest(p) ==
    /\ fate[p] = "expired"
    /\ fate' = [fate EXCEPT ![p] = "rejected"]
    /\ Request
    /\ UNCHANGED <<queue, lock, waiters, error, getter, carry, control>>

\* reject() raises, and nothing is requested.
ExpireRaises(p) ==
    /\ "reject" \in Faults
    /\ fate[p] = "expired"
    /\ fate' = [fate EXCEPT ![p] = "rejected"]
    /\ UNCHANGED <<queue, lock, waiters, error, getter, worker, carry, charges, control>>

-----------------------------------------------------------------------------
(* start() and stop() *)

\* fill_concurrency_size tasks begin.  With fill_at_start the buffer is
\* requested at once.
Start(fill) ==
    /\ ~ started /\ starts < MaxStarts
    /\ starts' = starts + 1
    /\ started' = TRUE
    /\ \E S \in SUBSET {w \in Workers : worker[w] = "dead"} :
        /\ Cardinality(S) = FillConcurrency
        /\ tasks' = tasks \cup S
        /\ worker' = [w \in Workers |-> IF w \in S THEN "woken" ELSE worker[w]]
    /\ value' = IF fill THEN value + Missing ELSE value
    /\ doubled' = (doubled \/ (fill /\ Overlap))
    /\ UNCHANGED <<buffer, getter, carry, pending, stops, stopping, due>>

\* Those between acquire() and release().
Counted == {w \in Workers : worker[w] \in {"fill", "put", "timer", "failing"}}

\* stop() called by the user, or by the loop for a failed worker, while other
\* calls of stop() may be under way: the workers in the list are cancelled,
\* and give back their pending count and the lock.  What they had not put is
\* lost.
Stop(failed) ==
    /\ IF failed
       THEN due > 0 /\ due' = due - 1 /\ stops' = stops
       ELSE stops < MaxStops /\ stops' = stops + 1 /\ due' = due
    /\ stopping' = stopping + 1
    /\ worker' = [w \in Workers |-> IF w \in tasks THEN "dead" ELSE worker[w]]
    /\ pending' = pending - Cardinality(Counted \cap tasks)
    /\ lock' = IF lock \in tasks THEN NoOne ELSE lock
    /\ fate' = [p \in Proposals |->
                   IF \E w \in tasks : worker[w] = "put" /\ carry[w] = p
                   THEN "lost" ELSE fate[p]]
    /\ carry' = [w \in Workers |-> IF w \in tasks THEN NoProposal ELSE carry[w]]
    /\ UNCHANGED <<queue, waiters, error, getter, value, doubled, started, tasks, starts>>

\* reset()
Reset == 0

\* A call of stop() has awaited the workers.  It clears the list, also of
\* workers that a start() after another call of stop() has begun: these go on.
StopEnd ==
    /\ stopping > 0
    /\ stopping' = stopping - 1
    /\ started' = FALSE
    /\ tasks' = {}
    /\ value' = Reset
    /\ UNCHANGED <<buffer, getter, worker, carry, pending, doubled, starts, stops, due>>

-----------------------------------------------------------------------------

Get(u) == Enter(u) \/ Resume(u) \/ Return(u) \/ Cancel(u) \/ Retry(u)

Work(w) ==
    \/ Look(w) \/ PutLocked(w) \/ TimerSet(w) \/ TimerRaises(w)
    \/ FillRaises(w) \/ ErrorLocked(w)
    \/ \E p \in Proposals : Fetch(w, p)

Next ==
    \/ \E u \in Getters : Get(u)
    \/ \E w \in Workers : Work(w)
    \/ \E p \in Proposals : Expire(p) \/ ExpireRequest(p) \/ ExpireRaises(p)
    \/ \E fill \in BOOLEAN : Start(fill)
    \/ \E failed \in BOOLEAN : Stop(failed)
    \/ StopEnd

Spec == Init /\ [][Next]_vars

\* Tasks that can run do, what they call returns, and proposals come as long
\* as the market has them.  Nobody need call get_proposal(), start or stop.
Fairness ==
    /\ \A u \in Getters : SF_vars(Resume(u)) /\ WF_vars(Return(u))
    /\ \A w \in Workers :
        /\ WF_vars(Look(w) \/ TimerSet(w) \/ \E p \in Proposals : Fetch(w, p))
        /\ SF_vars(PutLocked(w) \/ ErrorLocked(w))
    /\ \A p \in Proposals : WF_vars(ExpireRequest(p))
    /\ WF_vars(Stop(TRUE)) /\ WF_vars(StopEnd)

FairSpec == Spec /\ Fairness

-----------------------------------------------------------------------------
(* Properties. *)

Fetching == {w \in Workers : worker[w] \in {"fill", "put", "failing"}}

TypeOK ==
    /\ fate \in [Proposals -> {"market", "fetched", "buffered", "timed", "expired", "rejected",
                               "taken", "lost"}]
    /\ queue \in Seq(Proposals)
    /\ lock \in Workers \cup Getters \cup {NoOne}
    /\ waiters \in Seq(Getters)
    /\ error \in BOOLEAN
    /\ getter \in [Getters -> {"idle", "lock", "wait", "woken", "popped", "raised"}]
    /\ worker \in [Workers -> {"wait", "woken", "fill", "put", "timer", "failing", "dead"}]
    /\ carry \in [Workers -> Proposals \cup {NoProposal}]
    /\ value \in Int /\ pending \in Nat /\ doubled \in BOOLEAN
    /\ started \in BOOLEAN /\ tasks \subseteq Workers
    /\ starts \in 0..MaxStarts /\ stops \in 0..MaxStops
    /\ stopping \in Nat /\ due \in Nat

\* The pending count is that of the workers inside the semaphore, whatever
\* raises or is cancelled: release() never complains.
PendingExact == pending = Cardinality(Counted)

\* What is kept, asked for and being fetched.
Total == Len(queue) + value + Cardinality(Fetching)

\* However the requests of getters, of expired proposals and of restarts
\* meet, whatever fails and however calls of stop() overlap, charges are never
\* negative, and proposals kept, asked for and being fetched are never more
\* than max_size: until something is requested while a proposal is stored and
\* pending (managers/proposal/plugins/buffer.py:109-111), as only a
\* get_expiration_func that suspends makes possible.  From there on charges
\* may be negative, which acquire() takes for charges.
TargetKept ==
    ~ doubled => value >= 0 /\ Total <= MaxSize

\* A proposal is in the buffer once, and only until it is taken or expires.
BufferHonest ==
    /\ IsInjective(queue)
    /\ \A p \in Proposals : Contains(queue, p) <=> fate[p] \in {"buffered", "timed"}

\* What the buffer says it has and waits for is what it has and waits for,
\* whatever expires, fails or is cancelled while proposals come and go.
BufferExact == PendingExact /\ BufferHonest

\* The buffer never grows beyond max_size, the "target" of
\* _request_proposals() (managers/proposal/plugins/buffer.py:115-116).
BufferBounded == Len(queue) <= MaxSize

Running == started /\ stopping = 0 /\ ~ error

\* A getter gets its proposal while the workers run and the market has some.
GetterServed ==
    \A u \in Getters :
        getter[u] \in {"lock", "wait", "woken"} ~>
            \/ getter[u] \in {"popped", "idle", "raised"}
            \/ ~ Running
            \/ \A p \in Proposals : fate[p] # "market"

=============================================================================
