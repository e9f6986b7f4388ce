----------------------------- MODULE ProposalProofs -----------------------------
(***************************************************************************)
(* Proofs about the buffer of proposals (ProposalBuffer) for every set of  *)
(* proposals, workers and getters and all sizes, and about the negotiation *)
(* of a proposal (Negotiation) for every chain of plugins, all callers,    *)
(* providers, terms and offers, and about Waiter, with which tasks wait    *)
(* for a predicate.  The three share no state.                             *)
(*                                                                         *)
(* The buffer has two layers: Core, the types, the counts and who may run; *)
(* Honest, where a proposal is.                                            *)
(***************************************************************************)
EXTENDS ProposalBuffer, Negotiation, Waiter, SequenceTheorems, FiniteSetTheorems, TLAPS

\* A worker that waits for the lock has a proposal.
Carrying == \A w \in Workers : worker[w] = "put" => carry[w] \in Proposals

\* When get_expiration_func does not suspend, no proposal is both stored and
\* pending, so that nothing is requested at such a time.
NoOverlap == ~ Suspends => ~ doubled /\ ~ Overlap

Core == TypeOK /\ PendingExact /\ Carrying /\ NoOverlap /\ TargetKept

\* Who puts a proposal holds the lock until its timer runs, who takes one
\* until its timer is cancelled.
Locks ==
    /\ \A w \in Workers : worker[w] = "timer" => lock = w
    /\ \A u \in Getters : getter[u] = "popped" => lock = u

\* A worker that waits for the lock is the only one with its proposal.
Fetched ==
    /\ \A w \in Workers : worker[w] = "put" => fate[carry[w]] = "fetched"
    /\ \A v, w \in Workers :
        worker[v] = "put" /\ worker[w] = "put" /\ carry[v] = carry[w] => v = w
    /\ \A w \in Workers : worker[w] = "timer" =>
        carry[w] \in Proposals /\ fate[carry[w]] = "buffered"

Honest == Locks /\ Fetched /\ BufferHonest

-----------------------------------------------------------------------------
(* list.remove *)

\* Removing the element at i shortens a list by one and moves every later
\* element one place down.
LEMMA RemoveAtProperties ==
    ASSUME NEW S, NEW s \in Seq(S), NEW i \in 1..Len(s)
    PROVE  /\ RemoveAt(s, i) \in Seq(S)
           /\ Len(RemoveAt(s, i)) = Len(s) - 1
           /\ \A j \in 1..(Len(s) - 1) :
                RemoveAt(s, i)[j] = IF j < i THEN s[j] ELSE s[j + 1]
<1> DEFINE a == SubSeq(s, 1, i - 1)
           b == SubSeq(s, i + 1, Len(s))
<1>0. /\ i \in Int /\ Len(s) \in Nat
      /\ \A j \in 1..(i - 1) : s[j] \in S
      /\ \A j \in (i + 1)..Len(s) : s[j] \in S
  BY ElementOfSeq, LenProperties
<1>1. /\ a \in Seq(S)
      /\ Len(a) = i - 1
      /\ \A j \in 1..(i - 1) : a[j] = s[j]
  BY <1>0, SubSeqProperties, 1 <= i
<1>2. /\ b \in Seq(S)
      /\ Len(b) = Len(s) - i
      /\ \A j \in 1..(Len(s) - i) : b[j] = s[i + j]
  BY <1>0, SubSeqProperties
<1> HIDE DEF a, b
<1>3. /\ a \o b \in Seq(S)
      /\ Len(a \o b) = Len(a) + Len(b)
      /\ \A j \in 1..(Len(a) + Len(b)) :
            (a \o b)[j] = IF j <= Len(a) THEN a[j] ELSE b[j - Len(a)]
  BY <1>1, <1>2, ConcatProperties
<1>4. ASSUME NEW j \in 1..(Len(s) - 1)
      PROVE  (a \o b)[j] = IF j < i THEN s[j] ELSE s[j + 1]
  <2>0. j \in 1..(Len(a) + Len(b)) /\ j \in Int
    BY <1>0, <1>1, <1>2
  <2>1. CASE j < i
    <3>1. j <= Len(a) /\ j \in 1..(i - 1)
      BY <1>0, <1>1, <2>0, <2>1
    <3> QED BY <1>1, <1>3, <2>0, <2>1, <3>1
  <2>2. CASE ~(j < i)
    <3>1. /\ ~(j <= Len(a))
          /\ j - Len(a) \in 1..(Len(s) - i)
          /\ i + (j - Len(a)) = j + 1
      BY <1>0, <1>1, <2>0, <2>2
    <3> QED BY <1>2, <1>3, <2>0, <2>2, <3>1
  <2> QED BY <2>1, <2>2
<1>5. Len(a) + Len(b) = Len(s) - 1
  BY <1>0, <1>1, <1>2
<1> QED BY <1>3, <1>4, <1>5 DEF RemoveAt, a, b

-----------------------------------------------------------------------------
(* Counts and queues. *)

\* What an element counts in a set.
In(x, S) == IF x \in S THEN 1 ELSE 0

\* Two sets that differ in one element differ in size by what it counts.
LEMMA OneMoves ==
    ASSUME NEW S, NEW T, NEW x, IsFiniteSet(S), S \ {x} = T \ {x}
    PROVE  /\ IsFiniteSet(T)
           /\ Cardinality(S) \in Nat /\ Cardinality(T) \in Nat
           /\ Cardinality(T) = Cardinality(S) - In(x, S) + In(x, T)
<1>1. CASE x \in S /\ x \in T
  <2>1. S = T
    BY <1>1
  <2> QED BY <1>1, <2>1, FS_CardinalityType DEF In
<1>2. CASE x \in S /\ x \notin T
  <2>1. T = S \ {x}
    BY <1>2
  <2>2. IsFiniteSet(T) /\ Cardinality(T) = Cardinality(S) - 1
    BY <1>2, <2>1, FS_RemoveElement
  <2> QED BY <1>2, <2>2, FS_CardinalityType DEF In
<1>3. CASE x \notin S /\ x \in T
  <2>1. T = S \cup {x}
    BY <1>3
  <2>2. IsFiniteSet(T) /\ Cardinality(T) = Cardinality(S) + 1
    BY <1>3, <2>1, FS_AddElement
  <2> QED BY <1>3, <2>2, FS_CardinalityType DEF In
<1>4. CASE x \notin S /\ x \notin T
  <2>1. S = T
    BY <1>4
  <2> QED BY <1>4, <2>1, FS_CardinalityType DEF In
<1> QED BY <1>1, <1>2, <1>3, <1>4

\* The workers that are counted are finitely many, and fetching ones among them.
LEMMA FiniteWorkers ==
    ASSUME BufferAssumption
    PROVE  /\ IsFiniteSet(Fetching) /\ Cardinality(Fetching) \in Nat
           /\ IsFiniteSet(Counted) /\ Cardinality(Counted) \in Nat
           /\ Cardinality(Fetching) <= Cardinality(Counted)
<1>1. Fetching \in SUBSET Counted /\ Counted \in SUBSET Workers
  BY DEF Fetching, Counted
<1>2. IsFiniteSet(Counted)
  BY <1>1, FS_Subset DEF BufferAssumption
<1>3. IsFiniteSet(Fetching) /\ Cardinality(Fetching) <= Cardinality(Counted)
  BY <1>1, <1>2, FS_Subset
<1> QED BY <1>2, <1>3, FS_CardinalityType

\* One worker goes on: both counts change by what it counts.
LEMMA WorkerMoves ==
    ASSUME BufferAssumption, NEW w \in Workers, NEW s, TypeOK,
           worker' = [worker EXCEPT ![w] = s]
    PROVE  /\ Cardinality(Fetching') \in Nat /\ Cardinality(Counted') \in Nat
           /\ Cardinality(Fetching') = Cardinality(Fetching)
                - (IF worker[w] \in {"fill", "put", "failing"} THEN 1 ELSE 0)
                + (IF s \in {"fill", "put", "failing"} THEN 1 ELSE 0)
           /\ Cardinality(Counted') = Cardinality(Counted)
                - (IF worker[w] \in {"fill", "put", "timer", "failing"} THEN 1 ELSE 0)
                + (IF s \in {"fill", "put", "timer", "failing"} THEN 1 ELSE 0)
<1>1. worker'[w] = s /\ \A v \in Workers \ {w} : worker'[v] = worker[v]
  BY DEF TypeOK
<1>2. Fetching \ {w} = Fetching' \ {w} /\ Counted \ {w} = Counted' \ {w}
  BY <1>1 DEF Fetching, Counted
<1>3. /\ In(w, Fetching) = IF worker[w] \in {"fill", "put", "failing"} THEN 1 ELSE 0
      /\ In(w, Fetching') = IF s \in {"fill", "put", "failing"} THEN 1 ELSE 0
      /\ In(w, Counted) = IF worker[w] \in {"fill", "put", "timer", "failing"} THEN 1 ELSE 0
      /\ In(w, Counted') = IF s \in {"fill", "put", "timer", "failing"} THEN 1 ELSE 0
  BY <1>1 DEF In, Fetching, Counted
<1>4. /\ Cardinality(Fetching') \in Nat
      /\ Cardinality(Fetching') = Cardinality(Fetching) - In(w, Fetching) + In(w, Fetching')
  BY <1>2, FiniteWorkers, OneMoves
<1>5. /\ Cardinality(Counted') \in Nat
      /\ Cardinality(Counted') = Cardinality(Counted) - In(w, Counted) + In(w, Counted')
  BY <1>2, FiniteWorkers, OneMoves
<1> QED BY <1>3, <1>4, <1>5, Zenon

\* No worker is counted when none is inside.
LEMMA NoneCounted ==
    ASSUME \A w \in Workers : worker[w] \notin {"fill", "put", "timer", "failing"}
    PROVE  Cardinality(Fetching) = 0 /\ Cardinality(Counted) = 0
<1>1. Fetching = {} /\ Counted = {}
  BY DEF Fetching, Counted
<1> QED BY <1>1, FS_EmptySet

\* Filling up to max_size: when nothing is both stored and pending, the
\* pending count is what is being fetched.
LEMMA FillFacts ==
    ASSUME BufferAssumption, Core, UNCHANGED <<queue, pending>>, value' = value + Missing,
           doubled' = (doubled \/ Overlap),
           Fetching' = Fetching, Counted' = Counted, Overlap' <=> Overlap
    PROVE  value' \in Int /\ PendingExact' /\ NoOverlap' /\ TargetKept'
<1>0. TypeOK /\ PendingExact /\ NoOverlap /\ TargetKept
  BY DEF Core
<1>1. Len(queue) \in Nat /\ pending \in Nat /\ value \in Int /\ MaxSize \in Nat
  BY <1>0 DEF TypeOK, BufferAssumption
<1>2. value' = MaxSize - Len(queue) - pending
  BY <1>1 DEF Missing
<1>3. pending = Cardinality(Counted) /\ PendingExact'
  BY <1>0 DEF PendingExact
<1>4. NoOverlap'
  BY <1>0 DEF NoOverlap
<1>5. ASSUME ~ doubled' PROVE value' >= 0 /\ Total' <= MaxSize
  <2>1. ~ doubled /\ ~ Overlap
    BY <1>5
  <2>2. Fetching = Counted
    BY <1>0, <2>1 DEF Overlap, Fetching, Counted
  <2>3. value >= 0 /\ Len(queue) + value + pending <= MaxSize
    BY <1>0, <1>3, <2>1, <2>2 DEF TargetKept, Total
  <2>4. Total' = Len(queue) + value' + pending
    BY <1>3, <2>2 DEF Total
  <2> QED BY <1>1, <1>2, <2>3, <2>4
<1> QED BY <1>1, <1>2, <1>3, <1>4, <1>5 DEF TargetKept

\* _request_proposals() fills up to max_size and wakes workers.
LEMMA RequestFacts ==
    ASSUME BufferAssumption, Core, Request, queue' = queue
    PROVE  /\ worker' \in [Workers -> {"wait", "woken", "fill", "put", "timer", "failing", "dead"}]
           /\ value' \in Int /\ pending' = pending /\ doubled' \in BOOLEAN
           /\ \A w \in Workers :
                worker'[w] = worker[w] \/ (worker[w] = "wait" /\ worker'[w] = "woken")
           /\ PendingExact' /\ NoOverlap' /\ TargetKept'
<1>1. TypeOK
  BY DEF Core
<1>2. value' = value + Missing /\ doubled' = (doubled \/ Overlap) /\ pending' = pending
  BY DEF Request
<1>3. PICK S \in SUBSET Asleep :
        worker' = [w \in Workers |-> IF w \in S THEN "woken" ELSE worker[w]]
  BY DEF Request
<1>4. \A w \in Workers :
        worker'[w] = worker[w] \/ (worker[w] = "wait" /\ worker'[w] = "woken")
  BY <1>3 DEF Asleep
<1>5. worker' \in [Workers -> {"wait", "woken", "fill", "put", "timer", "failing", "dead"}]
  BY <1>1, <1>3 DEF TypeOK
<1>6. Fetching' = Fetching /\ Counted' = Counted /\ (Overlap' <=> Overlap)
  BY <1>4 DEF Fetching, Counted, Overlap
<1>7. value' \in Int /\ PendingExact' /\ NoOverlap' /\ TargetKept'
  BY <1>2, <1>6, FillFacts
<1>8. doubled' \in BOOLEAN
  BY <1>1, <1>2, Zenon DEF TypeOK, Overlap
<1> QED BY <1>2, <1>4, <1>5, <1>7, <1>8

\* A worker takes a charge and goes on fetching, or waits.
LEMMA AcquireFacts ==
    ASSUME BufferAssumption, TypeOK, PendingExact, NEW w \in Workers, NEW back \in {0, 1},
           back = IF worker[w] \in {"fill", "put", "timer", "failing"} THEN 1 ELSE 0,
           Acquire(w, back)
    PROVE  /\ \E s \in {"fill", "wait"} : worker' = [worker EXCEPT ![w] = s]
           /\ value' \in Int /\ pending' \in Nat
           /\ PendingExact'
           /\ value >= 0 => value' >= 0
           /\ doubled' = doubled
           /\ value' + Cardinality(Fetching') = value + Cardinality(Fetching)
                - (IF worker[w] \in {"fill", "put", "failing"} THEN 1 ELSE 0)
<1>1. /\ Cardinality(Fetching) \in Nat /\ Cardinality(Counted) \in Nat
      /\ pending = Cardinality(Counted) /\ value \in Int
  BY FiniteWorkers DEF PendingExact, TypeOK
<1>2. CASE value # 0
  <2>1. /\ worker' = [worker EXCEPT ![w] = "fill"]
        /\ value' = value - 1 /\ doubled' = doubled
        /\ pending' = pending - back + 1
    BY <1>2 DEF Acquire
  <2>2. /\ Cardinality(Counted') \in Nat
        /\ Cardinality(Counted') = Cardinality(Counted) - back + 1
    BY <1>1, <2>1, WorkerMoves
  <2>3. /\ Cardinality(Fetching') \in Nat
        /\ Cardinality(Fetching') = Cardinality(Fetching)
                - (IF worker[w] \in {"fill", "put", "failing"} THEN 1 ELSE 0) + 1
    BY <1>1, <2>1, WorkerMoves
  <2>4. pending' = Cardinality(Counted')
    BY <1>1, <2>1, <2>2
  <2> QED BY <1>1, <1>2, <2>1, <2>2, <2>3, <2>4 DEF PendingExact
<1>3. CASE value = 0
  <2>1. /\ worker' = [worker EXCEPT ![w] = "wait"]
        /\ value' = value /\ doubled' = doubled
        /\ pending' = pending - back
    BY <1>3 DEF Acquire
  <2> DEFINE c == IF worker[w] \in {"fill", "put", "timer", "failing"} THEN 1 ELSE 0
             f == IF worker[w] \in {"fill", "put", "failing"} THEN 1 ELSE 0
  <2>a. c \in Nat /\ f \in Nat /\ c = back
    OBVIOUS
  <2>b. /\ Cardinality(Fetching') \in Nat /\ Cardinality(Counted') \in Nat
        /\ Cardinality(Fetching') = Cardinality(Fetching) - f + 0
        /\ Cardinality(Counted') = Cardinality(Counted) - c + 0
    BY <2>1, WorkerMoves, "wait" \notin {"fill", "put", "timer", "failing"}, "wait" \notin {"fill", "put", "failing"}
  <2> HIDE DEF c, f
  <2>2. Cardinality(Counted') = Cardinality(Counted) - back
    BY <1>1, <2>a, <2>b
  <2>3. Cardinality(Fetching') = Cardinality(Fetching) - f
    BY <1>1, <2>a, <2>b
  <2>4. pending' = Cardinality(Counted')
    BY <1>1, <2>1, <2>a, <2>2
  <2>5. value' + Cardinality(Fetching') = value + Cardinality(Fetching) - f
    BY <1>1, <2>1, <2>a, <2>b, <2>3
  <2> QED BY <1>1, <1>3, <2>1, <2>a, <2>b, <2>4, <2>5 DEF PendingExact, f
<1> QED BY <1>2, <1>3

-----------------------------------------------------------------------------
(* Core. *)

\* notify() wakes at most one getter.
LEMMA NotifyFacts ==
    ASSUME TypeOK, Notify
    PROVE  /\ waiters' \in Seq(Getters)
           /\ getter' \in [Getters -> {"idle", "lock", "wait", "woken", "popped", "raised"}]
           /\ \A u \in Getters : getter'[u] = getter[u] \/ getter'[u] = "woken"
<1>1. CASE waiters = <<>>
  BY <1>1 DEF Notify, TypeOK
<1>2. CASE waiters # <<>>
  <2>1. Tail(waiters) \in Seq(Getters)
    BY <1>2, HeadTailProperties DEF TypeOK
  <2>2. waiters' = Tail(waiters) /\ getter' = [getter EXCEPT ![Head(waiters)] = "woken"]
    BY <1>2 DEF Notify
  <2> QED BY <2>1, <2>2 DEF TypeOK
<1> QED BY <1>1, <1>2

\* get() with the lock never adds to the buffer.
LEMMA LockedFacts ==
    ASSUME TypeOK, NEW u \in Getters, Locked(u)
    PROVE  /\ fate' \in [Proposals -> {"market", "fetched", "buffered", "timed", "expired",
                                       "rejected", "taken", "lost"}]
           /\ queue' \in Seq(Proposals)
           /\ lock' \in Workers \cup Getters \cup {NoOne}
           /\ waiters' \in Seq(Getters)
           /\ error' \in BOOLEAN
           /\ getter' \in [Getters -> {"idle", "lock", "wait", "woken", "popped", "raised"}]
           /\ Len(queue') \in Nat /\ Len(queue) \in Nat /\ Len(queue') <= Len(queue)
           /\ queue = <<>> => queue' = queue
<1>1. CASE queue # <<>>
  <2>1. /\ Tail(queue) \in Seq(Proposals) /\ Len(queue) \in Nat
        /\ Len(Tail(queue)) = Len(queue) - 1 /\ Len(queue) >= 1
    BY <1>1, HeadTailProperties DEF TypeOK
  <2>2. /\ queue' = Tail(queue) /\ waiters' = waiters /\ error' = error /\ lock' = u
        /\ getter' = [getter EXCEPT ![u] = "popped"]
        /\ fate' = [fate EXCEPT ![Head(queue)] = "taken"]
    BY <1>1 DEF Locked
  <2>3. /\ fate' \in [Proposals -> {"market", "fetched", "buffered", "timed", "expired",
                                     "rejected", "taken", "lost"}]
        /\ getter' \in [Getters -> {"idle", "lock", "wait", "woken", "popped", "raised"}]
    BY <2>2 DEF TypeOK
  <2>4. Len(queue') \in Nat /\ Len(queue') <= Len(queue)
    BY <2>1, <2>2
  <2>5. waiters' \in Seq(Getters) /\ error' \in BOOLEAN /\ lock' \in Workers \cup Getters \cup {NoOne}
    BY <2>2 DEF TypeOK
  <2> QED BY <1>1, <2>1, <2>2, <2>3, <2>4, <2>5
<1>2. CASE queue = <<>>
  <2>1. Append(waiters, u) \in Seq(Getters)
    BY AppendProperties DEF TypeOK
  <2>2. /\ queue' = queue /\ fate' = fate /\ lock' = lock /\ error' = error
        /\ getter' = [getter EXCEPT ![u] = IF error THEN "raised" ELSE "wait"]
        /\ waiters' = IF error THEN waiters ELSE Append(waiters, u)
    BY <1>2 DEF Locked
  <2>3. Len(queue) \in Nat
    BY DEF TypeOK
  <2> QED BY <2>1, <2>2, <2>3 DEF TypeOK
<1> QED BY <1>1, <1>2

\* A step of a getter that requests nothing.
LEMMA QuietKeeps ==
    ASSUME BufferAssumption, Core, UNCHANGED <<worker, carry, charges, control>>,
           Len(queue') \in Nat, Len(queue') <= Len(queue)
    PROVE  PendingExact' /\ Carrying' /\ NoOverlap' /\ TargetKept'
<1> USE DEF charges, control, lifetime
<1>1. PendingExact'
  BY DEF Core, PendingExact, Counted
<1>2. Carrying' /\ NoOverlap'
  BY DEF Core, Carrying, NoOverlap, Overlap
<1>3. Cardinality(Fetching') = Cardinality(Fetching) /\ Cardinality(Fetching) \in Nat
  BY FiniteWorkers DEF Fetching
<1>4. Total' <= Total
  BY <1>3 DEF Core, TypeOK, Total
<1>5. Total \in Int /\ Total' \in Int /\ MaxSize \in Int
  BY <1>3 DEF Core, TypeOK, Total, BufferAssumption
<1>6. TargetKept'
  BY <1>4, <1>5 DEF Core, TargetKept
<1> QED BY <1>1, <1>2, <1>6

\* A step that requests.
LEMMA RequestKeeps ==
    ASSUME BufferAssumption, Core, Request, queue' = queue, UNCHANGED carry
    PROVE  PendingExact' /\ Carrying' /\ NoOverlap' /\ TargetKept'
<1>1. /\ \A w \in Workers :
            worker'[w] = worker[w] \/ (worker[w] = "wait" /\ worker'[w] = "woken")
      /\ PendingExact' /\ NoOverlap' /\ TargetKept'
  BY RequestFacts
<1>2. Carrying'
  BY <1>1 DEF Core, Carrying
<1> QED BY <1>1, <1>2

\* A step in which a worker goes on.
LEMMA MoveKeeps ==
    ASSUME BufferAssumption, Core, NEW w \in Workers, NEW s, NEW c,
           worker' = [worker EXCEPT ![w] = s],
           carry' = [carry EXCEPT ![w] = c],
           s = "put" => c \in Proposals,
           ~ Suspends => s # "timer",
           doubled' = doubled,
           value >= 0 => value' >= 0,
           Total' = Total \/ Total' = Total - 1
    PROVE  Carrying' /\ NoOverlap' /\ TargetKept'
<1>1. Carrying' /\ NoOverlap'
  BY DEF Core, TypeOK, Carrying, NoOverlap, Overlap
<1>2. Total \in Int /\ MaxSize \in Int
  BY FiniteWorkers DEF Core, TypeOK, Total, BufferAssumption
<1>3. TargetKept'
  BY <1>2 DEF Core, TargetKept
<1> QED BY <1>1, <1>3

\* A worker takes a charge or waits, having put nothing.
LEMMA LookStep ==
    ASSUME BufferAssumption, Core, NEW w \in Workers, Look(w)
    PROVE  Core'
<1>1. /\ worker[w] = "woken" /\ Acquire(w, 0)
      /\ UNCHANGED <<buffer, getter, carry, control>>
      /\ TypeOK /\ PendingExact
  BY DEF Look, Core
<1>2. PICK s \in {"fill", "wait"} : worker' = [worker EXCEPT ![w] = s]
  BY <1>1, AcquireFacts
<1>3. /\ value' \in Int /\ pending' \in Nat /\ PendingExact'
      /\ (value >= 0 => value' >= 0) /\ doubled' = doubled
      /\ value' + Cardinality(Fetching') = value + Cardinality(Fetching) - 0
  BY <1>1, AcquireFacts
<1>4. TypeOK'
  BY <1>1, <1>2, <1>3 DEF TypeOK, buffer, control, lifetime
<1>5. /\ Cardinality(Fetching) \in Nat /\ Cardinality(Fetching') \in Nat
      /\ Len(queue) \in Nat /\ value \in Int
  <2>1. Cardinality(Fetching') \in Nat
    BY <1>1, <1>2, WorkerMoves
  <2> QED BY <1>1, <2>1, FiniteWorkers DEF TypeOK
<1>6. Total' = Total /\ Total \in Int
  BY <1>1, <1>3, <1>5 DEF Total, buffer
<1>7. carry' = [carry EXCEPT ![w] = carry[w]]
  BY <1>1 DEF TypeOK
<1>8. Carrying' /\ NoOverlap' /\ TargetKept'
  BY <1>1, <1>2, <1>3, <1>6, <1>7, MoveKeeps DEF control
<1> QED BY <1>3, <1>4, <1>8 DEF Core

\* A proposal comes into the buffer, and a worker no longer fetches it.
LEMMA PutStep ==
    ASSUME BufferAssumption, Core, NEW w \in Workers, NEW p \in Proposals,
           worker[w] \in {"fill", "put"}, Put(w, p), UNCHANGED control
    PROVE  Core'
<1> USE DEF charges, control, lifetime
<1>1. /\ TypeOK /\ PendingExact
      /\ queue' = Append(queue, p) /\ Notify /\ error' = error
      /\ fate' = [fate EXCEPT ![p] = IF Suspends THEN "buffered" ELSE "timed"]
      /\ carry' = [carry EXCEPT ![w] = IF Suspends THEN p ELSE NoProposal]
  BY DEF Core, Put
<1>2. queue' \in Seq(Proposals) /\ Len(queue') = Len(queue) + 1 /\ Len(queue) \in Nat
  BY <1>1, AppendProperties DEF TypeOK
<1>3. /\ waiters' \in Seq(Getters)
      /\ getter' \in [Getters -> {"idle", "lock", "wait", "woken", "popped", "raised"}]
  BY <1>1, NotifyFacts
<1>4. /\ Cardinality(Fetching) \in Nat /\ value \in Int
      /\ Suspends \in BOOLEAN
  BY <1>1, FiniteWorkers DEF TypeOK, BufferAssumption
<1>5. CASE Suspends
  <2>1. lock' = w /\ worker' = [worker EXCEPT ![w] = "timer"] /\ UNCHANGED <<value, pending, doubled>>
    BY <1>5 DEF Put
  <2>2. TypeOK'
    BY <1>1, <1>2, <1>3, <2>1 DEF TypeOK
  <2>3. /\ Cardinality(Fetching') \in Nat
        /\ Cardinality(Fetching') = Cardinality(Fetching) - 1 + 0
        /\ Cardinality(Counted') = Cardinality(Counted) - 1 + 1
    BY <1>1, <2>1, WorkerMoves
  <2>4. PendingExact'
    BY <1>1, <2>1, <2>3, FiniteWorkers DEF PendingExact
  <2>5. Total' = Total /\ Total \in Int
    BY <1>2, <1>4, <2>1, <2>3 DEF Total
  <2>6. Carrying' /\ NoOverlap' /\ TargetKept'
    BY <1>1, <1>5, <2>1, <2>5, MoveKeeps
  <2> QED BY <2>2, <2>4, <2>6 DEF Core
<1>6. CASE ~ Suspends
  <2>1. lock' = lock /\ Acquire(w, 1)
    BY <1>6 DEF Put
  <2>2. PICK s \in {"fill", "wait"} : worker' = [worker EXCEPT ![w] = s]
    BY <1>1, <2>1, AcquireFacts
  <2>3. /\ value' \in Int /\ pending' \in Nat /\ PendingExact'
        /\ (value >= 0 => value' >= 0) /\ doubled' = doubled
        /\ value' + Cardinality(Fetching') = value + Cardinality(Fetching) - 1
    BY <1>1, <2>1, AcquireFacts
  <2>4. TypeOK'
    BY <1>1, <1>2, <1>3, <2>1, <2>2, <2>3 DEF TypeOK
  <2>5. Cardinality(Fetching') \in Nat
    BY <1>1, <2>2, WorkerMoves
  <2>6. Total' = Total /\ Total \in Int
    BY <1>2, <1>4, <2>3, <2>5, SMTT(30) DEF Total
  <2>7. Carrying' /\ NoOverlap' /\ TargetKept'
    BY <1>1, <2>2, <2>3, <2>6, MoveKeeps
  <2> QED BY <2>3, <2>4, <2>7 DEF Core
<1> QED BY <1>4, <1>5, <1>6

\* A fetched proposal is put, or its worker waits for the lock.
LEMMA FetchStep ==
    ASSUME BufferAssumption, Core, NEW w \in Workers, NEW p \in Proposals, Fetch(w, p)
    PROVE  Core'
<1> USE DEF charges, control, lifetime
<1>1. CASE Free
  BY <1>1, PutStep DEF Fetch
<1>2. CASE ~ Free
  <2>1. /\ worker[w] = "fill" /\ TypeOK /\ PendingExact
        /\ worker' = [worker EXCEPT ![w] = "put"]
        /\ carry' = [carry EXCEPT ![w] = p]
        /\ fate' = [fate EXCEPT ![p] = "fetched"]
        /\ UNCHANGED <<queue, lock, waiters, error, getter, value, pending, doubled, control>>
    BY <1>2 DEF Fetch, Core
  <2>2. TypeOK'
    BY <2>1 DEF TypeOK
  <2>3. /\ Cardinality(Fetching') \in Nat
        /\ Cardinality(Fetching') = Cardinality(Fetching) - 1 + 1
        /\ Cardinality(Counted') = Cardinality(Counted) - 1 + 1
    BY <2>1, WorkerMoves
  <2>4. PendingExact'
    BY <2>1, <2>3, FiniteWorkers DEF PendingExact
  <2>5. Total' = Total /\ Total \in Int
    BY <2>1, <2>3, FiniteWorkers DEF Total, TypeOK
  <2>6. Carrying' /\ NoOverlap' /\ TargetKept'
    BY <2>1, <2>5, MoveKeeps
  <2> QED BY <2>2, <2>4, <2>6 DEF Core
<1> QED BY <1>1, <1>2

\* The proposal has its timer, and its worker goes on.
LEMMA TimerSetStep ==
    ASSUME BufferAssumption, Core, NEW w \in Workers, TimerSet(w)
    PROVE  Core'
<1> USE DEF control, lifetime
<1>1. /\ worker[w] = "timer" /\ Acquire(w, 1) /\ lock' = NoOne
      /\ fate' = [fate EXCEPT ![carry[w]] = "timed"]
      /\ carry' = [carry EXCEPT ![w] = NoProposal]
      /\ UNCHANGED <<queue, waiters, error, getter, control>>
      /\ TypeOK /\ PendingExact
  BY DEF TimerSet, Core
<1>2. PICK s \in {"fill", "wait"} : worker' = [worker EXCEPT ![w] = s]
  BY <1>1, AcquireFacts
<1>3. /\ value' \in Int /\ pending' \in Nat /\ PendingExact'
      /\ (value >= 0 => value' >= 0) /\ doubled' = doubled
      /\ value' + Cardinality(Fetching') = value + Cardinality(Fetching) - 0
  BY <1>1, AcquireFacts
<1>4. TypeOK'
  BY <1>1, <1>2, <1>3 DEF TypeOK
<1>5. /\ Cardinality(Fetching) \in Nat /\ Cardinality(Fetching') \in Nat
      /\ Len(queue) \in Nat /\ value \in Int
  <2>1. Cardinality(Fetching') \in Nat
    BY <1>1, <1>2, WorkerMoves
  <2> QED BY <1>1, <2>1, FiniteWorkers DEF TypeOK
<1>6. Total' = Total /\ Total \in Int
  BY <1>1, <1>3, <1>5, SMTT(30) DEF Total
<1>7. Carrying' /\ NoOverlap' /\ TargetKept'
  BY <1>1, <1>2, <1>3, <1>6, MoveKeeps
<1> QED BY <1>3, <1>4, <1>7 DEF Core

\* A worker whose timer raised is gone, but what it put is there.
LEMMA TimerRaisesStep ==
    ASSUME BufferAssumption, Core, NEW w \in Workers, TimerRaises(w)
    PROVE  Core'
<1> USE DEF control, lifetime
<1>1. /\ worker[w] = "timer" /\ worker' = [worker EXCEPT ![w] = "dead"]
      /\ lock' = NoOne /\ carry' = [carry EXCEPT ![w] = NoProposal]
      /\ pending' = pending - 1
      /\ UNCHANGED <<fate, queue, waiters, error, getter, value, doubled, control>>
      /\ TypeOK /\ PendingExact
  BY DEF TimerRaises, Core
<1>2. /\ Cardinality(Fetching') \in Nat /\ Cardinality(Counted') \in Nat
      /\ Cardinality(Fetching') = Cardinality(Fetching) - 0 + 0
      /\ Cardinality(Counted') = Cardinality(Counted) - 1 + 0
  BY <1>1, WorkerMoves, "dead" \notin {"fill", "put", "timer", "failing"}, "dead" \notin {"fill", "put", "failing"}
<1>3. PendingExact' /\ pending' \in Nat
  BY <1>1, <1>2, FiniteWorkers DEF PendingExact
<1>4. TypeOK'
  BY <1>1, <1>3 DEF TypeOK
<1>5. Total' = Total
  BY <1>1, <1>2, FiniteWorkers DEF Total, TypeOK
<1>6. Carrying' /\ NoOverlap' /\ TargetKept'
  BY <1>1, <1>5, MoveKeeps
<1> QED BY <1>3, <1>4, <1>6 DEF Core

\* A worker whose fetch raised is gone, and has scheduled a stop().
LEMMA SetErrorStep ==
    ASSUME BufferAssumption, Core, NEW w \in Workers,
           worker[w] \in {"fill", "failing"}, SetError(w)
    PROVE  Core'
<1>1. /\ worker' = [worker EXCEPT ![w] = "dead"]
      /\ error' = TRUE /\ Notify
      /\ pending' = pending - 1 /\ due' = due + 1
      /\ UNCHANGED <<fate, queue, lock, carry, value, doubled, lifetime>>
      /\ TypeOK /\ PendingExact
  BY DEF SetError, Core
<1>2. /\ Cardinality(Fetching') \in Nat /\ Cardinality(Counted') \in Nat
      /\ Cardinality(Fetching') = Cardinality(Fetching) - 1 + 0
      /\ Cardinality(Counted') = Cardinality(Counted) - 1 + 0
  BY <1>1, WorkerMoves, "dead" \notin {"fill", "put", "timer", "failing"}, "dead" \notin {"fill", "put", "failing"}
<1>3. PendingExact' /\ pending' \in Nat
  BY <1>1, <1>2, FiniteWorkers DEF PendingExact
<1>4. /\ waiters' \in Seq(Getters)
      /\ getter' \in [Getters -> {"idle", "lock", "wait", "woken", "popped", "raised"}]
  BY <1>1, NotifyFacts
<1>5. TypeOK'
  BY <1>1, <1>3, <1>4 DEF TypeOK, lifetime
<1>6. Total' = Total - 1
  BY <1>1, <1>2, FiniteWorkers DEF Total, TypeOK
<1>7. carry' = [carry EXCEPT ![w] = carry[w]]
  BY <1>1 DEF TypeOK
<1>8. Carrying' /\ NoOverlap' /\ TargetKept'
  BY <1>1, <1>6, <1>7, MoveKeeps
<1> QED BY <1>3, <1>5, <1>8 DEF Core

\* A fetch raises.
LEMMA FillRaisesStep ==
    ASSUME BufferAssumption, Core, NEW w \in Workers, FillRaises(w)
    PROVE  Core'
<1> USE DEF control, lifetime, charges, buffer
<1>1. CASE Free
  BY <1>1, SetErrorStep DEF FillRaises
<1>2. CASE ~ Free
  <2>1. /\ worker[w] = "fill" /\ worker' = [worker EXCEPT ![w] = "failing"]
        /\ UNCHANGED <<buffer, getter, carry, charges, control>>
        /\ TypeOK /\ PendingExact
    BY <1>2 DEF FillRaises, Core
  <2>2. TypeOK'
    BY <2>1 DEF TypeOK
  <2>3. /\ Cardinality(Fetching') \in Nat
        /\ Cardinality(Fetching') = Cardinality(Fetching) - 1 + 1
        /\ Cardinality(Counted') = Cardinality(Counted) - 1 + 1
    BY <2>1, WorkerMoves
  <2>4. PendingExact'
    BY <2>1, <2>3, FiniteWorkers DEF PendingExact
  <2>5. Total' = Total
    BY <2>1, <2>3, FiniteWorkers DEF Total, TypeOK
  <2>6. carry' = [carry EXCEPT ![w] = carry[w]]
    BY <2>1 DEF TypeOK
  <2>7. Carrying' /\ NoOverlap' /\ TargetKept'
    BY <2>1, <2>5, <2>6, MoveKeeps
  <2> QED BY <2>2, <2>4, <2>7 DEF Core
<1> QED BY <1>1, <1>2

\* start(): only workers that were gone begin.
LEMMA StartStep ==
    ASSUME BufferAssumption, Core, NEW fill \in BOOLEAN, Start(fill)
    PROVE  Core'
<1>1. /\ starts < MaxStarts /\ starts' = starts + 1 /\ started' = TRUE
      /\ value' = IF fill THEN value + Missing ELSE value
      /\ doubled' = (doubled \/ (fill /\ Overlap))
      /\ UNCHANGED <<buffer, getter, carry, pending, stops, stopping, due>>
      /\ TypeOK /\ PendingExact /\ Carrying /\ NoOverlap /\ TargetKept
  BY DEF Start, Core
<1>2. PICK S \in SUBSET {w \in Workers : worker[w] = "dead"} :
        /\ tasks' = tasks \cup S
        /\ worker' = [w \in Workers |-> IF w \in S THEN "woken" ELSE worker[w]]
  BY DEF Start
<1>3. \A w \in Workers :
        worker'[w] = worker[w] \/ (worker[w] = "dead" /\ worker'[w] = "woken")
  BY <1>2
<1>4. Fetching' = Fetching /\ Counted' = Counted /\ (Overlap' <=> Overlap)
  BY <1>3 DEF Fetching, Counted, Overlap
<1>5. queue' = queue /\ Carrying'
  BY <1>1, <1>3 DEF Carrying, buffer
<1>6. value' \in Int /\ PendingExact' /\ NoOverlap' /\ TargetKept'
  <2>1. CASE fill
    BY <1>1, <1>4, <1>5, <2>1, FillFacts
  <2>2. CASE ~ fill
    <3>1. UNCHANGED <<queue, value, pending>> /\ (doubled' <=> doubled)
      BY <1>1, <1>5, <2>2
    <3>2. Total' = Total
      BY <1>4, <3>1 DEF Total
    <3> QED BY <1>1, <1>4, <3>1, <3>2 DEF TypeOK, PendingExact, NoOverlap, TargetKept
  <2> QED BY <2>1, <2>2
<1>7. TypeOK'
  <2>1. worker' \in [Workers -> {"wait", "woken", "fill", "put", "timer", "failing", "dead"}]
    BY <1>1, <1>2 DEF TypeOK
  <2>2. doubled' \in BOOLEAN /\ started' \in BOOLEAN
    BY <1>1, Zenon DEF TypeOK, Overlap
  <2>3. starts' \in 0..MaxStarts /\ tasks' \subseteq Workers
    BY <1>1, <1>2 DEF TypeOK, BufferAssumption
  <2> QED BY <1>1, <1>6, <2>1, <2>2, <2>3 DEF TypeOK, buffer
<1> QED BY <1>5, <1>6, <1>7 DEF Core

\* stop() cancels workers, and each gives back what it counts.
LEMMA StopStep ==
    ASSUME BufferAssumption, Core, NEW fails \in BOOLEAN, Stop(fails)
    PROVE  Core'
<1>1. /\ (fails => due > 0 /\ due' = due - 1 /\ stops' = stops)
      /\ (~ fails => stops < MaxStops /\ stops' = stops + 1 /\ due' = due)
      /\ stopping' = stopping + 1
      /\ worker' = [w \in Workers |-> IF w \in tasks THEN "dead" ELSE worker[w]]
      /\ pending' = pending - Cardinality(Counted \cap tasks)
      /\ lock' = IF lock \in tasks THEN NoOne ELSE lock
      /\ carry' = [w \in Workers |-> IF w \in tasks THEN NoProposal ELSE carry[w]]
      /\ UNCHANGED <<queue, waiters, error, getter, value, doubled, started, tasks, starts>>
      /\ TypeOK /\ PendingExact /\ Carrying /\ NoOverlap /\ TargetKept
  BY DEF Stop, Core
<1>2. Counted' = Counted \ tasks /\ Fetching' \subseteq Fetching
  BY <1>1 DEF Counted, Fetching
<1>3. /\ Cardinality(Counted \ tasks) = Cardinality(Counted) - Cardinality(Counted \cap tasks)
      /\ Cardinality(Counted \ tasks) \in Nat
  BY FiniteWorkers, FS_Difference, FS_CardinalityType
<1>4. PendingExact' /\ pending' \in Nat
  BY <1>1, <1>2, <1>3 DEF PendingExact
<1>5. /\ Cardinality(Fetching') <= Cardinality(Fetching)
      /\ Cardinality(Fetching') \in Nat /\ Cardinality(Fetching) \in Nat
  BY <1>2, FiniteWorkers, FS_Subset, FS_CardinalityType
<1>6. fate' \in [Proposals -> {"market", "fetched", "buffered", "timed", "expired", "rejected",
                               "taken", "lost"}]
  BY <1>1 DEF Stop, TypeOK
<1>7. stops' \in 0..MaxStops /\ stopping' \in Nat /\ due' \in Nat
  BY <1>1 DEF TypeOK, BufferAssumption
<1>8. TypeOK'
  BY <1>1, <1>4, <1>6, <1>7 DEF TypeOK
<1>9. Carrying' /\ NoOverlap'
  BY <1>1 DEF Carrying, NoOverlap, Overlap
<1>10. Total' <= Total /\ Total \in Int /\ Total' \in Int /\ MaxSize \in Int
  BY <1>1, <1>5 DEF Total, TypeOK, BufferAssumption
<1>11. TargetKept'
  BY <1>1, <1>10 DEF TargetKept
<1> QED BY <1>4, <1>8, <1>9, <1>11 DEF Core

\* reset(): the charges that were left are gone.
LEMMA StopEndStep ==
    ASSUME BufferAssumption, Core, StopEnd
    PROVE  Core'
<1>1. /\ stopping > 0 /\ stopping' = stopping - 1 /\ started' = FALSE /\ tasks' = {} /\ value' = 0
      /\ UNCHANGED <<fate, queue, lock, waiters, error, getter, worker, carry, pending, doubled,
                     starts, stops, due>>
      /\ TypeOK /\ PendingExact /\ Carrying /\ NoOverlap /\ TargetKept
  BY DEF StopEnd, Reset, Core, buffer
<1>2. Fetching' = Fetching /\ Counted' = Counted
  BY <1>1 DEF Fetching, Counted
<1>3. PendingExact' /\ Carrying' /\ NoOverlap'
  BY <1>1, <1>2 DEF PendingExact, Carrying, NoOverlap, Overlap
<1>4. TypeOK'
  <2>1. started' \in BOOLEAN
    BY <1>1, Zenon
  <2>2. value' \in Int /\ stopping' \in Nat
    BY <1>1 DEF TypeOK
  <2> QED BY <1>1, <2>1, <2>2 DEF TypeOK
<1>5. ASSUME ~ doubled' PROVE value' >= 0 /\ Total' <= MaxSize
  <2>1. value >= 0 /\ Total <= MaxSize
    BY <1>1, <1>5 DEF TargetKept
  <2>2. /\ Total = Len(queue) + value + Cardinality(Fetching)
        /\ Total' = Len(queue) + 0 + Cardinality(Fetching)
    BY <1>1, <1>2 DEF Total
  <2>3. /\ Len(queue) \in Nat /\ value \in Int /\ Cardinality(Fetching) \in Nat
        /\ MaxSize \in Nat
    BY <1>1, FiniteWorkers DEF TypeOK, BufferAssumption
  <2> QED BY <1>1, <2>1, <2>2, <2>3
<1> QED BY <1>3, <1>4, <1>5 DEF Core, TargetKept

\* get_proposal() begins, perhaps with a request.
LEMMA EnterStep ==
    ASSUME BufferAssumption, Core, NEW u \in Getters, Enter(u)
    PROVE  Core'
<1>0. TypeOK /\ UNCHANGED <<carry, control>> /\ Len(queue) \in Nat
  BY DEF Enter, Core, TypeOK
<1>1. /\ fate' \in [Proposals -> {"market", "fetched", "buffered", "timed", "expired",
                                  "rejected", "taken", "lost"}]
      /\ queue' \in Seq(Proposals)
      /\ lock' \in Workers \cup Getters \cup {NoOne}
      /\ waiters' \in Seq(Getters)
      /\ error' \in BOOLEAN
      /\ getter' \in [Getters -> {"idle", "lock", "wait", "woken", "popped", "raised"}]
      /\ Len(queue') \in Nat /\ Len(queue') <= Len(queue)
      /\ queue = <<>> => queue' = queue
  <2>1. CASE Free
    BY <1>0, <2>1, LockedFacts DEF Enter
  <2>2. CASE ~ Free
    <3>1. getter' = [getter EXCEPT ![u] = "lock"] /\ UNCHANGED buffer
      BY <2>2 DEF Enter
    <3> QED BY <1>0, <3>1 DEF TypeOK, buffer
  <2> QED BY <2>1, <2>2
<1>2. CASE queue = <<>>
  <2>1. Request /\ queue' = queue
    BY <1>1, <1>2 DEF Enter
  <2>2. /\ worker' \in [Workers -> {"wait", "woken", "fill", "put", "timer", "failing", "dead"}]
        /\ value' \in Int /\ pending' = pending /\ doubled' \in BOOLEAN
    BY <2>1, RequestFacts
  <2>3. TypeOK'
    BY <1>0, <1>1, <2>2 DEF TypeOK, control, lifetime
  <2> QED BY <1>0, <2>1, <2>3, RequestKeeps DEF Core
<1>3. CASE queue # <<>>
  <2>1. UNCHANGED <<worker, charges>>
    BY <1>3 DEF Enter
  <2>2. TypeOK'
    BY <1>0, <1>1, <2>1 DEF TypeOK, control, lifetime, charges
  <2> QED BY <1>0, <1>1, <2>1, <2>2, QuietKeeps DEF Core
<1> QED BY <1>2, <1>3

\* A getter that waited goes on.
LEMMA ResumeStep ==
    ASSUME BufferAssumption, Core, NEW u \in Getters, Resume(u)
    PROVE  Core'
<1>1. TypeOK /\ Locked(u) /\ UNCHANGED <<worker, carry, charges, control>>
  BY DEF Resume, Core
<1>2. /\ fate' \in [Proposals -> {"market", "fetched", "buffered", "timed", "expired",
                                  "rejected", "taken", "lost"}]
      /\ queue' \in Seq(Proposals)
      /\ lock' \in Workers \cup Getters \cup {NoOne}
      /\ waiters' \in Seq(Getters)
      /\ error' \in BOOLEAN
      /\ getter' \in [Getters -> {"idle", "lock", "wait", "woken", "popped", "raised"}]
      /\ Len(queue') \in Nat /\ Len(queue') <= Len(queue)
  BY <1>1, LockedFacts
<1>3. TypeOK'
  BY <1>1, <1>2 DEF TypeOK, control, lifetime, charges
<1> QED BY <1>1, <1>2, <1>3, QuietKeeps DEF Core

\* get_proposal() returns, perhaps with a request.
LEMMA ReturnStep ==
    ASSUME BufferAssumption, Core, NEW u \in Getters, Return(u)
    PROVE  Core'
<1>1. /\ TypeOK /\ getter' = [getter EXCEPT ![u] = "idle"] /\ lock' = NoOne
      /\ UNCHANGED <<fate, queue, waiters, error, carry, control>>
      /\ Len(queue) \in Nat
  BY DEF Return, Core, TypeOK
<1>2. CASE Below
  <2>1. Request
    BY <1>2 DEF Return
  <2>2. /\ worker' \in [Workers -> {"wait", "woken", "fill", "put", "timer", "failing", "dead"}]
        /\ value' \in Int /\ pending' = pending /\ doubled' \in BOOLEAN
    BY <1>1, <2>1, RequestFacts
  <2>3. TypeOK'
    BY <1>1, <2>2 DEF TypeOK, control, lifetime
  <2> QED BY <1>1, <2>1, <2>3, RequestKeeps DEF Core
<1>3. CASE ~ Below
  <2>1. UNCHANGED <<worker, charges>>
    BY <1>3 DEF Return
  <2>2. TypeOK'
    BY <1>1, <2>1 DEF TypeOK, control, lifetime, charges
  <2> QED BY <1>1, <2>1, <2>2, QuietKeeps DEF Core
<1> QED BY <1>2, <1>3

\* get_proposal() is cancelled, or called again.
LEMMA CancelStep ==
    ASSUME BufferAssumption, Core, NEW u \in Getters, Cancel(u) \/ Retry(u)
    PROVE  Core'
<1>1. /\ TypeOK /\ getter' = [getter EXCEPT ![u] = "idle"]
      /\ UNCHANGED <<fate, queue, lock, error, worker, carry, charges, control>>
      /\ Len(queue) \in Nat
  BY DEF Cancel, Retry, Core, TypeOK, buffer
<1>2. waiters' = waiters \/ \E i \in 1..Len(waiters) : waiters' = RemoveAt(waiters, i)
  BY DEF Cancel, Retry, buffer
<1>3. waiters' \in Seq(Getters)
  BY <1>1, <1>2, RemoveAtProperties DEF TypeOK
<1>4. TypeOK'
  BY <1>1, <1>3 DEF TypeOK, charges, control, lifetime
<1> QED BY <1>1, <1>4, QuietKeeps DEF Core

\* A proposal expires.
LEMMA ExpireStep ==
    ASSUME BufferAssumption, Core, NEW p \in Proposals, Expire(p)
    PROVE  Core'
<1>1. /\ TypeOK /\ RemoveItem(p) /\ fate' = [fate EXCEPT ![p] = "expired"]
      /\ UNCHANGED <<lock, waiters, error, getter, worker, carry, charges, control>>
  BY DEF Expire, Core
<1>2. PICK i \in 1..Len(queue) : queue' = RemoveAt(queue, i)
  BY <1>1 DEF RemoveItem
<1>3. queue' \in Seq(Proposals) /\ Len(queue') = Len(queue) - 1 /\ Len(queue) \in Nat
  BY <1>1, <1>2, RemoveAtProperties DEF TypeOK
<1>4. TypeOK'
  BY <1>1, <1>3 DEF TypeOK, charges, control, lifetime
<1>5. Len(queue') \in Nat /\ Len(queue') <= Len(queue)
  BY <1>2, <1>3
<1> QED BY <1>1, <1>4, <1>5, QuietKeeps DEF Core

\* An expired proposal is rejected, with a request unless that raises.
LEMMA RejectStep ==
    ASSUME BufferAssumption, Core, NEW p \in Proposals, ExpireRequest(p) \/ ExpireRaises(p)
    PROVE  Core'
<1>1. /\ TypeOK /\ fate' = [fate EXCEPT ![p] = "rejected"]
      /\ UNCHANGED <<queue, lock, waiters, error, getter, carry, control>>
      /\ Len(queue) \in Nat
  BY DEF ExpireRequest, ExpireRaises, Core, TypeOK
<1>2. CASE Request
  <2>1. /\ worker' \in [Workers -> {"wait", "woken", "fill", "put", "timer", "failing", "dead"}]
        /\ value' \in Int /\ pending' = pending /\ doubled' \in BOOLEAN
    BY <1>1, <1>2, RequestFacts
  <2>2. TypeOK'
    BY <1>1, <2>1 DEF TypeOK, control, lifetime
  <2> QED BY <1>1, <1>2, <2>2, RequestKeeps DEF Core
<1>3. CASE UNCHANGED <<worker, charges>>
  <2>1. TypeOK'
    BY <1>1, <1>3 DEF TypeOK, control, lifetime, charges
  <2> QED BY <1>1, <1>3, <2>1, QuietKeeps DEF Core
<1> QED BY <1>2, <1>3 DEF ExpireRequest, ExpireRaises

\* The initial state: nothing was fetched yet.
LEMMA InitCore == BufferAssumption /\ Init => Core
<1> SUFFICES ASSUME BufferAssumption, Init PROVE Core
  OBVIOUS
<1>1. Cardinality(Fetching) = 0 /\ Cardinality(Counted) = 0
  BY NoneCounted DEF Init
<1>2. queue \in Seq(Proposals) /\ Len(queue) = 0 /\ waiters \in Seq(Getters)
  BY DEF Init
<1>3. MaxStarts \in Nat /\ MaxStops \in Nat /\ MaxSize \in Nat
  BY DEF BufferAssumption
<1>4. TypeOK
  <2>1. /\ fate \in [Proposals -> {"market", "fetched", "buffered", "timed", "expired",
                                   "rejected", "taken", "lost"}]
        /\ getter \in [Getters -> {"idle", "lock", "wait", "woken", "popped", "raised"}]
        /\ worker \in [Workers -> {"wait", "woken", "fill", "put", "timer", "failing", "dead"}]
        /\ carry \in [Workers -> Proposals \cup {NoProposal}]
    BY DEF Init
  <2>2. error \in BOOLEAN /\ started \in BOOLEAN /\ doubled \in BOOLEAN
    BY Zenon DEF Init
  <2>3. /\ value \in Int /\ pending \in Nat /\ due \in Nat /\ stopping \in Nat
        /\ starts \in 0..MaxStarts /\ stops \in 0..MaxStops /\ tasks \subseteq Workers
    BY <1>3 DEF Init
  <2>4. lock \in Workers \cup Getters \cup {NoOne}
    BY DEF Init
  <2> QED BY <1>2, <2>1, <2>2, <2>3, <2>4 DEF TypeOK
<1>5. PendingExact /\ Carrying /\ NoOverlap
  BY <1>1 DEF Init, PendingExact, Carrying, NoOverlap, Overlap
<1>6. Total = 0
  BY <1>1, <1>2 DEF Init, Total
<1>7. TargetKept
  BY <1>3, <1>6 DEF Init, TargetKept
<1> QED BY <1>4, <1>5, <1>7 DEF Core

\* Every step keeps Core.
LEMMA CoreStep == BufferAssumption /\ Core /\ [Next]_vars => Core'
<1> SUFFICES ASSUME BufferAssumption, Core, [Next]_vars PROVE Core'
  OBVIOUS
<1>1. ASSUME NEW u \in Getters, Get(u) PROVE Core'
  BY <1>1, EnterStep, ResumeStep, ReturnStep, CancelStep DEF Get
<1>2. ASSUME NEW w \in Workers, Work(w) PROVE Core'
  <2>1. CASE PutLocked(w)
    <3>1. carry[w] \in Proposals
      BY <2>1 DEF PutLocked, Core, Carrying
    <3> QED BY <2>1, <3>1, PutStep DEF PutLocked
  <2>2. CASE ErrorLocked(w)
    BY <2>2, SetErrorStep DEF ErrorLocked
  <2> QED BY <1>2, <2>1, <2>2, LookStep, FetchStep, TimerSetStep, TimerRaisesStep, FillRaisesStep
          DEF Work
<1>3. CASE UNCHANGED vars
  <2>1. UNCHANGED <<worker, carry, charges, control>> /\ queue' = queue /\ TypeOK
    BY <1>3 DEF vars, buffer, Core
  <2>2. Len(queue) \in Nat
    BY <2>1 DEF TypeOK
  <2>3. TypeOK'
    BY <1>3, <2>1 DEF TypeOK, vars, buffer, charges, control, lifetime
  <2> QED BY <2>1, <2>2, <2>3, QuietKeeps DEF Core
<1> QED BY <1>1, <1>2, <1>3, ExpireStep, RejectStep, StartStep, StopStep, StopEndStep DEF Next

\* Core holds in every reachable state.
LEMMA CoreInvariant == Spec => []Core
<1> USE BufferAssumption
<1> QED BY InitCore, CoreStep, PTL DEF Spec

-----------------------------------------------------------------------------
(* Honest. *)

\* Without its first element, a list without repetitions holds the others.
LEMMA TailHolds ==
    ASSUME NEW S, NEW s \in Seq(S), s # <<>>, IsInjective(s)
    PROVE  /\ IsInjective(Tail(s))
           /\ Contains(s, Head(s))
           /\ \A x : Contains(Tail(s), x) <=> Contains(s, x) /\ x # Head(s)
<1> DEFINE t == Tail(s)
<1>1. /\ t \in Seq(S) /\ Len(s) \in Nat /\ Len(s) >= 1 /\ Len(t) = Len(s) - 1
      /\ \A j \in 1..Len(t) : t[j] = s[j + 1]
      /\ Head(s) = s[1]
  BY HeadTailProperties
<1>2. /\ DOMAIN s = 1..Len(s) /\ DOMAIN t = 1..Len(t)
  BY <1>1, LenProperties
<1> HIDE DEF t
<1>3. \A i, j \in 1..Len(s) : s[i] = s[j] => i = j
  BY <1>2 DEF IsInjective
<1>4. IsInjective(t)
  <2> SUFFICES ASSUME NEW i \in 1..Len(t), NEW j \in 1..Len(t), t[i] = t[j] PROVE i = j
    BY <1>2 DEF IsInjective
  <2>1. i + 1 \in 1..Len(s) /\ j + 1 \in 1..Len(s) /\ s[i + 1] = s[j + 1]
    BY <1>1
  <2> QED BY <1>3, <2>1
<1>5. ASSUME NEW x, Contains(t, x) PROVE Contains(s, x) /\ x # Head(s)
  <2>1. PICK j \in 1..Len(t) : t[j] = x
    BY <1>5 DEF Contains
  <2>2. j + 1 \in 1..Len(s) /\ s[j + 1] = x /\ 1 \in 1..Len(s) /\ j + 1 # 1
    BY <1>1, <2>1
  <2> QED BY <1>1, <1>3, <2>2 DEF Contains
<1>6. ASSUME NEW x, Contains(s, x), x # Head(s) PROVE Contains(t, x)
  <2>1. PICK j \in 1..Len(s) : s[j] = x
    BY <1>6 DEF Contains
  <2>2. j # 1
    BY <1>1, <1>6, <2>1
  <2>3. j - 1 \in 1..Len(t) /\ (j - 1) + 1 = j
    BY <1>1, <2>2
  <2>4. t[j - 1] = x
    BY <1>1, <2>1, <2>3
  <2> QED BY <2>3, <2>4 DEF Contains
<1>7. Contains(s, Head(s))
  BY <1>1 DEF Contains
<1> QED BY <1>4, <1>5, <1>6, <1>7 DEF t

\* A list without repetitions gets another element.
LEMMA AppendHolds ==
    ASSUME NEW S, NEW s \in Seq(S), NEW y \in S, IsInjective(s), ~ Contains(s, y)
    PROVE  /\ IsInjective(Append(s, y))
           /\ \A x : Contains(Append(s, y), x) <=> Contains(s, x) \/ x = y
<1> DEFINE t == Append(s, y)
<1>1. /\ t \in Seq(S) /\ Len(s) \in Nat /\ Len(t) = Len(s) + 1
      /\ \A j \in 1..(Len(s) + 1) : t[j] = IF j <= Len(s) THEN s[j] ELSE y
  BY AppendProperties
<1>2. /\ DOMAIN s = 1..Len(s) /\ DOMAIN t = 1..Len(t)
  BY <1>1, LenProperties
<1> HIDE DEF t
<1>3. /\ \A i, j \in 1..Len(s) : s[i] = s[j] => i = j
      /\ \A i \in 1..Len(s) : s[i] # y
  BY <1>2 DEF IsInjective, Contains
<1>4. IsInjective(t)
  <2> SUFFICES ASSUME NEW i \in 1..Len(t), NEW j \in 1..Len(t), t[i] = t[j] PROVE i = j
    BY <1>2 DEF IsInjective
  <2> QED BY <1>1, <1>3
<1>5. ASSUME NEW x, Contains(t, x) PROVE Contains(s, x) \/ x = y
  BY <1>1, <1>5 DEF Contains
<1>6. ASSUME NEW x, Contains(s, x) \/ x = y PROVE Contains(t, x)
  <2>1. CASE Contains(s, x)
    <3>1. PICK j \in 1..Len(s) : s[j] = x
      BY <2>1 DEF Contains
    <3>2. j \in 1..Len(t) /\ t[j] = x
      BY <1>1, <3>1
    <3> QED BY <3>2 DEF Contains
  <2>2. CASE x = y
    <3>1. Len(t) \in 1..Len(t) /\ t[Len(t)] = x
      BY <1>1, <2>2
    <3> QED BY <3>1 DEF Contains
  <2> QED BY <1>6, <2>1, <2>2
<1> QED BY <1>4, <1>5, <1>6 DEF t

\* A list without repetitions loses the element at i, and no other.
LEMMA RemoveHolds ==
    ASSUME NEW S, NEW s \in Seq(S), NEW i \in 1..Len(s), IsInjective(s)
    PROVE  /\ IsInjective(RemoveAt(s, i))
           /\ \A x : Contains(RemoveAt(s, i), x) <=> Contains(s, x) /\ x # s[i]
<1> DEFINE t == RemoveAt(s, i)
<1>1. /\ t \in Seq(S) /\ Len(s) \in Nat /\ Len(t) = Len(s) - 1
      /\ \A j \in 1..(Len(s) - 1) : t[j] = IF j < i THEN s[j] ELSE s[j + 1]
  BY RemoveAtProperties, LenProperties
<1>2. /\ DOMAIN s = 1..Len(s) /\ DOMAIN t = 1..Len(t)
  BY <1>1, LenProperties
<1> HIDE DEF t
<1>3. \A j, k \in 1..Len(s) : s[j] = s[k] => j = k
  BY <1>2 DEF IsInjective
<1>4. IsInjective(t)
  <2> SUFFICES ASSUME NEW j \in 1..Len(t), NEW k \in 1..Len(t), t[j] = t[k] PROVE j = k
    BY <1>2 DEF IsInjective
  <2>1. PICK a \in 1..Len(s) : a = (IF j < i THEN j ELSE j + 1) /\ t[j] = s[a]
    BY <1>1
  <2>2. PICK b \in 1..Len(s) : b = (IF k < i THEN k ELSE k + 1) /\ t[k] = s[b]
    BY <1>1
  <2>3. a = b
    BY <1>3, <2>1, <2>2
  <2> QED BY <2>1, <2>2, <2>3
<1>5. ASSUME NEW x, Contains(t, x) PROVE Contains(s, x) /\ x # s[i]
  <2>1. PICK j \in 1..Len(t) : t[j] = x
    BY <1>5 DEF Contains
  <2>2. PICK k \in 1..Len(s) : s[k] = x /\ k # i
    BY <1>1, <2>1
  <2> QED BY <1>3, <2>2 DEF Contains
<1>6. ASSUME NEW x, Contains(s, x), x # s[i] PROVE Contains(t, x)
  <2>1. PICK k \in 1..Len(s) : s[k] = x
    BY <1>6 DEF Contains
  <2>2. CASE k < i
    <3>1. k \in 1..Len(t) /\ t[k] = x
      BY <1>1, <2>1, <2>2
    <3> QED BY <3>1 DEF Contains
  <2>3. CASE k > i
    <3>1. k - 1 \in 1..Len(t) /\ ~ (k - 1 < i) /\ (k - 1) + 1 = k
      BY <1>1, <2>1, <2>3
    <3>2. t[k - 1] = x
      BY <1>1, <2>1, <3>1
    <3> QED BY <3>1, <3>2 DEF Contains
  <2> QED BY <1>1, <1>6, <2>1, <2>2, <2>3
<1> QED BY <1>4, <1>5, <1>6 DEF t

\* A step that moves no proposal: no worker begins to put, and the lock is
\* kept or was free.
LEMMA StillKeeps ==
    ASSUME BufferAssumption, Honest, UNCHANGED <<fate, queue, lock, carry>>,
           \A w \in Workers : worker'[w] \in {"put", "timer"} => worker'[w] = worker[w],
           \A u \in Getters : getter'[u] = "popped" => getter[u] = "popped"
    PROVE  Honest'
<1>1. Locks'
  BY DEF Honest, Locks
<1>2. Fetched'
  BY DEF Honest, Fetched
<1>3. BufferHonest'
  BY DEF Honest, BufferHonest
<1> QED BY <1>1, <1>2, <1>3 DEF Honest

\* get() takes the first proposal, or none.
LEMMA LockedHonest ==
    ASSUME BufferAssumption, Core, Honest, NEW u \in Getters, lock = NoOne, Locked(u),
           UNCHANGED carry,
           \A w \in Workers : worker'[w] \in {"put", "timer"} => worker'[w] = worker[w]
    PROVE  Honest'
<1>0. TypeOK
  BY DEF Core
<1>1. CASE queue = <<>>
  <2>1. /\ UNCHANGED <<fate, queue, lock, carry>>
        /\ getter' = [getter EXCEPT ![u] = IF error THEN "raised" ELSE "wait"]
    BY <1>1 DEF Locked
  <2>2. \A v \in Getters : getter'[v] = "popped" => getter[v] = "popped"
    BY <1>0, <2>1 DEF TypeOK
  <2> QED BY <2>1, <2>2, StillKeeps
<1>2. CASE queue # <<>>
  <2>1. /\ queue' = Tail(queue) /\ lock' = u
        /\ fate' = [fate EXCEPT ![Head(queue)] = "taken"]
        /\ getter' = [getter EXCEPT ![u] = "popped"]
    BY <1>2 DEF Locked
  <2>2. /\ IsInjective(queue') /\ Contains(queue, Head(queue))
        /\ \A x : Contains(queue', x) <=> Contains(queue, x) /\ x # Head(queue)
    BY <1>0, <1>2, <2>1, TailHolds DEF Honest, BufferHonest, TypeOK
  <2>3. Head(queue) \in Proposals
    BY <1>0, <1>2, HeadTailProperties DEF TypeOK
  <2>4. /\ fate'[Head(queue)] = "taken"
        /\ \A p \in Proposals : p # Head(queue) => fate'[p] = fate[p]
        /\ fate[Head(queue)] \in {"buffered", "timed"}
    BY <1>0, <2>1, <2>2, <2>3 DEF TypeOK, Honest, BufferHonest
  <2>5. BufferHonest'
    BY <2>2, <2>4 DEF Honest, BufferHonest
  <2>6. \A w \in Workers : worker[w] # "timer"
    BY DEF Honest, Locks, BufferAssumption
  <2>7. \A v \in Getters : getter'[v] = "popped" => v = u
    BY <1>0, <2>1 DEF Honest, Locks, BufferAssumption, TypeOK
  <2>8. Locks'
    BY <2>1, <2>6, <2>7 DEF Locks
  <2>9. Fetched'
    BY <2>4, <2>6 DEF Fetched, Honest, Core, Carrying
  <2> QED BY <2>5, <2>8, <2>9 DEF Honest
<1> QED BY <1>1, <1>2

\* The steps of get_proposal().
LEMMA GetHonest ==
    ASSUME BufferAssumption, Core, Honest, NEW u \in Getters, Get(u)
    PROVE  Honest'
<1>0. TypeOK
  BY DEF Core
<1>1. CASE Enter(u)
  <2>1. \A w \in Workers : worker'[w] \in {"put", "timer"} => worker'[w] = worker[w]
    <3>1. CASE Request
      <4>1. PICK S \in SUBSET Asleep :
                worker' = [w \in Workers |-> IF w \in S THEN "woken" ELSE worker[w]]
        BY <3>1 DEF Request
      <4> QED BY <4>1
    <3>2. CASE ~ Request
      BY <1>1, <3>2 DEF Enter
    <3> QED BY <3>1, <3>2
  <2>2. CASE Free
    BY <1>1, <2>1, <2>2, LockedHonest DEF Enter, Free
  <2>3. CASE ~ Free
    <3>1. getter' = [getter EXCEPT ![u] = "lock"] /\ UNCHANGED <<fate, queue, lock, carry>>
      BY <1>1, <2>3 DEF Enter, buffer
    <3>2. \A v \in Getters : getter'[v] = "popped" => getter[v] = "popped"
      BY <1>0, <3>1 DEF TypeOK
    <3> QED BY <2>1, <3>1, <3>2, StillKeeps
  <2> QED BY <2>2, <2>3
<1>2. CASE Resume(u)
  BY <1>2, LockedHonest DEF Resume
<1>3. CASE Return(u)
  <2>1. /\ getter[u] = "popped" /\ getter' = [getter EXCEPT ![u] = "idle"] /\ lock' = NoOne
        /\ UNCHANGED <<fate, queue, carry>>
    BY <1>3 DEF Return
  <2>2. \A w \in Workers : worker'[w] \in {"put", "timer"} => worker'[w] = worker[w]
    <3>1. CASE Request
      <4>1. PICK S \in SUBSET Asleep :
                worker' = [w \in Workers |-> IF w \in S THEN "woken" ELSE worker[w]]
        BY <3>1 DEF Request
      <4> QED BY <4>1
    <3>2. CASE ~ Request
      BY <1>3, <3>2 DEF Return
    <3> QED BY <3>1, <3>2
  <2>3. lock = u
    BY <2>1 DEF Honest, Locks
  <2>4. \A w \in Workers : worker[w] # "timer"
    BY <2>3 DEF Honest, Locks, BufferAssumption
  <2>5. \A v \in Getters : getter'[v] # "popped"
    BY <1>0, <2>1, <2>3 DEF Honest, Locks, TypeOK
  <2>6. Locks'
    BY <2>2, <2>4, <2>5 DEF Locks
  <2>7. Fetched' /\ BufferHonest'
    BY <2>1, <2>2 DEF Honest, Fetched, BufferHonest
  <2> QED BY <2>6, <2>7 DEF Honest
<1>4. CASE Cancel(u) \/ Retry(u)
  <2>1. getter' = [getter EXCEPT ![u] = "idle"] /\ UNCHANGED <<fate, queue, lock, carry, worker>>
    BY <1>4 DEF Cancel, Retry, buffer
  <2>2. \A v \in Getters : getter'[v] = "popped" => getter[v] = "popped"
    BY <1>0, <2>1 DEF TypeOK
  <2> QED BY <2>1, <2>2, StillKeeps
<1> QED BY <1>1, <1>2, <1>3, <1>4 DEF Get

\* put() with the lock.
LEMMA PutHonest ==
    ASSUME BufferAssumption, Core, Honest, NEW w \in Workers, NEW p \in Proposals,
           lock = NoOne, Put(w, p),
           \/ worker[w] = "fill" /\ fate[p] = "market"
           \/ worker[w] = "put" /\ p = carry[w]
    PROVE  Honest'
<1>1. /\ TypeOK
      /\ queue' = Append(queue, p) /\ Notify
      /\ fate' = [fate EXCEPT ![p] = IF Suspends THEN "buffered" ELSE "timed"]
      /\ carry' = [carry EXCEPT ![w] = IF Suspends THEN p ELSE NoProposal]
      /\ Suspends \in BOOLEAN
  BY DEF Core, Put, BufferAssumption
<1>2. fate[p] \in {"market", "fetched"}
  BY DEF Honest, Fetched
<1>3. \A v \in Workers : v # w /\ worker[v] = "put" => carry[v] # p
  BY DEF Honest, Fetched
<1>4. /\ fate'[p] \in {"buffered", "timed"} /\ (Suspends => fate'[p] = "buffered")
      /\ \A q \in Proposals : q # p => fate'[q] = fate[q]
  BY <1>1 DEF TypeOK
<1>5. BufferHonest'
  <2>1. ~ Contains(queue, p)
    BY <1>2 DEF Honest, BufferHonest
  <2>2. /\ IsInjective(queue')
        /\ \A x : Contains(queue', x) <=> Contains(queue, x) \/ x = p
    BY <1>1, <2>1, AppendHolds DEF Honest, BufferHonest, TypeOK
  <2> QED BY <1>4, <2>2 DEF Honest, BufferHonest
<1>6. /\ \A v \in Workers : worker[v] # "timer"
      /\ \A u \in Getters : getter'[u] # "popped"
  <2>1. \A u \in Getters : getter[u] # "popped"
    BY DEF Honest, Locks, BufferAssumption
  <2>2. \A u \in Getters : getter'[u] = getter[u] \/ getter'[u] = "woken"
    BY <1>1, NotifyFacts
  <2>3. \A v \in Workers : worker[v] # "timer"
    BY DEF Honest, Locks, BufferAssumption
  <2> QED BY <2>1, <2>2, <2>3
<1>7. /\ \A v \in Workers : v # w => worker'[v] = worker[v] /\ carry'[v] = carry[v]
      /\ worker'[w] # "put"
      /\ worker'[w] = "timer" => lock' = w /\ Suspends /\ carry'[w] = p
  <2>1. \A v \in Workers : v # w => carry'[v] = carry[v]
    BY <1>1 DEF TypeOK
  <2>2. CASE Suspends
    <3>1. lock' = w /\ worker' = [worker EXCEPT ![w] = "timer"] /\ carry' = [carry EXCEPT ![w] = p]
      BY <1>1, <2>2 DEF Put
    <3> QED BY <1>1, <2>1, <2>2, <3>1 DEF TypeOK
  <2>3. CASE ~ Suspends
    <3>1. /\ worker' = [worker EXCEPT ![w] = "fill"] \/ worker' = [worker EXCEPT ![w] = "wait"]
      BY <2>3 DEF Put, Acquire
    <3> QED BY <1>1, <2>1, <3>1 DEF TypeOK
  <2> QED BY <1>1, <2>2, <2>3
<1>8. Locks'
  BY <1>6, <1>7 DEF Locks
<1>9. Fetched'
  <2>1. \A v \in Workers : worker'[v] = "put" =>
            /\ v # w /\ worker[v] = "put" /\ carry'[v] = carry[v]
            /\ carry[v] # p /\ carry[v] \in Proposals
    BY <1>3, <1>7 DEF Core, Carrying
  <2>2. \A v \in Workers : worker'[v] = "timer" => v = w /\ carry'[v] = p /\ fate'[p] = "buffered"
    BY <1>4, <1>6, <1>7
  <2> QED BY <1>4, <2>1, <2>2 DEF Honest, Fetched
<1> QED BY <1>5, <1>8, <1>9 DEF Honest

\* fill_func() returns while the lock is taken.
LEMMA FetchHonest ==
    ASSUME BufferAssumption, Core, Honest, NEW w \in Workers, NEW p \in Proposals, Fetch(w, p)
    PROVE  Honest'
<1>1. CASE Free
  BY <1>1, PutHonest DEF Fetch, Free
<1>2. CASE ~ Free
  <2>1. /\ TypeOK /\ fate[p] = "market" /\ worker[w] = "fill"
        /\ worker' = [worker EXCEPT ![w] = "put"]
        /\ carry' = [carry EXCEPT ![w] = p]
        /\ fate' = [fate EXCEPT ![p] = "fetched"]
        /\ UNCHANGED <<queue, lock, getter>>
    BY <1>2 DEF Fetch, Core
  <2>2. /\ fate'[p] = "fetched" /\ \A q \in Proposals : q # p => fate'[q] = fate[q]
        /\ worker'[w] = "put" /\ carry'[w] = p
        /\ \A v \in Workers : v # w => worker'[v] = worker[v] /\ carry'[v] = carry[v]
    BY <2>1 DEF TypeOK
  <2>3. \A v \in Workers : worker[v] \in {"put", "timer"} =>
            v # w /\ carry[v] # p /\ carry[v] \in Proposals
    BY <2>1 DEF Honest, Fetched, Core, Carrying
  <2>4. Locks'
    BY <2>1, <2>2 DEF Honest, Locks
  <2>5. Fetched'
    BY <2>2, <2>3 DEF Honest, Fetched
  <2>6. BufferHonest'
    BY <2>1, <2>2 DEF Honest, BufferHonest
  <2> QED BY <2>4, <2>5, <2>6 DEF Honest
<1> QED BY <1>1, <1>2

\* The proposal has its timer.
LEMMA TimerHonest ==
    ASSUME BufferAssumption, Core, Honest, NEW w \in Workers, TimerSet(w) \/ TimerRaises(w)
    PROVE  Honest'
<1>1. /\ TypeOK /\ worker[w] = "timer" /\ lock = w
      /\ carry[w] \in Proposals /\ fate[carry[w]] = "buffered"
      /\ lock' = NoOne /\ UNCHANGED <<queue, getter>>
      /\ carry' = [carry EXCEPT ![w] = NoProposal]
      /\ fate' = fate \/ fate' = [fate EXCEPT ![carry[w]] = "timed"]
  BY DEF TimerSet, TimerRaises, Core, Honest, Locks, Fetched
<1>2. \E s \in {"fill", "wait", "dead"} : worker' = [worker EXCEPT ![w] = s]
  BY DEF TimerSet, TimerRaises, Acquire
<1>3. /\ \A v \in Workers : v # w => worker'[v] = worker[v] /\ carry'[v] = carry[v]
      /\ worker'[w] \notin {"put", "timer"}
  BY <1>1, <1>2 DEF TypeOK
<1>4. /\ \A v \in Workers : v # w => worker[v] # "timer"
      /\ \A u \in Getters : getter[u] # "popped"
  BY <1>1 DEF Honest, Locks, BufferAssumption
<1>5. /\ fate'[carry[w]] \in {"buffered", "timed"}
      /\ \A q \in Proposals : q # carry[w] => fate'[q] = fate[q]
  BY <1>1 DEF TypeOK
<1>6. Locks'
  BY <1>1, <1>3, <1>4 DEF Locks
<1>7. Fetched'
  <2>1. \A v \in Workers : worker'[v] = "put" =>
            /\ v # w /\ worker[v] = "put" /\ carry'[v] = carry[v]
            /\ carry[v] # carry[w] /\ carry[v] \in Proposals
    BY <1>1, <1>3 DEF Honest, Fetched, Core, Carrying
  <2>2. \A v \in Workers : worker'[v] # "timer"
    BY <1>3, <1>4
  <2> QED BY <1>5, <2>1, <2>2 DEF Honest, Fetched
<1>8. BufferHonest'
  BY <1>1, <1>5 DEF Honest, BufferHonest
<1> QED BY <1>6, <1>7, <1>8 DEF Honest

\* A worker looks for a charge, or fails.
LEMMA LookHonest ==
    ASSUME BufferAssumption, Core, Honest, NEW w \in Workers,
           Look(w) \/ FillRaises(w) \/ ErrorLocked(w)
    PROVE  Honest'
<1>1. TypeOK /\ UNCHANGED <<fate, queue, lock, carry>>
  BY DEF Core, Look, FillRaises, ErrorLocked, SetError, buffer
<1>2. \E s \in {"fill", "wait", "failing", "dead"} : worker' = [worker EXCEPT ![w] = s]
  BY DEF Look, Acquire, FillRaises, ErrorLocked, SetError
<1>3. \A v \in Workers : worker'[v] \in {"put", "timer"} => worker'[v] = worker[v]
  BY <1>1, <1>2 DEF TypeOK
<1>4. \A u \in Getters : getter'[u] = "popped" => getter[u] = "popped"
  <2>1. getter' = getter \/ Notify
    BY DEF Look, FillRaises, ErrorLocked, SetError, buffer
  <2> QED BY <1>1, <2>1, NotifyFacts
<1> QED BY <1>1, <1>3, <1>4, StillKeeps

\* The steps of the workers.
LEMMA WorkHonest ==
    ASSUME BufferAssumption, Core, Honest, NEW w \in Workers, Work(w)
    PROVE  Honest'
<1>1. CASE PutLocked(w)
  <2>1. carry[w] \in Proposals
    BY <1>1 DEF PutLocked, Core, Carrying
  <2> QED BY <1>1, <2>1, PutHonest DEF PutLocked
<1> QED BY <1>1, FetchHonest, TimerHonest, LookHonest DEF Work

\* A proposal that expires leaves the buffer.
LEMMA ExpireHonest ==
    ASSUME BufferAssumption, Core, Honest, NEW p \in Proposals, Expire(p)
    PROVE  Honest'
<1>1. /\ TypeOK /\ fate[p] = "timed" /\ lock = NoOne
      /\ RemoveItem(p) /\ fate' = [fate EXCEPT ![p] = "expired"]
      /\ UNCHANGED <<lock, getter, worker, carry>>
  BY DEF Expire, Core
<1>2. PICK i \in 1..Len(queue) : queue[i] = p /\ queue' = RemoveAt(queue, i)
  BY <1>1 DEF RemoveItem
<1>3. IsInjective(queue') /\ \A x : Contains(queue', x) <=> Contains(queue, x) /\ x # p
  BY <1>1, <1>2, RemoveHolds DEF TypeOK, Honest, BufferHonest
<1>4. fate'[p] = "expired" /\ \A q \in Proposals : q # p => fate'[q] = fate[q]
  BY <1>1 DEF TypeOK
<1>5. BufferHonest'
  BY <1>3, <1>4 DEF Honest, BufferHonest
<1>6. Locks'
  BY <1>1 DEF Honest, Locks
<1>7. Fetched'
  BY <1>1, <1>4 DEF Honest, Fetched, Core, Carrying
<1> QED BY <1>5, <1>6, <1>7 DEF Honest

\* An expired proposal is rejected.
LEMMA RejectHonest ==
    ASSUME BufferAssumption, Core, Honest, NEW p \in Proposals,
           ExpireRequest(p) \/ ExpireRaises(p)
    PROVE  Honest'
<1>1. /\ TypeOK /\ fate[p] = "expired" /\ fate' = [fate EXCEPT ![p] = "rejected"]
      /\ UNCHANGED <<queue, lock, getter, carry>>
  BY DEF ExpireRequest, ExpireRaises, Core
<1>2. \A w \in Workers : worker'[w] \in {"put", "timer"} => worker'[w] = worker[w]
  <2>1. CASE Request
    <3>1. PICK S \in SUBSET Asleep :
              worker' = [w \in Workers |-> IF w \in S THEN "woken" ELSE worker[w]]
      BY <2>1 DEF Request
    <3> QED BY <3>1
  <2>2. CASE worker' = worker
    BY <2>2
  <2> QED BY <2>1, <2>2 DEF ExpireRequest, ExpireRaises
<1>3. fate'[p] = "rejected" /\ \A q \in Proposals : q # p => fate'[q] = fate[q]
  BY <1>1 DEF TypeOK
<1>4. BufferHonest'
  BY <1>1, <1>3 DEF Honest, BufferHonest
<1>5. Locks'
  BY <1>1, <1>2 DEF Honest, Locks
<1>6. Fetched'
  BY <1>1, <1>2, <1>3 DEF Honest, Fetched, Core, Carrying
<1> QED BY <1>4, <1>5, <1>6 DEF Honest

\* stop() loses what its workers had not put.
LEMMA StopHonest ==
    ASSUME BufferAssumption, Core, Honest, NEW fails \in BOOLEAN, Stop(fails)
    PROVE  Honest'
<1>1. /\ worker' = [w \in Workers |-> IF w \in tasks THEN "dead" ELSE worker[w]]
      /\ lock' = IF lock \in tasks THEN NoOne ELSE lock
      /\ carry' = [w \in Workers |-> IF w \in tasks THEN NoProposal ELSE carry[w]]
      /\ UNCHANGED <<queue, getter>>
      /\ TypeOK
  BY DEF Stop, Core
<1>2. \A p \in Proposals :
        fate'[p] = IF \E w \in tasks : worker[w] = "put" /\ carry[w] = p
                   THEN "lost" ELSE fate[p]
  BY DEF Stop
<1>3. \A w \in Workers : worker'[w] \in {"put", "timer"} =>
        w \notin tasks /\ worker'[w] = worker[w] /\ carry'[w] = carry[w]
  BY <1>1
<1>4. \A p \in Proposals : fate[p] # "fetched" => fate'[p] = fate[p]
  BY <1>1, <1>2 DEF Honest, Fetched, TypeOK
<1>5. \A p \in Proposals : fate[p] = "fetched" => fate'[p] \in {"fetched", "lost"}
  BY <1>2
<1>6. \A w \in Workers : worker'[w] = "put" => fate'[carry'[w]] = "fetched"
  <2>1. ASSUME NEW w \in Workers, worker'[w] = "put"
        PROVE  fate'[carry[w]] = "fetched"
    <3>1. w \notin tasks /\ worker[w] = "put" /\ carry[w] \in Proposals
      BY <1>3, <2>1 DEF Core, Carrying
    <3>2. fate[carry[w]] = "fetched"
      BY <3>1 DEF Honest, Fetched
    <3>3. ~ \E v \in tasks : worker[v] = "put" /\ carry[v] = carry[w]
      BY <1>1, <3>1 DEF Honest, Fetched, TypeOK
    <3> QED BY <1>2, <3>1, <3>2, <3>3
  <2> QED BY <1>3, <2>1
<1>7. Locks'
  BY <1>1, <1>3 DEF Honest, Locks, BufferAssumption, TypeOK
<1>8. Fetched'
  BY <1>3, <1>4, <1>6 DEF Honest, Fetched
<1>9. BufferHonest'
  BY <1>1, <1>4, <1>5 DEF Honest, BufferHonest
<1> QED BY <1>7, <1>8, <1>9 DEF Honest

\* Every step keeps Honest.
LEMMA HonestStep == BufferAssumption /\ Core /\ Honest /\ [Next]_vars => Honest'
<1> SUFFICES ASSUME BufferAssumption, Core, Honest, [Next]_vars PROVE Honest'
  OBVIOUS
<1>1. ASSUME NEW fill \in BOOLEAN, Start(fill) PROVE Honest'
  <2>1. /\ UNCHANGED <<fate, queue, lock, carry, getter>>
        /\ \A w \in Workers : worker'[w] \in {"put", "timer"} => worker'[w] = worker[w]
    BY <1>1 DEF Start, buffer
  <2> QED BY <2>1, StillKeeps
<1>2. CASE StopEnd \/ UNCHANGED vars
  <2>1. UNCHANGED <<fate, queue, lock, carry, getter, worker>>
    BY <1>2 DEF StopEnd, vars, buffer
  <2> QED BY <2>1, StillKeeps
<1> QED BY <1>1, <1>2, GetHonest, WorkHonest, ExpireHonest, RejectHonest, StopHonest DEF Next

\* An empty buffer is honest.
LEMMA InitHonest == BufferAssumption /\ Init => Honest
<1> SUFFICES ASSUME BufferAssumption, Init PROVE Honest
  OBVIOUS
<1>1. Locks /\ Fetched
  BY DEF Init, Locks, Fetched
<1>2. BufferHonest
  <2>1. queue = <<>> /\ Len(queue) = 0 /\ DOMAIN queue = {}
    BY DEF Init
  <2>2. IsInjective(queue) /\ \A p : ~ Contains(queue, p)
    BY <2>1 DEF IsInjective, Contains
  <2>3. \A p \in Proposals : fate[p] = "market"
    BY DEF Init
  <2> QED BY <2>2, <2>3 DEF BufferHonest
<1> QED BY <1>1, <1>2 DEF Honest

\* Core and Honest hold in every reachable state.
LEMMA Invariant == Spec => [](Core /\ Honest)
<1> USE BufferAssumption
<1>1. Init => Core /\ Honest
  BY InitCore, InitHonest
<1>2. Core /\ Honest /\ [Next]_vars => (Core /\ Honest)'
  BY CoreStep, HonestStep
<1> QED BY <1>1, <1>2, PTL DEF Spec

-----------------------------------------------------------------------------
(* The theorems. *)

\* Every variable keeps its type: nobody waits in the wrong list, and the
\* pending count is never negative, so that release() never complains.
THEOREM TypeCorrect == Spec => []TypeOK
<1>1. Core => TypeOK
  BY DEF Core
<1> QED BY <1>1, CoreInvariant, PTL

\* The pending count is that of the workers between acquire() and release(),
\* however workers fail and are cancelled.
THEOREM PendingIsExact == Spec => []PendingExact
<1>1. Core => PendingExact
  BY DEF Core
<1> QED BY <1>1, CoreInvariant, PTL

\* Charges are never negative, and proposals kept, asked for and being fetched
\* never more than max_size, however starts, failures and overlapping stops
\* meet, until something is requested while a proposal is stored and pending.
THEOREM TargetNeverExceeded == Spec => []TargetKept
<1>1. Core => TargetKept
  BY DEF Core
<1> QED BY <1>1, CoreInvariant, PTL

\* When get_expiration_func does not suspend, nothing is ever requested at
\* such a time, and the buffer itself stays within max_size for ever.  It
\* need not when get_expiration_func suspends.
THEOREM BoundedWithoutSuspension == Spec => [](~ Suspends => BufferBounded)
<1>1. Core => (~ Suspends => BufferBounded)
  <2> SUFFICES ASSUME Core, ~ Suspends PROVE BufferBounded
    OBVIOUS
  <2>1. value >= 0 /\ Total <= MaxSize
    BY DEF Core, NoOverlap, TargetKept
  <2>2. Cardinality(Fetching) \in Nat /\ Len(queue) \in Nat /\ value \in Int /\ MaxSize \in Nat
    BY BufferAssumption, FiniteWorkers DEF Core, TypeOK, BufferAssumption
  <2> QED BY <2>1, <2>2 DEF Total, BufferBounded
<1> QED BY <1>1, CoreInvariant, PTL

\* A proposal is in the buffer exactly from its put until it is taken or
\* expires, and only once: two getters never get the same one.
THEOREM BufferIsHonest == Spec => []BufferHonest
<1>1. Honest => BufferHonest
  BY DEF Honest
<1> QED BY <1>1, Invariant, PTL

\* The pending count and the content of the buffer together.
THEOREM BufferIsExact == Spec => []BufferExact
BY PendingIsExact, BufferIsHonest, PTL DEF BufferExact

-----------------------------------------------------------------------------
(***************************************************************************)
(* Negotiation: the tree of proposals and what the callers bargain.        *)
(*                                                                         *)
(* A provider's first offer is taken from initialProposals once, and who   *)
(* takes it is the only one that ever works on the exchange with this      *)
(* provider: `Apart` and `Over` say so.  Hence our proposals of an         *)
(* exchange are made one after the other, nobody sets the parent of one    *)
(* twice, and what was returned or rejected is never taken up again.       *)
(* Events of one proposal come once, which keeps the assertions of the     *)
(* tree from failing, whichever of respond() and its answer is first.      *)
(***************************************************************************)

Events == [kind : {"proposal", "rejected"}, of : Exchanges]
Values == [Terms -> Int]
DemandData == [terms : Values \cup {BaseDemand.terms}, platform : DemandPlatforms \cup {None}]
InHand == {"plugin", "run", "send", "reject"}
OnItsWay == {"sent", "wait", "asleep"}
Resting == {"idle", "source", "raised"}

NegotiationTypes ==
    /\ made \subseteq Exchanges
    /\ terms \in [Exchanges -> Values \cup {None}]
    /\ inbox \in Seq(Events) /\ heard \subseteq Events
    /\ known \subseteq Exchanges
    /\ parent \in [Exchanges -> Exchanges \cup {None, "demand"}]
    /\ children \in [Exchanges -> SUBSET Exchanges]
    /\ ended \in [Exchanges -> {"no", "rejected", "closed"}]
    /\ initialProposals \in Seq(Exchanges)
    /\ pc \in [Callers -> InHand \cup OnItsWay \cup Resting]
    /\ level \in [Callers -> 1..Len(Chain)]
    /\ offer \in [Callers -> Exchanges \cup {None}]
    /\ demand \in [Callers -> DemandData]
    /\ returned \in Seq([offer : Exchanges, demand : DemandData])

Waiting(q) == \E i \in 1..Len(initialProposals) : initialProposals[i] = q

\* The first offer of a provider was taken by a caller, ...
Begun(p) == <<p, 0>> \in known /\ ~ Waiting(<<p, 0>>)

\* ... who has left it for good.
Over(p) ==
    /\ Begun(p)
    /\ \A g \in Callers : offer[g] # None /\ offer[g][1] = p => pc[g] \in Resting

MadeInOrder == \A q \in made : Initial(q) \/ Before(q) \in made

InboxFresh ==
    /\ \A i \in 1..Len(inbox) :
          IF inbox[i].kind = "rejected" THEN inbox[i].of \in Ours
                                        ELSE inbox[i].of \in made \ (Ours \cup known)
    /\ \A i, j \in 1..Len(inbox) : inbox[i].kind = "proposal" /\ inbox[i] = inbox[j] => i = j

TreeRight ==
    /\ known \subseteq made \cup Ours
    /\ \A q \in Exchanges : parent[q] # None => q \in known \cap made
    /\ \A q \in Exchanges : children[q] \subseteq {After(q)} \cap made
    /\ \A q \in known :
          IF Initial(q) THEN parent[q] = "demand" ELSE parent[q] \in {None, Before(q)}

HeardKept ==
    \A e \in heard :
        IF e.kind = "rejected" THEN ended[e.of] # "no"
        ELSE Initial(e.of) \/ e.of \in children[Before(e.of)]

InitialsOnce ==
    /\ \A i \in 1..Len(initialProposals) :
          Initial(initialProposals[i]) /\ initialProposals[i] \in known
    /\ \A i, j \in 1..Len(initialProposals) :
          initialProposals[i] = initialProposals[j] => i = j

OursBegun == \A q \in made \cap Ours : Begun(q[1])

\* Two callers are never at the same provider, nor were they lately.
Apart ==
    \A g, h \in Callers :
        offer[g] # None /\ offer[h] # None /\ offer[g][1] = offer[h][1] => g = h

\* What the next counter-proposal asks for, or what both sides have named.
Named(g) ==
    /\ demand[g].terms \in Values
    /\ \A t \in Terms : demand[g].terms[t] >= Minimal[t]
    /\ demand[g].platform \in CommonPlatforms(offer[g][1])

\* Converges: u is our answer to w, the offer for v.
Nearer(u, v, w) == \E t \in Terms : u[t] < v[t] \/ w[t] > v[t]

Negotiates(l) == l \in 1..Len(Chain) /\ Chain[l] = "negotiate"

OfferRight(g) == offer[g] # None =>
    /\ offer[g] \in made \ Ours /\ Begun(offer[g][1])
    /\ \A q \in made \cap Ours : q[1] = offer[g][1] =>
          q[2] <= offer[g][2] + 1 /\ (pc[g] \in InHand => q[2] < offer[g][2])

Active(g) == pc[g] \notin Resting =>
    /\ offer[g] # None
    /\ \A l \in 1..Len(Chain) :
          l < level[g] /\ Chain[l] # "negotiate" => ~ Dropped(Chain[l], offer[g][1])
    /\ pc[g] \notin {"plugin", "reject"} => Negotiates(level[g])

\* Both sides have named the same terms.
Settled(g) ==
    /\ ~ Initial(offer[g]) /\ Named(g)
    /\ terms[offer[g]] = demand[g].terms /\ terms[Before(offer[g])] = demand[g].terms

Bargain(g) ==
    /\ pc[g] = "plugin" =>
          IF \E l \in 1..Len(Chain) : Negotiates(l) /\ l < level[g]
          THEN Settled(g) ELSE Initial(offer[g])
    /\ pc[g] = "run" =>
          IF Initial(offer[g]) THEN demand[g] = BaseDemand
          ELSE Named(g) /\ terms[Before(offer[g])] = demand[g].terms
    /\ pc[g] = "send" =>
          /\ Named(g)
          /\ ~ Initial(offer[g]) =>
                Nearer(demand[g].terms, terms[Before(offer[g])], terms[offer[g]])
    /\ pc[g] \in OnItsWay =>
          Named(g) /\ After(offer[g]) \in made /\ terms[After(offer[g])] = demand[g].terms
    /\ pc[g] = "sent" => parent[After(offer[g])] = None

IsReturned(q) == \E i \in 1..Len(returned) : returned[i].offer = q

Left(g) == pc[g] \in Resting /\ offer[g] # None /\ ~ Initial(offer[g]) =>
    After(offer[g]) \in made \/ offer[g] \in told \cup failed \/ IsReturned(offer[g])

CallerRight(g) == OfferRight(g) /\ Active(g) /\ Bargain(g) /\ Left(g)

ToldOver == \A q \in told \ Ours : Over(q[1])

ReturnedRight ==
    \A i \in 1..Len(returned) :
        LET q == returned[i].offer
        IN  /\ Over(q[1])
            /\ q \in made \ Ours /\ ~ Initial(q) /\ q \notin told /\ After(q) \notin made
            /\ \A l \in 1..Len(Chain) : Chain[l] # "negotiate" => ~ Dropped(Chain[l], q[1])
            /\ returned[i].demand.platform \in CommonPlatforms(q[1])
            /\ terms[q] = terms[Before(q)] /\ terms[q] \in Values
            /\ \A t \in Terms : terms[q][t] >= Minimal[t]
            /\ \A j \in 1..Len(returned) : returned[j].offer = q => i = j

NegotiationInv ==
    /\ NegotiationTypes
    /\ MadeInOrder /\ InboxFresh /\ TreeRight /\ HeardKept /\ InitialsOnce
    /\ OursBegun /\ Apart /\ (\A g \in Callers : CallerRight(g))
    /\ ToldOver /\ ReturnedRight /\ Converges

-----------------------------------------------------------------------------

\* The numbers of an exchange.
LEMMA Numbers ==
    ASSUME NegotiationAssumption, NEW q \in Exchanges
    PROVE  /\ q = <<q[1], q[2]>> /\ q[1] \in Providers /\ q[2] \in Nat /\ q[2] <= MaxLen
           /\ Before(q)[1] = q[1] /\ After(q)[1] = q[1] /\ After(q)[2] = q[2] + 1
           /\ Before(q)[2] = q[2] - 1
           /\ Before(After(q)) = q /\ After(Before(q)) = q /\ ~ Initial(After(q))
           /\ After(q)[2] <= MaxLen => After(q) \in Exchanges
           /\ ~ Initial(q) => Before(q) \in Exchanges
           /\ Initial(q) => q = <<q[1], 0>>
<1>1. /\ q = <<q[1], q[2]>> /\ q[1] \in Providers /\ q[2] \in Nat /\ q[2] <= MaxLen
  BY DEF Exchanges, NegotiationAssumption
<1> QED
  BY <1>1 DEF Before, After, Initial, Exchanges, NegotiationAssumption

\* Offers of the provider and our proposals alternate.
LEMMA Alternate ==
    ASSUME NegotiationAssumption, NEW q \in Exchanges
    PROVE  /\ Initial(q) => q \notin Ours
           /\ ~ Initial(q) => (Before(q) \in Ours <=> q \notin Ours)
           /\ After(q) \in Exchanges => (After(q) \in Ours <=> q \notin Ours)
<1>1. q[2] \in Nat /\ Before(q)[2] = q[2] - 1 /\ After(q)[2] = q[2] + 1
      /\ (~ Initial(q) => Before(q) \in Exchanges)
  BY Numbers
<1>2. \A n \in Int : ((n + 1) % 2 = 1 <=> n % 2 # 1) /\ ((n - 1) % 2 = 1 <=> n % 2 # 1)
  OBVIOUS
<1>3. 0 % 2 # 1
  OBVIOUS
<1>4. \A r \in Exchanges : r \in Ours <=> r[2] % 2 = 1
  BY DEF Ours
<1>5. Initial(q) => q \notin Ours
  BY <1>3, <1>4 DEF Initial
<1> PICK n \in Int : n = q[2]
  BY <1>1
<1>6. ((n + 1) % 2 = 1 <=> n % 2 # 1) /\ ((n - 1) % 2 = 1 <=> n % 2 # 1)
  BY <1>2
<1>7. ~ Initial(q) => (Before(q) \in Ours <=> q \notin Ours)
  <2>1. ~ Initial(q) => (Before(q) \in Ours <=> (n - 1) % 2 = 1)
    BY <1>1, <1>4
  <2> QED
    BY <1>4, <1>6, <2>1
<1>8. After(q) \in Exchanges => (After(q) \in Ours <=> q \notin Ours)
  <2>1. After(q) \in Exchanges => (After(q) \in Ours <=> (n + 1) % 2 = 1)
    BY <1>1, <1>4
  <2> QED
    BY <1>4, <1>6, <2>1
<1> QED
  BY <1>5, <1>7, <1>8

\* The tail of a list, element by element.
LEMMA TailIs ==
    ASSUME NEW S, NEW s \in Seq(S), s # <<>>
    PROVE  /\ Tail(s) \in Seq(S) /\ Len(Tail(s)) = Len(s) - 1 /\ Len(s) \in Nat \ {0}
           /\ Head(s) = s[1] /\ Head(s) \in S
           /\ \A i \in 1..Len(Tail(s)) : Tail(s)[i] = s[i + 1] /\ i + 1 \in 1..Len(s)
<1>1. Len(s) \in Nat /\ Len(s) # 0
  BY EmptySeq, LenProperties
<1>2. Tail(s) \in Seq(S) /\ Len(Tail(s)) = Len(s) - 1
      /\ Head(s) = s[1] /\ Head(s) \in S /\ \A i \in 1..Len(Tail(s)) : Tail(s)[i] = s[i + 1]
  BY HeadTailProperties, <1>1
<1> QED
  BY <1>1, <1>2

\* A list with one more element.
LEMMA AppendIs ==
    ASSUME NEW S, NEW s \in Seq(S), NEW x \in S
    PROVE  /\ Append(s, x) \in Seq(S) /\ Len(Append(s, x)) = Len(s) + 1 /\ Len(s) \in Nat
           /\ \A i \in 1..Len(s) : Append(s, x)[i] = s[i] /\ i \in 1..Len(Append(s, x))
           /\ Append(s, x)[Len(s) + 1] = x
<1>1. Len(s) \in Nat
  BY LenProperties
<1> QED
  BY <1>1, AppendProperties

-----------------------------------------------------------------------------
(* The negotiators.                                                        *)

\* A new value is not below the minimum; it is the old one only if that was
\* offered, and below it if less was offered.
LEMMA NewValueRight ==
    ASSUME NegotiationAssumption, NEW offered \in Int, NEW previous, NEW minimal \in Nat,
           NEW optimal \in Nat, minimal <= optimal, NEW q,
           Initial(q) => previous = None,
           ~ Initial(q) => previous \in Int /\ previous >= minimal,
           NEW v \in NewValues(offered, previous, minimal, optimal, Initial(q))
    PROVE  /\ v \in Int /\ v >= minimal
           /\ ~ Initial(q) /\ previous # None /\ offered # previous =>
                 v # previous /\ (v < previous \/ offered > previous)
<1>1. CASE previous = None \/ Initial(q)
  <2>1. v = Max2(offered, Max2(optimal, IF previous = None THEN optimal ELSE previous))
    BY <1>1 DEF NewValues
  <2> QED
    BY <1>1, <2>1 DEF Max2
<1>2. CASE ~ (previous = None \/ Initial(q))
  <2>1. CASE offered >= previous
    BY <1>2, <2>1 DEF NewValues
  <2>2. CASE offered < previous
    <3>1. previous # minimal /\ v = Adjusted(offered, previous, minimal)
      BY <1>2, <2>2 DEF NewValues
    <3>2. MinAdjustment \in Nat \ {0} /\ Factor \in Int
      BY DEF NegotiationAssumption
    <3>3. CeilPercent(previous - offered) \in Int
      <4> DEFINE n == (previous - offered) * Factor + 99
      <4>1. n \in Int
        BY <1>2, <3>2
      <4>2. \A m \in Int : m \div 100 \in Int
        OBVIOUS
      <4> HIDE DEF n
      <4>3. n \div 100 \in Int
        BY <4>1, <4>2
      <4> QED
        BY <4>3 DEF CeilPercent, n
    <3> HIDE DEF CeilPercent
    <3>4. Max2(MinAdjustment, CeilPercent(previous - offered)) \in Nat \ {0}
      BY <3>2, <3>3 DEF Max2
    <3>5. v = Max2(previous - Max2(MinAdjustment, CeilPercent(previous - offered)),
                   Max2(minimal, offered))
      BY <3>1 DEF Adjusted
    <3>6. Max2(minimal, offered) \in Int /\ Max2(minimal, offered) >= minimal
          /\ Max2(minimal, offered) < previous
      BY <1>2, <2>2, <3>1 DEF Max2
    <3> DEFINE a == Max2(MinAdjustment, CeilPercent(previous - offered))
               b == Max2(minimal, offered)
    <3>7. a \in Nat \ {0} /\ b \in Int /\ b >= minimal /\ b < previous /\ v = Max2(previous - a, b)
      BY <3>4, <3>5, <3>6
    <3> HIDE DEF a, b
    <3> QED
      BY <1>2, <2>2, <3>7 DEF Max2
  <2> QED
    BY <1>2, <2>1, <2>2
<1> QED
  BY <1>1, <1>2

\* What a bargaining caller has before the negotiators run.
LEMMA NegotiatedRight ==
    ASSUME NegotiationAssumption, NEW q \in Exchanges, NEW d \in DemandData,
           terms \in [Exchanges -> Values \cup {None}],
           Initial(q) => d = BaseDemand,
           ~ Initial(q) => /\ d.terms \in Values
                           /\ \A t \in Terms : d.terms[t] >= Minimal[t]
                           /\ d.platform \in CommonPlatforms(q[1]),
           NEW e \in Negotiated(d, q)
    PROVE  /\ e \in DemandData /\ e.terms \in Values
           /\ \A t \in Terms : e.terms[t] >= Minimal[t]
           /\ e.platform \in CommonPlatforms(q[1])
           /\ ~ Initial(q) /\ e = d => terms[q] = d.terms
           /\ ~ Initial(q) /\ e # d => Nearer(e.terms, d.terms, terms[q])
<1> DEFINE o == terms[q]
<1>0. None \notin DemandPlatforms /\ None \notin Int
      /\ \A t \in Terms : Minimal[t] \in Nat /\ Optimal[t] \in Nat /\ Minimal[t] <= Optimal[t]
  BY DEF NegotiationAssumption
<1>1. PICK f \in PlatformNegotiator(d, q[1]) : e \in MidAgreementPayments(f, o, Initial(q))
  BY DEF Negotiated
<1>2. /\ f \in DemandData /\ f.terms = d.terms /\ f.platform \in CommonPlatforms(q[1])
      /\ ~ Initial(q) => f = d
  <2>1. CASE d.platform # None
    <3>1. ~ Initial(q)
      BY <2>1 DEF BaseDemand
    <3> QED
      BY <2>1, <3>1, <1>1 DEF PlatformNegotiator
  <2>2. CASE d.platform = None
    <3>1. PICK x \in CommonPlatforms(q[1]) : f = [d EXCEPT !.platform = x]
      BY <1>1, <2>2 DEF PlatformNegotiator
    <3>2. x \in DemandPlatforms
      BY <3>1 DEF CommonPlatforms
    <3>3. f \in DemandData /\ f.terms = d.terms /\ f.platform = x
      BY <3>1, <3>2 DEF DemandData
    <3>4. Initial(q)
      BY <1>0, <2>2 DEF CommonPlatforms
    <3> QED
      BY <3>1, <3>3, <3>4
  <2> QED
    BY <2>1, <2>2
<1>3. o \in Values
  BY <1>1 DEF MidAgreementPayments
<1>4. Initial(q) => \A t \in Terms : d.terms[t] = None
  BY DEF BaseDemand
<1> HIDE DEF o
<1>5. CASE o = f.terms
  <2>1. e = f
    BY <1>1, <1>3, <1>5 DEF MidAgreementPayments
  <2>2. Initial(q) => Terms = {}
    BY <1>0, <1>2, <1>3, <1>4, <1>5 DEF Values
  <2> QED
    BY <1>2, <1>3, <1>5, <2>1, <2>2 DEF o
<1>6. CASE o # f.terms
  <2> DEFINE V == [t \in Terms |-> NewValues(o[t], f.terms[t], Minimal[t], Optimal[t], Initial(q))]
  <2>1. PICK v \in [Terms -> UNION {V[t] : t \in Terms}] :
          e = [f EXCEPT !.terms = v] /\ \A t \in Terms : v[t] \in V[t]
    BY <1>1, <1>3, <1>6 DEF MidAgreementPayments
  <2>2. ASSUME NEW t \in Terms
        PROVE  /\ v[t] \in Int /\ v[t] >= Minimal[t]
               /\ ~ Initial(q) /\ o[t] # d.terms[t] =>
                     v[t] # d.terms[t] /\ (v[t] < d.terms[t] \/ o[t] > d.terms[t])
    <3>1. v[t] \in NewValues(o[t], f.terms[t], Minimal[t], Optimal[t], Initial(q))
      BY <2>1
    <3>2. o[t] \in Int
      BY <1>3 DEF Values
    <3>3. Initial(q) => f.terms[t] = None
      BY <1>2, <1>4
    <3>4. ~ Initial(q) => f.terms[t] \in Int /\ f.terms[t] >= Minimal[t] /\ f.terms[t] # None
      BY <1>0, <1>2 DEF Values
    <3>5. /\ o[t] \in Int /\ Minimal[t] \in Nat /\ Optimal[t] \in Nat
          /\ Minimal[t] <= Optimal[t]
      BY <1>0, <3>2
    <3>6. /\ v[t] \in Int /\ v[t] >= Minimal[t]
          /\ ~ Initial(q) /\ f.terms[t] # None /\ o[t] # f.terms[t] =>
                v[t] # f.terms[t] /\ (v[t] < f.terms[t] \/ o[t] > f.terms[t])
      BY <3>1, <3>3, <3>4, <3>5, NewValueRight
    <3> QED
      BY <1>2, <3>4, <3>6
  <2>3. v \in Values
    BY <2>1, <2>2 DEF Values
  <2>4. e \in DemandData /\ e.terms = v /\ e.platform = f.platform
    BY <1>2, <2>1, <2>3 DEF DemandData
  <2>5. ~ Initial(q) => Nearer(e.terms, d.terms, o) /\ e # d
    <3>1. ASSUME ~ Initial(q) PROVE \E t \in Terms : o[t] # d.terms[t]
      BY <3>1, <1>2, <1>3, <1>6 DEF Values
    <3> SUFFICES ASSUME ~ Initial(q) PROVE Nearer(e.terms, d.terms, o) /\ e # d
      OBVIOUS
    <3>2. PICK t \in Terms : o[t] # d.terms[t]
      BY <3>1
    <3>3. v[t] < d.terms[t] \/ o[t] > d.terms[t]
      BY <2>2, <3>2
    <3>4. v[t] # d.terms[t]
      BY <2>2, <3>2
    <3> QED
      BY <2>4, <3>3, <3>4 DEF Nearer
  <2> QED
    BY <1>2, <2>2, <2>3, <2>4, <2>5 DEF o
<1> QED
  BY <1>5, <1>6

-----------------------------------------------------------------------------
(* What a step leaves as it is.                                            *)

\* Nobody has said anything yet.
LEMMA NegotiationStart == ASSUME NegotiationAssumption, NegotiationInit PROVE NegotiationInv
<1>1. PICK i \in 1..Len(Chain) : TRUE
  BY DEF NegotiationAssumption
<1>2. Len(Chain) \in Nat /\ 1 \in 1..Len(Chain)
  BY <1>1, LenProperties DEF NegotiationAssumption
<1>3. BaseDemand \in DemandData
  BY DEF BaseDemand, DemandData
<1>4. NegotiationTypes
  BY <1>2, <1>3 DEF NegotiationInit, NegotiationTypes, Resting
<1>5. /\ MadeInOrder /\ InboxFresh /\ TreeRight /\ HeardKept /\ InitialsOnce
      /\ OursBegun /\ Apart
  BY DEF NegotiationInit, MadeInOrder, InboxFresh, TreeRight, HeardKept, InitialsOnce,
         OursBegun, Apart
<1>6. \A g \in Callers : CallerRight(g)
  BY DEF NegotiationInit, CallerRight, OfferRight, Active, Bargain, Left, Resting, OnItsWay
<1>7. ToldOver /\ ReturnedRight
  BY DEF NegotiationInit, ToldOver, ReturnedRight
<1>8. Converges
  BY DEF NegotiationInit, Converges, Sent
<1> QED
  BY <1>4, <1>5, <1>6, <1>7, <1>8 DEF NegotiationInv

\* Once taken from the queue, a first offer does not come back.
LEMMA BegunStays ==
    ASSUME NegotiationInv, known \subseteq known',
           \/ initialProposals' = initialProposals
           \/ initialProposals # <<>> /\ initialProposals' = Tail(initialProposals)
           \/ \E q \in Exchanges \ known : initialProposals' = Append(initialProposals, q),
           NEW p, Begun(p)
    PROVE  Begun(p)'
<1>1. initialProposals \in Seq(Exchanges) /\ <<p, 0>> \in known
      /\ \A i \in 1..Len(initialProposals) : initialProposals[i] # <<p, 0>>
  BY DEF NegotiationInv, NegotiationTypes, Begun, Waiting
<1>2. CASE initialProposals' = initialProposals
  BY <1>1, <1>2 DEF Begun, Waiting
<1>3. CASE initialProposals # <<>> /\ initialProposals' = Tail(initialProposals)
  BY <1>1, <1>3, TailIs DEF Begun, Waiting
<1>4. CASE \E q \in Exchanges \ known : initialProposals' = Append(initialProposals, q)
  <2>1. PICK q \in Exchanges \ known : initialProposals' = Append(initialProposals, q)
    BY <1>4
  <2>2. /\ Len(initialProposals') = Len(initialProposals) + 1 /\ Len(initialProposals) \in Nat
        /\ \A i \in 1..Len(initialProposals) : initialProposals'[i] = initialProposals[i]
        /\ initialProposals'[Len(initialProposals) + 1] = q
    BY <1>1, <2>1, AppendIs
  <2>3. ASSUME NEW i \in 1..Len(initialProposals') PROVE initialProposals'[i] # <<p, 0>>
    <3>1. i \in 1..Len(initialProposals) \/ i = Len(initialProposals) + 1
      BY <2>2
    <3> QED
      BY <1>1, <2>1, <2>2, <3>1
  <2> QED
    BY <1>1, <2>3 DEF Begun, Waiting
<1> QED
  BY <1>2, <1>3, <1>4

\* What is right of a caller stays right when others move.
LEMMA CallerStays ==
    ASSUME NegotiationAssumption, NegotiationInv, NEW h \in Callers,
           pc'[h] = pc[h], level'[h] = level[h], offer'[h] = offer[h], demand'[h] = demand[h],
           made \subseteq made', \A q \in made : terms'[q] = terms[q],
           \A p : Begun(p) => Begun(p)',
           \A q \in made' : \/ q \in made \/ q \notin Ours
                            \/ offer[h] # None => q[1] # offer[h][1],
           pc[h] = "sent" => parent'[After(offer[h])] = None,
           told \subseteq told', failed \subseteq failed',
           \A q : IsReturned(q) => IsReturned(q)'
    PROVE  CallerRight(h)'
<1>1. CallerRight(h)
  BY DEF NegotiationInv
<1>2. OfferRight(h)'
  BY <1>1 DEF CallerRight, OfferRight
<1>3. Active(h)'
  BY <1>1 DEF CallerRight, Active
<1>4. Bargain(h)'
  <2>1. CASE pc[h] \in Resting \/ pc[h] = "reject"
    BY <2>1 DEF Bargain, Resting, OnItsWay
  <2>2. CASE pc[h] \notin Resting
    <3>1. offer[h] \in made \ Ours /\ offer[h] \in Exchanges
      BY <1>1, <2>2 DEF CallerRight, OfferRight, Active, NegotiationInv, NegotiationTypes
    <3>2. ~ Initial(offer[h]) => Before(offer[h]) \in made
      BY <3>1 DEF NegotiationInv, MadeInOrder
    <3>3. terms'[offer[h]] = terms[offer[h]]
      BY <3>1
    <3>4. ~ Initial(offer[h]) => terms'[Before(offer[h])] = terms[Before(offer[h])]
      BY <3>2
    <3>5. Named(h)' <=> Named(h)
      BY DEF Named
    <3>6. Settled(h) => Settled(h)'
      BY <3>3, <3>4, <3>5 DEF Settled
    <3>7. pc[h] \in OnItsWay =>
            Named(h)' /\ After(offer[h]) \in made' /\ terms'[After(offer[h])] = demand'[h].terms
      BY <1>1, <3>5 DEF CallerRight, Bargain
    <3>8. pc[h] = "plugin" =>
            IF \E l \in 1..Len(Chain) : Negotiates(l) /\ l < level'[h]
            THEN Settled(h)' ELSE Initial(offer'[h])
      BY <1>1, <3>6 DEF CallerRight, Bargain
    <3>9. pc[h] = "run" =>
             IF Initial(offer'[h]) THEN demand'[h] = BaseDemand
             ELSE Named(h)' /\ terms'[Before(offer'[h])] = demand'[h].terms
      BY <1>1, <3>4, <3>5 DEF CallerRight, Bargain
    <3>10. pc[h] = "send" =>
             /\ Named(h)'
             /\ ~ Initial(offer'[h]) =>
                   Nearer(demand'[h].terms, terms'[Before(offer'[h])], terms'[offer'[h]])
      BY <1>1, <3>3, <3>4, <3>5 DEF CallerRight, Bargain
    <3> QED
      BY <3>7, <3>8, <3>9, <3>10 DEF Bargain
  <2> QED
    BY <2>1, <2>2
<1>5. Left(h)'
  BY <1>1 DEF CallerRight, Left
<1> QED
  BY <1>2, <1>3, <1>4, <1>5 DEF CallerRight

\* A provider that is left stays left unless a caller takes its first offer.
LEMMA OverStays ==
    ASSUME NegotiationInv, \A p : Begun(p) => Begun(p)',
           \A h \in Callers :
              \/ pc'[h] \in Resting /\ (offer'[h] = offer[h] \/ ~ Begun(offer'[h][1]))
              \/ offer'[h] = offer[h] /\ (pc'[h] = pc[h] \/ pc[h] \notin Resting)
              \/ ~ Begun(offer'[h][1])
              \/ pc[h] \notin Resting /\ offer[h] # None /\ offer'[h][1] = offer[h][1],
           NEW p, Over(p)
    PROVE  Over(p)'
  BY DEF Over

\* What was returned stays as it was, if nothing is said about it.
LEMMA ReturnedStay ==
    ASSUME NegotiationAssumption, NegotiationInv, returned' = returned,
           \A p : Over(p) => Over(p)',
           made \subseteq made', \A q \in made : terms'[q] = terms[q],
           \A i \in 1..Len(returned) :
              After(returned[i].offer) \notin made' /\ returned[i].offer \notin told'
    PROVE  ReturnedRight'
<1> SUFFICES ASSUME NEW i \in 1..Len(returned)
             PROVE  LET q == returned[i].offer
                    IN  /\ Over(q[1])'
                        /\ q \in made' \ Ours /\ ~ Initial(q) /\ q \notin told'
                        /\ After(q) \notin made'
                        /\ \A l \in 1..Len(Chain) :
                              Chain[l] # "negotiate" => ~ Dropped(Chain[l], q[1])
                        /\ returned[i].demand.platform \in CommonPlatforms(q[1])
                        /\ terms'[q] = terms'[Before(q)] /\ terms'[q] \in Values
                        /\ \A t \in Terms : terms'[q][t] >= Minimal[t]
                        /\ \A j \in 1..Len(returned) : returned[j].offer = q => i = j
  BY DEF ReturnedRight
<1> PICK q : q = returned[i].offer
  OBVIOUS
<1>1. /\ Over(q[1])
      /\ q \in made \ Ours /\ ~ Initial(q) /\ q \notin told /\ After(q) \notin made
      /\ \A l \in 1..Len(Chain) : Chain[l] # "negotiate" => ~ Dropped(Chain[l], q[1])
      /\ returned[i].demand.platform \in CommonPlatforms(q[1])
      /\ terms[q] = terms[Before(q)] /\ terms[q] \in Values
      /\ \A t \in Terms : terms[q][t] >= Minimal[t]
      /\ \A j \in 1..Len(returned) : returned[j].offer = q => i = j
  BY DEF NegotiationInv, ReturnedRight
<1>2. Before(q) \in made
  BY <1>1 DEF NegotiationInv, MadeInOrder
<1>3. terms'[q] = terms[q] /\ terms'[Before(q)] = terms[Before(q)]
  BY <1>1, <1>2
<1> QED
  BY <1>1, <1>3

\* Terms of a proposal that was made do not change, and an offer is not ours.
LEMMA ConvergesStays ==
    ASSUME NegotiationAssumption, NegotiationInv, made \subseteq made',
           \A q \in made : terms'[q] = terms[q],
           \A q \in made' \cap Ours : q \notin made /\ q[2] >= 3 =>
              Nearer(terms'[q], terms'[Before(Before(q))], terms'[Before(q)])
    PROVE  Converges'
<1> SUFFICES ASSUME NEW p \in Providers, NEW k \in 0..MaxLen, <<p, k>> \in made' \cap Ours, k >= 3
             PROVE  \E t \in Terms :
                       \/ terms'[<<p, k>>][t] < terms'[<<p, k - 2>>][t]
                       \/ terms'[<<p, k - 1>>][t] > terms'[<<p, k - 2>>][t]
  BY DEF Converges, Sent
<1> DEFINE q == <<p, k>>
<1>1. k \in Int /\ k - 1 # 0
  BY DEF NegotiationAssumption
<1>2. Before(q) = <<p, k - 1>> /\ Before(Before(q)) = <<p, k - 2>>
  BY <1>1 DEF Before
<1>3. CASE q \in made
  <2>1. Before(q) \in made
    BY <1>1, <1>3 DEF NegotiationInv, MadeInOrder, Initial
  <2>2. Before(Before(q)) \in made
    BY <1>1, <1>2, <2>1 DEF NegotiationInv, MadeInOrder, Initial
  <2>3. \E t \in Terms :
            \/ terms[<<p, k>>][t] < terms[<<p, k - 2>>][t]
            \/ terms[<<p, k - 1>>][t] > terms[<<p, k - 2>>][t]
    BY <1>3 DEF NegotiationInv, Converges, Sent
  <2> QED
    BY <1>2, <1>3, <2>1, <2>2, <2>3
<1>4. CASE q \notin made
  BY <1>2, <1>4 DEF Nearer
<1> QED
  BY <1>3, <1>4

-----------------------------------------------------------------------------
(* The callers and the tree leave yagna alone, yagna leaves them alone.    *)

\* yagna has a new offer, or a provider's answer.
LEMMA OfferMade ==
    ASSUME NegotiationAssumption, NegotiationInv, NEW n \in Exchanges \ (made \cup Ours),
           Initial(n) \/ Before(n) \in made, NEW o \in Values \cup {None},
           made' = made \cup {n}, terms' = [terms EXCEPT ![n] = o],
           inbox' = Append(inbox, [kind |-> "proposal", of |-> n]),
           UNCHANGED <<told, tree, chainStarts, calls, history>>
    PROVE  NegotiationInv'
<1> USE DEF tree, calls, history
<1> DEFINE e == [kind |-> "proposal", of |-> n]
<1>0. NegotiationTypes
  BY DEF NegotiationInv
<1>1. e \in Events /\ e.kind = "proposal" /\ e.of = n
  BY DEF Events
<1>2. \A q \in made : terms'[q] = terms[q]
  BY <1>0 DEF NegotiationTypes
<1>3. /\ inbox' \in Seq(Events) /\ Len(inbox') = Len(inbox) + 1 /\ Len(inbox) \in Nat
      /\ \A i \in 1..Len(inbox) : inbox'[i] = inbox[i] /\ i \in 1..Len(inbox')
      /\ inbox'[Len(inbox) + 1] = e
  <2> HIDE DEF e
  <2>1. inbox \in Seq(Events) /\ inbox' = Append(inbox, e)
    BY <1>0 DEF NegotiationTypes, e
  <2> QED
    BY <1>1, <2>1, AppendIs
<1> HIDE DEF e
<1>4. \A i \in 1..Len(inbox') : i \in 1..Len(inbox) \/ i = Len(inbox) + 1
  BY <1>3
<1>5. NegotiationTypes'
  BY <1>0, <1>3 DEF NegotiationTypes
<1>6. MadeInOrder'
  BY DEF NegotiationInv, MadeInOrder
<1>7. InboxFresh'
  <2>1. n \notin known
    BY DEF NegotiationInv, TreeRight
  <2>2. ASSUME NEW i \in 1..Len(inbox')
        PROVE  IF inbox'[i].kind = "rejected" THEN inbox'[i].of \in Ours
               ELSE inbox'[i].of \in made' \ (Ours \cup known')
    BY <1>1, <1>3, <1>4, <2>1 DEF NegotiationInv, InboxFresh
  <2>3. ASSUME NEW i \in 1..Len(inbox), inbox[i].kind = "proposal"
        PROVE  inbox[i] # e
    BY <1>1, <2>3 DEF NegotiationInv, InboxFresh
  <2>4. ASSUME NEW i \in 1..Len(inbox'), NEW j \in 1..Len(inbox'),
               inbox'[i].kind = "proposal", inbox'[i] = inbox'[j]
        PROVE  i = j
    <3>1. CASE i \in 1..Len(inbox) /\ j \in 1..Len(inbox)
      BY <1>3, <2>4, <3>1 DEF NegotiationInv, InboxFresh
    <3>2. CASE i = Len(inbox) + 1 /\ j \in 1..Len(inbox)
      BY <1>1, <1>3, <2>3, <2>4, <3>2
    <3>3. CASE i \in 1..Len(inbox) /\ j = Len(inbox) + 1
      BY <1>3, <2>3, <2>4, <3>3
    <3> QED
      BY <1>4, <3>1, <3>2, <3>3
  <2> QED
    BY <2>2, <2>4 DEF InboxFresh
<1>8. TreeRight' /\ HeardKept' /\ InitialsOnce' /\ Apart'
  BY DEF NegotiationInv, TreeRight, HeardKept, InitialsOnce, Apart
<1>9. \A p : Begun(p)' <=> Begun(p)
  BY DEF Begun, Waiting
<1>10. OursBegun'
  BY <1>9 DEF NegotiationInv, OursBegun
<1>11. \A p : Over(p)' <=> Over(p)
  BY <1>9 DEF Over
<1>12. \A h \in Callers : CallerRight(h)'
  <2>1. \A q : IsReturned(q) => IsReturned(q)'
    BY DEF IsReturned
  <2>2. \A h \in Callers : pc[h] = "sent" => parent'[After(offer[h])] = None
    BY DEF NegotiationInv, CallerRight, Bargain
  <2> QED
    BY <1>2, <1>9, <2>1, <2>2, CallerStays
<1>13. ToldOver'
  BY <1>11 DEF NegotiationInv, ToldOver
<1>14. ReturnedRight'
  <2>1. ASSUME NEW i \in 1..Len(returned)
        PROVE  After(returned[i].offer) \notin made' /\ returned[i].offer \notin told'
    <3>1. returned[i].offer \in made \ Ours /\ After(returned[i].offer) \notin made
          /\ returned[i].offer \notin told
      BY DEF NegotiationInv, ReturnedRight
    <3>2. After(returned[i].offer) # n
      BY <1>0, <3>1, Alternate DEF NegotiationTypes
    <3> QED
      BY <3>1, <3>2
  <2> QED
    BY <1>2, <1>11, <2>1, ReturnedStay
<1>15. Converges'
  BY <1>2, ConvergesStays
<1> QED
  BY <1>5, <1>6, <1>7, <1>8, <1>10, <1>12, <1>13, <1>14, <1>15 DEF NegotiationInv

\* A first offer of a provider: none of ours went before.
LEMMA MatchInv ==
    ASSUME NegotiationAssumption, NegotiationInv, NEW p \in Providers, Match(p)
    PROVE  NegotiationInv'
<1>1. <<p, 0>> \in Exchanges /\ Initial(<<p, 0>>)
  BY DEF Exchanges, Initial, NegotiationAssumption
<1>2. <<p, 0>> \notin Ours
  BY <1>1, Alternate
<1>3. PICK o \in Offers[p] : terms' = [terms EXCEPT ![<<p, 0>>] = o]
  BY DEF Match
<1>4. o \in Values \cup {None}
  BY DEF NegotiationAssumption, Values
<1> QED
  BY <1>1, <1>2, <1>3, <1>4, OfferMade DEF Match

\* A provider answers: an offer nobody has countered, or a rejection.
LEMMA AnswerInv ==
    ASSUME NegotiationAssumption, NegotiationInv, NEW q \in Exchanges, Answer(q)
    PROVE  NegotiationInv'
<1>0. /\ q \in made \cap Ours /\ q[2] < MaxLen /\ After(q) \notin made
      /\ UNCHANGED <<tree, chainStarts, calls, history>>
  BY DEF Answer
<1>1. CASE /\ made' = made \cup {After(q)}
           /\ \E o \in Offers[q[1]] : terms' = [terms EXCEPT ![After(q)] = o]
           /\ inbox' = Append(inbox, [kind |-> "proposal", of |-> After(q)])
           /\ UNCHANGED told
  <2>1. /\ After(q) \in Exchanges /\ Before(After(q)) = q /\ q[1] \in Providers
    <3>1. q[2] \in Nat /\ MaxLen \in Nat /\ After(q)[2] = q[2] + 1
      BY Numbers DEF NegotiationAssumption
    <3>2. After(q)[2] <= MaxLen
      BY <1>0, <3>1
    <3> QED
      BY <3>2, Numbers
  <2>2. After(q) \notin Ours
    BY <1>0, <2>1, Alternate
  <2>3. PICK o \in Offers[q[1]] : terms' = [terms EXCEPT ![After(q)] = o]
    BY <1>1
  <2>4. o \in Values \cup {None}
    BY <2>1 DEF NegotiationAssumption, Values
  <2> QED
    BY <1>0, <1>1, <2>1, <2>2, <2>3, <2>4, OfferMade
<1>2. CASE /\ told' = told \cup {q}
           /\ inbox' = Append(inbox, [kind |-> "rejected", of |-> q])
           /\ UNCHANGED <<made, terms>>
  <2> USE DEF tree, calls, history
  <2> DEFINE e == [kind |-> "rejected", of |-> q]
  <2>0. NegotiationTypes
    BY DEF NegotiationInv
  <2>1. e \in Events /\ e.kind = "rejected" /\ e.of = q
    BY DEF Events
  <2>2. inbox \in Seq(Events) /\ inbox' = Append(inbox, e)
    BY <1>2, <2>0 DEF NegotiationTypes
  <2> HIDE DEF e
  <2>3. /\ inbox' \in Seq(Events) /\ Len(inbox') = Len(inbox) + 1 /\ Len(inbox) \in Nat
        /\ \A i \in 1..Len(inbox) : inbox'[i] = inbox[i] /\ i \in 1..Len(inbox')
        /\ inbox'[Len(inbox) + 1] = e
    BY <2>1, <2>2, AppendIs
  <2>4. \A i \in 1..Len(inbox') : i \in 1..Len(inbox) \/ i = Len(inbox) + 1
    BY <2>3
  <2>5. NegotiationTypes'
    BY <1>0, <1>2, <2>0, <2>3 DEF NegotiationTypes
  <2>6. InboxFresh'
    <3>1. ASSUME NEW i \in 1..Len(inbox')
          PROVE  IF inbox'[i].kind = "rejected" THEN inbox'[i].of \in Ours
                 ELSE inbox'[i].of \in made' \ (Ours \cup known')
      BY <1>0, <1>2, <2>1, <2>3, <2>4 DEF NegotiationInv, InboxFresh
    <3>2. ASSUME NEW i \in 1..Len(inbox'), NEW j \in 1..Len(inbox'),
                 inbox'[i].kind = "proposal", inbox'[i] = inbox'[j]
          PROVE  i = j
      <4>1. "rejected" # "proposal"
        OBVIOUS
      <4>2. i \in 1..Len(inbox) /\ j \in 1..Len(inbox)
        BY <2>1, <2>3, <2>4, <3>2, <4>1
      <4> QED
        BY <2>3, <3>2, <4>2 DEF NegotiationInv, InboxFresh
    <3> QED
      BY <3>1, <3>2 DEF InboxFresh
  <2>7. MadeInOrder' /\ TreeRight' /\ HeardKept' /\ InitialsOnce' /\ Apart' /\ Converges'
    BY <1>0, <1>2 DEF NegotiationInv, MadeInOrder, TreeRight, HeardKept, InitialsOnce, Apart,
                      Converges, Sent
  <2>8. \A p : Begun(p)' <=> Begun(p)
    BY <1>0 DEF Begun, Waiting
  <2>9. \A p : Over(p)' <=> Over(p)
    BY <1>0, <2>8 DEF Over
  <2>10. OursBegun' /\ ToldOver'
    BY <1>0, <1>2, <2>8, <2>9 DEF NegotiationInv, OursBegun, ToldOver
  <2>11. \A h \in Callers : CallerRight(h)'
    <3>1. \A x : IsReturned(x) => IsReturned(x)'
      BY <1>0 DEF IsReturned
    <3>2. \A h \in Callers : pc[h] = "sent" => parent'[After(offer[h])] = None
      BY <1>0 DEF NegotiationInv, CallerRight, Bargain
    <3> QED
      BY <1>0, <1>2, <2>8, <3>1, <3>2, CallerStays
  <2>12. ReturnedRight'
    <3>1. \A i \in 1..Len(returned) :
              After(returned[i].offer) \notin made' /\ returned[i].offer \notin told'
      BY <1>0, <1>2 DEF NegotiationInv, ReturnedRight
    <3> QED
      BY <1>0, <1>2, <2>9, <3>1, ReturnedStay
  <2> QED
    BY <2>5, <2>6, <2>7, <2>10, <2>11, <2>12 DEF NegotiationInv
<1> QED
  BY <1>1, <1>2 DEF Answer

-----------------------------------------------------------------------------
(* The collector.                                                          *)

\* What the tree does not touch.
LEMMA TreeStep ==
    ASSUME NegotiationAssumption, NegotiationInv,
           UNCHANGED <<made, terms, told, chainStarts, calls, returned, failed>>,
           \A p : Begun(p) => Begun(p)',
           \A q \in Exchanges : q \in Ours => parent'[q] = parent[q],
           NegotiationTypes', InboxFresh', TreeRight', HeardKept', InitialsOnce'
    PROVE  NegotiationInv'
<1> USE DEF calls
<1>1. MadeInOrder' /\ Apart' /\ Converges'
  BY DEF NegotiationInv, MadeInOrder, Apart, Converges, Sent
<1>2. \A p : Over(p) => Over(p)'
  BY DEF Over
<1>3. OursBegun' /\ ToldOver'
  BY <1>2 DEF NegotiationInv, OursBegun, ToldOver
<1>4. \A h \in Callers : CallerRight(h)'
  <2>1. \A q : IsReturned(q) => IsReturned(q)'
    BY DEF IsReturned
  <2>2. ASSUME NEW h \in Callers, pc[h] = "sent" PROVE parent'[After(offer[h])] = None
    <3>1. /\ offer[h] \in Exchanges \ Ours /\ After(offer[h]) \in Exchanges
          /\ parent[After(offer[h])] = None
      BY <2>2 DEF NegotiationInv, NegotiationTypes, CallerRight, Active, OfferRight, Bargain,
                  Resting, OnItsWay
    <3>2. After(offer[h]) \in Ours
      BY <3>1, Alternate
    <3> QED
      BY <3>1, <3>2
  <2> QED
    BY <2>1, <2>2, CallerStays
<1>5. ReturnedRight'
  <2>1. \A i \in 1..Len(returned) :
            After(returned[i].offer) \notin made' /\ returned[i].offer \notin told'
    BY DEF NegotiationInv, ReturnedRight
  <2> QED
    BY <1>2, <2>1, ReturnedStay
<1> QED
  BY <1>1, <1>3, <1>4, <1>5 DEF NegotiationInv

\* The event at the head is the only one about its proposal.
LEMMA CollectInv ==
    ASSUME NegotiationAssumption, NegotiationInv, Collect
    PROVE  NegotiationInv'
<1> DEFINE e == Head(inbox)
           q == e.of
<1>0. /\ NegotiationTypes /\ inbox # <<>> /\ inbox' = Tail(inbox) /\ heard' = heard \cup {e}
      /\ UNCHANGED <<made, terms, told, chainStarts, calls, returned, failed>>
      /\ \/ e.kind = "rejected" /\ RejectedEvent(q)
         \/ e.kind = "proposal" /\ Initial(q) /\ InitialEvent(q)
         \/ e.kind = "proposal" /\ ~ Initial(q) /\ AnswerEvent(q)
  BY DEF Collect, NegotiationInv
<1>1. /\ Tail(inbox) \in Seq(Events) /\ Len(Tail(inbox)) = Len(inbox) - 1
      /\ Len(inbox) \in Nat \ {0} /\ e = inbox[1] /\ e \in Events
      /\ \A i \in 1..Len(Tail(inbox)) : Tail(inbox)[i] = inbox[i + 1] /\ i + 1 \in 1..Len(inbox)
  <2>1. inbox \in Seq(Events)
    BY <1>0 DEF NegotiationTypes
  <2> QED
    BY <1>0, <2>1, TailIs
<1>2. q \in Exchanges /\ e.kind \in {"proposal", "rejected"} /\ 1 \in 1..Len(inbox)
  BY <1>1 DEF Events
<1>3. IF e.kind = "rejected" THEN q \in Ours ELSE q \in made \ (Ours \cup known)
  BY <1>1, <1>2 DEF NegotiationInv, InboxFresh
<1>4. ASSUME NEW i \in 1..Len(inbox'), inbox'[i].kind = "proposal", e.kind = "proposal"
      PROVE  inbox'[i].of # q
  <2>1. inbox'[i] = inbox[i + 1] /\ i + 1 \in 1..Len(inbox) /\ i + 1 # 1
    BY <1>0, <1>1
  <2>2. inbox[1] # inbox[i + 1]
    BY <1>1, <1>2, <1>4, <2>1 DEF NegotiationInv, InboxFresh
  <2>3. inbox'[i] \in Events
    <3>1. inbox' \in Seq(Events)
      BY <1>0, <1>1
    <3> QED
      BY <3>1, ElementOfSeq
  <2> QED
    BY <1>1, <1>4, <2>1, <2>2, <2>3 DEF Events
<1> HIDE DEF e
<1>5. ASSUME known' \subseteq Exchanges, known \subseteq known',
             \A x \in known' : x \in known \/ x \in Ours \/ (x = q /\ e.kind = "proposal")
      PROVE  InboxFresh'
  <2>1. \A i \in 1..Len(inbox') : /\ inbox'[i] = inbox[i + 1] /\ i + 1 \in 1..Len(inbox)
                                  /\ i \in Nat
    BY <1>0, <1>1
  <2>2. ASSUME NEW i \in 1..Len(inbox')
        PROVE  IF inbox'[i].kind = "rejected" THEN inbox'[i].of \in Ours
               ELSE inbox'[i].of \in made' \ (Ours \cup known')
    <3>1. IF inbox'[i].kind = "rejected" THEN inbox'[i].of \in Ours
          ELSE inbox'[i].of \in made \ (Ours \cup known)
      BY <2>1 DEF NegotiationInv, InboxFresh
    <3>2. inbox'[i].kind \in {"proposal", "rejected"}
      <4>1. inbox' \in Seq(Events)
        BY <1>0, <1>1
      <4>2. inbox'[i] \in Events
        BY <4>1, ElementOfSeq
      <4> QED
        BY <4>2 DEF Events
    <3> QED
      BY <1>0, <1>4, <1>5, <3>1, <3>2
  <2>3. \A i, j \in 1..Len(inbox') : inbox'[i].kind = "proposal" /\ inbox'[i] = inbox'[j] => i = j
    BY <2>1 DEF NegotiationInv, InboxFresh
  <2> QED
    BY <2>2, <2>3 DEF InboxFresh
<1>6. CASE e.kind = "rejected" /\ RejectedEvent(q)
  <2> USE DEF RejectedEvent
  <2>1. q \in Ours /\ ~ Initial(q)
    BY <1>2, <1>3, <1>6, Alternate
  <2>2. EndedBy(q, "rejected") \in {"rejected", "closed"}
    BY <1>0, <1>2 DEF EndedBy, NegotiationTypes
  <2>3. NegotiationTypes'
    BY <1>0, <1>1, <1>2, <1>6, <2>2 DEF NegotiationTypes, calls
  <2>4. InboxFresh'
    BY <1>0, <1>2, <1>5, <1>6, <2>1 DEF NegotiationTypes
  <2>5. TreeRight'
    BY <1>0, <1>2, <1>6, <2>1 DEF NegotiationInv, TreeRight, NegotiationTypes
  <2>6. HeardKept'
    BY <1>0, <1>2, <1>6, <2>2 DEF NegotiationInv, HeardKept, NegotiationTypes, Events
  <2>7. InitialsOnce'
    BY <1>6 DEF NegotiationInv, InitialsOnce
  <2>8. \A p : Begun(p) => Begun(p)'
    BY <1>6, BegunStays
  <2> QED
    BY <1>0, <1>6, <2>3, <2>4, <2>5, <2>6, <2>7, <2>8, TreeStep
<1>7. CASE e.kind = "proposal" /\ Initial(q) /\ InitialEvent(q)
  <2> USE DEF InitialEvent
  <2>1. /\ q \in made \ (Ours \cup known) /\ e.kind = "proposal"
    BY <1>2, <1>3, <1>7
  <2>2. /\ initialProposals' \in Seq(Exchanges)
        /\ Len(initialProposals') = Len(initialProposals) + 1 /\ Len(initialProposals) \in Nat
        /\ \A i \in 1..Len(initialProposals) : initialProposals'[i] = initialProposals[i]
        /\ initialProposals'[Len(initialProposals) + 1] = q
    <3>1. initialProposals \in Seq(Exchanges)
      BY <1>0 DEF NegotiationTypes
    <3> QED
      BY <1>2, <1>7, <3>1, AppendIs
  <2>3. NegotiationTypes'
    BY <1>0, <1>1, <1>2, <1>7, <2>2 DEF NegotiationTypes, calls
  <2>4. InboxFresh'
    BY <1>0, <1>2, <1>5, <1>7, <2>1 DEF NegotiationTypes
  <2>5. TreeRight'
    BY <1>0, <1>2, <1>7, <2>1 DEF NegotiationInv, TreeRight, NegotiationTypes
  <2>6. HeardKept'
    BY <1>0, <1>2, <1>7, <2>1 DEF NegotiationInv, HeardKept
  <2>7. InitialsOnce'
    <3>1. \A i \in 1..Len(initialProposals') :
              i \in 1..Len(initialProposals) \/ i = Len(initialProposals) + 1
      BY <2>2
    <3>2. \A i \in 1..Len(initialProposals) : initialProposals[i] # q
      BY <2>1 DEF NegotiationInv, InitialsOnce
    <3> QED
      BY <1>7, <2>2, <3>1, <3>2 DEF NegotiationInv, InitialsOnce
  <2>8. \A p : Begun(p) => Begun(p)'
    BY <1>2, <1>7, <2>1, BegunStays
  <2>9. \A x \in Exchanges : x \in Ours => parent'[x] = parent[x]
    BY <1>0, <1>7, <2>1 DEF NegotiationTypes
  <2> QED
    BY <1>0, <1>7, <2>3, <2>4, <2>5, <2>6, <2>7, <2>8, <2>9, TreeStep
<1>8. CASE e.kind = "proposal" /\ ~ Initial(q) /\ AnswerEvent(q)
  <2> USE DEF AnswerEvent, SameChildren
  <2>1. /\ q \in made \ (Ours \cup known) /\ e.kind = "proposal"
    BY <1>2, <1>3, <1>8
  <2>2. /\ Before(q) \in Ours /\ Before(q) \in Exchanges /\ After(Before(q)) = q
        /\ ~ Initial(Before(q))
    <3>1. /\ Before(q) \in Exchanges /\ After(Before(q)) = q
      BY <1>2, <1>8, Numbers
    <3>2. Before(q) \in Ours
      BY <1>2, <1>8, <2>1, Alternate
    <3> QED
      BY <3>1, <3>2, Alternate
  <2>3. NegotiationTypes'
    BY <1>0, <1>1, <1>2, <1>8, <2>2 DEF NegotiationTypes, calls
  <2>4. InboxFresh'
    BY <1>0, <1>2, <1>5, <1>8, <2>1, <2>2 DEF NegotiationTypes
  <2>5. TreeRight'
    BY <1>0, <1>2, <1>8, <2>1, <2>2 DEF NegotiationInv, TreeRight, NegotiationTypes
  <2>6. HeardKept'
    BY <1>0, <1>2, <1>8, <2>1, <2>2 DEF NegotiationInv, HeardKept, NegotiationTypes, Events
  <2>7. InitialsOnce'
    BY <1>8 DEF NegotiationInv, InitialsOnce
  <2>8. \A p : Begun(p) => Begun(p)'
    BY <1>8, BegunStays
  <2>9. \A x \in Exchanges : x \in Ours => parent'[x] = parent[x]
    BY <1>0, <1>8, <2>1 DEF NegotiationTypes
  <2> QED
    BY <1>0, <1>8, <2>3, <2>4, <2>5, <2>6, <2>7, <2>8, <2>9, TreeStep
<1> QED
  BY <1>0, <1>6, <1>7, <1>8

\* A proposal that ended stays ended.
LEMMA CloseInv ==
    ASSUME NegotiationAssumption, NegotiationInv, Close
    PROVE  NegotiationInv'
<1> USE DEF yagna, calls, history
<1>0. /\ NegotiationTypes
      /\ UNCHANGED <<yagna, known, parent, children, initialProposals, chainStarts, calls, history>>
      /\ ended' = [q \in Exchanges |-> IF q \in known THEN EndedBy(q, "closed") ELSE ended[q]]
  BY DEF Close, NegotiationInv
<1>1. \A q \in Exchanges : /\ ended'[q] \in {"no", "rejected", "closed"}
                           /\ ended[q] # "no" => ended'[q] # "no"
  BY <1>0 DEF EndedBy, NegotiationTypes
<1>2. NegotiationTypes'
  BY <1>0, <1>1 DEF NegotiationTypes
<1>3. InboxFresh' /\ TreeRight' /\ InitialsOnce'
  BY <1>0 DEF NegotiationInv, InboxFresh, TreeRight, InitialsOnce
<1>4. HeardKept'
  BY <1>0, <1>1 DEF NegotiationInv, HeardKept, NegotiationTypes, Events
<1>5. \A p : Begun(p) => Begun(p)'
  BY <1>0 DEF Begun, Waiting
<1> QED
  BY <1>0, <1>2, <1>3, <1>4, <1>5, TreeStep

-----------------------------------------------------------------------------
(* The callers.                                                            *)

\* Whom a caller is at work with, nobody else is, nor was anything told him.
LEMMA AtWork ==
    ASSUME NegotiationAssumption, NegotiationInv, NEW g \in Callers, pc[g] \notin Resting
    PROVE  /\ CallerRight(g) /\ offer[g] \in Exchanges /\ offer[g] # None
           /\ offer[g] \in made \ Ours /\ Begun(offer[g][1]) /\ ~ Over(offer[g][1])
           /\ offer[g] \notin told
           /\ \A i \in 1..Len(returned) : returned[i].offer # offer[g]
           /\ \A h \in Callers : h # g /\ offer[h] # None => offer[h][1] # offer[g][1]
<1>1. CallerRight(g) /\ offer[g] # None /\ offer[g] \in made \ Ours /\ Begun(offer[g][1])
  BY DEF NegotiationInv, CallerRight, Active, OfferRight
<1>2. offer[g] \in Exchanges
  BY <1>1 DEF NegotiationInv, NegotiationTypes
<1>3. ~ Over(offer[g][1])
  BY <1>1 DEF Over
<1>4. offer[g] \notin told
  BY <1>1, <1>3 DEF NegotiationInv, ToldOver
<1>5. \A i \in 1..Len(returned) : returned[i].offer # offer[g]
  BY <1>3 DEF NegotiationInv, ReturnedRight
<1>6. \A h \in Callers : h # g /\ offer[h] # None => offer[h][1] # offer[g][1]
  BY <1>1 DEF NegotiationInv, Apart
<1> QED
  BY <1>1, <1>2, <1>3, <1>4, <1>5, <1>6

\* A step by which a caller goes on by itself.
LEMMA LocalStep ==
    ASSUME NegotiationAssumption, NegotiationInv, NEW g \in Callers,
           UNCHANGED <<yagna, tree, chainStarts, offer, returned, heard>>,
           NEW l \in InHand \cup OnItsWay \cup Resting, pc' = [pc EXCEPT ![g] = l],
           level' \in [Callers -> 1..Len(Chain)], demand' \in [Callers -> DemandData],
           \A h \in Callers \ {g} : level'[h] = level[h] /\ demand'[h] = demand[h],
           failed \subseteq failed',
           pc[g] \notin Resting \/ l \in Resting,
           l \in InHand => pc[g] \in InHand,
           Active(g)', Bargain(g)', Left(g)'
    PROVE  NegotiationInv'
<1> USE DEF yagna, tree
<1>0. NegotiationTypes
  BY DEF NegotiationInv
<1>1. NegotiationTypes'
  BY <1>0 DEF NegotiationTypes
<1>2. /\ MadeInOrder' /\ InboxFresh' /\ TreeRight' /\ HeardKept' /\ InitialsOnce'
      /\ Apart' /\ Converges'
  BY DEF NegotiationInv, MadeInOrder, InboxFresh, TreeRight, HeardKept, InitialsOnce,
         Apart, Converges, Sent
<1>3. \A p : Begun(p)' <=> Begun(p)
  BY DEF Begun, Waiting
<1>4. pc'[g] = l /\ \A h \in Callers \ {g} : pc'[h] = pc[h]
  BY <1>0 DEF NegotiationTypes
<1>5. \A p : Over(p) => Over(p)'
  <2>1. \A h \in Callers :
           \/ pc'[h] \in Resting /\ (offer'[h] = offer[h] \/ ~ Begun(offer'[h][1]))
           \/ offer'[h] = offer[h] /\ (pc'[h] = pc[h] \/ pc[h] \notin Resting)
    BY <1>4
  <2> QED
    BY <1>3, <2>1, OverStays
<1>6. OursBegun' /\ ToldOver'
  BY <1>3, <1>5 DEF NegotiationInv, OursBegun, ToldOver
<1>7. \A q : IsReturned(q) => IsReturned(q)'
  BY DEF IsReturned
<1>8. ASSUME NEW h \in Callers, h # g PROVE CallerRight(h)'
  <2>1. pc[h] = "sent" => parent'[After(offer[h])] = None
    BY DEF NegotiationInv, CallerRight, Bargain
  <2> QED
    BY <1>3, <1>4, <1>7, <1>8, <2>1, CallerStays
<1>9. CallerRight(g)'
  <2>1. OfferRight(g)
    BY DEF NegotiationInv, CallerRight
  <2>2. OfferRight(g)'
    BY <1>3, <1>4, <2>1 DEF OfferRight
  <2> QED
    BY <2>2 DEF CallerRight
<1>10. ReturnedRight'
  <2>1. \A i \in 1..Len(returned) :
            After(returned[i].offer) \notin made' /\ returned[i].offer \notin told'
    BY DEF NegotiationInv, ReturnedRight
  <2> QED
    BY <1>5, <2>1, ReturnedStay
<1> QED
  BY <1>1, <1>2, <1>6, <1>8, <1>9, <1>10 DEF NegotiationInv

\* A caller that calls again has nothing in hand.
LEMMA CallInv ==
    ASSUME NegotiationAssumption, NegotiationInv, NEW g \in Callers, Call(g)
    PROVE  NegotiationInv'
<1> DEFINE l == IF chainStarts = 1 THEN "source" ELSE "raised"
<1>1. /\ NegotiationTypes /\ CallerRight(g)
      /\ pc[g] = "idle" /\ pc' = [pc EXCEPT ![g] = l]
      /\ UNCHANGED <<yagna, tree, chainStarts, level, offer, demand, history>>
  BY DEF Call, At, Goto, NegotiationInv
<1>2. l \in Resting
  BY DEF Resting
<1> HIDE DEF l
<1>3. pc'[g] = l
  BY <1>1 DEF NegotiationTypes
<1>4. l \notin InHand \cup OnItsWay
  BY <1>2 DEF Resting, InHand, OnItsWay
<1>5. Active(g)' /\ Bargain(g)'
  BY <1>2, <1>3, <1>4 DEF Active, Bargain, InHand, OnItsWay
<1>6. Left(g)'
  <2>1. made' = made /\ offer' = offer /\ told' = told /\ failed' = failed /\ returned' = returned
    BY <1>1 DEF yagna, history
  <2> QED
    BY <1>1, <2>1 DEF CallerRight, Left, IsReturned, Resting
<1> QED
  BY <1>1, <1>2, <1>4, <1>5, <1>6, LocalStep DEF history, NegotiationTypes

\* A caller that drops what it works on, and says so if this was bargained.
LEMMA DropInv ==
    ASSUME NegotiationAssumption, NegotiationInv, NEW g \in Callers, pc[g] \in {"plugin", "run"},
           pc' = [pc EXCEPT ![g] = IF Initial(offer[g]) THEN "source" ELSE "reject"],
           UNCHANGED <<yagna, tree, chainStarts, level, offer, demand, history>>
    PROVE  NegotiationInv'
<1> DEFINE l == IF Initial(offer[g]) THEN "source" ELSE "reject"
<1>1. NegotiationTypes /\ CallerRight(g) /\ pc[g] \in InHand /\ pc[g] \notin Resting
  BY DEF NegotiationInv, InHand, Resting
<1>2. /\ l \in InHand \cup Resting /\ (l = "source" => Initial(offer[g]))
      /\ l \in {"source", "reject"}
  BY DEF Resting, InHand
<1>3. pc' = [pc EXCEPT ![g] = l]
  OBVIOUS
<1> HIDE DEF l
<1>4. pc'[g] = l
  BY <1>1, <1>3 DEF NegotiationTypes
<1>5. Active(g)'
  BY <1>1, <1>2, <1>4 DEF CallerRight, Active, Resting
<1>6. Bargain(g)'
  BY <1>2, <1>4 DEF Bargain, OnItsWay
<1>7. Left(g)'
  BY <1>2, <1>4 DEF Left, Resting
<1> QED
  BY <1>1, <1>2, <1>3, <1>5, <1>6, <1>7, LocalStep DEF history, NegotiationTypes

\* Any exception: the caller knows that the call failed.
LEMMA FailInv ==
    ASSUME NegotiationAssumption, NegotiationInv, NEW g \in Callers, NEW l \in Resting,
           pc' = [pc EXCEPT ![g] = l], failed' = failed \cup {offer[g]},
           UNCHANGED <<yagna, tree, chainStarts, level, offer, demand, returned, heard>>
    PROVE  NegotiationInv'
<1>1. NegotiationTypes
  BY DEF NegotiationInv
<1>2. pc'[g] = l
  BY <1>1 DEF NegotiationTypes
<1>3. l \notin InHand \cup OnItsWay
  BY DEF Resting, InHand, OnItsWay
<1>4. Active(g)' /\ Bargain(g)' /\ Left(g)'
  BY <1>2, <1>3 DEF Active, Bargain, Left, InHand, OnItsWay
<1> QED
  BY <1>1, <1>3, <1>4, LocalStep DEF NegotiationTypes

\* The children are looked at again, or not yet.
LEMMA WaitInv ==
    ASSUME NegotiationAssumption, NegotiationInv, NEW g \in Callers,
           NEW l \in {"wait", "asleep"}, pc[g] \in {"wait", "asleep"},
           pc' = [pc EXCEPT ![g] = l],
           UNCHANGED <<yagna, tree, chainStarts, level, offer, demand, history>>
    PROVE  NegotiationInv'
<1>1. NegotiationTypes /\ CallerRight(g)
  BY DEF NegotiationInv
<1>2. /\ pc'[g] = l /\ l \in OnItsWay /\ pc[g] \in OnItsWay /\ l \notin InHand \cup Resting
      /\ pc[g] \notin InHand \cup Resting
  BY <1>1 DEF NegotiationTypes, OnItsWay, InHand, Resting
<1>3. /\ made' = made /\ terms' = terms /\ offer' = offer /\ demand' = demand /\ level' = level
      /\ UNCHANGED <<returned, heard, failed>>
  BY DEF yagna, history
<1>4. Active(g)'
  BY <1>1, <1>2, <1>3 DEF CallerRight, Active, OnItsWay
<1>5. Bargain(g)'
  BY <1>1, <1>2, <1>3 DEF CallerRight, Bargain, Named, InHand, OnItsWay
<1>6. Left(g)'
  BY <1>2 DEF Left
<1> QED
  BY <1>1, <1>2, <1>3, <1>4, <1>5, <1>6, LocalStep DEF NegotiationTypes

\* Only a first offer comes to the negotiation from below.
LEMMA BeginInv ==
    ASSUME NegotiationAssumption, NegotiationInv, NEW g \in Callers, Begin(g)
    PROVE  NegotiationInv'
<1>1. /\ NegotiationTypes /\ CallerRight(g) /\ pc[g] = "plugin" /\ Chain[level[g]] = "negotiate"
      /\ demand' = [demand EXCEPT ![g] = BaseDemand] /\ pc' = [pc EXCEPT ![g] = "run"]
      /\ UNCHANGED <<yagna, tree, chainStarts, level, offer, history>>
  BY DEF Begin, At, Goto, Plugin, NegotiationInv
<1>2. pc'[g] = "run" /\ demand'[g] = BaseDemand /\ level[g] \in 1..Len(Chain)
  BY <1>1 DEF NegotiationTypes
<1>3. demand' \in [Callers -> DemandData]
  BY <1>1 DEF NegotiationTypes, DemandData, BaseDemand
<1>4. \A h \in Callers \ {g} : demand'[h] = demand[h] /\ level'[h] = level[h]
  BY <1>1 DEF NegotiationTypes
<1>5. Active(g)'
  BY <1>1, <1>2 DEF CallerRight, Active, Negotiates, Resting
<1>6. Initial(offer[g])
  <2>1. \A l \in 1..Len(Chain) : Chain[l] = "negotiate" => l = level[g]
    BY <1>1, <1>2 DEF NegotiationAssumption
  <2>2. ~ \E l \in 1..Len(Chain) : Negotiates(l) /\ l < level[g]
    BY <1>2, <2>1 DEF Negotiates
  <2> QED
    BY <1>1, <2>2 DEF CallerRight, Bargain
<1>7. Bargain(g)' /\ Left(g)'
  BY <1>1, <1>2, <1>6 DEF Bargain, Left, OnItsWay, Resting
<1> QED
  BY <1>1, <1>3, <1>4, <1>5, <1>7, LocalStep DEF history, NegotiationTypes, InHand, Resting

\* What every filter above has let through is given to the caller.
LEMMA ReturnInv ==
    ASSUME NegotiationAssumption, NegotiationInv, NEW g \in Callers, pc[g] \in InHand,
           \A l \in 1..Len(Chain) : Chain[l] # "negotiate" => ~ Dropped(Chain[l], offer[g][1]),
           Settled(g), pc' = [pc EXCEPT ![g] = "idle"],
           returned' = Append(returned, [offer |-> offer[g], demand |-> demand[g]]),
           UNCHANGED <<yagna, tree, chainStarts, level, offer, demand, heard, failed>>
    PROVE  NegotiationInv'
<1> USE DEF yagna, tree
<1> DEFINE x == [offer |-> offer[g], demand |-> demand[g]]
           q == offer[g]
           R == [offer : Exchanges, demand : DemandData]
<1>0. NegotiationTypes
  BY DEF NegotiationInv
<1>1. pc[g] \notin Resting
  BY DEF InHand, Resting
<1>2. /\ OfferRight(g) /\ q \in Exchanges /\ q # None /\ q \in made \ Ours
      /\ Begun(q[1]) /\ q \notin told
      /\ \A i \in 1..Len(returned) : returned[i].offer # q
      /\ \A h \in Callers : h # g /\ offer[h] # None => offer[h][1] # q[1]
  BY <1>1, AtWork DEF CallerRight
<1>3. x \in R /\ x.offer = q /\ x.demand = demand[g]
  BY <1>0, <1>2 DEF NegotiationTypes
<1>4. returned \in Seq(R) /\ returned' = Append(returned, x)
  BY <1>0 DEF NegotiationTypes
<1> HIDE DEF x
<1>5. /\ returned' \in Seq(R) /\ Len(returned') = Len(returned) + 1 /\ Len(returned) \in Nat
      /\ \A i \in 1..Len(returned) : returned'[i] = returned[i] /\ i \in 1..Len(returned')
      /\ returned'[Len(returned) + 1] = x
  <2> HIDE DEF R
  <2> QED
    BY <1>3, <1>4, AppendIs
<1>6. \A i \in 1..Len(returned') : i \in 1..Len(returned) \/ i = Len(returned) + 1
  BY <1>5
<1>7. NegotiationTypes'
  BY <1>0, <1>5 DEF NegotiationTypes, Resting
<1>8. /\ MadeInOrder' /\ InboxFresh' /\ TreeRight' /\ HeardKept' /\ InitialsOnce'
      /\ Apart' /\ Converges'
  BY DEF NegotiationInv, MadeInOrder, InboxFresh, TreeRight, HeardKept, InitialsOnce,
         Apart, Converges, Sent
<1>9. \A p : Begun(p)' <=> Begun(p)
  BY DEF Begun, Waiting
<1>10. pc'[g] = "idle" /\ \A h \in Callers \ {g} : pc'[h] = pc[h]
  BY <1>0 DEF NegotiationTypes
<1>11. "idle" \in Resting /\ "idle" \notin InHand \cup OnItsWay
  BY DEF Resting, InHand, OnItsWay
<1>12. \A p : Over(p) => Over(p)'
  <2>1. \A h \in Callers :
           \/ pc'[h] \in Resting /\ (offer'[h] = offer[h] \/ ~ Begun(offer'[h][1]))
           \/ offer'[h] = offer[h] /\ (pc'[h] = pc[h] \/ pc[h] \notin Resting)
    BY <1>10, <1>11
  <2> QED
    BY <1>9, <2>1, OverStays
<1>13. OursBegun' /\ ToldOver'
  BY <1>9, <1>12 DEF NegotiationInv, OursBegun, ToldOver
<1>14. Over(q[1])'
  BY <1>2, <1>9, <1>10, <1>11 DEF Over
<1>15. \A y : IsReturned(y) => IsReturned(y)'
  BY <1>5 DEF IsReturned
<1>16. IsReturned(q)'
  <2>1. Len(returned) + 1 \in 1..Len(returned')
    BY <1>5
  <2> QED
    BY <1>3, <1>5, <2>1 DEF IsReturned
<1>17. ASSUME NEW h \in Callers, h # g PROVE CallerRight(h)'
  <2>1. pc[h] = "sent" => parent'[After(offer[h])] = None
    BY DEF NegotiationInv, CallerRight, Bargain
  <2> QED
    BY <1>9, <1>10, <1>15, <1>17, <2>1, CallerStays
<1>18. CallerRight(g)'
  <2>1. OfferRight(g)'
    BY <1>2, <1>9, <1>10, <1>11 DEF OfferRight
  <2>2. Active(g)' /\ Bargain(g)'
    BY <1>10, <1>11 DEF Active, Bargain, InHand
  <2>3. Left(g)'
    BY <1>16 DEF Left
  <2> QED
    BY <2>1, <2>2, <2>3 DEF CallerRight
<1>19. ReturnedRight'
  <2>1. ASSUME NEW i \in 1..Len(returned), NEW r, r = returned[i].offer
        PROVE  /\ Over(r[1])'
               /\ r \in made \ Ours /\ ~ Initial(r) /\ r \notin told /\ After(r) \notin made
               /\ \A l \in 1..Len(Chain) : Chain[l] # "negotiate" => ~ Dropped(Chain[l], r[1])
               /\ returned[i].demand.platform \in CommonPlatforms(r[1])
               /\ terms[r] = terms[Before(r)] /\ terms[r] \in Values
               /\ \A t \in Terms : terms[r][t] >= Minimal[t]
               /\ \A j \in 1..Len(returned) : returned[j].offer = r => i = j
    BY <1>12, <2>1 DEF NegotiationInv, ReturnedRight
  <2>2. /\ ~ Initial(q) /\ terms[q] = terms[Before(q)] /\ terms[q] \in Values
        /\ \A t \in Terms : terms[q][t] >= Minimal[t]
        /\ x.demand.platform \in CommonPlatforms(q[1])
    BY <1>3 DEF Settled, Named
  <2>3. After(q) \notin made
    <3>1. SUFFICES ASSUME After(q) \in made PROVE FALSE
      OBVIOUS
    <3>2. After(q) \in Ours /\ After(q)[1] = q[1] /\ After(q)[2] = q[2] + 1 /\ q[2] \in Nat
      BY <1>0, <1>2, <3>1, Alternate, Numbers DEF NegotiationTypes
    <3>3. After(q)[2] < q[2]
      BY <1>2, <3>1, <3>2 DEF OfferRight
    <3> QED
      BY <3>2, <3>3
  <2>4. ASSUME NEW i \in 1..Len(returned'), NEW r, r = returned'[i].offer
        PROVE  /\ Over(r[1])'
               /\ r \in made \ Ours /\ ~ Initial(r) /\ r \notin told /\ After(r) \notin made
               /\ \A l \in 1..Len(Chain) : Chain[l] # "negotiate" => ~ Dropped(Chain[l], r[1])
               /\ returned'[i].demand.platform \in CommonPlatforms(r[1])
               /\ terms[r] = terms[Before(r)] /\ terms[r] \in Values
               /\ \A t \in Terms : terms[r][t] >= Minimal[t]
    <3>1. CASE i \in 1..Len(returned)
      <4>1. returned'[i] = returned[i]
        BY <1>5, <3>1
      <4>2. r = returned[i].offer
        BY <2>4, <4>1
      <4> QED
        BY <2>1, <3>1, <4>1, <4>2
    <3>2. CASE i = Len(returned) + 1
      <4>1. returned'[i] = x
        BY <1>5, <3>2
      <4> QED
        BY <1>2, <1>3, <1>14, <2>2, <2>3, <2>4, <4>1
    <3> QED
      BY <1>6, <3>1, <3>2
  <2>5. ASSUME NEW i \in 1..Len(returned'), NEW j \in 1..Len(returned'),
               returned'[j].offer = returned'[i].offer
        PROVE  i = j
    <3>1. CASE i \in 1..Len(returned) /\ j \in 1..Len(returned)
      BY <1>5, <2>1, <2>5, <3>1
    <3>2. CASE i \in 1..Len(returned) /\ j = Len(returned) + 1
      BY <1>2, <1>3, <1>5, <2>5, <3>2
    <3>3. CASE i = Len(returned) + 1 /\ j \in 1..Len(returned)
      BY <1>2, <1>3, <1>5, <2>5, <3>3
    <3> QED
      BY <1>6, <3>1, <3>2, <3>3
  <2> QED
    BY <2>4, <2>5 DEF ReturnedRight
<1> QED
  BY <1>7, <1>8, <1>13, <1>17, <1>18, <1>19 DEF NegotiationInv

\* An offer that goes on: to the plugin above, or to the caller.
LEMMA PassInv ==
    ASSUME NegotiationAssumption, NegotiationInv, NEW g \in Callers, Pass(g),
           pc[g] \in {"plugin", "run"},
           Chain[level[g]] # "negotiate" => ~ Dropped(Chain[level[g]], offer[g][1]),
           IF \E l \in 1..Len(Chain) : Negotiates(l) /\ l <= level[g]
           THEN Settled(g) ELSE Initial(offer[g]),
           UNCHANGED <<yagna, tree, chainStarts, offer, demand, heard, failed>>
    PROVE  NegotiationInv'
<1> USE DEF yagna, tree
<1>1. /\ NegotiationTypes /\ CallerRight(g) /\ pc[g] \in InHand /\ pc[g] \notin Resting
      /\ level[g] \in 1..Len(Chain) /\ Len(Chain) \in Nat
  BY LenProperties DEF NegotiationInv, NegotiationTypes, InHand, Resting, NegotiationAssumption
<1>2. \A l \in 1..Len(Chain) :
          l <= level[g] /\ Chain[l] # "negotiate" => ~ Dropped(Chain[l], offer[g][1])
  <2>1. \A l \in 1..Len(Chain) : l <= level[g] => l < level[g] \/ l = level[g]
    BY <1>1
  <2> QED
    BY <1>1, <2>1 DEF CallerRight, Active
<1>3. CASE level[g] < Len(Chain)
  <2>1. /\ pc' = [pc EXCEPT ![g] = "plugin"] /\ level' = [level EXCEPT ![g] = @ + 1]
        /\ returned' = returned
    BY <1>3 DEF Pass, Goto
  <2>2. pc'[g] = "plugin" /\ level'[g] = level[g] + 1 /\ level'[g] \in 1..Len(Chain)
    BY <1>1, <1>3, <2>1 DEF NegotiationTypes
  <2>3. level' \in [Callers -> 1..Len(Chain)] /\ \A h \in Callers \ {g} : level'[h] = level[h]
    BY <1>1, <2>1, <2>2 DEF NegotiationTypes
  <2>4. \A l \in 1..Len(Chain) : l < level'[g] <=> l <= level[g]
    BY <1>1, <2>2
  <2>5. Active(g)'
    BY <1>1, <1>2, <2>2, <2>4 DEF CallerRight, Active
  <2>6. Bargain(g)' /\ Left(g)'
    BY <2>2, <2>4 DEF Bargain, Left, Settled, Named, OnItsWay, Resting
  <2> QED
    BY <1>1, <2>1, <2>3, <2>5, <2>6, LocalStep DEF NegotiationTypes, InHand
<1>4. CASE ~ level[g] < Len(Chain)
  <2>1. /\ pc' = [pc EXCEPT ![g] = "idle"] /\ level' = level
        /\ returned' = Append(returned, [offer |-> offer[g], demand |-> demand[g]])
    BY <1>4 DEF Pass, Goto
  <2>2. \A l \in 1..Len(Chain) : l <= level[g]
    BY <1>1, <1>4
  <2>3. \E l \in 1..Len(Chain) : Negotiates(l)
    BY DEF Negotiates, NegotiationAssumption
  <2> QED
    BY <1>1, <1>2, <2>1, <2>2, <2>3, ReturnInv
<1> QED
  BY <1>3, <1>4

\* A filter lets an offer through, or drops it.
LEMMA FilterInv ==
    ASSUME NegotiationAssumption, NegotiationInv, NEW g \in Callers, Filter(g)
    PROVE  NegotiationInv'
<1>1. /\ CallerRight(g) /\ pc[g] = "plugin" /\ Chain[level[g]] # "negotiate"
      /\ UNCHANGED <<yagna, tree, chainStarts, offer, demand, heard, failed>>
      /\ level[g] \in 1..Len(Chain)
  BY DEF Filter, At, Plugin, NegotiationInv, NegotiationTypes
<1>2. CASE ~ Dropped(Chain[level[g]], offer[g][1])
  <2>1. Pass(g)
    BY <1>2 DEF Filter, Plugin
  <2>2. \A l \in 1..Len(Chain) : Negotiates(l) /\ l <= level[g] <=> Negotiates(l) /\ l < level[g]
    <3>1. \A l \in 1..Len(Chain) : l <= level[g] <=> l < level[g] \/ l = level[g]
      BY <1>1
    <3> QED
      BY <1>1, <3>1 DEF Negotiates
  <2>3. IF \E l \in 1..Len(Chain) : Negotiates(l) /\ l <= level[g]
        THEN Settled(g) ELSE Initial(offer[g])
    BY <1>1, <2>2 DEF CallerRight, Bargain
  <2> QED
    BY <1>1, <1>2, <2>1, <2>3, PassInv
<1>3. CASE Dropped(Chain[level[g]], offer[g][1])
  <2>1. /\ pc' = [pc EXCEPT ![g] = IF Initial(offer[g]) THEN "source" ELSE "reject"]
        /\ UNCHANGED <<level, returned>>
    BY <1>3 DEF Filter, Goto, Plugin
  <2> QED
    BY <1>1, <2>1, DropInv DEF history
<1> QED
  BY <1>2, <1>3

\* The negotiators: nothing to say, agreed, or a counter-proposal.
LEMMA RunInv ==
    ASSUME NegotiationAssumption, NegotiationInv, NEW g \in Callers, Run(g)
    PROVE  NegotiationInv'
<1> DEFINE q == offer[g]
           d == demand[g]
<1>1. /\ NegotiationTypes /\ CallerRight(g) /\ pc[g] = "run" /\ pc[g] \notin Resting
      /\ UNCHANGED <<yagna, tree, chainStarts, offer, heard, failed>>
  BY DEF Run, At, NegotiationInv, Resting
<1>2. /\ q \in Exchanges /\ q \in made \ Ours /\ Negotiates(level[g])
      /\ d \in DemandData /\ terms \in [Exchanges -> Values \cup {None}]
  BY <1>1, AtWork DEF CallerRight, Active, NegotiationTypes
<1>3. IF Initial(q) THEN d = BaseDemand ELSE Named(g) /\ terms[Before(q)] = d.terms
  BY <1>1 DEF CallerRight, Bargain
<1>4. CASE Negotiated(d, q) = {} /\ Goto(g, Unsatisfied(q)) /\ UNCHANGED <<level, demand, returned>>
  BY <1>1, <1>4, DropInv DEF Goto, Unsatisfied, history
<1>5. ASSUME NEW e \in Negotiated(d, q),
             IF Agreed(q, d, e)
             THEN Pass(g) /\ UNCHANGED demand
             ELSE /\ demand' = [demand EXCEPT ![g] = e]
                  /\ Goto(g, "send") /\ UNCHANGED <<level, returned>>
      PROVE  NegotiationInv'
  <2>1. /\ e \in DemandData /\ e.terms \in Values
        /\ \A t \in Terms : e.terms[t] >= Minimal[t]
        /\ e.platform \in CommonPlatforms(q[1])
        /\ ~ Initial(q) /\ e = d => terms[q] = d.terms
        /\ ~ Initial(q) /\ e # d => Nearer(e.terms, d.terms, terms[q])
    <3>1. Initial(q) => d = BaseDemand
      BY <1>3
    <3>2. ~ Initial(q) => /\ d.terms \in Values
                          /\ \A t \in Terms : d.terms[t] >= Minimal[t]
                          /\ d.platform \in CommonPlatforms(q[1])
      BY <1>3 DEF Named
    <3> QED
      BY <1>2, <3>1, <3>2, NegotiatedRight
  <2>2. CASE Agreed(q, d, e)
    <3>1. ~ Initial(q) /\ e = d
      BY <2>2 DEF Agreed
    <3>2. Settled(g)
      BY <1>3, <2>1, <3>1 DEF Settled
    <3>3. \E l \in 1..Len(Chain) : Negotiates(l) /\ l <= level[g]
      <4>1. level[g] \in 1..Len(Chain)
        BY <1>2 DEF Negotiates
      <4> QED
        BY <1>2, <4>1
    <3>4. Chain[level[g]] = "negotiate"
      BY <1>2 DEF Negotiates
    <3> QED
      BY <1>1, <1>5, <2>2, <3>2, <3>3, <3>4, PassInv
  <2>3. CASE ~ Agreed(q, d, e)
    <3>1. /\ demand' = [demand EXCEPT ![g] = e] /\ pc' = [pc EXCEPT ![g] = "send"]
          /\ UNCHANGED <<level, returned>>
      BY <1>5, <2>3 DEF Goto
    <3>2. /\ demand'[g] = e /\ pc'[g] = "send" /\ demand' \in [Callers -> DemandData]
          /\ \A h \in Callers \ {g} : demand'[h] = demand[h] /\ level'[h] = level[h]
      BY <1>1, <2>1, <3>1 DEF NegotiationTypes
    <3>3. Active(g)'
      BY <1>1, <3>1, <3>2 DEF CallerRight, Active
    <3>4. Named(g)'
      BY <1>1, <2>1, <3>2 DEF Named
    <3>5. ~ Initial(q) => Nearer(e.terms, terms[Before(q)], terms[q])
      BY <1>3, <2>1, <2>3 DEF Agreed
    <3>6. Bargain(g)' /\ Left(g)'
      BY <1>1, <3>2, <3>4, <3>5 DEF Bargain, Left, OnItsWay, Resting, yagna
    <3> QED
      BY <1>1, <3>1, <3>2, <3>3, <3>6, LocalStep DEF NegotiationTypes, InHand
  <2> QED
    BY <2>2, <2>3
<1> QED
  BY <1>4, <1>5 DEF Run

\* The first offer that is taken was never taken before: nobody is at its provider.
LEMMA SourceInv ==
    ASSUME NegotiationAssumption, NegotiationInv, NEW g \in Callers, Source(g)
    PROVE  NegotiationInv'
<1> PICK q : q = Head(initialProposals)
  OBVIOUS
<1>0. NegotiationTypes
  BY DEF NegotiationInv
<1>1. /\ pc[g] = "source" /\ initialProposals # <<>> /\ initialProposals' = Tail(initialProposals)
      /\ offer' = [offer EXCEPT ![g] = q] /\ level' = [level EXCEPT ![g] = 1]
      /\ pc' = [pc EXCEPT ![g] = "plugin"]
      /\ UNCHANGED <<yagna, known, parent, children, ended, collector, chainStarts, demand, history>>
  BY DEF Source, At, Goto
<1>2. /\ Tail(initialProposals) \in Seq(Exchanges)
      /\ Len(Tail(initialProposals)) = Len(initialProposals) - 1
      /\ Len(initialProposals) \in Nat \ {0} /\ q = initialProposals[1] /\ q \in Exchanges
      /\ \A i \in 1..Len(Tail(initialProposals)) :
            /\ Tail(initialProposals)[i] = initialProposals[i + 1]
            /\ i + 1 \in 1..Len(initialProposals)
  <2>1. initialProposals \in Seq(Exchanges)
    BY <1>0 DEF NegotiationTypes
  <2> QED
    BY <1>1, <2>1, TailIs
<1>3. 1 \in 1..Len(initialProposals) /\ Initial(q) /\ q \in known /\ Waiting(q)
  BY <1>2 DEF NegotiationInv, InitialsOnce, Waiting
<1>4. q = <<q[1], 0>> /\ q \notin Ours /\ q \in made
  BY <1>2, <1>3, Numbers, Alternate DEF NegotiationInv, TreeRight
<1>5. ~ Begun(q[1])
  BY <1>3, <1>4 DEF Begun
<1>6. /\ made' = made /\ terms' = terms /\ inbox' = inbox /\ told' = told /\ returned' = returned
      /\ heard' = heard /\ failed' = failed
  BY <1>1 DEF yagna, history
<1>7. \A p : Begun(p) => Begun(p)'
  BY <1>1, BegunStays
<1>8. Begun(q[1])'
  <2>1. \A i \in 1..Len(initialProposals') : initialProposals'[i] = initialProposals[i + 1]
                                             /\ i + 1 \in 1..Len(initialProposals) /\ i + 1 # 1
    BY <1>1, <1>2
  <2>2. \A i \in 1..Len(initialProposals') : initialProposals'[i] # q
    BY <1>2, <1>3, <2>1 DEF NegotiationInv, InitialsOnce
  <2> QED
    BY <1>1, <1>3, <1>4, <2>2 DEF Begun, Waiting
<1>9. 1 \in 1..Len(Chain)
  <2>1. PICK i \in 1..Len(Chain) : TRUE
    BY DEF NegotiationAssumption
  <2> QED
    BY <2>1, LenProperties DEF NegotiationAssumption
<1>10. NegotiationTypes'
  BY <1>0, <1>1, <1>2, <1>6, <1>9 DEF NegotiationTypes, InHand
<1>11. /\ pc'[g] = "plugin" /\ offer'[g] = q /\ level'[g] = 1
       /\ "plugin" \in InHand /\ "plugin" \notin Resting \cup OnItsWay
       /\ \A h \in Callers \ {g} : pc'[h] = pc[h] /\ offer'[h] = offer[h] /\ level'[h] = level[h]
  BY <1>0, <1>1 DEF NegotiationTypes, InHand, Resting, OnItsWay
<1>12. MadeInOrder' /\ InboxFresh' /\ TreeRight' /\ HeardKept' /\ Converges'
  BY <1>1, <1>6 DEF NegotiationInv, MadeInOrder, InboxFresh, TreeRight, HeardKept, Converges, Sent
<1>13. InitialsOnce'
  <2>1. \A i \in 1..Len(initialProposals') : initialProposals'[i] = initialProposals[i + 1]
                                             /\ i + 1 \in 1..Len(initialProposals) /\ i \in Nat
    BY <1>1, <1>2
  <2>2. \A i \in 1..Len(initialProposals') :
            Initial(initialProposals'[i]) /\ initialProposals'[i] \in known'
    BY <1>1, <2>1 DEF NegotiationInv, InitialsOnce
  <2>3. ASSUME NEW i \in 1..Len(initialProposals'), NEW j \in 1..Len(initialProposals'),
               initialProposals'[i] = initialProposals'[j]
        PROVE  i = j
    <3>1. i + 1 = j + 1
      BY <2>1, <2>3 DEF NegotiationInv, InitialsOnce
    <3> QED
      BY <2>1, <3>1
  <2> QED
    BY <2>2, <2>3 DEF InitialsOnce
<1>14. \A h \in Callers : offer[h] # None => Begun(offer[h][1]) /\ offer[h][1] # q[1]
  BY <1>5 DEF NegotiationInv, CallerRight, OfferRight
<1>15. Apart'
  BY <1>11, <1>14 DEF NegotiationInv, Apart
<1>16. \A p : Over(p) => Over(p)'
  <2>1. \A h \in Callers :
           \/ offer'[h] = offer[h] /\ (pc'[h] = pc[h] \/ pc[h] \notin Resting)
           \/ ~ Begun(offer'[h][1])
    BY <1>5, <1>11
  <2> QED
    BY <1>7, <2>1, OverStays
<1>17. OursBegun' /\ ToldOver'
  BY <1>6, <1>7, <1>16 DEF NegotiationInv, OursBegun, ToldOver
<1>18. \A x : IsReturned(x) => IsReturned(x)'
  BY <1>6 DEF IsReturned
<1>19. ASSUME NEW h \in Callers, h # g PROVE CallerRight(h)'
  <2>1. pc[h] = "sent" => parent'[After(offer[h])] = None
    BY <1>1 DEF NegotiationInv, CallerRight, Bargain
  <2> QED
    BY <1>1, <1>6, <1>7, <1>11, <1>18, <1>19, <2>1, CallerStays
<1>20. CallerRight(g)'
  <2>1. \A r \in made \cap Ours : r[1] # q[1]
    BY <1>5 DEF NegotiationInv, OursBegun
  <2>2. OfferRight(g)'
    BY <1>4, <1>6, <1>8, <1>11, <2>1 DEF OfferRight
  <2>3. q # None
    BY <1>2 DEF NegotiationAssumption
  <2>4. \A l \in 1..Len(Chain) : ~ l < 1
    OBVIOUS
  <2>5. Active(g)'
    BY <1>11, <2>3, <2>4 DEF Active
  <2>6. Bargain(g)' /\ Left(g)'
    BY <1>3, <1>11, <2>4 DEF Bargain, Left, OnItsWay, Resting
  <2> QED
    BY <2>2, <2>5, <2>6 DEF CallerRight
<1>21. ReturnedRight'
  <2>1. \A i \in 1..Len(returned) :
            After(returned[i].offer) \notin made' /\ returned[i].offer \notin told'
    BY <1>6 DEF NegotiationInv, ReturnedRight
  <2> QED
    BY <1>6, <1>16, <2>1, ReturnedStay
<1> QED
  BY <1>10, <1>12, <1>13, <1>15, <1>17, <1>19, <1>20, <1>21 DEF NegotiationInv

\* Our counter-proposal is the first answer to the offer in hand.
LEMMA RespondInv ==
    ASSUME NegotiationAssumption, NegotiationInv, NEW g \in Callers, Respond(g)
    PROVE  NegotiationInv'
<1> USE DEF tree, history
<1> DEFINE q == offer[g]
           n == After(q)
<1>1. /\ NegotiationTypes /\ pc[g] = "send" /\ n[2] <= MaxLen
      /\ made' = made \cup {n} /\ terms' = [terms EXCEPT ![n] = demand[g].terms]
      /\ pc' = [pc EXCEPT ![g] = "sent"]
      /\ UNCHANGED <<inbox, told, tree, chainStarts, level, offer, demand, history>>
  BY DEF Respond, At, Goto, NegotiationInv
<1>2. /\ "send" \in InHand /\ "send" \notin Resting /\ "sent" \in OnItsWay
      /\ "sent" \notin InHand \cup Resting
  BY DEF InHand, Resting, OnItsWay
<1>3. /\ CallerRight(g) /\ q \in Exchanges /\ q # None /\ q \in made \ Ours /\ Begun(q[1])
      /\ \A i \in 1..Len(returned) : returned[i].offer # q
      /\ \A h \in Callers : h # g /\ offer[h] # None => offer[h][1] # q[1]
  BY <1>1, <1>2, AtWork
<1>4. /\ n \in Exchanges /\ n[1] = q[1] /\ n[2] = q[2] + 1 /\ q[2] \in Nat
      /\ Before(n) = q /\ ~ Initial(n)
  BY <1>1, <1>3, Numbers
<1>5. n \in Ours
  BY <1>3, <1>4, Alternate
<1>6. \A r \in made \cap Ours : r[1] = q[1] => r[2] < q[2]
  BY <1>1, <1>2, <1>3 DEF CallerRight, OfferRight
<1>7. n \notin made
  BY <1>4, <1>5, <1>6
<1>8. Named(g) /\ (~ Initial(q) => Nearer(demand[g].terms, terms[Before(q)], terms[q]))
  BY <1>1, <1>3 DEF CallerRight, Bargain
<1> HIDE DEF n, q
<1>9. \A r \in made : terms'[r] = terms[r]
  BY <1>1, <1>7 DEF NegotiationTypes
<1>10. terms'[n] = demand[g].terms
  BY <1>1, <1>4 DEF NegotiationTypes
<1>11. NegotiationTypes'
  <2>1. demand[g].terms \in Values
    BY <1>8 DEF Named
  <2> QED
    BY <1>1, <1>2, <1>4, <2>1 DEF NegotiationTypes
<1>12. MadeInOrder'
  BY <1>1, <1>3, <1>4 DEF NegotiationInv, MadeInOrder
<1>13. InboxFresh' /\ TreeRight' /\ HeardKept' /\ InitialsOnce' /\ Apart'
  BY <1>1 DEF NegotiationInv, InboxFresh, TreeRight, HeardKept, InitialsOnce, Apart
<1>14. \A p : Begun(p)' <=> Begun(p)
  BY <1>1 DEF Begun, Waiting
<1>15. pc'[g] = "sent" /\ \A h \in Callers \ {g} : pc'[h] = pc[h]
  BY <1>1 DEF NegotiationTypes
<1>16. \A p : Over(p) => Over(p)'
  <2>1. \A h \in Callers : offer'[h] = offer[h] /\ (pc'[h] = pc[h] \/ pc[h] \notin Resting)
    BY <1>1, <1>2, <1>15
  <2> QED
    BY <1>14, <2>1, OverStays
<1>17. OursBegun'
  BY <1>1, <1>3, <1>4, <1>14 DEF NegotiationInv, OursBegun
<1>18. ToldOver'
  BY <1>1, <1>16 DEF NegotiationInv, ToldOver
<1>19. \A x : IsReturned(x) => IsReturned(x)'
  BY <1>1 DEF IsReturned
<1>20. ASSUME NEW h \in Callers, h # g PROVE CallerRight(h)'
  <2>1. pc[h] = "sent" => parent'[After(offer[h])] = None
    BY <1>1 DEF NegotiationInv, CallerRight, Bargain
  <2>2. \A r \in made' : r \in made \/ r \notin Ours \/ (offer[h] # None => r[1] # offer[h][1])
    BY <1>1, <1>3, <1>4, <1>20
  <2> QED
    BY <1>1, <1>9, <1>14, <1>15, <1>19, <1>20, <2>1, <2>2, CallerStays
<1>21. CallerRight(g)'
  <2>1. \A r \in made' \cap Ours : r[1] = q[1] => r[2] <= q[2] + 1
    <3> SUFFICES ASSUME NEW r \in made' \cap Ours, r[1] = q[1] PROVE r[2] <= q[2] + 1
      OBVIOUS
    <3>1. CASE r = n
      BY <1>4, <3>1
    <3>2. CASE r \in made
      <4>1. r[2] < q[2] /\ r[2] \in Nat
        BY <1>1, <1>6, <3>2, Numbers DEF NegotiationTypes
      <4> QED
        BY <1>4, <4>1
    <3> QED
      BY <1>1, <3>1, <3>2
  <2>2. offer'[g] = q
    BY <1>1 DEF q
  <2>3. OfferRight(g)'
    BY <1>1, <1>2, <1>3, <1>14, <1>15, <2>1, <2>2 DEF OfferRight
  <2>4. Active(g)'
    BY <1>1, <1>2, <1>3, <1>15 DEF CallerRight, Active
  <2>5. parent[n] = None
    BY <1>4, <1>7 DEF NegotiationInv, TreeRight
  <2>6. Bargain(g)' /\ Left(g)'
    <3>1. Named(g)'
      BY <1>1, <1>8 DEF Named
    <3>2. After(offer'[g]) = n
      BY <2>2 DEF n
    <3> QED
      BY <1>1, <1>2, <1>10, <1>15, <2>5, <3>1, <3>2 DEF Bargain, Left
  <2> QED
    BY <2>3, <2>4, <2>6 DEF CallerRight
<1>22. ReturnedRight'
  <2>1. ASSUME NEW i \in 1..Len(returned)
        PROVE  After(returned[i].offer) \notin made' /\ returned[i].offer \notin told'
    <3>1. /\ returned[i].offer \in made /\ After(returned[i].offer) \notin made
          /\ returned[i].offer \notin told
      BY DEF NegotiationInv, ReturnedRight
    <3>2. Before(After(returned[i].offer)) = returned[i].offer
      BY <1>1, <3>1, Numbers DEF NegotiationTypes
    <3>3. After(returned[i].offer) # n
      BY <1>3, <1>4, <3>2
    <3> QED
      BY <1>1, <3>1, <3>3
  <2> QED
    BY <1>1, <1>9, <1>16, <2>1, ReturnedStay
<1>23. Converges'
  <2>1. ASSUME n[2] >= 3
        PROVE  Nearer(terms'[n], terms'[Before(Before(n))], terms'[Before(n)])
    <3>1. ~ Initial(q)
      BY <1>4, <2>1 DEF Initial
    <3>2. Before(q) \in made
      BY <1>3, <3>1 DEF NegotiationInv, MadeInOrder
    <3> QED
      BY <1>3, <1>4, <1>8, <1>9, <1>10, <3>1, <3>2
  <2>2. \A r \in made' \cap Ours : r \notin made => r = n
    BY <1>1
  <2> QED
    BY <1>1, <1>9, <2>1, <2>2, ConvergesStays
<1> QED
  BY <1>11, <1>12, <1>13, <1>17, <1>18, <1>20, <1>21, <1>22, <1>23 DEF NegotiationInv

\* The object of our proposal, whether the collector made it before or not.
LEMMA RespondedInv ==
    ASSUME NegotiationAssumption, NegotiationInv, NEW g \in Callers, Responded(g)
    PROVE  NegotiationInv'
<1> USE DEF yagna, history
<1> PICK q : q = offer[g]
  OBVIOUS
<1> DEFINE n == After(q)
<1>1. /\ NegotiationTypes /\ pc[g] = "sent" /\ known' = known \cup {n}
      /\ parent' = [parent EXCEPT ![n] = q]
      /\ children' = [children EXCEPT ![q] = @ \cup {n}]
      /\ pc' = [pc EXCEPT ![g] = "wait"]
      /\ UNCHANGED <<yagna, ended, collector, initialProposals, chainStarts, level, offer, demand,
                     history>>
  BY DEF Responded, At, Goto, SameChildren, NegotiationInv
<1>2. /\ "sent" \in OnItsWay /\ "sent" \notin Resting /\ "wait" \in OnItsWay
      /\ "wait" \notin InHand \cup Resting
  BY DEF InHand, Resting, OnItsWay
<1>3. /\ CallerRight(g) /\ q \in Exchanges /\ q # None /\ q \in made \ Ours
      /\ \A h \in Callers : h # g /\ offer[h] # None => offer[h][1] # q[1]
  BY <1>1, <1>2, AtWork
<1>4. n \in made
  BY <1>1, <1>2, <1>3 DEF CallerRight, Bargain
<1>5. /\ n \in Exchanges /\ n[1] = q[1] /\ Before(n) = q /\ ~ Initial(n) /\ n \in Ours
  <2>1. n \in Exchanges
    BY <1>1, <1>4 DEF NegotiationTypes
  <2> QED
    BY <1>3, <2>1, Numbers, Alternate
<1>6. NegotiationTypes'
  BY <1>1, <1>2, <1>3, <1>5 DEF NegotiationTypes
<1>7. MadeInOrder' /\ Apart' /\ Converges'
  BY <1>1 DEF NegotiationInv, MadeInOrder, Apart, Converges, Sent
<1>8. InboxFresh'
  <2>1. \A x \in known' : x \in known \/ x \in Ours
    BY <1>1, <1>5
  <2>2. inbox' = inbox /\ made' = made /\ InboxFresh
    BY <1>1 DEF NegotiationInv
  <2> HIDE DEF yagna, history, n
  <2>3. \A i \in 1..Len(inbox) :
            IF inbox[i].kind = "rejected" THEN inbox[i].of \in Ours
            ELSE inbox[i].of \in made \ (Ours \cup known')
    BY <2>1, <2>2 DEF InboxFresh
  <2> QED
    BY <2>2, <2>3 DEF InboxFresh
<1>9. TreeRight'
  <2>1. known' \subseteq made' \cup Ours
    BY <1>1, <1>5 DEF NegotiationInv, TreeRight
  <2>2. \A x \in Exchanges : parent'[x] # None => x \in known' \cap made'
    BY <1>1, <1>4, <1>5 DEF NegotiationInv, TreeRight, NegotiationTypes
  <2>3. \A x \in Exchanges : children'[x] \subseteq {After(x)} \cap made'
    BY <1>1, <1>4 DEF NegotiationInv, TreeRight, NegotiationTypes
  <2>4. \A x \in known' :
            IF Initial(x) THEN parent'[x] = "demand" ELSE parent'[x] \in {None, Before(x)}
    BY <1>1, <1>5 DEF NegotiationInv, TreeRight, NegotiationTypes
  <2> QED
    BY <2>1, <2>2, <2>3, <2>4 DEF TreeRight
<1>10. HeardKept' /\ InitialsOnce'
  <2>1. \A x \in Exchanges : children[x] \subseteq children'[x]
    BY <1>1 DEF NegotiationTypes
  <2>2. \A e \in heard : e.of \in Exchanges
    BY <1>1 DEF NegotiationTypes, Events
  <2>3. \A e \in heard : ~ Initial(e.of) => Before(e.of) \in Exchanges
    BY <2>2, Numbers
  <2>4. HeardKept'
    BY <1>1, <2>1, <2>3 DEF NegotiationInv, HeardKept
  <2> QED
    BY <1>1, <2>4 DEF NegotiationInv, InitialsOnce
<1>11. \A p : Begun(p) => Begun(p)'
  BY <1>1, BegunStays
<1>12. pc'[g] = "wait" /\ \A h \in Callers \ {g} : pc'[h] = pc[h]
  BY <1>1 DEF NegotiationTypes
<1>13. \A p : Over(p) => Over(p)'
  <2>1. \A h \in Callers : offer'[h] = offer[h] /\ (pc'[h] = pc[h] \/ pc[h] \notin Resting)
    BY <1>1, <1>2, <1>12
  <2> QED
    BY <1>11, <2>1, OverStays
<1>14. OursBegun' /\ ToldOver'
  BY <1>1, <1>11, <1>13 DEF NegotiationInv, OursBegun, ToldOver
<1>15. \A x : IsReturned(x) => IsReturned(x)'
  BY <1>1 DEF IsReturned
<1>16. ASSUME NEW h \in Callers, h # g PROVE CallerRight(h)'
  <2>1. ASSUME pc[h] = "sent" PROVE parent'[After(offer[h])] = None
    <3>1. /\ offer[h] \in Exchanges /\ offer[h] # None /\ CallerRight(h)
      BY <1>2, <2>1, AtWork
    <3>2. After(offer[h])[1] = offer[h][1] /\ offer[h][1] # q[1]
      BY <1>3, <1>16, <3>1, Numbers
    <3>3. After(offer[h]) \in Exchanges /\ parent[After(offer[h])] = None
      BY <1>1, <1>2, <2>1, <3>1 DEF CallerRight, Bargain, NegotiationTypes
    <3> QED
      BY <1>1, <1>5, <3>2, <3>3 DEF NegotiationTypes
  <2> QED
    BY <1>1, <1>11, <1>12, <1>15, <1>16, <2>1, CallerStays
<1>17. CallerRight(g)'
  <2>1. OfferRight(g)'
    BY <1>1, <1>2, <1>3, <1>11, <1>12 DEF CallerRight, OfferRight
  <2>2. Active(g)'
    BY <1>1, <1>2, <1>3, <1>12 DEF CallerRight, Active
  <2>3. Named(g)' /\ After(offer'[g]) \in made' /\ terms'[After(offer'[g])] = demand'[g].terms
    BY <1>1, <1>2, <1>3 DEF CallerRight, Bargain, Named
  <2>4. Bargain(g)' /\ Left(g)'
    BY <1>2, <1>12, <2>3 DEF Bargain, Left
  <2> QED
    BY <2>1, <2>2, <2>4 DEF CallerRight
<1>18. ReturnedRight'
  <2>1. \A i \in 1..Len(returned) :
            After(returned[i].offer) \notin made' /\ returned[i].offer \notin told'
    BY <1>1 DEF NegotiationInv, ReturnedRight
  <2> QED
    BY <1>1, <1>13, <2>1, ReturnedStay
<1> QED
  BY <1>6, <1>7, <1>8, <1>9, <1>10, <1>14, <1>16, <1>17, <1>18 DEF NegotiationInv

\* The answer that is received is the one to our last proposal.
LEMMA ReceiveInv ==
    ASSUME NegotiationAssumption, NegotiationInv, NEW g \in Callers, Receive(g)
    PROVE  NegotiationInv'
<1> USE DEF yagna, tree, history
<1> PICK q : q = offer[g]
  OBVIOUS
<1>1. PICK c \in children[After(q)] :
        /\ NegotiationTypes /\ pc[g] = "wait" /\ offer' = [offer EXCEPT ![g] = c]
        /\ pc' = [pc EXCEPT ![g] = "run"]
        /\ UNCHANGED <<yagna, tree, chainStarts, level, demand, history>>
  BY DEF Receive, At, Goto, NegotiationInv
<1>2. /\ "wait" \in OnItsWay /\ "wait" \notin Resting /\ "run" \in InHand
      /\ "run" \notin OnItsWay \cup Resting
  BY DEF InHand, Resting, OnItsWay
<1>3. /\ CallerRight(g) /\ q \in Exchanges /\ q # None /\ q \in made \ Ours /\ Begun(q[1])
      /\ \A h \in Callers : h # g /\ offer[h] # None => offer[h][1] # q[1]
  BY <1>1, <1>2, AtWork
<1>4. Named(g) /\ After(q) \in made /\ terms[After(q)] = demand[g].terms
  BY <1>1, <1>2, <1>3 DEF CallerRight, Bargain
<1>5. After(q) \in Exchanges /\ After(q) \in Ours /\ After(q)[1] = q[1] /\ After(q)[2] = q[2] + 1
      /\ q[2] \in Nat
  <2>1. After(q) \in Exchanges
    BY <1>1, <1>4 DEF NegotiationTypes
  <2> QED
    BY <1>3, <2>1, Numbers, Alternate
<1>6. c = After(After(q)) /\ c \in made
  BY <1>1, <1>5 DEF NegotiationInv, TreeRight
<1>7. /\ c \in Exchanges /\ c \notin Ours /\ c[1] = q[1] /\ c[2] = q[2] + 2 /\ Before(c) = After(q)
      /\ ~ Initial(c)
  <2>1. c \in Exchanges
    BY <1>1, <1>6 DEF NegotiationTypes
  <2>2. c \notin Ours
    BY <1>5, <1>6, <2>1, Alternate
  <2>3. c[1] = q[1] /\ c[2] = q[2] + 1 + 1 /\ Before(c) = After(q) /\ ~ Initial(c)
    BY <1>5, <1>6, Numbers
  <2> QED
    BY <1>5, <2>1, <2>2, <2>3
<1>8. c # None
  BY <1>7 DEF NegotiationAssumption
<1>9. NegotiationTypes'
  BY <1>1, <1>2, <1>7 DEF NegotiationTypes
<1>10. /\ MadeInOrder' /\ InboxFresh' /\ TreeRight' /\ HeardKept' /\ InitialsOnce' /\ Converges'
  BY <1>1 DEF NegotiationInv, MadeInOrder, InboxFresh, TreeRight, HeardKept, InitialsOnce,
              Converges, Sent
<1>11. /\ pc'[g] = "run" /\ offer'[g] = c
       /\ \A h \in Callers \ {g} : pc'[h] = pc[h] /\ offer'[h] = offer[h]
  BY <1>1 DEF NegotiationTypes
<1>12. Apart'
  BY <1>3, <1>7, <1>11 DEF NegotiationInv, Apart
<1>13. \A p : Begun(p)' <=> Begun(p)
  BY <1>1 DEF Begun, Waiting
<1>14. \A p : Over(p) => Over(p)'
  <2>1. \A h \in Callers :
           \/ offer'[h] = offer[h] /\ (pc'[h] = pc[h] \/ pc[h] \notin Resting)
           \/ pc[h] \notin Resting /\ offer[h] # None /\ offer'[h][1] = offer[h][1]
    BY <1>1, <1>2, <1>3, <1>7, <1>11
  <2> QED
    BY <1>13, <2>1, OverStays
<1>15. OursBegun' /\ ToldOver'
  BY <1>1, <1>13, <1>14 DEF NegotiationInv, OursBegun, ToldOver
<1>16. \A x : IsReturned(x) => IsReturned(x)'
  BY <1>1 DEF IsReturned
<1>17. ASSUME NEW h \in Callers, h # g PROVE CallerRight(h)'
  <2>1. pc[h] = "sent" => parent'[After(offer[h])] = None
    BY <1>1 DEF NegotiationInv, CallerRight, Bargain
  <2> QED
    BY <1>1, <1>11, <1>13, <1>16, <1>17, <2>1, CallerStays
<1>18. CallerRight(g)'
  <2>1. ASSUME NEW r \in made \cap Ours, r[1] = q[1] PROVE r[2] < c[2] /\ r[2] <= c[2] + 1
    <3>1. r[2] <= q[2] + 1 /\ r[2] \in Nat
      BY <1>1, <1>3, <2>1, Numbers DEF CallerRight, OfferRight, NegotiationTypes
    <3> QED
      BY <1>5, <1>7, <3>1
  <2>2. OfferRight(g)'
    BY <1>1, <1>3, <1>6, <1>7, <1>11, <1>13, <2>1 DEF OfferRight
  <2>3. Active(g)'
    BY <1>1, <1>2, <1>3, <1>7, <1>8, <1>11 DEF CallerRight, Active
  <2>4. Named(g)'
    BY <1>1, <1>4, <1>7, <1>11 DEF Named
  <2>5. Bargain(g)' /\ Left(g)'
    BY <1>1, <1>2, <1>4, <1>7, <1>11, <2>4 DEF Bargain, Left
  <2> QED
    BY <2>2, <2>3, <2>5 DEF CallerRight
<1>19. ReturnedRight'
  <2>1. \A i \in 1..Len(returned) :
            After(returned[i].offer) \notin made' /\ returned[i].offer \notin told'
    BY <1>1 DEF NegotiationInv, ReturnedRight
  <2> QED
    BY <1>1, <1>14, <2>1, ReturnedStay
<1> QED
  BY <1>9, <1>10, <1>12, <1>15, <1>17, <1>18, <1>19 DEF NegotiationInv

\* The provider hears, and the caller is done with it.
LEMMA RejectInv ==
    ASSUME NegotiationAssumption, NegotiationInv, NEW g \in Callers, Reject(g)
    PROVE  NegotiationInv'
<1> USE DEF tree, history
<1> PICK q : q = offer[g]
  OBVIOUS
<1>1. /\ NegotiationTypes /\ pc[g] = "reject" /\ told' = told \cup {q}
      /\ pc' = [pc EXCEPT ![g] = "source"]
      /\ UNCHANGED <<made, terms, inbox, tree, chainStarts, level, offer, demand, history>>
  BY DEF Reject, At, Goto, NegotiationInv
<1>2. /\ "reject" \in InHand /\ "reject" \notin Resting /\ "source" \in Resting
      /\ "source" \notin InHand \cup OnItsWay
  BY DEF InHand, Resting, OnItsWay
<1>3. /\ CallerRight(g) /\ q \in Exchanges /\ q # None /\ q \in made \ Ours /\ Begun(q[1])
      /\ \A i \in 1..Len(returned) : returned[i].offer # q
      /\ \A h \in Callers : h # g /\ offer[h] # None => offer[h][1] # q[1]
  BY <1>1, <1>2, AtWork
<1>4. NegotiationTypes'
  BY <1>1, <1>2 DEF NegotiationTypes
<1>5. /\ MadeInOrder' /\ InboxFresh' /\ TreeRight' /\ HeardKept' /\ InitialsOnce'
      /\ Apart' /\ Converges'
  BY <1>1 DEF NegotiationInv, MadeInOrder, InboxFresh, TreeRight, HeardKept, InitialsOnce,
              Apart, Converges, Sent
<1>6. pc'[g] = "source" /\ \A h \in Callers \ {g} : pc'[h] = pc[h]
  BY <1>1 DEF NegotiationTypes
<1>7. \A p : Begun(p)' <=> Begun(p)
  BY <1>1 DEF Begun, Waiting
<1>8. \A p : Over(p) => Over(p)'
  <2>1. \A h \in Callers : offer'[h] = offer[h] /\ (pc'[h] = pc[h] \/ pc[h] \notin Resting)
    BY <1>1, <1>2, <1>6
  <2> QED
    BY <1>7, <2>1, OverStays
<1>9. Over(q[1])'
  BY <1>1, <1>2, <1>3, <1>6, <1>7 DEF Over
<1>10. OursBegun' /\ ToldOver'
  BY <1>1, <1>7, <1>8, <1>9 DEF NegotiationInv, OursBegun, ToldOver
<1>11. \A x : IsReturned(x) => IsReturned(x)'
  BY <1>1 DEF IsReturned
<1>12. ASSUME NEW h \in Callers, h # g PROVE CallerRight(h)'
  <2>1. pc[h] = "sent" => parent'[After(offer[h])] = None
    BY <1>1 DEF NegotiationInv, CallerRight, Bargain
  <2> QED
    BY <1>1, <1>6, <1>7, <1>11, <1>12, <2>1, CallerStays
<1>13. CallerRight(g)'
  <2>1. OfferRight(g)'
    BY <1>1, <1>2, <1>3, <1>6, <1>7 DEF CallerRight, OfferRight
  <2>2. Active(g)' /\ Bargain(g)'
    BY <1>2, <1>6 DEF Active, Bargain, InHand
  <2>3. Left(g)'
    BY <1>1 DEF Left
  <2> QED
    BY <2>1, <2>2, <2>3 DEF CallerRight
<1>14. ReturnedRight'
  <2>1. \A i \in 1..Len(returned) :
            After(returned[i].offer) \notin made' /\ returned[i].offer \notin told'
    BY <1>1, <1>3 DEF NegotiationInv, ReturnedRight
  <2> QED
    BY <1>1, <1>8, <2>1, ReturnedStay
<1> QED
  BY <1>4, <1>5, <1>10, <1>12, <1>13, <1>14 DEF NegotiationInv

\* A step of a caller.
LEMMA StepInv ==
    ASSUME NegotiationAssumption, NegotiationInv, NEW g \in Callers, Step(g)
    PROVE  NegotiationInv'
<1>1. CASE Call(g)
  BY <1>1, CallInv
<1>2. CASE Source(g)
  BY <1>2, SourceInv
<1>3. CASE Filter(g)
  BY <1>3, FilterInv
<1>4. CASE Begin(g)
  BY <1>4, BeginInv
<1>5. CASE Run(g)
  BY <1>5, RunInv
<1>6. CASE Respond(g)
  BY <1>6, RespondInv
<1>7. CASE Responded(g)
  BY <1>7, RespondedInv
<1>8. CASE RunRaises(g) \/ SendRaises(g) \/ Timeout(g)
  BY <1>8, FailInv DEF RunRaises, SendRaises, Timeout, GiveUp, Goto, Resting
<1>9. CASE Receive(g)
  BY <1>9, ReceiveInv
<1>10. CASE Sleep(g)
  BY <1>10, WaitInv DEF Sleep, At, Goto
<1>11. CASE Wake(g)
  <2>1. CASE ended[After(offer[g])] = "no"
    BY <1>11, <2>1, WaitInv DEF Wake, At, Goto, history
  <2>2. CASE ended[After(offer[g])] # "no"
    BY <1>11, <2>2, FailInv DEF Wake, At, Goto, Resting
  <2> QED
    BY <2>1, <2>2
<1>12. CASE Reject(g)
  BY <1>12, RejectInv
<1>13. CASE RejectRaises(g)
  <2> DEFINE l == IF Plugin(g) = "negotiate" THEN "source" ELSE "raised"
  <2>1. l \in Resting
    BY DEF Resting
  <2>2. /\ pc' = [pc EXCEPT ![g] = l] /\ failed' = failed \cup {offer[g]}
        /\ UNCHANGED <<yagna, tree, chainStarts, level, offer, demand, returned, heard>>
    BY <1>13 DEF RejectRaises, At, Goto
  <2> HIDE DEF l
  <2> QED
    BY <2>1, <2>2, FailInv
<1> QED
  BY <1>1, <1>2, <1>3, <1>4, <1>5, <1>6, <1>7, <1>8, <1>9, <1>10, <1>11, <1>12, <1>13 DEF Step

\* Steps that only count, and no steps.
LEMMA NegotiationStutter ==
    ASSUME NegotiationAssumption, NegotiationInv, UNCHANGED <<yagna, tree, calls, history>>
    PROVE  NegotiationInv'
<1> USE DEF yagna, tree, calls, history
<1>1. NegotiationTypes'
  BY DEF NegotiationInv, NegotiationTypes
<1>2. /\ MadeInOrder' /\ InboxFresh' /\ TreeRight' /\ HeardKept' /\ InitialsOnce'
      /\ Apart' /\ Converges'
  BY DEF NegotiationInv, MadeInOrder, InboxFresh, TreeRight, HeardKept, InitialsOnce,
         Apart, Converges, Sent
<1>3. \A p : Begun(p)' <=> Begun(p)
  BY DEF Begun, Waiting
<1>4. \A p : Over(p)' <=> Over(p)
  BY <1>3 DEF Over
<1>5. OursBegun' /\ ToldOver'
  BY <1>3, <1>4 DEF NegotiationInv, OursBegun, ToldOver
<1>6. ASSUME NEW h \in Callers PROVE CallerRight(h)'
  <2>1. pc[h] = "sent" => parent'[After(offer[h])] = None
    BY DEF NegotiationInv, CallerRight, Bargain
  <2>2. \A x : IsReturned(x) => IsReturned(x)'
    BY DEF IsReturned
  <2> QED
    BY <1>3, <2>1, <2>2, CallerStays
<1>7. ReturnedRight'
  <2>1. \A i \in 1..Len(returned) :
            After(returned[i].offer) \notin made' /\ returned[i].offer \notin told'
    BY DEF NegotiationInv, ReturnedRight
  <2> QED
    BY <1>4, <2>1, ReturnedStay
<1> QED
  BY <1>1, <1>2, <1>5, <1>6, <1>7 DEF NegotiationInv

\* NegotiationInv is inductive.
LEMMA NegotiationStep ==
    ASSUME NegotiationAssumption, NegotiationInv, [NegotiationNext]_negotiationVars
    PROVE  NegotiationInv'
<1>1. CASE \E p \in Providers : Match(p)
  BY <1>1, MatchInv
<1>2. CASE \E q \in Exchanges : Answer(q)
  BY <1>2, AnswerInv
<1>3. CASE Collect
  BY <1>3, CollectInv
<1>4. CASE Close
  BY <1>4, CloseInv
<1>5. CASE StartChain \/ UNCHANGED negotiationVars
  BY <1>5, NegotiationStutter DEF StartChain, negotiationVars
<1>6. CASE \E g \in Callers : Step(g)
  BY <1>6, StepInv
<1> QED
  BY <1>1, <1>2, <1>3, <1>4, <1>5, <1>6 DEF NegotiationNext

\* NegotiationInv holds in every reachable state.
LEMMA NegotiationInvariant == NegotiationSpec => []NegotiationInv
<1>1. NegotiationInit => NegotiationInv
  BY NegotiationAssumption, NegotiationStart
<1>2. NegotiationInv /\ [NegotiationNext]_negotiationVars => NegotiationInv'
  BY NegotiationAssumption, NegotiationStep
<1> QED
  BY <1>1, <1>2, PTL DEF NegotiationSpec

-----------------------------------------------------------------------------

\* Whichever of respond() and the collector is first: every answer the
\* collector processed is a child of what it answers, every rejection has ended
\* it, and neither ResourceMeta nor add_child() has an assertion that fails.
THEOREM EveryAnswerKept == NegotiationSpec => []AnswersKept
<1>1. NegotiationInv => AnswersKept
  <2> SUFFICES ASSUME NegotiationInv PROVE AnswersKept
    OBVIOUS
  <2>1. ASSUME inbox # <<>>, Head(inbox).kind = "proposal"
        PROVE  ~ Repeated(Head(inbox).of) /\ CanAdd(Head(inbox).of)
    <3>1. Head(inbox) = inbox[1] /\ Len(inbox) \in Nat \ {0}
      <4>1. inbox \in Seq(Events)
        BY DEF NegotiationInv, NegotiationTypes
      <4> QED
        BY <2>1, <4>1, TailIs
    <3>2. Head(inbox).of \in made \ known
      BY <2>1, <3>1 DEF NegotiationInv, InboxFresh
    <3>3. parent[Head(inbox).of] = None
      BY <3>2 DEF NegotiationInv, NegotiationTypes, TreeRight
    <3> QED
      BY <3>2, <3>3 DEF Repeated, CanAdd
  <2>2. \A g \in Callers : At(g, "sent") => CanAdd(After(offer[g]))
    BY DEF NegotiationInv, CallerRight, Bargain, At, CanAdd
  <2> QED
    BY <2>1, <2>2 DEF AnswersKept, NegotiationInv, HeardKept, TreeRight
<1> QED
  BY <1>1, NegotiationInvariant, PTL

\* Whatever the plugins, their order and the number of callers: what
\* get_draft_proposal() returns are terms that both sides have named, let
\* through by every filter and not below the minimum, to one caller only; and
\* our counter-proposals come nearer to the offers round by round.
THEOREM BargainsEndInAgreedTerms == NegotiationSpec => []TermsBargained
<1>1. NegotiationInv => TermsBargained
  BY DEF NegotiationInv, TermsBargained, ReturnedRight, AgreedTerms, CommonPlatforms
<1> QED
  BY <1>1, NegotiationInvariant, PTL

\* A provider that negotiated hears of it when a caller leaves its offer,
\* unless a call about it failed.
THEOREM EveryProviderHears == NegotiationSpec => []NobodyLeftWaiting
<1>1. NegotiationInv => NobodyLeftWaiting
  <2> SUFFICES ASSUME NegotiationInv, NEW g \in Callers, NEW q, q = offer[g],
                      q \in made \ Ours, ~ Initial(q), ~ Busy(q)
               PROVE  \/ After(q) \in made \/ q \in told \cup failed
                      \/ \E i \in 1..Len(returned) : returned[i].offer = q
    BY DEF NobodyLeftWaiting
  <2>1. pc[g] \in Resting
    BY DEF Busy, Resting
  <2>2. q # None
    BY NegotiationAssumption DEF NegotiationInv, NegotiationTypes, NegotiationAssumption
  <2> QED
    BY <2>1, <2>2 DEF NegotiationInv, CallerRight, Left, IsReturned
<1> QED
  BY <1>1, NegotiationInvariant, PTL

-----------------------------------------------------------------------------
(***************************************************************************)
(* Waiter: no wakeup is lost, when every task waits for one item.          *)
(*                                                                         *)
(* A notified task that finds nothing proves that there is nothing, so     *)
(* that the count of notifications need not be kept; every other step      *)
(* takes an item with its notification, or gives one to each item put.     *)
(***************************************************************************)

\* A task has a future in the deque, and one only, until it has run again.
WaiterShape ==
    /\ stock \in Nat /\ puts \in Nat /\ swallowed \in Nat
    /\ deque \in Seq(Sleepers)
    /\ at \in [Sleepers -> {"out", "waiting", "notified", "cancelled", "through"}]
    /\ IsInjective(deque)
    /\ \A t \in Sleepers :
           Contains(deque, t) <=> at[t] \in {"waiting", "notified", "cancelled"}

WaiterInv == WaiterShape /\ WakeupsKept

\* The smallest element of a finite set of numbers: the k for which the set has
\* the fewest elements up to k.
LEMMA Smallest ==
    ASSUME NEW n \in Nat, NEW S \in SUBSET (1..n), S # {}
    PROVE  \E m \in S : \A k \in S : m <= k
<1> DEFINE H == 1..n
           UpTo(k) == {i \in S : i <= k}
           T == {UpTo(k) : k \in S}
<1>1. IsFiniteSet(H) /\ FiniteSubsetsOf(H) = SUBSET H
  BY FS_Interval, FS_FiniteSubsetsOfFinite
<1>2. T \subseteq FiniteSubsetsOf(H) /\ T # {}
  <2>1. T \subseteq SUBSET H /\ T # {}
    OBVIOUS
  <2> HIDE DEF T, H
  <2> QED
    BY <1>1, <2>1
<1>3. PICK X \in T : \A Y \in T : ~(<<Y, X>> \in StrictSubsetOrdering(H))
  <2> HIDE DEF T, H
  <2> QED
    BY <1>2, FS_StrictSubsetOrderingWellFounded, WFMin
<1>4. PICK m \in S : X = UpTo(m)
  OBVIOUS
<1>5. ASSUME NEW k \in S, ~ (m <= k) PROVE FALSE
  <2>1. m \in Nat /\ k \in Nat /\ k < m
    BY <1>5
  <2>2. UpTo(k) \in T /\ UpTo(k) \in SUBSET H /\ X \in SUBSET H
    BY <1>4
  <2>3. UpTo(k) \subseteq X /\ UpTo(k) # X
    <3>1. \A i \in S : i \in Nat
      OBVIOUS
    <3>2. m \in X /\ m \notin UpTo(k)
      BY <1>4, <2>1
    <3>3. \A i \in S : i <= k => i <= m
      BY <2>1, <3>1
    <3> QED
      BY <1>4, <3>2, <3>3
  <2> QED
    BY <1>3, <2>2, <2>3 DEF StrictSubsetOrdering
<1> QED
  BY <1>5

\* notify(1) and notify(2) tell as many as they should, unless all are chosen.
LEMMA ToldEnough ==
    ASSUME WaiterAssumption, WaiterInv, NEW count \in 1..2
    PROVE  LET chosen == ToNotify(count)
           IN  /\ chosen \subseteq {t \in Sleepers : at[t] = "waiting"}
               /\ (\E i \in Pending : deque[i] \notin chosen) => Cardinality(chosen) >= count
<1> DEFINE chosen == ToNotify(count)
           Earlier(j) == {k \in Pending : k < j}
           J == {j \in Pending : Cardinality(Earlier(j)) < count}
<1>1. /\ Len(deque) \in Nat /\ DOMAIN deque = 1..Len(deque) /\ Pending \in SUBSET (1..Len(deque))
      /\ \A i \in Pending : deque[i] \in Sleepers /\ at[deque[i]] = "waiting"
  BY LenProperties DEF WaiterInv, WaiterShape, Pending
<1>2. chosen = {deque[j] : j \in J}
  BY DEF ToNotify
<1>3. chosen \subseteq {t \in Sleepers : at[t] = "waiting"}
  BY <1>1, <1>2
<1>4. IsFiniteSet(chosen)
  BY <1>3, FS_Subset DEF WaiterAssumption
<1>5. ASSUME NEW i \in Pending, deque[i] \notin chosen PROVE Cardinality(chosen) >= count
  <2>1. PICK m \in Pending : \A k \in Pending : m <= k
    BY <1>1, Smallest
  <2>2. Earlier(m) = {} /\ Cardinality(Earlier(m)) = 0
    <3>1. \A k \in Pending : k \in Nat
      BY <1>1
    <3>2. \A k \in Pending : ~ (k < m)
      BY <2>1, <3>1
    <3>3. Earlier(m) = {}
      BY <3>2
    <3> QED
      BY <3>3, FS_EmptySet
  <2>3. m \in J /\ i \notin J /\ i # m
    <3>1. 0 < count
      OBVIOUS
    <3>2. m \in J
      BY <2>1, <2>2, <3>1
    <3>3. i \notin J
      BY <1>2, <1>5
    <3> QED
      BY <3>2, <3>3
  <2>4. deque[m] \in chosen
    BY <1>2, <2>3
  <2>5. Cardinality({deque[m]}) = 1 /\ IsFiniteSet({deque[m]})
    BY FS_Singleton
  <2>6. CASE count = 1
    <3>1. {deque[m]} \in SUBSET chosen
      BY <2>4
    <3> QED
      BY <1>4, <2>5, <2>6, <3>1, FS_Subset, FS_CardinalityType
  <2>7. CASE count = 2
    <3>1. PICK n \in Pending \ {m} : \A k \in Pending \ {m} : n <= k
      BY <1>1, <2>3, Smallest
    <3>2. Earlier(n) = {m}
      <4>1. \A k \in Pending : k \in Nat
        BY <1>1
      <4>2. \A k \in Pending : k < n <=> k = m
        BY <2>1, <3>1, <4>1
      <4> QED
        BY <2>1, <4>2
    <3>3. n \in J
      <4>1. Cardinality(Earlier(n)) = 1
        BY <3>2, FS_Singleton
      <4> QED
        BY <2>7, <3>1, <4>1
    <3>4. deque[n] \in chosen /\ deque[n] # deque[m]
      BY <1>1, <1>2, <3>1, <3>3 DEF WaiterInv, WaiterShape, IsInjective
    <3>5. Cardinality({deque[m]} \cup {deque[n]}) = 2
      BY <2>5, <3>4, FS_AddElement
    <3>6. {deque[m]} \cup {deque[n]} \in SUBSET chosen
      BY <2>4, <3>4
    <3> QED
      BY <1>4, <2>7, <3>5, <3>6, FS_Subset, FS_CardinalityType
  <2> QED
    BY <2>6, <2>7
<1> QED
  BY <1>3, <1>5

\* A task with a future, and the deque without it.
LEMMA WithoutTask ==
    ASSUME WaiterInv, NEW t \in Sleepers, at[t] \in {"waiting", "notified", "cancelled"}
    PROVE  /\ Others(t) \in Seq(Sleepers) /\ IsInjective(Others(t))
           /\ \A u \in Sleepers : Contains(Others(t), u) <=> Contains(deque, u) /\ u # t
<1>1. DOMAIN deque = 1..Len(deque)
  BY LenProperties DEF WaiterInv, WaiterShape
<1>2. PICK i \in 1..Len(deque) :
        i = (CHOOSE j \in DOMAIN deque : deque[j] = t) /\ deque[i] = t
  BY <1>1 DEF WaiterInv, WaiterShape, Contains
<1>3. Others(t) = RemoveAt(deque, i)
  BY <1>2 DEF Others
<1>4. deque \in Seq(Sleepers) /\ IsInjective(deque)
  BY DEF WaiterInv, WaiterShape
<1>5. Others(t) \in Seq(Sleepers)
  BY <1>3, <1>4, RemoveAtProperties
<1>6. IsInjective(Others(t)) /\ \A u : Contains(Others(t), u) <=> Contains(deque, u) /\ u # t
  BY <1>2, <1>3, <1>4, RemoveHolds
<1> QED
  BY <1>5, <1>6

\* A task waits if and only if its future is in the deque and not done.
LEMMA PendingTasks ==
    ASSUME WaiterInv
    PROVE  Pending # {} <=> \E t \in Sleepers : at[t] = "waiting"
<1>1. DOMAIN deque = 1..Len(deque) /\ \A i \in 1..Len(deque) : deque[i] \in Sleepers
  BY LenProperties DEF WaiterInv, WaiterShape
<1>2. ASSUME NEW t \in Sleepers, at[t] = "waiting" PROVE Pending # {}
  BY <1>1, <1>2 DEF WaiterInv, WaiterShape, Contains, Pending
<1> QED
  BY <1>1, <1>2 DEF Pending

\* The notified tasks are so many.
LEMMA NotifiedFinite ==
    ASSUME WaiterAssumption
    PROVE  IsFiniteSet(Notified) /\ Cardinality(Notified) \in Nat
<1>1. Notified \in SUBSET Sleepers
  BY DEF Notified
<1> QED
  BY <1>1, FS_Subset, FS_CardinalityType DEF WaiterAssumption

\* Nobody waits at the start.
LEMMA WaiterStart ==
    ASSUME WaiterAssumption, WaiterInit PROVE WaiterInv
<1>1. Pending = {} /\ deque \in Seq(Sleepers) /\ IsInjective(deque) /\ \A t : ~ Contains(deque, t)
  BY DEF WaiterInit, Pending, IsInjective, Contains
<1> QED
  BY <1>1 DEF WaiterInit, WaiterInv, WaiterShape, WakeupsKept

\* A task calls wait_for().
LEMMA WaitForStep ==
    ASSUME WaiterAssumption, \A t \in Sleepers : Needs[t] = 1,
           WaiterInv, NEW t \in Sleepers, WaitFor(t)
    PROVE  WaiterInv'
<1> USE DEF WaitFor, WaiterInv, WaiterShape
<1>1. Notified' = Notified
  BY DEF Notified
<1>2. CASE Predicate(t)
  <2>1. stock' \in Nat /\ stock' <= stock
    BY <1>2 DEF Predicate
  <2>2. WaiterShape'
    BY <1>2, <2>1
  <2>3. Pending' # {} => Pending # {}
    BY <1>2 DEF Pending
  <2>4. WakeupsKept'
    BY <1>1, <2>1, <2>3, NotifiedFinite DEF WakeupsKept
  <2> QED
    BY <2>2, <2>4
<1>3. CASE ~ Predicate(t)
  <2>1. stock' = 0
    BY <1>3 DEF Predicate
  <2>2. ~ Contains(deque, t)
    OBVIOUS
  <2>3. deque' = Append(deque, t) /\ deque' \in Seq(Sleepers)
    <3>1. deque' = Append(deque, t)
      BY <1>3
    <3> QED
      BY <3>1, AppendProperties
  <2>4. /\ IsInjective(Append(deque, t))
        /\ \A u : Contains(Append(deque, t), u) <=> Contains(deque, u) \/ u = t
    BY <2>2, AppendHolds
  <2>5. at' = [at EXCEPT ![t] = "waiting"] /\ swallowed' = swallowed /\ puts' = puts
    BY <1>3
  <2>6. IsInjective(deque') /\ \A u \in Sleepers : Contains(deque', u) <=> Contains(deque, u) \/ u = t
    BY <2>3, <2>4
  <2>7. WaiterShape'
    BY <2>1, <2>3, <2>5, <2>6
  <2>8. WakeupsKept'
    BY <1>1, <2>1, <2>5, NotifiedFinite DEF WakeupsKept
  <2> QED
    BY <2>7, <2>8
<1> QED
  BY <1>2, <1>3

\* count items are put, and as many tasks notified.
LEMMA PutItemsStep ==
    ASSUME WaiterAssumption, WaiterInv, NEW count \in 1..2, PutItems(count)
    PROVE  WaiterInv'
<1> DEFINE chosen == ToNotify(count)
<1> USE DEF PutItems, WaiterInv, WaiterShape
<1>1. /\ chosen \subseteq {t \in Sleepers : at[t] = "waiting"}
      /\ (\E i \in Pending : deque[i] \notin chosen) => Cardinality(chosen) >= count
  BY ToldEnough
<1>2. WaiterShape'
  BY <1>1
<1>3. WakeupsKept'
  <2> SUFFICES ASSUME Pending' # {} PROVE stock' <= Cardinality(Notified') + swallowed'
    BY DEF WakeupsKept
  <2>1. PICK i \in Pending' : TRUE
    OBVIOUS
  <2>2. i \in Pending /\ deque[i] \notin chosen
    <3>1. i \in DOMAIN deque /\ at'[deque[i]] = "waiting"
      BY DEF Pending
    <3>2. deque[i] \in Sleepers
      BY <3>1, LenProperties
    <3> QED
      BY <3>1, <3>2 DEF Pending
  <2>3. stock <= Cardinality(Notified) + swallowed
    BY <2>2 DEF WakeupsKept
  <2>4. Notified' = Notified \cup chosen /\ Notified \cap chosen = {}
    BY <1>1 DEF Notified
  <2>5. IsFiniteSet(chosen) /\ Cardinality(chosen) \in Nat
    BY <1>1, FS_Subset, FS_CardinalityType DEF WaiterAssumption
  <2>6. Cardinality(Notified') = Cardinality(Notified) + Cardinality(chosen)
    <3>1. Cardinality(Notified \cup chosen)
              = Cardinality(Notified) + Cardinality(chosen) - Cardinality(Notified \cap chosen)
      BY <2>5, NotifiedFinite, FS_Union
    <3>2. Cardinality(Notified \cap chosen) = 0
      BY <2>4, FS_EmptySet
    <3> HIDE DEF chosen
    <3> QED
      BY <2>4, <2>5, <3>1, <3>2, NotifiedFinite
  <2> HIDE DEF chosen
  <2> QED
    BY <1>1, <2>2, <2>3, <2>5, <2>6, NotifiedFinite
<1> QED
  BY <1>2, <1>3

\* A notified task takes an item, or there is none.
LEMMA WakeUpStep ==
    ASSUME WaiterAssumption, \A t \in Sleepers : Needs[t] = 1,
           WaiterInv, NEW t \in Sleepers, WakeUp(t)
    PROVE  WaiterInv'
<1> USE DEF WakeUp, WaiterInv, WaiterShape
<1>1. /\ Others(t) \in Seq(Sleepers) /\ IsInjective(Others(t))
      /\ \A u \in Sleepers : Contains(Others(t), u) <=> Contains(deque, u) /\ u # t
  BY WithoutTask
<1>2. CASE Predicate(t)
  <2>1. stock \in Nat /\ stock >= 1 /\ stock' = stock - 1 /\ stock' \in Nat
    BY <1>2 DEF Predicate
  <2>2. WaiterShape'
    BY <1>1, <1>2, <2>1
  <2>3. t \in Notified /\ Notified' = Notified \ {t}
    BY <1>2 DEF Notified
  <2>4. Cardinality(Notified') = Cardinality(Notified) - 1
    BY <2>3, NotifiedFinite, FS_RemoveElement
  <2>5. Pending' # {} => Pending # {}
    <3> SUFFICES ASSUME NEW i \in Pending' PROVE Pending # {}
      OBVIOUS
    <3>1. deque' = Others(t) /\ at' = [at EXCEPT ![t] = "through"]
      BY <1>2
    <3>2. i \in 1..Len(Others(t)) /\ at'[Others(t)[i]] = "waiting" /\ Others(t)[i] \in Sleepers
      BY <1>1, <3>1, LenProperties DEF Pending
    <3>3. at[Others(t)[i]] = "waiting"
      BY <3>1, <3>2
    <3> QED
      BY <3>2, <3>3, PendingTasks
  <2>6. WakeupsKept'
    BY <2>1, <2>4, <2>5, NotifiedFinite DEF WakeupsKept
  <2> QED
    BY <2>2, <2>6
<1>3. CASE ~ Predicate(t)
  <2>1. stock' = 0
    BY <1>3 DEF Predicate
  <2>2. Notified' \in SUBSET Sleepers /\ Cardinality(Notified') \in Nat
    BY FS_Subset, FS_CardinalityType DEF Notified, WaiterAssumption
  <2>3. WakeupsKept'
    BY <2>1, <2>2 DEF WakeupsKept
  <2>4. ~ Contains(Others(t), t)
    BY <1>1
  <2>5. /\ deque' \in Seq(Sleepers) /\ IsInjective(deque')
        /\ \A u \in Sleepers : Contains(deque', u) <=> Contains(deque, u) \/ u = t
    <3>1. deque' = Append(Others(t), t)
      BY <1>3
    <3>2. Append(Others(t), t) \in Seq(Sleepers)
      BY <1>1, AppendProperties
    <3>3. /\ IsInjective(Append(Others(t), t))
          /\ \A u : Contains(Append(Others(t), t), u) <=> Contains(Others(t), u) \/ u = t
      BY <1>1, <2>4, AppendHolds
    <3> QED
      BY <1>1, <3>1, <3>2, <3>3
  <2>6. \A u \in First(Others(t)) : u \in Sleepers /\ at[u] = "waiting"
    BY <1>1 DEF First
  <2>7. WaiterShape'
    BY <1>3, <2>5, <2>6
  <2> QED
    BY <2>3, <2>7
<1> QED
  BY <1>2, <1>3

\* A task is cancelled, runs, or calls again.
LEMMA CancelWaitStep ==
    ASSUME WaiterAssumption, WaiterInv, NEW t \in Sleepers,
           CancelWait(t) \/ Interrupted(t) \/ CallAgain(t)
    PROVE  WaiterInv'
<1> USE DEF WaiterInv, WaiterShape
<1>1. CASE CancelWait(t)
  <2>1. WaiterShape'
    BY <1>1 DEF CancelWait
  <2>2. Pending' # {} => Pending # {}
    BY <1>1 DEF CancelWait, Pending
  <2>3. CASE at[t] = "notified"
    <3>1. swallowed' = swallowed + 1 /\ stock' = stock
      BY <1>1, <2>3 DEF CancelWait
    <3>2. t \in Notified /\ Notified' = Notified \ {t}
      BY <1>1, <2>3 DEF CancelWait, Notified
    <3>3. Cardinality(Notified') = Cardinality(Notified) - 1
      BY <3>2, NotifiedFinite, FS_RemoveElement
    <3> QED
      BY <2>1, <2>2, <3>1, <3>3, NotifiedFinite DEF WakeupsKept
  <2>4. CASE at[t] = "waiting"
    <3>1. swallowed' = swallowed /\ stock' = stock /\ Notified' = Notified
      BY <1>1, <2>4 DEF CancelWait, Notified
    <3> QED
      BY <2>1, <2>2, <3>1 DEF WakeupsKept
  <2> QED
    BY <1>1, <2>3, <2>4 DEF CancelWait
<1>2. CASE Interrupted(t)
  <2>1. /\ Others(t) \in Seq(Sleepers) /\ IsInjective(Others(t))
        /\ \A u \in Sleepers : Contains(Others(t), u) <=> Contains(deque, u) /\ u # t
    BY <1>2, WithoutTask DEF Interrupted
  <2>2. WaiterShape' /\ Notified' = Notified
    BY <1>2, <2>1 DEF Interrupted, Notified
  <2>3. Pending' # {} => Pending # {}
    <3> SUFFICES ASSUME NEW i \in Pending' PROVE Pending # {}
      OBVIOUS
    <3>1. deque' = Others(t) /\ at' = [at EXCEPT ![t] = "through"]
      BY <1>2 DEF Interrupted
    <3>2. i \in 1..Len(Others(t)) /\ at'[Others(t)[i]] = "waiting" /\ Others(t)[i] \in Sleepers
      BY <2>1, <3>1, LenProperties DEF Pending
    <3>3. at[Others(t)[i]] = "waiting"
      BY <3>1, <3>2
    <3> QED
      BY <3>2, <3>3, PendingTasks
  <2> QED
    BY <1>2, <2>2, <2>3 DEF Interrupted, WakeupsKept
<1>3. CASE CallAgain(t)
  <2>1. WaiterShape' /\ Notified' = Notified /\ (Pending' # {} => Pending # {})
    BY <1>3 DEF CallAgain, Notified, Pending
  <2> QED
    BY <1>3, <2>1 DEF CallAgain, WakeupsKept
<1> QED
  BY <1>1, <1>2, <1>3

(***************************************************************************)
(* While a task sleeps, there are no more items than notifications under   *)
(* way or taken to the grave by cancelled tasks (waiter.py wait_for,       *)
(* notify).  With different predicates this is false, as a notification    *)
(* may reach a task that asks for more than there is.                      *)
(***************************************************************************)
THEOREM NoWakeupLost ==
    ASSUME WaiterAssumption, \A t \in Sleepers : Needs[t] = 1
    PROVE  WaiterSpec => []WakeupsKept
<1>1. WaiterInit => WaiterInv
  BY WaiterStart
<1>2. WaiterInv /\ [WaiterNext]_waiterVars => WaiterInv'
  <2> SUFFICES ASSUME WaiterInv, [WaiterNext]_waiterVars PROVE WaiterInv'
    OBVIOUS
  <2>1. CASE UNCHANGED waiterVars
    BY <2>1 DEF waiterVars, WaiterInv, WaiterShape, WakeupsKept, Pending, Notified
  <2> QED
    BY <2>1, WaitForStep, PutItemsStep, WakeUpStep, CancelWaitStep DEF WaiterNext
<1>3. WaiterInv => WakeupsKept
  BY DEF WaiterInv, WaiterShape
<1> QED
  BY <1>1, <1>2, <1>3, PTL DEF WaiterSpec

=================================================================================
