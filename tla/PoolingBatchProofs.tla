------------------------- MODULE PoolingBatchProofs -------------------------
(***************************************************************************)
(* Proofs about PoolingBatch for every set of batches, scripts and numbers *)
(* of commands; and, at the end, about the two buffers of ScoringBuffer    *)
(* and the order in which proposals leave it.                              *)
(*                                                                         *)
(* The inductive invariant has two layers: Base, where the tasks of each   *)
(* batch are and that the counter counts them; and Answered, what events   *)
(* and futures say of the results of the provider.                         *)
(***************************************************************************)
EXTENDS PoolingBatch, ScoringBuffer, FiniteSetTheorems, SequenceTheorems, TLAPS

Active(b) == collector[b] \in {"poll", "sleep"}

\* A collector runs only for a batch that was made and is not done.
Stages ==
    \A b \in Batches :
        /\ Active(b) => /\ call[b] = "made"
                        /\ ~finished[b]
                        /\ failure[b] = "no"
        /\ call[b] # "made" => /\ collector[b] = "off"
                               /\ ~finished[b]
                               /\ events[b] = <<>>
                               /\ failure[b] = "no"
        /\ finished[b] => collector[b] = "ended"

Base == TypeOK /\ Stages /\ CounterExact

\* The provider runs at most all commands and stops at the first error.
ProviderStops ==
    \A b \in Batches :
        /\ Len(ran[b]) <= Commands[b]
        /\ \A i \in 1..Len(ran[b]) : i < Len(ran[b]) => ran[b][i] = "Ok"

\* The collector goes on only while no final event was added.
Open ==
    \A b \in Batches : Active(b) =>
        /\ Len(events[b]) < Commands[b]
        /\ \A i \in 1..Len(events[b]) : events[b][i] = "Ok"

Answered ==
    /\ Base
    /\ ProviderStops
    /\ EventsInOrder
    /\ Open
    /\ FuturesMatchEvents
    /\ DoneIsComplete

-----------------------------------------------------------------------------
\* The initial state: no batch runs.
LEMMA InitBase == BatchAssumption /\ Init => Base
<1> SUFFICES ASSUME BatchAssumption, Init PROVE Base
  OBVIOUS
<1>1. TypeOK
  <2>1. \A b \in Batches : futures[b] \in [1..Commands[b] -> FutureStates]
    BY DEF Init, FutureStates
  <2>2. DOMAIN futures = Batches
    BY DEF Init
  <2>3. gsb \in [Batches -> 0..MaxGsb]
    BY DEF Init, BatchAssumption
  <2> QED BY <2>1, <2>2, <2>3 DEF Init, TypeOK, Outcomes
<1>2. Stages
  BY DEF Init, Stages, Active
<1>3. CounterExact
  <2>1. RunningBatches = {}
    BY DEF Init, RunningBatches
  <2> QED BY <2>1, FS_EmptySet DEF CounterExact, Init
<1> QED BY <1>1, <1>2, <1>3 DEF Base

\* There are finitely many running batches, and the counter is positive while
\* there is one.
LEMMA RunningIsFinite ==
    ASSUME BatchAssumption, CounterExact
    PROVE  /\ IsFiniteSet(RunningBatches)
           /\ counter \in Nat
           /\ RunningBatches = {} <=> counter = 0
<1>1. RunningBatches \in SUBSET Batches
  BY DEF RunningBatches
<1>2. IsFiniteSet(RunningBatches)
  BY <1>1, FS_Subset DEF BatchAssumption
<1> QED BY <1>2, FS_CardinalityType, FS_EmptySet DEF CounterExact

\* A running batch that ends takes one off the counter.
LEMMA SetFinishedStep ==
    ASSUME BatchAssumption, Base, NEW b \in Batches, Active(b),
           SetFinished(b), UNCHANGED call
    PROVE  /\ collector' \in [Batches -> {"off", "poll", "sleep", "ended"}]
           /\ finished' \in [Batches -> BOOLEAN]
           /\ counter' \in Nat
           /\ CounterExact'
           /\ collector'[b] = "ended"
           /\ \A c \in Batches : c # b => /\ collector'[c] = collector[c]
                                          /\ finished'[c] = finished[c]
<1>0. TypeOK /\ Stages /\ CounterExact
  BY DEF Base
<1>1. /\ collector' \in [Batches -> {"off", "poll", "sleep", "ended"}]
      /\ finished' \in [Batches -> BOOLEAN]
      /\ collector'[b] = "ended"
      /\ \A c \in Batches : c # b => /\ collector'[c] = collector[c]
                                     /\ finished'[c] = finished[c]
  BY <1>0 DEF SetFinished, TypeOK
<1>2. b \in RunningBatches
  BY <1>0 DEF Stages, RunningBatches
<1>3. IsFiniteSet(RunningBatches) /\ counter \in Nat /\ counter # 0
  BY <1>0, <1>2, RunningIsFinite
<1>4. CASE bus
  <2>1. RunningBatches' = RunningBatches \ {b}
    BY <1>0, <1>1, <1>4 DEF SetFinished, RunningBatches, TypeOK
  <2>2. Cardinality(RunningBatches \ {b}) = Cardinality(RunningBatches) - 1
    BY <1>2, <1>3, FS_RemoveElement
  <2>3. counter' = counter - 1
    BY <1>4 DEF SetFinished
  <2> QED BY <1>0, <1>1, <1>3, <2>1, <2>2, <2>3 DEF CounterExact
<1>5. CASE ~bus
  <2>1. UNCHANGED <<finished, counter>>
    BY <1>5 DEF SetFinished
  <2>2. RunningBatches' = RunningBatches
    BY <2>1 DEF RunningBatches
  <2> QED BY <1>0, <1>1, <1>3, <2>1, <2>2 DEF CounterExact
<1> QED BY <1>4, <1>5

\* What one answer adds to the events of b: the results after those it has,
\* up to the last one processed.
LEMMA AddedEvents ==
    ASSUME BatchAssumption, TypeOK, EventsInOrder, NEW b \in Batches,
           NEW k \in 0..Len(ran[b]), NEW last \in 1..k, StopsAt(b, k, last),
           events' = [events EXCEPT ![b] = @ \o Added(b, last)]
    PROVE  /\ events' \in [Batches -> Seq(Outcomes)]
           /\ last > Len(events[b])
           /\ Len(events'[b]) = last
           /\ \A i \in 1..last : events'[b][i] = ran[b][i]
           /\ \A i \in 1..Len(events[b]) : events[b][i] = ran[b][i]
           /\ \A c \in Batches : c # b => events'[c] = events[c]
<1> DEFINE n == Len(events[b])
           new == Added(b, last)
<1>1. /\ events[b] \in Seq(Outcomes) /\ ran[b] \in Seq(Outcomes)
      /\ n \in Nat /\ Len(ran[b]) \in Nat /\ last \in Nat /\ k \in Nat
      /\ last > n /\ last <= Len(ran[b])
  BY DEF TypeOK, StopsAt, NewResults
<1>2. \A i \in (n + 1)..last : ran[b][i] \in Outcomes
  BY <1>1
<1>3. /\ new \in Seq(Outcomes)
      /\ Len(new) = last - n
      /\ \A j \in 1..(last - n) : new[j] = ran[b][n + j]
  <2> DEFINE m == n + 1
             sub == SubSeq(ran[b], m, last)
  <2>1. m \in Int /\ last \in Int /\ m <= last
    BY <1>1
  <2>2. \A i \in m..last : ran[b][i] \in Outcomes
    BY <1>2
  <2> HIDE DEF m
  <2>3. /\ sub \in Seq(Outcomes)
        /\ Len(sub) = last - m + 1
        /\ \A j \in 1..(last - m + 1) : sub[j] = ran[b][m + j - 1]
    BY <2>1, <2>2, SubSeqProperties
  <2>4. new = sub
    BY DEF Added, m
  <2>5. /\ last - m + 1 = last - n
        /\ \A j \in 1..(last - n) : m + j - 1 = n + j
    BY <1>1 DEF m
  <2> HIDE DEF sub, new
  <2>6. \A j \in 1..(last - n) : new[j] = ran[b][n + j]
    BY <2>3, <2>4, <2>5
  <2> QED BY <2>3, <2>4, <2>5, <2>6
<1>4. /\ events' \in [Batches -> Seq(Outcomes)]
      /\ events'[b] = events[b] \o new
      /\ \A c \in Batches : c # b => events'[c] = events[c]
  <2>1. events[b] \o new \in Seq(Outcomes)
    BY <1>1, <1>3
  <2> QED BY <2>1 DEF TypeOK
<1>5. \A i \in 1..n : events[b][i] = ran[b][i]
  <2>1. IsPrefix(events[b], ran[b])
    BY DEF EventsInOrder
  <2>2. n <= Len(ran[b]) /\ SubSeq(events[b], 1, n) = SubSeq(ran[b], 1, n)
    BY <2>1 DEF IsPrefix
  <2>3. \A i \in 1..n : SubSeq(events[b], 1, n)[i] = events[b][i]
    BY <1>1
  <2>4. \A i \in 1..n : SubSeq(ran[b], 1, n)[i] = ran[b][i]
    BY <1>1, <2>2
  <2> QED BY <2>2, <2>3, <2>4
<1>6. Len(events[b] \o new) = last
  BY <1>1, <1>3
<1>7. \A i \in 1..last : (events[b] \o new)[i] = ran[b][i]
  <2> SUFFICES ASSUME NEW i \in 1..last PROVE (events[b] \o new)[i] = ran[b][i]
    OBVIOUS
  <2>1. (events[b] \o new)[i] = IF i <= n THEN events[b][i] ELSE new[i - n]
    BY <1>1, <1>3, ConcatProperties
  <2>2. CASE i <= n
    BY <2>1, <2>2, <1>1, <1>5
  <2>3. CASE i > n
    <3>1. i - n \in 1..(last - n) /\ n + (i - n) = i
      BY <1>1, <2>3
    <3>2. new[i - n] = ran[b][n + (i - n)]
      BY <3>1, <1>3
    <3>3. ~(i <= n)
      BY <1>1, <2>3
    <3>4. new[i - n] = ran[b][i]
      BY <3>1, <3>2
    <3> QED BY <2>1, <3>3, <3>4, Zenon
  <2>4. i <= n \/ i > n
    BY <1>1
  <2> QED BY <2>2, <2>3, <2>4, Zenon
<1> QED BY <1>1, <1>4, <1>5, <1>6, <1>7

\* What one answer makes of the futures of a script: those it leaves alone, or
\* resolves, and why.
LEMMA ResolvedFutures ==
    ASSUME BatchAssumption, TypeOK, NEW b \in Batches, NEW last \in Nat,
           last <= Len(ran[b]), NEW f \in 1..Commands[b]
    PROVE  \/ NewFutures(b, last)[f] = futures[b][f]
           \/ \E i \in NewResults(b, last) :
                \/ /\ f = i
                   /\ ran[b][i] = "Ok"
                   /\ NewFutures(b, last)[f] = "result"
                \/ /\ f = i
                   /\ ran[b][i] = "Error"
                   /\ NewFutures(b, last)[f] = "failed"
                \/ /\ i < f
                   /\ ran[b][i] = "Error"
                   /\ NewFutures(b, last)[f] = "skipped"
<1> DEFINE by == {i \in NewResults(b, last) : f \in Targets(b, i)}
<1>0. /\ ran[b] \in Seq(Outcomes)
      /\ \A i \in NewResults(b, last) : i \in 1..Len(ran[b]) /\ i \in Nat
      /\ Commands[b] \in Nat /\ f \in Nat
  <2>1. events[b] \in Seq(Outcomes) /\ ran[b] \in Seq(Outcomes)
    BY DEF TypeOK
  <2>2. Len(events[b]) \in Nat /\ Len(ran[b]) \in Nat
    BY <2>1
  <2> QED BY <2>1, <2>2 DEF NewResults, BatchAssumption
<1>1. NewFutures(b, last)[f] =
        IF by = {} THEN futures[b][f]
        ELSE Resolved(b, CHOOSE i \in by : TRUE, f)
  BY DEF NewFutures
<1>2. CASE by = {}
  BY <1>1, <1>2
<1>3. CASE by # {}
  <2>1. PICK i \in by : NewFutures(b, last)[f] = Resolved(b, i, f)
    BY <1>1, <1>3
  <2>2. i \in NewResults(b, last) /\ f \in Targets(b, i)
    OBVIOUS
  <2>3. ran[b][i] = "Ok" \/ ran[b][i] = "Error"
    <3>1. ran[b][i] \in Outcomes
      BY <1>0, <2>2
    <3> QED BY <3>1 DEF Outcomes
  <2>4. f = i \/ (ran[b][i] # "Ok" /\ i < f)
    BY <1>0, <2>2 DEF Targets
  <2> QED BY <2>1, <2>2, <2>3, <2>4 DEF Resolved
<1> QED BY <1>2, <1>3

\* The futures stay functions from commands to states of a future.
LEMMA FuturesType ==
    ASSUME BatchAssumption, TypeOK, NEW b \in Batches, NEW last \in Nat,
           last <= Len(ran[b]),
           futures' = [futures EXCEPT ![b] = NewFutures(b, last)]
    PROVE  /\ DOMAIN futures' = Batches
           /\ \A c \in Batches : futures'[c] \in [1..Commands[c] -> FutureStates]
           /\ futures'[b] = NewFutures(b, last)
           /\ \A c \in Batches : c # b => futures'[c] = futures[c]
<1>1. NewFutures(b, last) \in [1..Commands[b] -> FutureStates]
  <2>1. \A f \in 1..Commands[b] : NewFutures(b, last)[f] \in FutureStates
    <3>1. \A f \in 1..Commands[b] : futures[b][f] \in FutureStates
      BY DEF TypeOK
    <3> QED BY <3>1, ResolvedFutures DEF FutureStates
  <2> QED BY <2>1 DEF NewFutures
<1> QED BY <1>1 DEF TypeOK

\* An answer that reports results, taken apart.
LEMMA PollReports ==
    ASSUME BatchAssumption, Answered, NEW b \in Batches, NEW k \in 0..Len(ran[b]),
           PollUpTo(b, k), NewResults(b, k) # {}
    PROVE  \E last \in 1..k :
        /\ last \in Nat /\ last <= Len(ran[b]) /\ last > Len(events[b])
        /\ Active(b)
        /\ events' \in [Batches -> Seq(Outcomes)]
        /\ Len(events'[b]) = last
        /\ \A i \in 1..last : events'[b][i] = ran[b][i]
        /\ \A i \in 1..Len(events[b]) : events[b][i] = ran[b][i]
        /\ \A c \in Batches : c # b => events'[c] = events[c]
        /\ futures' = [futures EXCEPT ![b] = NewFutures(b, last)]
        /\ Invalid(b, k) = {} => last = k
        /\ IF Invalid(b, k) # {} \/ IsBatchFinished(b, last)
           THEN SetFinished(b)
           ELSE UNCHANGED <<collector, finished, counter>>
        /\ failure' = IF Invalid(b, k) = {} THEN failure
                      ELSE [failure EXCEPT ![b] = "future"]
<1>0. TypeOK /\ EventsInOrder
  BY DEF Answered, Base
<1>1. Process(b, k) /\ Active(b)
  BY DEF PollUpTo, Active
<1>2. PICK last \in 1..k :
        /\ StopsAt(b, k, last)
        /\ events' = [events EXCEPT ![b] = @ \o Added(b, last)]
        /\ futures' = [futures EXCEPT ![b] = NewFutures(b, last)]
        /\ IF Invalid(b, k) # {} \/ IsBatchFinished(b, last)
           THEN SetFinished(b)
           ELSE UNCHANGED <<collector, finished, counter>>
        /\ failure' = IF Invalid(b, k) = {} THEN failure
                      ELSE [failure EXCEPT ![b] = "future"]
  BY <1>1 DEF Process
<1>3. last \in Nat /\ last <= Len(ran[b])
  <2>1. ran[b] \in Seq(Outcomes)
    BY <1>0 DEF TypeOK
  <2>2. Len(ran[b]) \in Nat
    BY <2>1
  <2> QED BY <2>2
<1>4. /\ events' \in [Batches -> Seq(Outcomes)]
      /\ last > Len(events[b])
      /\ Len(events'[b]) = last
      /\ \A i \in 1..last : events'[b][i] = ran[b][i]
      /\ \A i \in 1..Len(events[b]) : events[b][i] = ran[b][i]
      /\ \A c \in Batches : c # b => events'[c] = events[c]
  BY <1>0, <1>2, AddedEvents
<1>5. Invalid(b, k) = {} => last = k
  BY <1>2 DEF StopsAt
<1> QED BY <1>1, <1>2, <1>3, <1>4, <1>5

-----------------------------------------------------------------------------
(* Base, one step per action. *)

\* Neither the batches nor the counter change.
LEMMA CounterUnchanged ==
    ASSUME CounterExact, UNCHANGED counter, RunningBatches' = RunningBatches
    PROVE  CounterExact'
BY DEF CounterExact

LEMMA BaseStep == BatchAssumption /\ Answered /\ [Next]_vars => Base'
<1> SUFFICES ASSUME BatchAssumption, Answered, [Next]_vars PROVE Base'
  OBVIOUS
<1> USE DEF callVars, outerVars, batchVars
<1>0. TypeOK /\ Stages /\ CounterExact /\ Base
  BY DEF Base, Answered
<1>1. CASE UNCHANGED vars
  <2>1. TypeOK'
    BY <1>0, <1>1 DEF TypeOK, vars
  <2>2. Stages'
    BY <1>0, <1>1 DEF Stages, Active, vars
  <2>3. RunningBatches' = RunningBatches
    BY <1>1 DEF RunningBatches, vars
  <2> QED BY <1>0, <1>1, <2>1, <2>2, <2>3, CounterUnchanged DEF Base, vars
<1>2. CASE Environment
  <2>1. CASE Lose \/ BusEnds
    <3>1. TypeOK'
      BY <1>0, <2>1 DEF TypeOK, Lose, BusEnds
    <3>2. Stages'
      BY <1>0, <2>1 DEF Stages, Active, Lose, BusEnds
    <3>3. RunningBatches' = RunningBatches /\ UNCHANGED counter
      BY <2>1 DEF RunningBatches, Lose, BusEnds
    <3> QED BY <1>0, <3>1, <3>2, <3>3, CounterUnchanged DEF Base
  <2>2. CASE StopCollectors \/ Cleanup
    <3>1. TypeOK'
      BY <1>0, <2>2 DEF TypeOK, StopCollectors, Cleanup
    <3>2. Stages'
      BY <1>0, <2>2 DEF Stages, Active, StopCollectors, Cleanup, TypeOK
    <3>3. RunningBatches' = RunningBatches /\ UNCHANGED counter
      BY <2>2 DEF RunningBatches, StopCollectors, Cleanup
    <3> QED BY <1>0, <3>1, <3>2, <3>3, CounterUnchanged DEF Base
  <2> QED BY <1>2, <2>1, <2>2 DEF Environment
<1>3. ASSUME NEW b \in Batches, Run(b) PROVE Base'
  <2>1. PICK r \in Outcomes : ran' = [ran EXCEPT ![b] = Append(@, r)]
    BY <1>3 DEF Run
  <2>2. ran' \in [Batches -> Seq(Outcomes)]
    BY <1>0, <2>1 DEF TypeOK
  <2>3. TypeOK'
    BY <1>0, <1>3, <2>2 DEF TypeOK, Run
  <2>4. Stages'
    BY <1>0, <1>3 DEF Stages, Active, Run
  <2>5. RunningBatches' = RunningBatches /\ UNCHANGED counter
    BY <1>3 DEF RunningBatches, Run
  <2> QED BY <1>0, <2>3, <2>4, <2>5, CounterUnchanged DEF Base
<1>4. ASSUME NEW b \in Batches, Execute(b) \/ ExecuteRaises(b) PROVE Base'
  <2>0. call' \in [Batches -> {"none", "exec", "failed", "made"}]
    <3>1. CASE Execute(b)
      BY <1>0, <3>1 DEF TypeOK, Execute
    <3>2. CASE ExecuteRaises(b)
      BY <1>0, <3>2 DEF TypeOK, ExecuteRaises
    <3> QED BY <1>4, <3>1, <3>2
  <2>1. TypeOK'
    <3>1. UNCHANGED <<after, outerVars, batchVars, futures, waiter>>
      BY <1>4 DEF Execute, ExecuteRaises
    <3> QED BY <1>0, <2>0, <3>1 DEF TypeOK
  <2>2. Stages'
    BY <1>0, <1>4 DEF Stages, Active, Execute, ExecuteRaises, TypeOK
  <2>3. RunningBatches' = RunningBatches /\ UNCHANGED counter
    BY <1>0, <1>4 DEF RunningBatches, Execute, ExecuteRaises, TypeOK
  <2> QED BY <1>0, <2>1, <2>2, <2>3, CounterUnchanged DEF Base
<1>5. ASSUME NEW b \in Batches, Made(b) PROVE Base'
  <2>1. TypeOK'
    BY <1>0, <1>5 DEF TypeOK, Made
  <2>2. Stages'
    BY <1>0, <1>5 DEF Stages, Active, Made, TypeOK
  <2>3. b \notin RunningBatches /\ RunningBatches' = RunningBatches \cup {b}
    BY <1>0, <1>5 DEF RunningBatches, Made, TypeOK, Stages
  <2>4. IsFiniteSet(RunningBatches)
    BY <1>0, RunningIsFinite
  <2>5. Cardinality(RunningBatches \cup {b}) = Cardinality(RunningBatches) + 1
    BY <2>3, <2>4, FS_AddElement
  <2>6. CounterExact'
    BY <1>0, <1>5, <2>3, <2>5 DEF CounterExact, Made
  <2> QED BY <2>1, <2>2, <2>6 DEF Base
<1>6. ASSUME NEW b \in Batches, CancelFuture(b) PROVE Base'
  <2>1. PICK i \in 1..Commands[b] :
            futures' = [futures EXCEPT ![b][i] = "cancelled"]
    BY <1>6 DEF CancelFuture
  <2>2. /\ DOMAIN futures' = Batches
        /\ \A c \in Batches : futures'[c] \in [1..Commands[c] -> FutureStates]
    BY <1>0, <2>1 DEF TypeOK, FutureStates
  <2>3. TypeOK'
    BY <1>0, <1>6, <2>2 DEF TypeOK, CancelFuture
  <2>4. Stages'
    BY <1>0, <1>6 DEF Stages, Active, CancelFuture
  <2>5. RunningBatches' = RunningBatches /\ UNCHANGED counter
    BY <1>6 DEF RunningBatches, CancelFuture
  <2> QED BY <1>0, <2>3, <2>4, <2>5, CounterUnchanged DEF Base
<1>7. ASSUME NEW b \in Batches,
             \/ Wait(b) \/ WaitReturns(b) \/ WaitTimeout(b)
             \/ AfterRuns(b) \/ AfterDone(b)
      PROVE  Base'
  <2>0. /\ waiter' \in [Batches ->
                {"none", "waiting", "returned", "error", "timeout"}]
        /\ after' \in [Batches ->
                {"none", "waiting", "running", "done", "cancelled"}]
        /\ UNCHANGED <<call, outerVars, batchVars, futures>>
    <3>1. CASE Wait(b)
      BY <1>0, <3>1 DEF TypeOK, Wait
    <3>2. CASE WaitReturns(b)
      BY <1>0, <3>2 DEF TypeOK, WaitReturns
    <3>3. CASE WaitTimeout(b)
      BY <1>0, <3>3 DEF TypeOK, WaitTimeout
    <3>4. CASE AfterRuns(b)
      BY <1>0, <3>4 DEF TypeOK, AfterRuns
    <3>5. CASE AfterDone(b)
      BY <1>0, <3>5 DEF TypeOK, AfterDone
    <3> QED BY <1>7, <3>1, <3>2, <3>3, <3>4, <3>5
  <2>1. TypeOK'
    BY <1>0, <2>0 DEF TypeOK
  <2>2. Stages'
    BY <1>0, <1>7
    DEF Stages, Active, Wait, WaitReturns, WaitTimeout, AfterRuns, AfterDone
  <2>3. RunningBatches' = RunningBatches /\ UNCHANGED counter
    BY <1>7
    DEF RunningBatches, Wait, WaitReturns, WaitTimeout, AfterRuns, AfterDone
  <2> QED BY <1>0, <2>1, <2>2, <2>3, CounterUnchanged DEF Base
<1>8. ASSUME NEW b \in Batches, PollRaises(b) PROVE Base'
  <2>1. Active(b) /\ SetFinished(b) /\ UNCHANGED call
    BY <1>8 DEF PollRaises, Active
  <2>2. /\ collector' \in [Batches -> {"off", "poll", "sleep", "ended"}]
        /\ finished' \in [Batches -> BOOLEAN]
        /\ counter' \in Nat
        /\ CounterExact'
        /\ collector'[b] = "ended"
        /\ \A c \in Batches : c # b => /\ collector'[c] = collector[c]
                                       /\ finished'[c] = finished[c]
    BY <1>0, <2>1, SetFinishedStep
  <2>3. TypeOK'
    BY <1>0, <1>8, <2>2 DEF TypeOK, PollRaises
  <2>4. Stages'
    BY <1>0, <1>8, <2>1, <2>2 DEF Stages, Active, PollRaises, TypeOK
  <2> QED BY <2>2, <2>3, <2>4 DEF Base
<1>9. ASSUME NEW b \in Batches, GsbError(b) \/ SleepOver(b) PROVE Base'
  <2>1. gsb' \in [Batches -> 0..MaxGsb]
    <3>1. CASE GsbError(b)
      <4>1. gsb[b] + 1 \in 0..MaxGsb
        BY <1>0, <3>1 DEF TypeOK, GsbError, BatchAssumption
      <4> QED BY <1>0, <3>1, <4>1 DEF TypeOK, GsbError
    <3>2. CASE SleepOver(b)
      BY <1>0, <3>2 DEF TypeOK, SleepOver
    <3> QED BY <1>9, <3>1, <3>2
  <2>2. TypeOK'
    BY <1>0, <1>9, <2>1 DEF TypeOK, GsbError, SleepOver
  <2>3. Stages'
    BY <1>0, <1>9 DEF Stages, Active, GsbError, SleepOver, TypeOK
  <2>4. RunningBatches' = RunningBatches /\ UNCHANGED counter
    BY <1>9 DEF RunningBatches, GsbError, SleepOver
  <2> QED BY <1>0, <2>2, <2>3, <2>4, CounterUnchanged DEF Base
<1>10. ASSUME NEW b \in Batches, NEW k \in 0..Len(ran[b]), PollUpTo(b, k)
       PROVE  Base'
  <2>0. gsb' \in [Batches -> 0..MaxGsb]
    BY <1>0, <1>10 DEF TypeOK, PollUpTo, BatchAssumption
  <2>1. CASE NewResults(b, k) = {}
    <3>1. TypeOK'
      BY <1>0, <1>10, <2>0, <2>1 DEF TypeOK, PollUpTo
    <3>2. Stages'
      BY <1>0, <1>10, <2>1 DEF Stages, Active, PollUpTo
    <3>3. RunningBatches' = RunningBatches /\ UNCHANGED counter
      BY <1>10, <2>1 DEF RunningBatches, PollUpTo
    <3> QED BY <1>0, <3>1, <3>2, <3>3, CounterUnchanged DEF Base
  <2>2. CASE NewResults(b, k) # {}
    <3>1. PICK last \in 1..k :
        /\ last \in Nat /\ last <= Len(ran[b])
        /\ Active(b)
        /\ events' \in [Batches -> Seq(Outcomes)]
        /\ \A c \in Batches : c # b => events'[c] = events[c]
        /\ futures' = [futures EXCEPT ![b] = NewFutures(b, last)]
        /\ IF Invalid(b, k) # {} \/ IsBatchFinished(b, last)
           THEN SetFinished(b)
           ELSE UNCHANGED <<collector, finished, counter>>
        /\ failure' = IF Invalid(b, k) = {} THEN failure
                      ELSE [failure EXCEPT ![b] = "future"]
      BY <1>10, <2>2, PollReports
    <3>2. /\ DOMAIN futures' = Batches
          /\ \A c \in Batches : futures'[c] \in [1..Commands[c] -> FutureStates]
      BY <1>0, <3>1, FuturesType
    <3>3. UNCHANGED <<call, after, ran, alive, bus, node, waiter>>
      BY <1>10 DEF PollUpTo
    <3>4. failure' \in [Batches -> {"no", "api", "future"}]
      BY <1>0, <3>1 DEF TypeOK
    <3>5. CASE Invalid(b, k) # {} \/ IsBatchFinished(b, last)
      <4>1. SetFinished(b)
        BY <3>1, <3>5
      <4>2. /\ collector' \in [Batches -> {"off", "poll", "sleep", "ended"}]
            /\ finished' \in [Batches -> BOOLEAN]
            /\ counter' \in Nat
            /\ CounterExact'
            /\ collector'[b] = "ended"
            /\ \A c \in Batches : c # b => /\ collector'[c] = collector[c]
                                           /\ finished'[c] = finished[c]
        BY <1>0, <3>1, <3>3, <4>1, SetFinishedStep
      <4>3. TypeOK'
        BY <1>0, <2>0, <3>1, <3>2, <3>3, <3>4, <4>2 DEF TypeOK
      <4>4. \A c \in Batches : c # b => failure'[c] = failure[c]
        BY <1>0, <3>1 DEF TypeOK
      <4>5. Stages'
        BY <1>0, <3>1, <3>3, <4>2, <4>4, ZenonT(40) DEF Stages, Active
      <4> QED BY <4>2, <4>3, <4>5 DEF Base
    <3>6. CASE ~(Invalid(b, k) # {} \/ IsBatchFinished(b, last))
      <4>1. UNCHANGED <<collector, finished, counter, failure>>
        BY <3>1, <3>6
      <4>2. TypeOK'
        BY <1>0, <2>0, <3>1, <3>2, <3>3, <4>1 DEF TypeOK
      <4>3. Stages'
        BY <1>0, <3>1, <3>3, <4>1 DEF Stages, Active
      <4>4. RunningBatches' = RunningBatches
        BY <3>3, <4>1 DEF RunningBatches
      <4> QED BY <1>0, <4>1, <4>2, <4>3, <4>4, CounterUnchanged DEF Base
    <3> QED BY <3>5, <3>6
  <2> QED BY <2>1, <2>2
<1> QED
  BY <1>1, <1>2, <1>3, <1>4, <1>5, <1>6, <1>7, <1>8, <1>9, <1>10
  DEF Next, Caller, Collect, Poll

-----------------------------------------------------------------------------
(* Answered, by what a step touches. *)

\* A prefix agrees with the whole at each of its indices.
LEMMA PrefixPointwise ==
    ASSUME NEW S, NEW s \in Seq(S), NEW t \in Seq(S)
    PROVE  IsPrefix(s, t) <=> /\ Len(s) <= Len(t)
                              /\ \A i \in 1..Len(s) : s[i] = t[i]
<1> DEFINE a == SubSeq(s, 1, Len(s))
           c == SubSeq(t, 1, Len(s))
<1>1. /\ a \in Seq(S) /\ Len(a) = Len(s)
      /\ \A i \in 1..Len(s) : a[i] = s[i]
  OBVIOUS
<1>2. Len(s) <= Len(t) => /\ c \in Seq(S) /\ Len(c) = Len(s)
                          /\ \A i \in 1..Len(s) : c[i] = t[i]
  OBVIOUS
<1>3. IsPrefix(s, t) <=> Len(s) <= Len(t) /\ a = c
  BY DEF IsPrefix
<1> HIDE DEF a, c
<1>4. ASSUME Len(s) <= Len(t) PROVE a = c <=> \A i \in 1..Len(s) : a[i] = c[i]
  BY <1>1, <1>2, <1>4, SeqEqual
<1> QED BY <1>1, <1>2, <1>3, <1>4

\* What Answered says beside Base.
Results ==
    /\ ProviderStops
    /\ EventsInOrder
    /\ Open
    /\ FuturesMatchEvents
    /\ DoneIsComplete

\* Steps that touch none of it, at most start a collector on an empty batch.
LEMMA QuietStep ==
    ASSUME BatchAssumption, Results,
           UNCHANGED <<ran, events, futures, failure, finished>>,
           \A b \in Batches : Active(b)' => Active(b) \/ events[b] = <<>>
    PROVE  Results'
<1>1. ProviderStops' /\ EventsInOrder' /\ FuturesMatchEvents' /\ DoneIsComplete'
  BY DEF Results, ProviderStops, EventsInOrder, FuturesMatchEvents, DoneIsComplete
<1>2. Open'
  BY DEF Results, Open, BatchAssumption
<1> QED BY <1>1, <1>2 DEF Results

\* One more command is run.
LEMMA RunResults ==
    ASSUME BatchAssumption, TypeOK, TypeOK', Results, NEW b \in Batches, Run(b)
    PROVE  Results'
<1> USE DEF callVars, batchVars
<1>1. UNCHANGED <<events, futures, failure, finished, collector>>
  BY DEF Run
<1>2. PICK r \in Outcomes : ran' = [ran EXCEPT ![b] = Append(@, r)]
  BY DEF Run
<1>3. /\ ran[b] \in Seq(Outcomes) /\ Len(ran[b]) \in Nat /\ Commands[b] \in Nat
      /\ ran'[b] = Append(ran[b], r)
      /\ \A c \in Batches : c # b => ran'[c] = ran[c]
  BY <1>2 DEF TypeOK, BatchAssumption
<1>4. /\ Len(ran'[b]) = Len(ran[b]) + 1
      /\ \A i \in 1..Len(ran[b]) : ran'[b][i] = ran[b][i]
  BY <1>3
<1>5. ProviderStops'
  <2>1. /\ Len(ran[b]) <= Commands[b]
        /\ \A i \in 1..Len(ran[b]) : i < Len(ran[b]) => ran[b][i] = "Ok"
    BY DEF Results, ProviderStops
  <2>2. Len(ran[b]) > 0 => /\ Len(ran[b]) # Commands[b]
                           /\ ran[b][Len(ran[b])] # "Error"
    BY DEF Run, Over, Final
  <2>3. Len(ran[b]) > 0 => ran[b][Len(ran[b])] = "Ok"
    BY <1>3, <2>2 DEF Outcomes
  <2>4. Commands[b] # 0
    BY DEF BatchAssumption
  <2>5. Len(ran'[b]) <= Commands[b]
    BY <1>3, <1>4, <2>1, <2>2, <2>4
  <2>6. ASSUME NEW i \in 1..Len(ran'[b]), i < Len(ran'[b]) PROVE ran'[b][i] = "Ok"
    <3>1. i \in 1..Len(ran[b])
      BY <1>3, <1>4, <2>6
    <3>2. CASE i < Len(ran[b])
      BY <3>1, <3>2, <1>4, <2>1
    <3>3. CASE i = Len(ran[b])
      BY <3>1, <3>3, <1>3, <1>4, <2>3
    <3> QED BY <3>1, <3>2, <3>3, <1>3
  <2> QED BY <1>3, <2>5, <2>6 DEF Results, ProviderStops
<1>6. EventsInOrder'
  <2> SUFFICES ASSUME NEW c \in Batches PROVE IsPrefix(events[c], ran'[c])
    BY <1>1 DEF EventsInOrder
  <2>1. IsPrefix(events[c], ran[c])
    BY DEF Results, EventsInOrder
  <2>2. CASE c # b
    BY <1>3, <2>1, <2>2
  <2>3. CASE c = b
    <3>1. events[b] \in Seq(Outcomes) /\ ran'[b] \in Seq(Outcomes)
      BY DEF TypeOK
    <3>2. /\ Len(events[b]) <= Len(ran[b])
          /\ \A i \in 1..Len(events[b]) : events[b][i] = ran[b][i]
      BY <1>3, <2>1, <2>3, <3>1, PrefixPointwise
    <3>3. /\ Len(events[b]) <= Len(ran'[b])
          /\ \A i \in 1..Len(events[b]) : events[b][i] = ran'[b][i]
      BY <1>3, <1>4, <3>1, <3>2
    <3> QED BY <2>3, <3>1, <3>3, PrefixPointwise
  <2> QED BY <2>2, <2>3
<1>7. Open' /\ FuturesMatchEvents' /\ DoneIsComplete'
  BY <1>1 DEF Results, Open, Active, FuturesMatchEvents, DoneIsComplete
<1> QED BY <1>5, <1>6, <1>7 DEF Results

\* A future is given up by its holder.
LEMMA CancelResults ==
    ASSUME BatchAssumption, TypeOK, Results, NEW b \in Batches, CancelFuture(b)
    PROVE  Results'
<1> USE DEF outerVars, batchVars
<1>1. UNCHANGED <<ran, events, failure, finished, collector>>
  BY DEF CancelFuture
<1>2. PICK i \in 1..Commands[b] : futures' = [futures EXCEPT ![b][i] = "cancelled"]
  BY DEF CancelFuture
<1>3. \A c \in Batches : \A f \in 1..Commands[c] :
          futures'[c][f] = futures[c][f] \/ futures'[c][f] = "cancelled"
  BY <1>2 DEF TypeOK
<1>4. FuturesMatchEvents'
  BY <1>1, <1>3, BatchAssumption
  DEF Results, FuturesMatchEvents, BatchAssumption
<1>5. DoneIsComplete'
  BY <1>1, <1>3 DEF Results, DoneIsComplete
<1> QED BY <1>1, <1>4, <1>5 DEF Results, ProviderStops, EventsInOrder, Open, Active

\* Collecting fails: the batch is done as it is.
LEMMA RaiseResults ==
    ASSUME BatchAssumption, Base, Base', Results, NEW b \in Batches, PollRaises(b)
    PROVE  Results'
<1>0. TypeOK /\ Stages /\ CounterExact /\ Active(b)
  BY DEF Base, PollRaises, Active
<1>1. UNCHANGED <<ran, events, futures>>
  BY DEF PollRaises, outerVars
<1>2. /\ collector'[b] = "ended"
      /\ \A c \in Batches : c # b => /\ collector'[c] = collector[c]
                                     /\ finished'[c] = finished[c]
      /\ UNCHANGED call
  BY <1>0, SetFinishedStep DEF PollRaises, callVars
<1>3. /\ failure[b] = "no" /\ failure'[b] = "api"
      /\ \A c \in Batches : c # b => failure'[c] = failure[c]
  BY <1>0 DEF PollRaises, Stages, TypeOK
<1>4. Open'
  BY <1>1, <1>2 DEF Results, Open, Active
<1>5. FuturesMatchEvents'
  BY <1>1, <1>3 DEF Results, FuturesMatchEvents, BatchAssumption
<1>6. DoneIsComplete'
  BY <1>1, <1>2, <1>3 DEF Results, DoneIsComplete
<1> QED BY <1>1, <1>4, <1>5, <1>6 DEF Results, ProviderStops, EventsInOrder

\* An answer reports results: the heart of the argument.
LEMMA ReportResults ==
    ASSUME BatchAssumption, Answered, Base', NEW b \in Batches,
           NEW k \in 0..Len(ran[b]), PollUpTo(b, k), NewResults(b, k) # {}
    PROVE  Results'
<1>0. TypeOK /\ Stages /\ CounterExact /\ Base /\ Results
  BY DEF Base, Answered, Results
<1>1. PICK last \in 1..k :
        /\ last \in Nat /\ last <= Len(ran[b]) /\ last > Len(events[b])
        /\ Active(b)
        /\ events' \in [Batches -> Seq(Outcomes)]
        /\ Len(events'[b]) = last
        /\ \A i \in 1..last : events'[b][i] = ran[b][i]
        /\ \A i \in 1..Len(events[b]) : events[b][i] = ran[b][i]
        /\ \A c \in Batches : c # b => events'[c] = events[c]
        /\ futures' = [futures EXCEPT ![b] = NewFutures(b, last)]
        /\ Invalid(b, k) = {} => last = k
        /\ IF Invalid(b, k) # {} \/ IsBatchFinished(b, last)
           THEN SetFinished(b)
           ELSE UNCHANGED <<collector, finished, counter>>
        /\ failure' = IF Invalid(b, k) = {} THEN failure
                      ELSE [failure EXCEPT ![b] = "future"]
  BY PollReports
<1>2. /\ UNCHANGED <<call, ran>>
      /\ ran[b] \in Seq(Outcomes) /\ events[b] \in Seq(Outcomes)
      /\ Len(ran[b]) \in Nat /\ Len(events[b]) \in Nat
      /\ Commands[b] \in Nat \ {0} /\ k \in Nat
  BY <1>0 DEF TypeOK, PollUpTo, BatchAssumption, callVars, outerVars
<1>3. /\ failure[b] = "no" /\ ~finished[b]
      /\ \A c \in Batches : c # b => failure'[c] = failure[c]
      /\ Invalid(b, k) = {} => failure'[b] = "no"
      /\ Invalid(b, k) # {} => failure'[b] = "future"
  BY <1>0, <1>1 DEF Stages, TypeOK
<1>4. /\ \A c \in Batches : c # b => /\ collector'[c] = collector[c]
                                     /\ finished'[c] = finished[c]
      /\ (Invalid(b, k) # {} \/ IsBatchFinished(b, last)) => collector'[b] = "ended"
      /\ ~(Invalid(b, k) # {} \/ IsBatchFinished(b, last)) => ~finished'[b]
  BY <1>0, <1>1, <1>2, <1>3, SetFinishedStep
<1>5. /\ Len(ran[b]) <= Commands[b]
      /\ \A i \in 1..Len(ran[b]) : i < Len(ran[b]) => ran[b][i] = "Ok"
      /\ Len(events[b]) < Commands[b]
      /\ \A i \in 1..Len(events[b]) : events[b][i] = "Ok"
  BY <1>0, <1>1 DEF Results, ProviderStops, Open
<1>6. ASSUME NEW i \in 1..last, i < last PROVE events'[b][i] = "Ok"
  <2>1. i \in 1..Len(ran[b]) /\ i < Len(ran[b])
    BY <1>1, <1>2, <1>6
  <2> QED BY <1>1, <1>5, <2>1
<1>7. events'[b][last] \in Outcomes
  BY <1>1, <1>2
<1>8. /\ \A f \in 1..Commands[b] : futures'[b][f] = NewFutures(b, last)[f]
      /\ \A c \in Batches : c # b => futures'[c] = futures[c]
  BY <1>0, <1>1, FuturesType
<1>9. ProviderStops'
  BY <1>0, <1>2 DEF Results, ProviderStops
<1>10. EventsInOrder'
  <2> SUFFICES ASSUME NEW c \in Batches PROVE IsPrefix(events'[c], ran'[c])
    BY DEF EventsInOrder
  <2>1. CASE c # b
    BY <1>0, <1>1, <1>2, <2>1 DEF Results, EventsInOrder
  <2>2. CASE c = b
    <3>1. events'[b] \in Seq(Outcomes)
      BY <1>1
    <3>2. /\ Len(events'[b]) <= Len(ran[b])
          /\ \A i \in 1..Len(events'[b]) : events'[b][i] = ran[b][i]
      BY <1>1
    <3> QED BY <1>2, <2>2, <3>1, <3>2, PrefixPointwise
  <2> QED BY <2>1, <2>2
<1>11. Open'
  <2> SUFFICES ASSUME NEW c \in Batches, Active(c)'
               PROVE  /\ Len(events'[c]) < Commands[c]
                      /\ \A i \in 1..Len(events'[c]) : events'[c][i] = "Ok"
    BY DEF Open
  <2>1. CASE c # b
    <3>1. events'[c] = events[c] /\ Active(c)
      BY <1>1, <1>4, <2>1 DEF Active
    <3>2. Open
      BY <1>0 DEF Results
    <3> QED BY <3>1, <3>2 DEF Open
  <2>2. CASE c = b
    <3>1. Invalid(b, k) = {} /\ ~IsBatchFinished(b, last)
      BY <1>4, <2>2 DEF Active
    <3>2. last # Commands[b] /\ ran[b][last] # "Error"
      BY <3>1 DEF IsBatchFinished, Final
    <3>3. events'[b][last] = "Ok"
      BY <1>1, <1>7, <3>2 DEF Outcomes
    <3>4. Len(events'[b]) = last /\ last < Commands[b]
      BY <1>1, <1>2, <1>5, <3>2
    <3>5. ASSUME NEW i \in 1..last PROVE events'[b][i] = "Ok"
      <4>1. i = last \/ i < last
        BY <1>1
      <4> QED BY <1>6, <3>3, <4>1
    <3> QED BY <2>2, <3>4, <3>5
  <2> QED BY <2>1, <2>2
<1>12. FuturesMatchEvents'
  <2> SUFFICES ASSUME NEW c \in Scripts, NEW f \in 1..Commands[c]
               PROVE  LET ok == f <= Len(events'[c]) /\ events'[c][f] = "Ok"
                          broke == f <= Len(events'[c]) /\ events'[c][f] = "Error"
                          skipped == \E i \in 1..Len(events'[c]) :
                                        i < f /\ events'[c][i] = "Error"
                      IN  /\ futures'[c][f] = "result" => ok
                          /\ futures'[c][f] = "failed" => broke
                          /\ futures'[c][f] = "skipped" => skipped
                          /\ (futures'[c][f] = "pending" /\ failure'[c] # "future")
                                => ~(ok \/ broke \/ skipped)
    BY DEF FuturesMatchEvents
  <2>0. c \in Batches
    BY DEF BatchAssumption
  <2>1. CASE c # b
    <3>1. /\ events'[c] = events[c]
          /\ futures'[c] = futures[c]
          /\ failure'[c] = failure[c]
      BY <1>1, <1>3, <1>8, <2>0, <2>1
    <3>2. FuturesMatchEvents
      BY <1>0 DEF Results
    <3> QED BY <3>1, <3>2 DEF FuturesMatchEvents
  <2>2. CASE c = b
    <3>1. /\ f \in 1..Commands[b] /\ b \in Scripts /\ f \in Nat
          /\ futures'[b][f] = NewFutures(b, last)[f]
      BY <1>2, <1>8, <2>2
    <3>5. \/ NewFutures(b, last)[f] = futures[b][f]
          \/ \E i \in NewResults(b, last) :
               \/ /\ f = i
                  /\ ran[b][i] = "Ok"
                  /\ NewFutures(b, last)[f] = "result"
               \/ /\ f = i
                  /\ ran[b][i] = "Error"
                  /\ NewFutures(b, last)[f] = "failed"
               \/ /\ i < f
                  /\ ran[b][i] = "Error"
                  /\ NewFutures(b, last)[f] = "skipped"
      <4>1. TypeOK /\ last \in Nat /\ last <= Len(ran[b]) /\ f \in 1..Commands[b]
        BY <1>0, <1>1, <3>1
      <4> QED BY <4>1, ResolvedFutures
    <3>2. /\ futures[b][f] = "result" =>
                f <= Len(events[b]) /\ events[b][f] = "Ok"
          /\ futures[b][f] # "failed" /\ futures[b][f] # "skipped"
          /\ futures[b][f] = "pending" => f > Len(events[b])
      <4>1. /\ futures[b][f] = "result" =>
                  f <= Len(events[b]) /\ events[b][f] = "Ok"
            /\ futures[b][f] = "failed" =>
                  f <= Len(events[b]) /\ events[b][f] = "Error"
            /\ futures[b][f] = "skipped" =>
                  \E i \in 1..Len(events[b]) : i < f /\ events[b][i] = "Error"
            /\ (futures[b][f] = "pending" /\ failure[b] # "future") =>
                  ~(f <= Len(events[b]) /\ events[b][f] = "Ok")
        BY <1>0, <3>1, SMTT(30) DEF Results, FuturesMatchEvents
      <4> QED BY <1>2, <1>3, <1>5, <3>1, <4>1
    <3>3. /\ futures'[b][f] = "result" =>
                f <= last /\ events'[b][f] = "Ok"
          /\ futures'[b][f] = "failed" =>
                f <= last /\ events'[b][f] = "Error"
          /\ futures'[b][f] = "skipped" =>
                \E i \in 1..last : i < f /\ events'[b][i] = "Error"
      <4>1. CASE futures'[b][f] = futures[b][f]
        BY <1>1, <1>2, <3>1, <3>2, <4>1, SMTT(30)
      <4>2. CASE futures'[b][f] # futures[b][f]
        <5>1. PICK i \in NewResults(b, last) :
                \/ /\ f = i
                   /\ ran[b][i] = "Ok"
                   /\ NewFutures(b, last)[f] = "result"
                \/ /\ f = i
                   /\ ran[b][i] = "Error"
                   /\ NewFutures(b, last)[f] = "failed"
                \/ /\ i < f
                   /\ ran[b][i] = "Error"
                   /\ NewFutures(b, last)[f] = "skipped"
          BY <3>1, <3>5, <4>2
        <5>2. i \in 1..last /\ events'[b][i] = ran[b][i]
          BY <1>1, <1>2 DEF NewResults
        <5> QED BY <3>1, <5>1, <5>2
      <4> QED BY <4>1, <4>2
    <3>4. ASSUME futures'[b][f] = "pending", failure'[b] # "future",
                 f <= last \/ \E i \in 1..last : i < f /\ events'[b][i] = "Error"
          PROVE  FALSE
      <4>1. Invalid(b, k) = {} /\ last = k
        BY <1>1, <1>3, <3>4
      <4>2. PICK i \in NewResults(b, last) : f \in Targets(b, i)
        <5>1. CASE f > last
          <6>1. PICK i \in 1..last : i < f /\ events'[b][i] = "Error"
            BY <1>1, <3>1, <3>4, <5>1
          <6>2. ran[b][i] = "Error"
            BY <1>1, <6>1
          <6>3. ~(i <= Len(events[b]))
            BY <1>1, <1>2, <1>5, <6>1, <6>2
          <6>4. i \in NewResults(b, last) /\ f \in Targets(b, i)
            BY <1>1, <1>2, <3>1, <6>1, <6>2, <6>3 DEF NewResults, Targets
          <6> QED BY <6>4
        <5>2. CASE f <= last
          <6>1. ~(f <= Len(events[b]))
            <7>1. futures[b][f] = "pending" => f > Len(events[b])
              BY <3>2
            <7>2. futures[b][f] = "pending"
              BY <3>1, <3>5, <3>4
            <7> QED BY <1>2, <3>1, <7>1, <7>2
          <6>2. f \in NewResults(b, last)
            BY <1>1, <1>2, <3>1, <5>2, <6>1 DEF NewResults
          <6>3. f \in Targets(b, f)
            BY <1>2, <3>1 DEF Targets
          <6> QED BY <6>2, <6>3
        <5> QED BY <1>1, <3>1, <5>1, <5>2
      <4>3. \A j \in NewResults(b, last) : \A t \in Targets(b, j) :
                futures[b][t] = "pending"
        BY <4>1 DEF Invalid
      <4>4. PICK j \in NewResults(b, last) :
              /\ f \in Targets(b, j)
              /\ NewFutures(b, last)[f] = Resolved(b, j, f)
        BY <3>1, <4>2 DEF NewFutures
      <4>5. \A t \in j..f : futures[b][t] = "pending"
        <5>1. j \in Nat
          BY <1>1, <1>2 DEF NewResults
        <5>2. CASE ran[b][j] = "Ok"
          BY <3>1, <4>3, <4>4, <5>1, <5>2 DEF Targets
        <5>3. CASE ran[b][j] # "Ok"
          <6>1. \A t \in j..f : t \in Targets(b, j)
            BY <1>2, <3>1, <5>1, <5>3 DEF Targets
          <6> QED BY <4>3, <4>4, <6>1
        <5> QED BY <5>2, <5>3
      <4>6. Resolved(b, j, f) # "pending"
        BY <4>5 DEF Resolved
      <4> QED BY <3>1, <3>4, <4>4, <4>6
    <3> QED BY <1>1, <2>2, <3>3, <3>4
  <2> QED BY <2>1, <2>2
<1>13. DoneIsComplete'
  <2> SUFFICES ASSUME NEW c \in Batches, finished'[c], failure'[c] = "no"
               PROVE  /\ Len(events'[c]) > 0
                      /\ \A i \in 1..Len(events'[c]) :
                           (i = Commands[c] \/ events'[c][i] = "Error")
                                <=> i = Len(events'[c])
                      /\ c \in Scripts => \A f \in 1..Commands[c] :
                                              futures'[c][f] # "pending"
    BY DEF DoneIsComplete
  <2>1. CASE c # b
    <3>1. /\ events'[c] = events[c] /\ finished[c] /\ failure[c] = "no"
          /\ futures'[c] = futures[c]
      BY <1>1, <1>3, <1>4, <1>8, <2>1
    <3>2. DoneIsComplete
      BY <1>0 DEF Results
    <3> QED BY <3>1, <3>2 DEF DoneIsComplete
  <2>2. CASE c = b
    <3>1. IsBatchFinished(b, last)
      BY <1>3, <1>4, <2>2
    <3>2. last = Commands[b] \/ events'[b][last] = "Error"
      BY <1>1, <3>1 DEF IsBatchFinished, Final
    <3>3. ASSUME NEW i \in 1..last
          PROVE  (i = Commands[b] \/ events'[b][i] = "Error") <=> i = last
      <4>1. CASE i = last
        BY <3>2, <4>1
      <4>2. CASE i < last
        BY <1>1, <1>2, <1>5, <1>6, <4>2
      <4> QED BY <1>1, <4>1, <4>2
    <3>4. ASSUME NEW f \in 1..Commands[b], b \in Scripts
          PROVE  futures'[b][f] # "pending"
      <4>1. futures'[b][f] = "pending" =>
              ~ \/ f <= last /\ events'[b][f] = "Ok"
                \/ f <= last /\ events'[b][f] = "Error"
                \/ \E i \in 1..last : i < f /\ events'[b][i] = "Error"
        BY <1>1, <1>12, <2>2, <3>4, SMTT(30) DEF FuturesMatchEvents
      <4>2. f <= last => events'[b][f] \in Outcomes
        BY <1>1, <1>2
      <4>3. f > last => last < f /\ events'[b][last] = "Error" /\ last \in 1..last
        BY <1>1, <1>2, <3>2
      <4>4. f <= last \/ f > last
        BY <1>1, <1>2
      <4> QED BY <4>1, <4>2, <4>3, <4>4 DEF Outcomes
    <3> QED BY <1>1, <2>2, <3>3, <3>4
  <2> QED BY <2>1, <2>2
<1> QED BY <1>9, <1>10, <1>11, <1>12, <1>13 DEF Results

-----------------------------------------------------------------------------
(* The invariant and what follows from it. *)

LEMMA InitAnswered == BatchAssumption /\ Init => Answered
<1> SUFFICES ASSUME BatchAssumption, Init PROVE Answered
  OBVIOUS
<1>1. Base
  BY InitBase
<1>2. ProviderStops /\ Open
  BY DEF Init, ProviderStops, Open, Active, BatchAssumption
<1>3. EventsInOrder
  BY DEF Init, EventsInOrder, IsPrefix
<1>4. FuturesMatchEvents
  BY DEF Init, FuturesMatchEvents, BatchAssumption
<1>5. DoneIsComplete
  BY DEF Init, DoneIsComplete
<1> QED BY <1>1, <1>2, <1>3, <1>4, <1>5 DEF Answered

LEMMA AnsweredStep == BatchAssumption /\ Answered /\ [Next]_vars => Answered'
<1> SUFFICES ASSUME BatchAssumption, Answered, [Next]_vars PROVE Answered'
  OBVIOUS
<1> USE DEF callVars, outerVars, batchVars
<1>0. /\ Base /\ Base' /\ TypeOK /\ TypeOK' /\ Stages /\ Results
  BY BaseStep DEF Answered, Base, Results
<1>1. CASE UNCHANGED vars
  <2>1. UNCHANGED <<ran, events, futures, failure, finished, collector>>
    BY <1>1 DEF vars
  <2>2. Results'
    BY <1>0, <2>1, QuietStep DEF Active
  <2> QED BY <1>0, <2>2 DEF Answered, Results
<1>2. CASE Environment
  <2>1. UNCHANGED <<ran, events, futures, failure, finished>>
    BY <1>2 DEF Environment, Lose, BusEnds, StopCollectors, Cleanup
  <2>2. ASSUME NEW b \in Batches, Active(b)' PROVE Active(b)
    <3>1. CASE StopCollectors
      BY <1>0, <2>2, <3>1 DEF StopCollectors, Active, TypeOK
    <3>2. CASE Lose \/ BusEnds \/ Cleanup
      BY <2>2, <3>2 DEF Lose, BusEnds, Cleanup, Active
    <3> QED BY <1>2, <3>1, <3>2 DEF Environment
  <2>3. Results'
    BY <1>0, <2>1, <2>2, QuietStep
  <2> QED BY <1>0, <2>3 DEF Answered, Results
<1>3. ASSUME NEW b \in Batches, Run(b) PROVE Answered'
  BY <1>0, <1>3, RunResults DEF Answered, Results
<1>4. ASSUME NEW b \in Batches, Made(b) PROVE Answered'
  <2>1. UNCHANGED <<ran, events, futures, failure, finished>>
    BY <1>4 DEF Made
  <2>2. \A c \in Batches : Active(c)' => Active(c) \/ events[c] = <<>>
    BY <1>0, <1>4 DEF Made, Active, TypeOK, Stages
  <2>3. Results'
    BY <1>0, <2>1, <2>2, QuietStep
  <2> QED BY <1>0, <2>3 DEF Answered, Results
<1>5. ASSUME NEW b \in Batches, CancelFuture(b) PROVE Answered'
  BY <1>0, <1>5, CancelResults DEF Answered, Results
<1>6. ASSUME NEW b \in Batches,
             \/ Execute(b) \/ ExecuteRaises(b)
             \/ Wait(b) \/ WaitReturns(b) \/ WaitTimeout(b)
             \/ AfterRuns(b) \/ AfterDone(b)
      PROVE  Answered'
  <2>1. UNCHANGED <<ran, events, futures, failure, finished, collector>>
    BY <1>6 DEF Execute, ExecuteRaises, Wait, WaitReturns, WaitTimeout,
                AfterRuns, AfterDone
  <2>2. Results'
    BY <1>0, <2>1, QuietStep DEF Active
  <2> QED BY <1>0, <2>2 DEF Answered, Results
<1>7. ASSUME NEW b \in Batches, PollRaises(b) PROVE Answered'
  BY <1>0, <1>7, RaiseResults DEF Answered, Results
<1>8. ASSUME NEW b \in Batches, GsbError(b) \/ SleepOver(b) PROVE Answered'
  <2>1. UNCHANGED <<ran, events, futures, failure, finished>>
    BY <1>8 DEF GsbError, SleepOver
  <2>2. \A c \in Batches : Active(c)' => Active(c)
    BY <1>0, <1>8 DEF GsbError, SleepOver, Active, TypeOK
  <2>3. Results'
    BY <1>0, <2>1, <2>2, QuietStep
  <2> QED BY <1>0, <2>3 DEF Answered, Results
<1>9. ASSUME NEW b \in Batches, NEW k \in 0..Len(ran[b]), PollUpTo(b, k)
      PROVE  Answered'
  <2>1. CASE NewResults(b, k) = {}
    <3>1. UNCHANGED <<ran, events, futures, failure, finished, collector>>
      BY <1>9, <2>1 DEF PollUpTo
    <3>2. Results'
      BY <1>0, <3>1, QuietStep DEF Active
    <3> QED BY <1>0, <3>2 DEF Answered, Results
  <2>2. CASE NewResults(b, k) # {}
    BY <1>0, <1>9, <2>2, ReportResults DEF Answered, Results
  <2> QED BY <2>1, <2>2
<1> QED
  BY <1>1, <1>2, <1>3, <1>4, <1>5, <1>6, <1>7, <1>8, <1>9
  DEF Next, Caller, Collect, Poll

\* The inductive invariant holds in every reachable state.
THEOREM Invariant == Spec => []Answered
<1>1. Init => Answered
  BY InitAnswered, BatchAssumption
<1>2. Answered /\ [Next]_vars => Answered'
  BY AnsweredStep, BatchAssumption
<1> QED BY <1>1, <1>2, PTL DEF Spec

\* Every variable keeps its type, for every number of batches and commands.
THEOREM TypeCorrect == Spec => []TypeOK
<1>1. Answered => TypeOK
  BY DEF Answered, Base
<1> QED BY <1>1, Invariant, PTL

\* The running counter of an activity is the number of its running batches.
THEOREM CounterCorrect == Spec => []CounterExact
<1>1. Answered => CounterExact
  BY DEF Answered, Base
<1> QED BY <1>1, Invariant, PTL

\* Events are the provider's results, in order and without repetition.
THEOREM OrderedEvents == Spec => []EventsInOrder
<1>1. Answered => EventsInOrder
  BY DEF Answered
<1> QED BY <1>1, Invariant, PTL

\* Every future of a script says what became of its command.
THEOREM FuturesCorrect == Spec => []FuturesMatchEvents
<1>1. Answered => FuturesMatchEvents
  BY DEF Answered
<1> QED BY <1>1, Invariant, PTL

\* A batch that is done without a failure of collecting has all its events.
THEOREM CompleteWhenDone == Spec => []DoneIsComplete
<1>1. Answered => DoneIsComplete
  BY DEF Answered
<1> QED BY <1>1, Invariant, PTL

-----------------------------------------------------------------------------
(* The batches implement BatchLife. *)

\* Results of a batch only grow, never beyond one per command.
LEMMA GrowStep ==
    ASSUME BatchAssumption, Answered, Answered', NEW b \in Batches,
           NEW n \in Nat, n >= Len(events[b]), Len(events'[b]) = n,
           n <= Len(ran[b]), UNCHANGED ran
    PROVE  /\ IsPrefix(events[b], events'[b])
           /\ events'[b] \in BoundedSeq({"Ok", "Error"}, Commands[b])
<1>1. /\ events[b] \in Seq(Outcomes) /\ events'[b] \in Seq(Outcomes)
      /\ ran[b] \in Seq(Outcomes)
      /\ IsPrefix(events[b], ran[b]) /\ IsPrefix(events'[b], ran[b])
      /\ Len(ran[b]) <= Commands[b]
  BY DEF Answered, Base, TypeOK, EventsInOrder, ProviderStops
<1>2. IsPrefix(events[b], events'[b])
  <2>1. \A i \in 1..Len(events[b]) : events[b][i] = ran[b][i]
    BY <1>1, PrefixPointwise
  <2>2. \A i \in 1..n : events'[b][i] = ran[b][i]
    BY <1>1, PrefixPointwise, SMTT(30)
  <2>3. /\ Len(events[b]) <= Len(events'[b])
        /\ \A i \in 1..Len(events[b]) : events[b][i] = events'[b][i]
    BY <1>1, <2>1, <2>2
  <2> QED BY <1>1, <2>3, PrefixPointwise
<1>3. events'[b] \in BoundedSeq({"Ok", "Error"}, Commands[b])
  <2>1. events'[b] \in [1..n -> {"Ok", "Error"}]
    BY <1>1 DEF Outcomes
  <2>2. n \in 0..Commands[b]
    BY <1>1 DEF BatchAssumption
  <2> QED BY <2>1, <2>2 DEF BoundedSeq, SeqOf
<1> QED BY <1>2, <1>3

\* A done batch stays done, with the same events.
LEMMA FinalStep ==
    ASSUME BatchAssumption, Answered, [Next]_vars, NEW b \in Batches, finished[b]
    PROVE  finished'[b] /\ events'[b] = events[b]
<1> USE DEF callVars, outerVars, batchVars
<1>0. /\ Base /\ TypeOK
      /\ \A c \in Batches : Active(c) => c # b
  BY DEF Answered, Base, Stages
<1>1. CASE UNCHANGED vars \/ Environment
  BY <1>1 DEF vars, Environment, Lose, BusEnds, StopCollectors, Cleanup
<1>2. ASSUME NEW c \in Batches, Run(c) \/ Caller(c) \/ GsbError(c) \/ SleepOver(c)
      PROVE  finished'[b] /\ events'[b] = events[b]
  BY <1>2 DEF Run, Caller, Execute, ExecuteRaises, Made, CancelFuture, Wait,
              WaitReturns, WaitTimeout, AfterRuns, AfterDone, GsbError, SleepOver
<1>3. ASSUME NEW c \in Batches, PollRaises(c)
      PROVE  finished'[b] /\ events'[b] = events[b]
  <2>1. Active(c) /\ SetFinished(c) /\ UNCHANGED <<call, events>>
    BY <1>3 DEF PollRaises, Active
  <2> QED BY <1>0, <2>1, SetFinishedStep
<1>4. ASSUME NEW c \in Batches, NEW k \in 0..Len(ran[c]), PollUpTo(c, k)
      PROVE  finished'[b] /\ events'[b] = events[b]
  <2>1. CASE NewResults(c, k) = {}
    BY <1>4, <2>1 DEF PollUpTo
  <2>2. CASE NewResults(c, k) # {}
    <3>1. /\ Active(c)
          /\ \A d \in Batches : d # c => events'[d] = events[d]
          /\ SetFinished(c) \/ UNCHANGED <<collector, finished, counter>>
      BY <1>4, <2>2, PollReports
    <3>2. UNCHANGED call
      BY <1>4 DEF PollUpTo
    <3> QED BY <1>0, <3>1, <3>2, SetFinishedStep
  <2> QED BY <2>1, <2>2
<1> QED BY <1>1, <1>2, <1>3, <1>4 DEF Next, Collect, Poll

\* Done is final, whatever the collectors and the callers do.
THEOREM FinalWhenDone == Spec => DoneIsFinal
<1>1. Answered /\ [Next]_vars =>
        [\A b \in Batches : finished[b] => finished'[b] /\ events'[b] = events[b]]_vars
  BY FinalStep, BatchAssumption
<1> QED BY <1>1, Invariant, PTL DEF Spec, DoneIsFinal

\* The activity is idle when the counter is zero: when no batch is running.
LEMMA IdleMeansNone ==
    ASSUME BatchAssumption, CounterExact
    PROVE  /\ counter = 0 <=> RunningBatches = {}
           /\ Life!Running = RunningBatches
<1>1. counter = 0 <=> RunningBatches = {}
  BY RunningIsFinite
<1>2. Life!Running = RunningBatches
  BY DEF Life!Running, LifeStatus, RunningBatches
<1> QED BY <1>1, <1>2

\* A batch that ends in the detailed specification ends in the abstract one.
LEMMA EndStep ==
    ASSUME BatchAssumption, Answered, Answered', NEW b \in Batches, Active(b),
           SetFinished(b), UNCHANGED <<call, ran>>,
           IsPrefix(events[b], events'[b]),
           events'[b] \in BoundedSeq({"Ok", "Error"}, Commands[b]),
           events' = [events EXCEPT ![b] = events'[b]]
    PROVE  Life!End(b) \/ Life!Report(b)
<1>0. /\ TypeOK /\ CounterExact /\ CounterExact' /\ Base
      /\ call[b] = "made" /\ ~finished[b]
  BY DEF Answered, Base, Stages
<1>1. LifeStatus[b] = "running"
  BY <1>0 DEF LifeStatus
<1>2. Life!Grow(b)
  BY DEF Life!Grow, Life!IsPrefix, Life!BoundedSeq, Life!SeqOf,
         IsPrefix, BoundedSeq, SeqOf
<1>3. CASE bus
  <2>1. finished' = [finished EXCEPT ![b] = TRUE]
    BY <1>3 DEF SetFinished
  <2>2. LifeStatus' = [LifeStatus EXCEPT ![b] = "done"]
    BY <1>0, <2>1 DEF LifeStatus, TypeOK
  <2>3. RunningBatches' = RunningBatches \ {b} /\ b \in RunningBatches
    BY <1>0, <2>1 DEF RunningBatches, TypeOK
  <2>4. (counter = 0)' <=> Life!Running = {b}
    <3>1. (counter = 0)' <=> RunningBatches' = {}
      <4>1. IsFiniteSet(RunningBatches \ {b})
        BY <1>0, RunningIsFinite, FS_RemoveElement
      <4>2. counter' = Cardinality(RunningBatches \ {b})
        BY <1>0, <2>3 DEF CounterExact
      <4> QED BY <2>3, <4>1, <4>2, FS_EmptySet
    <3>2. Life!Running = RunningBatches
      BY <1>0, IdleMeansNone
    <3> QED BY <2>3, <3>1, <3>2
  <2> QED BY <1>1, <1>2, <2>2, <2>4 DEF Life!End
<1>4. CASE ~bus
  <2>1. UNCHANGED <<finished, counter>>
    BY <1>4 DEF SetFinished
  <2> QED BY <1>1, <1>2, <2>1 DEF Life!Report, LifeStatus
<1> QED BY <1>3, <1>4

\* Every step of the batches is a step of BatchLife or leaves it alone.
LEMMA LifeStep ==
    BatchAssumption /\ Answered /\ Answered' /\ [Next]_vars
        => [Life!LifeNext]_(Life!lifeVars)
<1> SUFFICES ASSUME BatchAssumption, Answered, Answered', [Next]_vars
             PROVE  Life!LifeNext \/ UNCHANGED <<LifeStatus, events, counter = 0>>
  BY DEF Life!lifeVars
<1> USE DEF callVars, outerVars, batchVars
<1>0. TypeOK /\ Base /\ Stages /\ CounterExact
  BY DEF Answered, Base
<1>1. CASE UNCHANGED vars \/ Environment
  BY <1>1 DEF vars, Environment, Lose, BusEnds, StopCollectors, Cleanup, LifeStatus
<1>2. ASSUME NEW b \in Batches,
             \/ Run(b) \/ CancelFuture(b) \/ Wait(b) \/ WaitReturns(b)
             \/ WaitTimeout(b) \/ AfterRuns(b) \/ AfterDone(b)
             \/ GsbError(b) \/ SleepOver(b)
      PROVE  UNCHANGED <<LifeStatus, events, counter = 0>>
  BY <1>2 DEF Run, CancelFuture, Wait, WaitReturns, WaitTimeout, AfterRuns,
              AfterDone, GsbError, SleepOver, LifeStatus
<1>3. ASSUME NEW b \in Batches, Execute(b) \/ ExecuteRaises(b)
      PROVE  UNCHANGED <<LifeStatus, events, counter = 0>>
  <2>1. /\ call' \in [Batches -> {"none", "exec", "failed", "made"}]
        /\ \A c \in Batches : call[c] = "made" <=> call'[c] = "made"
        /\ UNCHANGED <<finished, events, counter>>
    <3>1. CASE Execute(b)
      BY <1>0, <3>1 DEF Execute, TypeOK
    <3>2. CASE ExecuteRaises(b)
      BY <1>0, <3>2 DEF ExecuteRaises, TypeOK
    <3> QED BY <1>3, <3>1, <3>2
  <2> QED BY <2>1 DEF LifeStatus
<1>4. ASSUME NEW b \in Batches, Made(b) PROVE Life!Begin(b)
  <2>1. ~finished[b] /\ UNCHANGED <<finished, events>>
    BY <1>0, <1>4 DEF Made, Stages
  <2>2. LifeStatus[b] = "new"
    BY <1>4 DEF LifeStatus, Made
  <2>3. LifeStatus' = [LifeStatus EXCEPT ![b] = "running"]
    BY <1>0, <1>4, <2>1, ZenonT(40) DEF LifeStatus, Made, TypeOK
  <2>4. (counter = 0)' = FALSE
    <3>1. counter \in Nat /\ counter' = counter + 1
      BY <1>0, <1>4 DEF TypeOK, Made
    <3> QED BY <3>1
  <2> QED BY <2>1, <2>2, <2>3, <2>4 DEF Life!Begin
<1>5. ASSUME NEW b \in Batches, PollRaises(b) PROVE Life!End(b) \/ Life!Report(b)
  <2>1. Active(b) /\ SetFinished(b) /\ UNCHANGED <<call, ran, events>>
    BY <1>5 DEF PollRaises, Active
  <2>2. Len(events[b]) \in Nat /\ Len(events[b]) <= Len(ran[b])
    <3>1. events[b] \in Seq(Outcomes)
      BY <1>0 DEF TypeOK
    <3>2. IsPrefix(events[b], ran[b])
      BY DEF Answered, EventsInOrder
    <3> QED BY <3>1, <3>2 DEF IsPrefix
  <2>3. /\ IsPrefix(events[b], events'[b])
        /\ events'[b] \in BoundedSeq({"Ok", "Error"}, Commands[b])
    BY <2>1, <2>2, GrowStep
  <2>4. events' = [events EXCEPT ![b] = events'[b]]
    BY <1>0, <2>1 DEF TypeOK
  <2> QED BY <2>1, <2>3, <2>4, EndStep
<1>6. ASSUME NEW b \in Batches, NEW k \in 0..Len(ran[b]), PollUpTo(b, k)
      PROVE  Life!LifeNext \/ UNCHANGED <<LifeStatus, events, counter = 0>>
  <2>1. CASE NewResults(b, k) = {}
    BY <1>6, <2>1 DEF PollUpTo, LifeStatus
  <2>2. CASE NewResults(b, k) # {}
    <3>1. PICK last \in 1..k :
            /\ last \in Nat /\ last <= Len(ran[b]) /\ last > Len(events[b])
            /\ Active(b)
            /\ events' \in [Batches -> Seq(Outcomes)]
            /\ Len(events'[b]) = last
            /\ \A c \in Batches : c # b => events'[c] = events[c]
            /\ SetFinished(b) \/ UNCHANGED <<collector, finished, counter>>
      BY <1>6, <2>2, PollReports
    <3>2. UNCHANGED <<call, ran>>
      BY <1>6 DEF PollUpTo
    <3>3. events' = [events EXCEPT ![b] = events'[b]]
      BY <1>0, <3>1 DEF TypeOK
    <3>4. last >= Len(events[b])
      <4>1. Len(events[b]) \in Nat
        BY <1>0 DEF TypeOK
      <4> QED BY <3>1, <4>1
    <3>5. /\ IsPrefix(events[b], events'[b])
          /\ events'[b] \in BoundedSeq({"Ok", "Error"}, Commands[b])
      BY <3>1, <3>2, <3>4, GrowStep
    <3>6. CASE SetFinished(b)
      <4>1. Life!End(b) \/ Life!Report(b)
        BY <3>1, <3>2, <3>3, <3>5, <3>6, EndStep
      <4> QED BY <4>1 DEF Life!LifeNext
    <3>7. CASE UNCHANGED <<collector, finished, counter>>
      <4>1. LifeStatus[b] = "running"
        BY <1>0, <3>1 DEF LifeStatus, Stages
      <4>2. Life!Grow(b)
        BY <3>3, <3>5 DEF Life!Grow, Life!IsPrefix, Life!BoundedSeq, Life!SeqOf,
                          IsPrefix, BoundedSeq, SeqOf
      <4>3. UNCHANGED <<LifeStatus, counter = 0>>
        BY <3>2, <3>7 DEF LifeStatus
      <4>4. Life!Report(b)
        BY <4>1, <4>2, <4>3 DEF Life!Report
      <4> QED BY <4>4 DEF Life!LifeNext
    <3> QED BY <3>1, <3>6, <3>7
  <2> QED BY <2>1, <2>2
<1> QED
  BY <1>1, <1>2, <1>3, <1>4, <1>5, <1>6
  DEF Next, Caller, Collect, Poll, Life!LifeNext

\* The batches of an activity implement BatchLife: to its users, each runs
\* once, reports and ends, and idle tells exactly whether one is running.
THEOREM Implements == Spec => LifeSpec
<1>1. Init => Life!LifeInit
  BY DEF Init, Life!LifeInit, LifeStatus
<1>2. Answered /\ Answered' /\ [Next]_vars => [Life!LifeNext]_(Life!lifeVars)
  BY LifeStep, BatchAssumption
<1> QED BY <1>1, <1>2, Invariant, PTL DEF Spec, LifeSpec, Life!LifeSpec

\* What a batch says of its commands is true and, when it is done, complete.
THEOREM BatchIsTruthful == Spec => []BatchTruthful
BY FuturesCorrect, CompleteWhenDone, PTL DEF BatchTruthful

-----------------------------------------------------------------------------
(***************************************************************************)
(* ScoringBuffer: what is held in the two buffers.                         *)
(***************************************************************************)

IsList(s) == \E S : s \in Seq(S)

\* The batch is in the hand of the loop only while it scores, and what is asked
\* for fills the first buffer at most.
ScoringInv ==
    /\ IsList(unscored) /\ IsList(batch) /\ IsList(scored)
    /\ overdrawn \in BOOLEAN /\ started \in BOOLEAN
    /\ asked \in Nat /\ Len(unscored) + asked <= MaxSize
    /\ loop \in {"off", "wait", "take", "score", "dead"}
    /\ loop \in {"off", "wait", "dead"} => batch = <<>>
    /\ ~ started => loop = "off"
    /\ HeldBounded

\* Lists have a length, which grows as usual.
LEMMA ListLength == ASSUME NEW s, IsList(s) PROVE Len(s) \in Nat
BY DEF IsList
LEMMA EmptyList == IsList(<<>>) /\ Len(<<>>) = 0
<1>1. <<>> \in Seq({})
  OBVIOUS
<1> QED
  BY <1>1 DEF IsList
LEMMA NoElements == ASSUME NEW s, IsList(s) PROVE Len(s) = 0 <=> s = <<>>
<1>1. PICK S : s \in Seq(S)
  BY DEF IsList
<1> QED
  BY <1>1, EmptySeq
LEMMA ListAppend ==
    ASSUME NEW s, IsList(s), NEW x PROVE IsList(Append(s, x)) /\ Len(Append(s, x)) = Len(s) + 1
<1>1. PICK S : s \in Seq(S)
  BY DEF IsList
<1>2. s \in Seq(S \cup {x})
  BY <1>1
<1>3. Append(s, x) \in Seq(S \cup {x}) /\ Len(Append(s, x)) = Len(s) + 1
  BY <1>2
<1> QED
  BY <1>3 DEF IsList
LEMMA ListConcat ==
    ASSUME NEW s, NEW t, IsList(s), IsList(t)
    PROVE  IsList(s \o t) /\ Len(s \o t) = Len(s) + Len(t)
<1>1. PICK S : s \in Seq(S)
  BY DEF IsList
<1>2. PICK T : t \in Seq(T)
  BY DEF IsList
<1>3. s \in Seq(S \cup T) /\ t \in Seq(S \cup T)
  BY <1>1, <1>2
<1>4. s \o t \in Seq(S \cup T) /\ Len(s \o t) = Len(s) + Len(t)
  BY <1>3
<1> QED
  BY <1>4 DEF IsList
LEMMA ListTail ==
    ASSUME NEW s, IsList(s), s # <<>> PROVE IsList(Tail(s)) /\ Len(Tail(s)) = Len(s) - 1
<1>1. PICK S : s \in Seq(S)
  BY DEF IsList
<1>2. Tail(s) \in Seq(S) /\ Len(Tail(s)) = Len(s) - 1
  BY <1>1
<1> QED
  BY <1>2 DEF IsList
LEMMA ListRemoveAt ==
    ASSUME NEW s, IsList(s), NEW i \in DOMAIN s
    PROVE  IsList(RemoveAt(s, i)) /\ Len(RemoveAt(s, i)) = Len(s) - 1
<1>1. PICK S : s \in Seq(S)
  BY DEF IsList
<1>2. i \in 1..Len(s) /\ Len(s) \in Nat /\ i \in Int
  BY <1>1
<1>3. /\ \A j \in 1..(i - 1) : s[j] \in S
      /\ \A j \in (i + 1)..Len(s) : s[j] \in S
  BY <1>1, <1>2
<1>4. SubSeq(s, 1, i - 1) \in Seq(S) /\ Len(SubSeq(s, 1, i - 1)) = i - 1
  BY <1>1, <1>2, <1>3, SubSeqProperties
<1>5. SubSeq(s, i + 1, Len(s)) \in Seq(S) /\ Len(SubSeq(s, i + 1, Len(s))) = Len(s) - i
  BY <1>1, <1>2, <1>3, SubSeqProperties
<1>6. IsList(SubSeq(s, 1, i - 1)) /\ IsList(SubSeq(s, i + 1, Len(s)))
  BY <1>4, <1>5 DEF IsList
<1> DEFINE a == SubSeq(s, 1, i - 1)
           b == SubSeq(s, i + 1, Len(s))
<1> HIDE DEF a, b
<1>7. IsList(a) /\ IsList(b) /\ Len(a) = i - 1 /\ Len(b) = Len(s) - i
  BY <1>4, <1>5, <1>6 DEF a, b
<1>8. IsList(a \o b) /\ Len(a \o b) = Len(a) + Len(b)
  BY <1>7, ListConcat
<1>9. RemoveAt(s, i) = a \o b
  BY DEF RemoveAt, a, b
<1> QED
  BY <1>2, <1>7, <1>8, <1>9

\* Scoring keeps the number of proposals.
LEMMA RankedLength ==
    ASSUME NEW sc, NEW s, IsList(s) PROVE IsList(Ranked(sc, s)) /\ Len(Ranked(sc, s)) = Len(s)
<1> DEFINE place(i) == Ahead([j \in DOMAIN s |-> Score(sc, s, j)], i)
           g(k) == s[CHOOSE i \in DOMAIN s : Cardinality(place(i)) = k - 1]
           S == {g(k) : k \in 1..Len(s)}
           t == [k \in 1..Len(s) |-> g(k)]
<1>1. Len(s) \in Nat /\ DOMAIN s = 1..Len(s)
  BY DEF IsList
<1>2. Ranked(sc, s) = t
  BY <1>1 DEF Ranked
<1> HIDE DEF g, place
<1>3. t \in Seq(S) /\ Len(t) = Len(s)
  BY <1>1
<1> QED
  BY <1>2, <1>3 DEF IsList

\* A request that comes when nothing is scored fills up to max_size, one that comes
\* while proposals are scored, or late, overdraws or asks for no more than before.
LEMMA Requested ==
    ASSUME ScoringAssumption, ScoringInv, NEW late \in BOOLEAN, Request(late)
    PROVE  /\ asked' \in Nat /\ Len(unscored) + asked' = MaxSize
           /\ overdrawn' \in BOOLEAN
           /\ ~ overdrawn' => ~ overdrawn /\ (late => asked' <= asked)
<1>1. Len(unscored) \in Nat /\ MaxSize \in Nat
  BY ListLength DEF ScoringInv, ScoringAssumption
<1> QED
  BY <1>1 DEF ScoringInv, Request

Lengths ==
    /\ Len(unscored) \in Nat /\ Len(batch) \in Nat /\ Len(scored) \in Nat
    /\ MinSize \in Nat /\ MaxSize \in Nat

LEMMA HaveLengths == ASSUME ScoringAssumption, ScoringInv PROVE Lengths
BY ListLength DEF ScoringInv, ScoringAssumption, Lengths

LEMMA EnterHeld ==
    ASSUME ScoringAssumption, ScoringInv, NEW u \in Getters, Enter(u) PROVE ScoringInv'
<1>1. UNCHANGED <<market, unscored, error, filling, batch, scored, failed, loop, control>>
  BY DEF Enter
<1>2. CASE BufferedCount(scored) = 0
  <2>1. Request(batch # <<>>)
    BY <1>2 DEF Enter
  <2>2. /\ asked' \in Nat /\ Len(unscored) + asked' = MaxSize /\ overdrawn' \in BOOLEAN
        /\ ~ overdrawn' => ~ overdrawn /\ (batch # <<>> => asked' <= asked)
    BY <2>1, Requested
  <2>3. Len(unscored) = 0 /\ Len(scored) = 0
    BY <1>2, HaveLengths DEF Lengths, BufferedCount
  <2>4. HeldBounded'
    <3>1. CASE batch = <<>>
      BY <1>1, <2>2, <2>3, <3>1, HaveLengths, EmptyList DEF Lengths, HeldBounded, Held, Spare
    <3>2. CASE batch # <<>>
      BY <1>1, <2>2, <2>3, <3>2, HaveLengths DEF ScoringInv, Lengths, HeldBounded, Held, Spare
    <3> QED
      BY <3>1, <3>2
  <2> QED
    BY <1>1, <2>2, <2>4 DEF ScoringInv, control
<1>3. CASE BufferedCount(scored) # 0
  <2>1. UNCHANGED <<asked, overdrawn>>
    BY <1>3 DEF Enter
  <2> QED
    BY <1>1, <2>1 DEF ScoringInv, HeldBounded, Held, Spare, control
<1> QED
  BY <1>2, <1>3

LEMMA TakeHeld ==
    ASSUME ScoringAssumption, ScoringInv, NEW u \in Getters, Take(u) PROVE ScoringInv'
<1>1. /\ UNCHANGED <<market, unscored, error, filling, batch, failed, loop, control>>
      /\ scored # <<>> /\ scored' = Tail(scored)
  BY DEF Take
<1>2. IsList(scored') /\ Len(scored') = Len(scored) - 1 /\ Lengths /\ Len(scored') \in Nat
  BY <1>1, ListTail, HaveLengths, ListLength DEF ScoringInv
<1>3. CASE BufferedCount(Tail(scored)) < MinSize
  <2>1. Request(batch # <<>>)
    BY <1>3 DEF Take
  <2>2. /\ asked' \in Nat /\ Len(unscored) + asked' = MaxSize /\ overdrawn' \in BOOLEAN
        /\ ~ overdrawn' => ~ overdrawn /\ (batch # <<>> => asked' <= asked)
    BY <2>1, Requested
  <2>3. Len(unscored) + Len(scored') < MinSize
    BY <1>1, <1>3 DEF BufferedCount
  <2>4. HeldBounded'
    <3>1. CASE batch = <<>>
      BY <1>1, <1>2, <2>2, <2>3, <3>1, EmptyList DEF Lengths, HeldBounded, Held, Spare
    <3>2. CASE batch # <<>>
      BY <1>1, <1>2, <2>2, <3>2 DEF ScoringInv, Lengths, HeldBounded, Held, Spare
    <3> QED
      BY <3>1, <3>2
  <2> QED
    BY <1>1, <1>2, <2>2, <2>4 DEF ScoringInv, control
<1>4. CASE ~ (BufferedCount(Tail(scored)) < MinSize)
  <2>1. UNCHANGED <<asked, overdrawn>>
    BY <1>4 DEF Take
  <2> QED
    BY <1>1, <1>2, <2>1 DEF ScoringInv, Lengths, HeldBounded, Held, Spare, control
<1> QED
  BY <1>3, <1>4

LEMMA FetchHeld ==
    ASSUME ScoringAssumption, ScoringInv, NEW p \in Proposals, Fetch(p) PROVE ScoringInv'
<1>1. IsList(unscored') /\ Len(unscored') = Len(unscored) + 1 /\ Lengths
  BY ListAppend, HaveLengths DEF ScoringInv, Fetch
<1> QED
  BY <1>1 DEF ScoringInv, Lengths, Fetch, HeldBounded, Held, Spare, control

LEMMA ExpireHeld ==
    ASSUME ScoringAssumption, ScoringInv, NEW i \in DOMAIN scored, Expire(i) PROVE ScoringInv'
<1>1. /\ asked' \in Nat /\ Len(unscored) + asked' = MaxSize /\ overdrawn' \in BOOLEAN
      /\ ~ overdrawn' => ~ overdrawn /\ asked' <= asked
  BY Requested DEF Expire
<1>2. IsList(scored') /\ Len(scored') = Len(scored) - 1 /\ Lengths
  BY ListRemoveAt, HaveLengths DEF ScoringInv, Expire
<1> QED
  BY <1>1, <1>2 DEF ScoringInv, Lengths, Expire, HeldBounded, Held, Spare, control

LEMMA LoopHeld == ASSUME ScoringAssumption, ScoringInv, Loop PROVE ScoringInv'
<1>0. Lengths /\ Len(<<>>) = 0 /\ IsList(<<>>)
  BY HaveLengths, EmptyList
<1>1. CASE TakeUnscored
  BY <1>0, <1>1 DEF ScoringInv, Lengths, TakeUnscored, HeldBounded, Held, Spare, control
<1>2. CASE TakeScored
  <2>0. started
    BY <1>2 DEF ScoringInv, TakeScored
  <2>1. CASE loop' = "dead"
    BY <1>0, <1>2, <2>1 DEF ScoringInv, Lengths, TakeScored, fetching, HeldBounded, Held, Spare, control
  <2>2. CASE loop' = "score"
    <3>1. IsList(batch') /\ Len(batch') = Len(batch) + Len(scored) /\ scored' = <<>>
      BY <1>2, <2>2, ListConcat DEF ScoringInv, TakeScored
    <3> QED
      BY <1>0, <1>2, <2>0, <2>2, <3>1 DEF ScoringInv, Lengths, TakeScored, fetching, HeldBounded, Held, Spare, control
  <2> QED
    BY <1>2, <2>1, <2>2 DEF TakeScored
<1>3. CASE NothingFetched
  BY <1>3 DEF ScoringInv, NothingFetched, fetching, HeldBounded, Held, Spare, control
<1>4. CASE Scored
  <2>1. /\ IsList(scored') /\ Len(scored') \in {Len(scored), Len(batch)}
        /\ batch' = <<>> /\ loop' \in {"dead", "wait"} /\ loop = "score"
        /\ UNCHANGED <<unscored, asked, overdrawn, started>>
    BY <1>4, RankedLength DEF ScoringInv, Scored, fetching, control
  <2>2. IsList(batch') /\ Len(batch') = 0
    BY <2>1, EmptyList
  <2>3. HeldBounded'
    BY <1>0, <2>1, <2>2 DEF ScoringInv, Lengths, HeldBounded, Held, Spare
  <2> QED
    BY <2>1, <2>2, <2>3 DEF ScoringInv
<1> QED
  BY <1>1, <1>2, <1>3, <1>4 DEF Loop

LEMMA StartHeld ==
    ASSUME ScoringAssumption, ScoringInv, NEW fill \in BOOLEAN, Start(fill) PROVE ScoringInv'
<1>1. /\ UNCHANGED <<scorers, market, unscored, error, batch, scored, failed, getter>>
      /\ batch = <<>> /\ loop' = "wait" /\ started'
  BY DEF Start, ScoringInv
<1>2. CASE fill
  <2>1. Request(scored # <<>>)
    BY <1>2 DEF Start
  <2>2. /\ asked' \in Nat /\ Len(unscored) + asked' = MaxSize /\ overdrawn' \in BOOLEAN
        /\ ~ overdrawn' => ~ overdrawn /\ (scored # <<>> => asked' <= asked)
    BY <2>1, Requested
  <2>4. HeldBounded'
    <3>1. CASE scored = <<>>
      BY <1>1, <2>2, <3>1, HaveLengths, EmptyList DEF Lengths, HeldBounded, Held, Spare
    <3>2. CASE scored # <<>>
      BY <1>1, <2>2, <3>2, HaveLengths DEF ScoringInv, Lengths, HeldBounded, Held, Spare
    <3> QED
      BY <3>1, <3>2
  <2> QED
    BY <1>1, <2>2, <2>4 DEF ScoringInv, Start
<1>3. CASE ~ fill
  <2>1. UNCHANGED <<asked, overdrawn>>
    BY <1>3 DEF Start
  <2> QED
    BY <1>1, <2>1 DEF ScoringInv, HeldBounded, Held, Spare, Start
<1> QED
  BY <1>2, <1>3

LEMMA StopHeld == ASSUME ScoringAssumption, ScoringInv, Stop PROVE ScoringInv'
<1>1. IsList(batch') /\ Len(batch') = 0 /\ batch' = <<>>
  BY EmptyList DEF Stop
<1>2. UNCHANGED <<unscored, scored, overdrawn>> /\ asked' = 0 /\ loop' = "off" /\ started' = FALSE
  BY DEF Stop
<1>3. HeldBounded'
  <2>1. Held' <= Held
    BY <1>1, <1>2, HaveLengths DEF ScoringInv, Lengths, Held
  <2>2. Held \in Int /\ Held' \in Int /\ MaxSize + Spare \in Int
    BY <1>1, <1>2, HaveLengths DEF ScoringInv, Lengths, Held, Spare
  <2> QED
    BY <1>2, <2>1, <2>2 DEF ScoringInv, HeldBounded, Spare
<1>4. started' \in BOOLEAN /\ overdrawn' \in BOOLEAN
  BY <1>2 DEF ScoringInv
<1>5. asked' \in Nat /\ Len(unscored') + asked' <= MaxSize
  BY <1>2, HaveLengths DEF ScoringInv, Lengths
<1> QED
  BY <1>1, <1>2, <1>3, <1>4, <1>5 DEF ScoringInv

(***************************************************************************)
(* HeldBounded, for every size of the buffers, every list of scorers, any  *)
(* proposals and any number of restarts and getters (scoring_buffer.py).   *)
(* Scoring neither loses nor doubles places (RankedLength), and the hand   *)
(* of the loop is empty unless it scores.                                  *)
(***************************************************************************)
THEOREM ScoringIsBounded ==
    ASSUME ScoringAssumption PROVE ScoSpec => []HeldBounded
<1>1. ScoInit => ScoringInv
  <2> SUFFICES ASSUME ScoInit PROVE ScoringInv
    OBVIOUS
  <2>1. /\ IsList(unscored) /\ IsList(batch) /\ IsList(scored)
        /\ Len(unscored) = 0 /\ Len(batch) = 0 /\ Len(scored) = 0
    BY EmptyList DEF ScoInit, FillInit
  <2>2. HeldBounded
    BY <2>1 DEF ScoInit, FillInit, HeldBounded, Held, Spare, ScoringAssumption
  <2>3. asked \in Nat /\ Len(unscored) + asked <= MaxSize
    BY <2>1 DEF ScoInit, FillInit, ScoringAssumption
  <2>4. /\ started \in BOOLEAN /\ overdrawn \in BOOLEAN
        /\ loop = "off" /\ batch = <<>>
    BY DEF ScoInit
  <2> QED
    BY <2>1, <2>2, <2>3, <2>4 DEF ScoringInv
<1>2. ScoringInv /\ [ScoNext]_scoVars => ScoringInv'
  <2> SUFFICES ASSUME ScoringInv, [ScoNext]_scoVars PROVE ScoringInv'
    OBVIOUS
  <2>1. ASSUME NEW u \in Getters, Enter(u) \/ Take(u) PROVE ScoringInv'
    BY <2>1, EnterHeld, TakeHeld
  <2>2. ASSUME NEW u \in Getters, GetRaises(u) PROVE ScoringInv'
    BY <2>2 DEF GetRaises, ScoringInv, HeldBounded, Held, Spare, fetching, control
  <2>3. CASE FetchRaises
    BY <2>3, HaveLengths DEF FetchRaises, Lengths, ScoringInv, HeldBounded, Held, Spare, control
  <2>4. CASE UNCHANGED scoVars
    BY <2>4 DEF scoVars, ScoringInv, HeldBounded, Held, Spare
  <2> QED
    BY <2>1, <2>2, <2>3, <2>4, FetchHeld, ExpireHeld, LoopHeld, StartHeld, StopHeld DEF ScoNext
<1>3. ScoringInv => HeldBounded
  BY DEF ScoringInv
<1> QED
  BY <1>1, <1>2, <1>3, PTL DEF ScoSpec

-----------------------------------------------------------------------------
\* The scores of ScoringBuffer are fractions, and Less is their order.
Fractions == {a \in Int \X Int : a[2] > 0}

LEMMA FractionParts ==
    ASSUME NEW a \in Fractions
    PROVE  a = <<a[1], a[2]>> /\ a[1] \in Int /\ a[2] \in Int /\ a[2] > 0
BY DEF Fractions

LEMMA FractionOf ==
    ASSUME NEW n \in Int, NEW d \in Int, d > 0
    PROVE  <<n, d>> \in Fractions /\ <<n, d>>[1] = n /\ <<n, d>>[2] = d
BY DEF Fractions

\* Positive factors keep an order.
LEMMA Scaled ==
    ASSUME NEW x \in Int, NEW y \in Int, NEW k \in Int, k > 0
    PROVE  x < y <=> x * k < y * k
OBVIOUS

LEMMA ProductPositive ==
    ASSUME NEW x \in Int, NEW y \in Int, x > 0, y > 0
    PROVE  x * y \in Int /\ x * y > 0
OBVIOUS

LEMMA Swapped ==
    ASSUME NEW x \in Int, NEW y \in Int, NEW z \in Int
    PROVE  (x * y) * z = (x * z) * y /\ x * y = y * x
OBVIOUS

\* Less is a strict weak order of the fractions.
LEMMA LessAsymmetric ==
    ASSUME NEW a \in Fractions, NEW b \in Fractions
    PROVE  ~ Less(a, a) /\ (Less(a, b) => ~ Less(b, a))
BY FractionParts DEF Less

LEMMA ProductsInt ==
    ASSUME NEW x \in Int, NEW y \in Int
    PROVE  x * y \in Int
OBVIOUS

LEMMA CrossTrans ==
    ASSUME NEW x \in Int, NEW y \in Int, NEW z \in Int, NEW p \in Int, NEW q \in Int, NEW r \in Int,
           p > 0, q > 0, r > 0
    PROVE  /\ x * q < y * p /\ y * r <= z * q => x * r < z * p
           /\ x * q <= y * p /\ y * r < z * q => x * r < z * p
<1> DEFINE u == x * r
           v == z * p
<1>1. (x * q) * r = u * q /\ (z * q) * p = v * q /\ (y * p) * r = (y * r) * p
  BY Swapped
<1>2. u \in Int /\ v \in Int /\ x * q \in Int /\ y * p \in Int /\ y * r \in Int /\ z * q \in Int
  BY ProductsInt
<1> HIDE DEF u, v
<1>3. ASSUME x * q < y * p, y * r <= z * q
      PROVE  u < v
  <2>1. (x * q) * r < (y * p) * r
    BY <1>2, <1>3, Scaled
  <2>2. (y * r) * p <= (z * q) * p
    BY <1>2, <1>3
  <2>3. u * q < v * q
    BY <1>1, <1>2, <2>1, <2>2, ProductsInt
  <2> QED
    BY <1>2, <2>3, Scaled
<1>4. ASSUME x * q <= y * p, y * r < z * q
      PROVE  u < v
  <2>1. (x * q) * r <= (y * p) * r
    BY <1>2, <1>4
  <2>2. (y * r) * p < (z * q) * p
    BY <1>2, <1>4, Scaled
  <2>3. u * q < v * q
    BY <1>1, <1>2, <2>1, <2>2, ProductsInt
  <2> QED
    BY <1>2, <2>3, Scaled
<1> QED
  BY <1>3, <1>4 DEF u, v

LEMMA LessTransitive ==
    ASSUME NEW a \in Fractions, NEW b \in Fractions, NEW c \in Fractions
    PROVE  /\ Less(a, b) /\ ~ Less(c, b) => Less(a, c)
           /\ ~ Less(b, a) /\ Less(b, c) => Less(a, c)
           /\ ~ Less(b, a) /\ ~ Less(c, b) => ~ Less(c, a)
<1>1. PICK x \in Int, p \in Int : a[1] = x /\ a[2] = p /\ p > 0
  BY FractionParts
<1>2. PICK y \in Int, q \in Int : b[1] = y /\ b[2] = q /\ q > 0
  BY FractionParts
<1>3. PICK z \in Int, r \in Int : c[1] = z /\ c[2] = r /\ r > 0
  BY FractionParts
<1>4. /\ x * q \in Int /\ y * p \in Int /\ y * r \in Int
      /\ z * q \in Int /\ x * r \in Int /\ z * p \in Int
  BY ProductsInt
<1>5. /\ Less(a, b) <=> x * q < y * p
      /\ Less(b, a) <=> ~ (x * q <= y * p)
      /\ Less(b, c) <=> y * r < z * q
      /\ Less(c, b) <=> ~ (y * r <= z * q)
      /\ Less(a, c) <=> x * r < z * p
      /\ Less(c, a) <=> ~ (x * r <= z * p)
  BY <1>1, <1>2, <1>3, <1>4 DEF Less
<1>6. /\ x * q < y * p /\ y * r <= z * q => x * r < z * p
      /\ x * q <= y * p /\ y * r < z * q => x * r < z * p
  BY <1>1, <1>2, <1>3, CrossTrans
<1>7. x * q <= y * p /\ y * r <= z * q => x * r <= z * p
  <2> SUFFICES ASSUME x * q <= y * p, y * r <= z * q, ~ (x * r <= z * p)
               PROVE  FALSE
    OBVIOUS
  <2>1. z * p < x * r
    BY <1>4
  <2>2. z * q < y * r
    BY <2>1, <1>1, <1>2, <1>3, CrossTrans
  <2> QED
    BY <2>2, <1>4
<1> QED
  BY <1>5, <1>6, <1>7

\* Arithmetic keeps the order of fractions.
Alike(a, b) == a[1] * b[2] = b[1] * a[2]

LEMMA LessAlike ==
    ASSUME NEW a \in Fractions, NEW b \in Fractions, NEW c \in Fractions, NEW d \in Fractions,
           Alike(a, c), Alike(b, d), Less(a, b)
    PROVE  Less(c, d)
<1>1. \A x, y \in Fractions : Alike(x, y) => ~ Less(x, y) /\ ~ Less(y, x)
  BY FractionParts DEF Alike, Less
<1> QED
  BY <1>1, LessTransitive

SumOf(a, c) == <<a[1] * c[2] + c[1] * a[2], a[2] * c[2]>>

LEMMA PlusAlike ==
    ASSUME NEW a \in Fractions, NEW c \in Fractions
    PROVE  /\ Plus(a, c) \in Fractions /\ SumOf(a, c) \in Fractions
           /\ Alike(SumOf(a, c), Plus(a, c))
<1>1. PICK x \in Int, p \in Int : a[1] = x /\ a[2] = p /\ p > 0
  BY FractionParts
<1>2. PICK z \in Int, r \in Int : c[1] = z /\ c[2] = r /\ r > 0
  BY FractionParts
<1>3. SumOf(a, c) = <<x * r + z * p, p * r>> /\ SumOf(a, c) \in Fractions
  <2>1. x * r + z * p \in Int /\ p * r \in Int /\ p * r > 0
    BY <1>1, <1>2, ProductPositive
  <2> QED
    BY <1>1, <1>2, <2>1, FractionOf DEF SumOf
<1>4. CASE p = r
  <2>1. Plus(a, c) = <<x + z, p>> /\ Plus(a, c) \in Fractions
    BY <1>1, <1>2, <1>4, FractionOf DEF Plus
  <2>2. (x * p + z * p) * p = (x + z) * (p * p)
    OBVIOUS
  <2> QED
    BY <1>3, <1>4, <2>1, <2>2 DEF Alike
<1>5. CASE p # r
  <2>1. Plus(a, c) = SumOf(a, c)
    BY <1>1, <1>2, <1>5 DEF Plus, SumOf
  <2> QED
    BY <1>3, <2>1 DEF Alike
<1> QED
  BY <1>4, <1>5

LEMMA CrossSum ==
    ASSUME NEW x \in Int, NEW y \in Int, NEW z \in Int, NEW p \in Int, NEW q \in Int, NEW r \in Int,
           p > 0, q > 0, r > 0, x * q < y * p
    PROVE  (x * r + z * p) * (q * r) < (y * r + z * q) * (p * r)
<1>1. r * r \in Int /\ r * r > 0 /\ x * q \in Int /\ y * p \in Int
  BY ProductPositive
<1>2. (x * q) * (r * r) < (y * p) * (r * r)
  BY <1>1, Scaled
<1>3. /\ (x * r + z * p) * (q * r) = (x * q) * (r * r) + z * p * q * r
      /\ (y * r + z * q) * (p * r) = (y * p) * (r * r) + z * p * q * r
  OBVIOUS
<1>4. z * p * q * r \in Int /\ (x * q) * (r * r) \in Int /\ (y * p) * (r * r) \in Int
  OBVIOUS
<1> QED
  BY <1>2, <1>3, <1>4

LEMMA LessPlus ==
    ASSUME NEW a \in Fractions, NEW b \in Fractions, NEW c \in Fractions, Less(a, b)
    PROVE  Less(Plus(a, c), Plus(b, c))
<1>1. PICK x \in Int, p \in Int : a[1] = x /\ a[2] = p /\ p > 0
  BY FractionParts
<1>2. PICK y \in Int, q \in Int : b[1] = y /\ b[2] = q /\ q > 0
  BY FractionParts
<1>3. PICK z \in Int, r \in Int : c[1] = z /\ c[2] = r /\ r > 0
  BY FractionParts
<1>4. Less(SumOf(a, c), SumOf(b, c))
  BY <1>1, <1>2, <1>3, CrossSum DEF Less, SumOf
<1> QED
  BY <1>4, PlusAlike, LessAlike

LEMMA PlusCommutes ==
    ASSUME NEW a \in Fractions, NEW b \in Fractions
    PROVE  Plus(a, b) = Plus(b, a)
<1>1. PICK x \in Int, p \in Int : a[1] = x /\ a[2] = p /\ p > 0
  BY FractionParts
<1>2. PICK y \in Int, q \in Int : b[1] = y /\ b[2] = q /\ q > 0
  BY FractionParts
<1>3. x + y = y + x /\ x * q + y * p = y * p + x * q /\ p * q = q * p
  OBVIOUS
<1> QED
  BY <1>1, <1>2, <1>3 DEF Plus

LEMMA LessMinus ==
    ASSUME NEW a \in Fractions, NEW b \in Fractions, NEW c \in Fractions
    PROVE  /\ Minus(a, c) \in Fractions
           /\ Less(a, b) => Less(Minus(a, c), Minus(b, c))
           /\ Less(a, b) => Less(Minus(c, b), Minus(c, a))
<1> DEFINE neg(f) == <<-f[1], f[2]>>
<1>1. \A f \in Fractions : neg(f) \in Fractions
  BY FractionParts, FractionOf
<1>2. Less(a, b) => Less(neg(b), neg(a))
  BY FractionParts DEF Less
<1>3. \A f, g \in Fractions : Minus(f, g) = Plus(f, neg(g))
  BY DEF Minus
<1> HIDE DEF neg
<1>4. /\ Plus(c, neg(a)) = Plus(neg(a), c) /\ Plus(c, neg(b)) = Plus(neg(b), c)
  BY <1>1, PlusCommutes
<1>5. Minus(a, c) \in Fractions
  BY <1>1, <1>3, PlusAlike
<1>6. ASSUME Less(a, b)
      PROVE  Less(Minus(a, c), Minus(b, c))
  BY <1>1, <1>3, <1>6, LessPlus
<1>7. ASSUME Less(a, b)
      PROVE  Less(Minus(c, b), Minus(c, a))
  <2>1. Less(Plus(neg(b), c), Plus(neg(a), c))
    BY <1>1, <1>2, <1>7, LessPlus
  <2> QED
    BY <1>3, <1>4, <2>1
<1> QED
  BY <1>5, <1>6, <1>7

LEMMA LessTimes ==
    ASSUME NEW a \in Fractions, NEW b \in Fractions, NEW c \in Fractions
    PROVE  /\ Times(a, c) \in Fractions
           /\ c[1] > 0 /\ Less(a, b) => Less(Times(a, c), Times(b, c))
<1>1. PICK x \in Int, p \in Int : a[1] = x /\ a[2] = p /\ p > 0
  BY FractionParts
<1>2. PICK y \in Int, q \in Int : b[1] = y /\ b[2] = q /\ q > 0
  BY FractionParts
<1>3. PICK z \in Int, r \in Int : c[1] = z /\ c[2] = r /\ r > 0
  BY FractionParts
<1>4. Times(a, c) = <<x * z, p * r>> /\ Times(b, c) = <<y * z, q * r>>
  BY <1>1, <1>2, <1>3 DEF Times
<1>5. Times(a, c) \in Fractions
  BY <1>1, <1>2, <1>3, <1>4, ProductPositive, ProductsInt, FractionOf
<1>6. ASSUME z > 0, x * q < y * p
      PROVE  (x * z) * (q * r) < (y * z) * (p * r)
  <2>1. z * r \in Int /\ z * r > 0 /\ x * q \in Int /\ y * p \in Int
    BY <1>3, <1>6, ProductPositive, ProductsInt
  <2>2. (x * q) * (z * r) < (y * p) * (z * r)
    BY <1>6, <2>1, Scaled
  <2>3. (x * q) * (z * r) = (x * z) * (q * r) /\ (y * p) * (z * r) = (y * z) * (p * r)
    OBVIOUS
  <2> QED
    BY <2>2, <2>3
<1> QED
  BY <1>1, <1>2, <1>3, <1>4, <1>5, <1>6 DEF Less

LEMMA LessDividedBy ==
    ASSUME NEW a \in Fractions, NEW b \in Fractions, NEW c \in Fractions, c[1] > 0
    PROVE  /\ DividedBy(a, c) \in Fractions
           /\ Less(a, b) => Less(DividedBy(a, c), DividedBy(b, c))
<1>1. c[1] \in Int /\ c[2] \in Int /\ c[2] > 0
  BY FractionParts
<1> DEFINE d == <<c[2], c[1]>>
<1>2. d \in Fractions /\ d[1] > 0
  BY <1>1, FractionOf
<1>3. DividedBy(a, c) = Times(a, d) /\ DividedBy(b, c) = Times(b, d)
  BY DEF DividedBy
<1> HIDE DEF d
<1> QED
  BY <1>2, <1>3, LessTimes

\* The weighted mean of one score.
LEMMA LessWeighted ==
    ASSUME NEW a \in Fractions, NEW b \in Fractions, NEW w \in Int, w # 0
    PROVE  /\ DividedBy(Times(Whole(w), a), Whole(w)) \in Fractions
           /\ Less(a, b) => Less(DividedBy(Times(Whole(w), a), Whole(w)),
                                 DividedBy(Times(Whole(w), b), Whole(w)))
<1>1. PICK x \in Int, p \in Int : a[1] = x /\ a[2] = p /\ p > 0
  BY FractionParts
<1>2. PICK y \in Int, q \in Int : b[1] = y /\ b[2] = q /\ q > 0
  BY FractionParts
<1>3. PICK k \in {1, -1} : w * k > 0
  OBVIOUS
<1>4. /\ DividedBy(Times(Whole(w), a), Whole(w)) = <<(w * x) * k, (1 * p) * (w * k)>>
      /\ DividedBy(Times(Whole(w), b), Whole(w)) = <<(w * y) * k, (1 * q) * (w * k)>>
  BY <1>1, <1>2, <1>3 DEF DividedBy, Times, Whole
<1> DEFINE m == w * k
<1>5. m \in Int /\ m > 0 /\ (w * x) * k = x * m /\ (w * y) * k = y * m
      /\ (1 * p) * m = p * m /\ (1 * q) * m = q * m
  BY <1>3
<1> HIDE DEF m
<1>6. <<x * m, p * m>> \in Fractions
  BY <1>1, <1>5, ProductPositive, ProductsInt, FractionOf
<1>7. ASSUME x * q < y * p
      PROVE  (x * m) * (q * m) < (y * m) * (p * m)
  <2>1. m * m \in Int /\ m * m > 0 /\ x * q \in Int /\ y * p \in Int
    BY <1>5, ProductPositive, ProductsInt
  <2>2. (x * q) * (m * m) < (y * p) * (m * m)
    BY <1>7, <2>1, Scaled
  <2>3. (x * q) * (m * m) = (x * m) * (q * m) /\ (y * p) * (m * m) = (y * m) * (p * m)
    BY <1>5
  <2> QED
    BY <2>2, <2>3
<1>8. /\ DividedBy(Times(Whole(w), a), Whole(w)) = <<x * m, p * m>>
      /\ DividedBy(Times(Whole(w), b), Whole(w)) = <<y * m, q * m>>
  BY <1>4, <1>5 DEF m
<1> QED
  BY <1>1, <1>2, <1>6, <1>7, <1>8 DEF Less

-----------------------------------------------------------------------------
\* What the callbacks return.
LEMMA WholeIsFraction == ASSUME NEW n \in Int PROVE Whole(n) \in Fractions
BY FractionOf DEF Whole

LEMMA CountIsFraction == ASSUME NEW n \in Nat PROVE Whole(n) \in Fractions
BY FractionOf DEF Whole

LEMMA OneHalf == 2 \in Nat /\ 2 \div 2 \in Nat
OBVIOUS

LEMMA HasThreads ==
    ASSUME NEW t \in Nat \cup {NoValue}, t \notin {0, NoValue}
    PROVE  t \in Nat /\ t \in Int /\ t > 0
OBVIOUS

LEMMA ShareIsFraction ==
    ASSUME NEW n \in Nat, NEW t \in Nat \cup {NoValue}, t \notin {0, NoValue}
    PROVE  <<n, t>> \in Fractions
BY HasThreads, FractionOf

LEMMA PriceIsFraction ==
    ASSUME OfferAssumption, NEW p \in DOMAIN Offer,
           NEW by \in {"coeff", "per cpu", "average", "average per cpu"},
           ~ (by = "per cpu" /\ PerCpuRaises(p))
    PROVE  Priced(p, by) = NoValue \/ Priced(p, by) \in Fractions
<1> DEFINE t == Offer[p].threads
<1>1. \A n \in Nat : Whole(n) \in Fractions
  BY CountIsFraction
<1>2. /\ Offer[p].initial \in Nat /\ Offer[p].duration \in Nat /\ Offer[p].cpu \in Nat
      /\ t \in Nat \cup {NoValue}
  BY DEF OfferAssumption
<1>3. CoeffCost(p, "cpu") = IF Offer[p].linear THEN Whole(Offer[p].cpu) ELSE NoValue
  BY DEF CoeffCost
<1>4. CASE by = "coeff"
  BY <1>1, <1>2, <1>3, <1>4 DEF Priced
<1>5. CASE by = "per cpu"
  <2>1. Priced(p, by) = PerCpuCost(p, "cpu")
    BY <1>5 DEF Priced
  <2>2. CASE ~ Offer[p].linear \/ t \in {0, NoValue}
    BY <2>1, <2>2 DEF PerCpuCost
  <2>3. CASE ~ (~ Offer[p].linear \/ t \in {0, NoValue})
    <3>1. Priced(p, by) = DividedBy(Whole(Offer[p].cpu), Whole(t))
      BY <1>3, <2>1, <2>3 DEF PerCpuCost
    <3>2. Whole(t) \in Fractions /\ Whole(t)[1] > 0
      BY <1>1, <1>2, <2>3, HasThreads DEF Whole
    <3> QED
      BY <1>1, <1>2, <3>1, <3>2, LessDividedBy
  <2> QED
    BY <2>2, <2>3
<1>6. \A i, d, c \in Fractions : Cost(i, d, c, 2) \in Fractions
  <2> TAKE i, d, c \in Fractions
  <2>1. Whole(2) \in Fractions /\ Whole(2 \div 2) \in Fractions
    BY <1>1, OneHalf
  <2>2. Times(d, Whole(2)) \in Fractions /\ Times(c, Whole(2 \div 2)) \in Fractions
    BY <2>1, LessTimes
  <2>3. Plus(i, Times(d, Whole(2))) \in Fractions
    BY <2>2, PlusAlike
  <2> QED
    BY <2>2, <2>3, PlusAlike DEF Cost
<1>7. CASE by = "average"
  <2>1. Priced(p, by) = AverageCost(p, 2)
    BY <1>7 DEF Priced
  <2> QED
    BY <1>1, <1>2, <1>6, <2>1 DEF AverageCost
<1>8. CASE by = "average per cpu"
  <2>1. Priced(p, by) = PerCpuAverageCost(p, 2)
    BY <1>8 DEF Priced
  <2>2. CASE ~ Offer[p].linear \/ t \in {0, NoValue}
    BY <2>1, <2>2 DEF PerCpuAverageCost
  <2>3. CASE ~ (~ Offer[p].linear \/ t \in {0, NoValue})
    <3>1. Priced(p, by) = Cost(<<Offer[p].initial, t>>, <<Offer[p].duration, t>>,
                               Whole(Offer[p].cpu), 2)
      BY <2>1, <2>3 DEF PerCpuAverageCost
    <3>2. <<Offer[p].initial, t>> \in Fractions /\ <<Offer[p].duration, t>> \in Fractions
      BY <1>2, <2>3, ShareIsFraction
    <3>3. Whole(Offer[p].cpu) \in Fractions
      BY <1>1, <1>2
    <3> HIDE DEF t
    <3> QED
      BY <1>6, <3>1, <3>2, <3>3
  <2> QED
    BY <2>2, <2>3
<1> QED
  BY <1>4, <1>5, <1>7, <1>8

\* A finite set has a least element of every strict order.
LEMMA Least ==
    ASSUME NEW S, IsFiniteSet(S), S # {}, NEW R,
           \A a \in S : <<a, a>> \notin R,
           \A a, b, c \in S : <<a, b>> \in R /\ <<b, c>> \in R => <<a, c>> \in R
    PROVE  \E a \in S : \A b \in S : <<b, a>> \notin R
<1> DEFINE lower(a) == {b \in S : <<b, a>> \in R}
           B == {lower(a) : a \in S}
<1>1. IsWellFoundedOn(StrictSubsetOrdering(S), SUBSET S)
  BY FS_StrictSubsetOrderingWellFounded, FS_FiniteSubsetsOfFinite
<1>0. \A a \in S : lower(a) \subseteq S
  OBVIOUS
<1>2. B \subseteq SUBSET S /\ B # {}
  <2> HIDE DEF lower
  <2> QED
    BY <1>0
<1>3. PICK X \in B : \A Y \in B : ~ (<<Y, X>> \in StrictSubsetOrdering(S))
  <2> HIDE DEF B
  <2> QED
    BY <1>1, <1>2, WFMin
<1>4. PICK a \in S : X = lower(a)
  OBVIOUS
<1>5. ASSUME NEW b \in S, <<b, a>> \in R
      PROVE  FALSE
  <2>1. lower(b) \in B /\ lower(b) \in SUBSET S /\ X \in SUBSET S
    <3> HIDE DEF lower
    <3> QED
      BY <1>0, <1>4
  <2>2. lower(b) \subseteq X /\ lower(b) # X
    BY <1>4, <1>5
  <2> HIDE DEF B, lower
  <2> QED
    BY <1>3, <2>1, <2>2 DEF StrictSubsetOrdering
<1> QED
  BY <1>5

\* A finite set of fractions has a lowest and a highest.
LEMMA Extremes ==
    ASSUME NEW S \in SUBSET Fractions, IsFiniteSet(S), S # {}
    PROVE  /\ Lowest(S) \in S /\ \A b \in S : ~ Less(b, Lowest(S))
           /\ Highest(S) \in S /\ \A b \in S : ~ Less(Highest(S), b)
<1> DEFINE R == {e \in S \X S : Less(e[1], e[2])}
           Q == {e \in S \X S : Less(e[2], e[1])}
<1>1. \A a, b, c \in S : ~ Less(a, a) /\ (Less(a, b) /\ Less(b, c) => Less(a, c))
  BY LessAsymmetric, LessTransitive
<1>2. \A a, b \in S : (<<a, b>> \in R <=> Less(a, b)) /\ (<<a, b>> \in Q <=> Less(b, a))
  OBVIOUS
<1> HIDE DEF R, Q
<1>3. \E a \in S : \A b \in S : <<b, a>> \notin R
  BY <1>1, <1>2, Least
<1>4. \E a \in S : \A b \in S : <<b, a>> \notin Q
  BY <1>1, <1>2, Least
<1>5. \E a \in S : \A b \in S : ~ Less(b, a)
  BY <1>2, <1>3
<1>6. \E a \in S : \A b \in S : ~ Less(a, b)
  BY <1>2, <1>4
<1> QED
  BY <1>5, <1>6 DEF Lowest, Highest

Returned(result, n) ==
    /\ result = [i \in 1..n |-> result[i]]
    /\ \A i \in 1..n : result[i] = NoValue \/ result[i] \in Fractions

Flipped(result, norm, n) ==
    \A i \in 1..n :
        /\ result[i] = NoValue => norm[i] = NoValue
        /\ result[i] # NoValue => norm[i] \in Fractions
        /\ \A j \in 1..n :
              /\ result[i] # NoValue /\ result[i][1] # 0
              /\ result[j] # NoValue /\ result[j][1] # 0
              /\ Less(result[i], result[j])
              => Less(norm[j], norm[i])

\* Normalizing with a flip turns the order of what is counted around.
LEMMA Normalizes ==
    ASSUME NoValue \notin Fractions, NEW n \in Nat, NEW result, Returned(result, n),
           NEW norm, norm = Normalized(result, TRUE)
    PROVE  Flipped(result, norm, n)
<1>0. /\ result = [i \in 1..n |-> result[i]]
      /\ \A i \in 1..n : result[i] = NoValue \/ result[i] \in Fractions
  BY DEF Returned
<1> DEFINE S == Counted(result)
           low == Lowest(S)
           high == Highest(S)
           scaled(a) == DividedBy(Minus(a, low), Minus(high, low))
<1>1. S \subseteq Fractions /\ IsFiniteSet(S)
  <2>1. S \subseteq Range(result) /\ S \subseteq Fractions
    BY <1>0 DEF Counted, Range
  <2>2. result \in Surjection(1..n, Range(result))
    BY <1>0 DEF Surjection, Range
  <2>3. IsFiniteSet(1..n)
    BY FS_Interval
  <2> QED
    BY <2>1, <2>2, <2>3, FS_Surjection, FS_Subset
<1>2. \A i \in 1..n : result[i] # NoValue /\ result[i][1] # 0 => result[i] \in S
  BY <1>0 DEF Counted, Range
<1>3. S # {} => low \in S /\ high \in S /\ \A b \in S : ~ Less(b, low) /\ ~ Less(high, b)
  <2> HIDE DEF S
  <2> QED
    BY <1>1, Extremes
<1>4. CASE S = {} \/ ~ Less(low, high)
  <2>1. norm = result
    BY <1>4 DEF Normalized
  <2>2. ASSUME NEW a \in S, NEW b \in S, Less(a, b)
        PROVE  FALSE
    <3>1. low \in Fractions /\ high \in Fractions /\ a \in Fractions /\ b \in Fractions
      BY <1>1, <1>3, <2>2
    <3>2. ~ Less(a, low) /\ ~ Less(high, b)
      BY <1>3, <2>2
    <3> HIDE DEF S, low, high
    <3>3. Less(low, b)
      BY <3>1, <3>2, <2>2, LessTransitive
    <3>4. Less(low, high)
      BY <3>1, <3>2, <3>3, LessTransitive
    <3> QED
      BY <1>4, <3>4, <2>2
  <2> QED
    BY <1>0, <1>2, <2>1, <2>2 DEF Flipped
<1>5. CASE S # {} /\ Less(low, high)
  <2>1. \A i \in 1..n : norm[i] = IF result[i] = NoValue THEN NoValue
                                  ELSE Minus(Whole(1), scaled(result[i]))
    BY <1>0, <1>5 DEF Normalized
  <2>2. low \in Fractions /\ high \in Fractions /\ Less(low, high)
    BY <1>1, <1>3, <1>5
  <2> HIDE DEF S, low, high
  <2>3. Minus(high, low) \in Fractions /\ Minus(high, low)[1] > 0
    <3>1. Less(Minus(low, low), Minus(high, low)) /\ Minus(high, low) \in Fractions
      BY <2>2, LessMinus
    <3>2. Minus(low, low) \in Fractions /\ Minus(low, low)[1] = 0
      <4>1. PICK y \in Int, p \in Int : low[1] = y /\ low[2] = p
        BY <2>2, FractionParts
      <4>2. Minus(low, low) = <<y + (-y), p>>
        BY <4>1 DEF Minus, Plus
      <4> QED
        <5>1. y + (-y) = 0
          BY <4>1
        <5>2. Minus(low, low)[1] = 0
          BY <4>2, <5>1
        <5> QED
          BY <5>2, <2>2, LessMinus
    <3>3. PICK x \in Int, q \in Int : Minus(high, low)[1] = x /\ Minus(high, low)[2] = q /\ q > 0
      BY <3>1, FractionParts
    <3>4. PICK r \in Int : Minus(low, low)[2] = r /\ r > 0
      BY <3>2, FractionParts
    <3>5. 0 * q < x * r
      BY <3>1, <3>2, <3>3, <3>4 DEF Less
    <3>6. x > 0
      BY <3>5, <3>3, <3>4
    <3> QED
      BY <3>1, <3>3, <3>6
  <2>4. \A a \in Fractions : scaled(a) \in Fractions
    BY <2>2, <2>3, LessMinus, LessDividedBy
  <2>5. \A a, b \in Fractions : Less(a, b) => Less(scaled(a), scaled(b))
    <3> TAKE a, b \in Fractions
    <3>1. /\ Minus(a, low) \in Fractions /\ Minus(b, low) \in Fractions
          /\ Less(a, b) => Less(Minus(a, low), Minus(b, low))
      BY <2>2, LessMinus
    <3> QED
      BY <2>3, <3>1, LessDividedBy
  <2>6. Whole(1) \in Fractions
    BY WholeIsFraction
  <2> HIDE DEF scaled
  <2>7. ASSUME NEW i \in 1..n, result[i] # NoValue
        PROVE  result[i] \in Fractions /\ norm[i] \in Fractions
               /\ norm[i] = Minus(Whole(1), scaled(result[i]))
    BY <1>0, <2>1, <2>4, <2>6, <2>7, LessMinus
  <2>8. ASSUME NEW i \in 1..n, NEW j \in 1..n, result[i] # NoValue, result[j] # NoValue,
               Less(result[i], result[j])
        PROVE  Less(norm[j], norm[i])
    <3>1. Less(scaled(result[i]), scaled(result[j]))
      BY <2>5, <2>7, <2>8
    <3>2. scaled(result[i]) \in Fractions /\ scaled(result[j]) \in Fractions
      BY <2>4, <2>7, <2>8
    <3>3. Less(Minus(Whole(1), scaled(result[j])), Minus(Whole(1), scaled(result[i])))
      BY <2>6, <3>1, <3>2, LessMinus
    <3> QED
      BY <2>7, <2>8, <3>3
  <2>9. \A i \in 1..n : result[i] = NoValue => norm[i] = NoValue
    BY <2>1
  <2> QED
    BY <2>7, <2>8, <2>9 DEF Flipped
<1> QED
  BY <1>4, <1>5

\* The sums over a single scorer.
LEMMA WeightOfOne ==
    ASSUME NEW f, NEW a, DOMAIN f = {a}, f[a] \in Int
    PROVE  SumFunction(f) = f[a]
<1> DEFINE F(g) == [s \in SUBSET {a} |->
                      IF s = {} THEN 0
                      ELSE f[CHOOSE x \in s : TRUE] + g[s \ {CHOOSE x \in s : TRUE}]]
           g0 == [s \in SUBSET {a} |-> IF s = {} THEN 0 ELSE f[a]]
<1>0. SUBSET {a} = {{}, {a}} /\ (CHOOSE x \in {a} : TRUE) = a /\ {a} \ {a} = {}
  OBVIOUS
<1>1. g0 = F(g0)
  <2>1. g0[{}] = 0 /\ g0[{a}] = f[a]
    BY <1>0
  <2>2. F(g0)[{}] = 0 /\ F(g0)[{a}] = f[a] + g0[{}]
    BY <1>0
  <2>3. \A s \in SUBSET {a} : g0[s] = F(g0)[s]
    BY <2>1, <2>2, <1>0
  <2> HIDE DEF g0
  <2> QED
    BY <2>3 DEF g0
<1>2. \A g : g = F(g) => g[{a}] = f[a] + 0
  BY <1>0
<1> HIDE DEF g0
<1>3. (CHOOSE g : g = F(g)) = F(CHOOSE g : g = F(g))
  BY <1>1
<1>4. SumFunction(f) = (CHOOSE g : g = F(g))[{a}]
  BY DEF SumFunction, SumFunctionOnSet, FoldFunctionOnSet, MapThenFoldSet
<1>5. (CHOOSE g : g = F(g))[{a}] = f[a] + 0
  BY <1>2, <1>3
<1> HIDE DEF F
<1> QED
  BY <1>4, <1>5

LEMMA ScoreOfOne ==
    ASSUME NEW f, NEW a, DOMAIN f = {a}, f[a] \in Fractions
    PROVE  FoldFunction(Plus, Whole(0), f) = f[a]
<1> DEFINE F(g) == [s \in SUBSET {a} |->
                      IF s = {} THEN Whole(0)
                      ELSE Plus(f[CHOOSE x \in s : TRUE], g[s \ {CHOOSE x \in s : TRUE}])]
           g0 == [s \in SUBSET {a} |-> IF s = {} THEN Whole(0) ELSE Plus(f[a], Whole(0))]
<1>0. SUBSET {a} = {{}, {a}} /\ (CHOOSE x \in {a} : TRUE) = a /\ {a} \ {a} = {}
  OBVIOUS
<1>1. g0 = F(g0)
  <2>1. g0[{}] = Whole(0) /\ g0[{a}] = Plus(f[a], Whole(0))
    BY <1>0
  <2>2. F(g0)[{}] = Whole(0) /\ F(g0)[{a}] = Plus(f[a], g0[{}])
    BY <1>0
  <2>3. \A s \in SUBSET {a} : g0[s] = F(g0)[s]
    BY <2>1, <2>2, <1>0
  <2> HIDE DEF g0
  <2> QED
    BY <2>3 DEF g0
<1>2. \A g : g = F(g) => g[{a}] = Plus(f[a], Whole(0))
  BY <1>0
<1> HIDE DEF g0
<1>3. (CHOOSE g : g = F(g)) = F(CHOOSE g : g = F(g))
  BY <1>1
<1>4. FoldFunction(Plus, Whole(0), f) = (CHOOSE g : g = F(g))[{a}]
  BY DEF FoldFunction, FoldFunctionOnSet, MapThenFoldSet
<1>5. (CHOOSE g : g = F(g))[{a}] = Plus(f[a], Whole(0))
  BY <1>2, <1>3
<1>6. Plus(f[a], Whole(0)) = f[a]
  <2>1. PICK x \in Int, p \in Int : f[a] = <<x, p>>
    BY FractionParts
  <2>2. x + 0 = x /\ x * 1 + 0 * p = x /\ p * 1 = p
    BY <2>1
  <2> QED
    BY <2>1, <2>2 DEF Plus, Whole
<1> HIDE DEF F
<1> QED
  BY <1>4, <1>5, <1>6

LEMMA ProgramOfOne ==
    ASSUME NEW program, ProgramAssumption(program), Len(program) = 1
    PROVE  /\ DOMAIN program = {1} /\ program[1].weight \in Int
           /\ program[1].kind = "map" => /\ program[1].normalize \in BOOLEAN
                                        /\ program[1].flip \in BOOLEAN
<1>1. /\ DOMAIN program = 1..Len(program)
      /\ \A k \in DOMAIN program : program[k].weight \in Int
  BY DEF ProgramAssumption
<1>2. DOMAIN program = {1}
  BY <1>1
<1>3. program[1].kind = "map" => /\ program[1].normalize \in BOOLEAN
                                 /\ program[1].flip \in BOOLEAN
  BY <1>2 DEF ProgramAssumption
<1> QED
  BY <1>1, <1>2, <1>3

LEMMA ZeroIsFraction == Whole(0) \in Fractions
BY FractionOf DEF Whole

\* With one flipped, normalized price as score the cheaper has the higher score.
LEMMA OneScorer ==
    ASSUME ScoringAssumption, NEW program \in Programs, NEW s \in Seq(Proposals),
           Len(program) = 1, program[1].kind = "map", program[1].normalize = TRUE, program[1].flip = TRUE,
           ~ ScoringRaises(program, s)
    PROVE  \A i \in 1..Len(s) :
              /\ Score(program, s, i) \in Fractions
              /\ \A j \in 1..Len(s) :
                    LET a == Priced(s[i], program[1].by)
                        b == Priced(s[j], program[1].by) IN
                    a # NoValue /\ a[1] # 0 /\ b # NoValue /\ b[1] # 0 /\ Less(a, b)
                    => Less(Score(program, s, j), Score(program, s, i))
<1> DEFINE n == Len(s)
           sc == program[1]
           result == [i \in 1..n |-> Priced(s[i], sc.by)]
           norm == Normalized(result, TRUE)
           w == sc.weight
<1>1. n \in Nat /\ DOMAIN s = 1..n /\ \A i \in 1..n : s[i] \in Proposals
  BY LenProperties, ElementOfSeq
<1>2. /\ DOMAIN program = {1} /\ w \in Int
      /\ sc.by \in {"coeff", "per cpu", "average", "average per cpu"}
      /\ DOMAIN Offer = Proposals /\ OfferAssumption
  <2>1. ProgramAssumption(program) /\ DOMAIN Offer = Proposals /\ OfferAssumption
    BY DEF ScoringAssumption
  <2>2. DOMAIN program = {1} /\ w \in Int
    BY <2>1, ProgramOfOne
  <2>3. sc.by \in {"coeff", "per cpu", "average", "average per cpu"}
    BY <2>1, <2>2 DEF ProgramAssumption
  <2> QED
    BY <2>1, <2>2, <2>3
<1>3. \A i \in 1..n : result[i] = NoValue \/ result[i] \in Fractions
  <2> TAKE i \in 1..n
  <2>1. ~ (sc.by = "per cpu" /\ PerCpuRaises(s[i]))
    BY <1>1, <1>2 DEF ScoringRaises
  <2> QED
    BY <1>1, <1>2, <2>1, PriceIsFraction
<1>4. NoValue \notin Fractions
  BY <1>2 DEF OfferAssumption, Fractions
<1>5. Scores(s, sc) = norm
  BY <1>1 DEF Scores, MapScore
<1>6. \A i \in 1..n :
         /\ result[i] = NoValue => norm[i] = NoValue
         /\ result[i] # NoValue => norm[i] \in Fractions
         /\ \A j \in 1..n :
               /\ result[i] # NoValue /\ result[i][1] # 0
               /\ result[j] # NoValue /\ result[j][1] # 0
               /\ Less(result[i], result[j])
               => Less(norm[j], norm[i])
  <2>1. result = [i \in 1..n |-> result[i]]
    OBVIOUS
  <2> DEFINE m == norm
  <2>2. m = Normalized(result, TRUE)
    OBVIOUS
  <2> HIDE DEF result, n, m
  <2>3. Returned(result, n)
    BY <1>3, <2>1 DEF Returned
  <2>4. Flipped(result, m, n)
    BY <1>1, <1>4, <2>2, <2>3, Normalizes
  <2> QED
    BY <2>2, <2>4 DEF Flipped
<1> HIDE DEF norm
<1>7. ASSUME NEW i \in 1..n
      PROVE  Voices(program, s, i) = IF norm[i] = NoValue THEN {} ELSE {1}
  BY <1>2, <1>5 DEF Voices
<1>8. ASSUME NEW i \in 1..n, norm[i] = NoValue
      PROVE  Score(program, s, i) = Whole(0)
  BY <1>7, <1>8 DEF Score, WeightedScore
<1>9. ASSUME NEW i \in 1..n, norm[i] \in Fractions
      PROVE  w # 0 /\ Score(program, s, i) = DividedBy(Times(Whole(w), norm[i]), Whole(w))
  <2> DEFINE f == [k \in {1} |-> program[k].weight]
             g == [k \in {1} |-> Times(Whole(program[k].weight),
                                      [m \in DOMAIN program |-> Scores(s, program[m])[i]][k])]
  <2>1. Voices(program, s, i) = {1}
    BY <1>4, <1>7, <1>9
  <2>2. WeightSum(program, {1}) = w
    <3>1. DOMAIN f = {1} /\ f[1] = w
      OBVIOUS
    <3>2. WeightSum(program, {1}) = SumFunction(f)
      BY DEF WeightSum
    <3> HIDE DEF f
    <3> QED
      BY <1>2, <3>1, <3>2, WeightOfOne
  <2>3. w # 0
    BY <1>1, <2>1, <2>2 DEF ScoringRaises
  <2>4. DOMAIN g = {1} /\ g[1] = Times(Whole(w), norm[i])
    BY <1>2, <1>5
  <2>5. Times(Whole(w), norm[i]) \in Fractions
    BY <1>2, <1>9, WholeIsFraction, LessTimes
  <2>6. Score(program, s, i) = DividedBy(FoldFunction(Plus, Whole(0), g), Whole(w))
    BY <2>1, <2>2 DEF Score, WeightedScore
  <2> HIDE DEF g
  <2>7. FoldFunction(Plus, Whole(0), g) = g[1]
    BY <2>4, <2>5, ScoreOfOne
  <2> QED
    BY <2>3, <2>4, <2>6, <2>7
<1>10. \A i \in 1..n : Score(program, s, i) \in Fractions
  <2> TAKE i \in 1..n
  <2>1. CASE result[i] = NoValue
    BY <1>6, <1>8, <2>1, ZeroIsFraction
  <2>2. CASE result[i] # NoValue
    <3>1. norm[i] \in Fractions
      BY <1>6, <2>2
    <3> QED
      BY <1>2, <1>9, <3>1, LessWeighted
  <2> QED
    BY <2>1, <2>2
<1> HIDE DEF result
<1>11. ASSUME NEW i \in 1..n, NEW j \in 1..n,
              result[i] # NoValue, result[i][1] # 0, result[j] # NoValue, result[j][1] # 0,
              Less(result[i], result[j])
       PROVE  Less(Score(program, s, j), Score(program, s, i))
  <2>1. norm[i] \in Fractions /\ norm[j] \in Fractions /\ Less(norm[j], norm[i])
    BY <1>6, <1>11
  <2> QED
    BY <1>2, <1>9, <2>1, LessWeighted
<1> QED
  BY <1>10, <1>11 DEF result

-----------------------------------------------------------------------------
\* Ranking: the places are those of a strict order, so that each is taken once.
FractionScores(score, n) == DOMAIN score = 1..n /\ \A i \in 1..n : score[i] \in Fractions

LEMMA AheadOrder ==
    ASSUME NEW n \in Nat, NEW score, FractionScores(score, n)
    PROVE  \A i, j \in 1..n :
              /\ Ahead(score, i) \subseteq 1..n
              /\ i \notin Ahead(score, i)
              /\ i # j => i \in Ahead(score, j) \/ j \in Ahead(score, i)
              /\ j \in Ahead(score, i) => /\ Ahead(score, j) \subseteq Ahead(score, i)
                                         /\ ~ Less(score[j], score[i])
<1> DEFINE before(j, i) == Less(score[i], score[j]) \/ (~ Less(score[j], score[i]) /\ j < i)
<1>1. \A i \in 1..n : score[i] \in Fractions
  BY DEF FractionScores
<1>2. \A i, j \in 1..n : j \in Ahead(score, i) <=> before(j, i)
  BY DEF Ahead, FractionScores
<1>3. \A i \in 1..n : Ahead(score, i) \subseteq 1..n
  BY DEF Ahead, FractionScores
<1>4. \A i, j \in 1..n : i # j => before(i, j) \/ before(j, i)
  BY <1>1, LessAsymmetric
<1>5. \A i \in 1..n : ~ before(i, i)
  BY <1>1, LessAsymmetric
<1>6. \A i, j \in 1..n : before(j, i) => ~ Less(score[j], score[i])
  BY <1>1, LessAsymmetric
<1>7. ASSUME NEW i \in 1..n, NEW j \in 1..n, NEW k \in 1..n, before(j, i), before(k, j)
      PROVE  before(k, i)
  <2>1. ~ Less(score[j], score[i]) /\ ~ Less(score[k], score[j])
    BY <1>6, <1>7
  <2>2. score[i] \in Fractions /\ score[j] \in Fractions /\ score[k] \in Fractions
    BY <1>1
  <2>3. CASE Less(score[i], score[j]) \/ Less(score[j], score[k])
    BY <2>1, <2>2, <2>3, LessTransitive
  <2>4. CASE j < i /\ k < j
    <3>1. ~ Less(score[k], score[i])
      BY <2>1, <2>2, LessTransitive
    <3>2. k < i
      BY <2>4
    <3> QED
      BY <3>1, <3>2
  <2> QED
    BY <1>7, <2>3, <2>4
<1> HIDE DEF before
<1>8. ASSUME NEW i \in 1..n, NEW j \in 1..n, j \in Ahead(score, i)
      PROVE  Ahead(score, j) \subseteq Ahead(score, i)
  BY <1>2, <1>3, <1>7, <1>8
<1> QED
  BY <1>2, <1>3, <1>4, <1>5, <1>6, <1>8

PlaceOf(score, i) == Cardinality(Ahead(score, i))

LEMMA PlacesOrdered ==
    ASSUME NEW n \in Nat, NEW score, FractionScores(score, n), NEW i \in 1..n, NEW j \in 1..n
    PROVE  /\ PlaceOf(score, i) \in 0..(n - 1)
           /\ j \in Ahead(score, i) => PlaceOf(score, j) < PlaceOf(score, i)
<1>1. IsFiniteSet(1..n) /\ Cardinality(1..n) = n
  BY FS_Interval
<1>2. /\ Ahead(score, i) \in SUBSET (1..n) /\ Ahead(score, j) \in SUBSET (1..n)
      /\ i \notin Ahead(score, i) /\ j \notin Ahead(score, j)
      /\ j \in Ahead(score, i) => Ahead(score, j) \in SUBSET Ahead(score, i)
  BY AheadOrder
<1>3. /\ IsFiniteSet(Ahead(score, i)) /\ IsFiniteSet(Ahead(score, j))
      /\ Cardinality(Ahead(score, i)) \in Nat /\ Cardinality(Ahead(score, j)) \in Nat
      /\ Cardinality(Ahead(score, i)) <= n
  BY <1>1, <1>2, FS_Subset, FS_CardinalityType
<1>4. Cardinality(Ahead(score, i)) # n
  BY <1>1, <1>2, FS_Subset
<1>5. ASSUME j \in Ahead(score, i)
      PROVE  Cardinality(Ahead(score, j)) < Cardinality(Ahead(score, i))
  <2>1. Cardinality(Ahead(score, j)) <= Cardinality(Ahead(score, i))
    BY <1>2, <1>3, <1>5, FS_Subset
  <2>2. Cardinality(Ahead(score, j)) # Cardinality(Ahead(score, i))
    BY <1>2, <1>3, <1>5, FS_Subset
  <2> QED
    BY <1>3, <2>1, <2>2
<1> QED
  BY <1>3, <1>4, <1>5 DEF PlaceOf

LEMMA PlacesTaken ==
    ASSUME NEW n \in Nat, NEW score, FractionScores(score, n)
    PROVE  \A k \in 1..n : \E i \in 1..n : PlaceOf(score, i) = k - 1
<1> DEFINE f == [i \in 1..n |-> PlaceOf(score, i) + 1]
<1>1. IsFiniteSet(1..n)
  BY FS_Interval
<1>2. \A i \in 1..n : PlaceOf(score, i) \in 0..(n - 1)
  BY PlacesOrdered
<1>3. f \in [1..n -> 1..n]
  BY <1>2
<1>4. ASSUME NEW i \in 1..n, NEW j \in 1..n, f[i] = f[j], i # j
      PROVE  FALSE
  <2>1. PlaceOf(score, i) = PlaceOf(score, j) /\ PlaceOf(score, i) \in Int
    BY <1>2, <1>4
  <2>2. i \in Ahead(score, j) \/ j \in Ahead(score, i)
    BY <1>4, AheadOrder
  <2> QED
    BY <2>1, <2>2, PlacesOrdered
<1>5. f \in Injection(1..n, 1..n)
  BY <1>3, <1>4 DEF Injection, IsInjective
<1>6. f \in Surjection(1..n, 1..n)
  <2> HIDE DEF f
  <2> QED
    BY <1>1, <1>5, FS_Injection
<1>7. \A k \in 1..n : \E i \in 1..n : f[i] = k
  BY <1>6 DEF Surjection
<1>8. TAKE k \in 1..n
<1>9. PICK i \in 1..n : f[i] = k
  BY <1>7
<1>10. PlaceOf(score, i) = k - 1
  BY <1>2, <1>9
<1> QED
  BY <1>10

\* No proposal has a better score than one that is ranked before it.
LEMMA RankedBest ==
    ASSUME NEW program, NEW s, NEW n \in Nat, DOMAIN s = 1..n,
           \A i \in 1..n : Score(program, s, i) \in Fractions
    PROVE  \A k \in 1..n : \E i \in 1..n :
              /\ Ranked(program, s)[k] = s[i]
              /\ \A l \in 1..n : k < l =>
                    \E j \in 1..n : /\ Ranked(program, s)[l] = s[j]
                                    /\ ~ Less(Score(program, s, i), Score(program, s, j))
<1> DEFINE score == [i \in 1..n |-> Score(program, s, i)]
           at(k) == CHOOSE i \in 1..n : PlaceOf(score, i) = k - 1
<1>1. FractionScores(score, n)
  BY DEF FractionScores
<1>2. \A k \in 1..n : Ranked(program, s)[k] = s[at(k)]
  BY DEF Ranked, PlaceOf
<1>3. \A i \in 1..n : score[i] = Score(program, s, i)
  OBVIOUS
<1> HIDE DEF score
<1>4. \A k \in 1..n : at(k) \in 1..n /\ PlaceOf(score, at(k)) = k - 1
  BY <1>1, PlacesTaken
<1> HIDE DEF at
<1>5. ASSUME NEW k \in 1..n, NEW l \in 1..n, k < l
      PROVE  ~ Less(score[at(k)], score[at(l)])
  <2>1. /\ at(k) \in 1..n /\ at(l) \in 1..n
        /\ PlaceOf(score, at(k)) = k - 1 /\ PlaceOf(score, at(l)) = l - 1
    BY <1>4
  <2>2. PlaceOf(score, at(k)) < PlaceOf(score, at(l)) /\ at(k) # at(l)
    BY <1>5, <2>1
  <2>3. at(l) \notin Ahead(score, at(k))
    <3>1. at(l) \in Ahead(score, at(k)) => PlaceOf(score, at(l)) < PlaceOf(score, at(k))
      BY <1>1, <2>1, PlacesOrdered
    <3> QED
      BY <2>1, <2>2, <3>1
  <2>4. at(k) \in Ahead(score, at(l))
    BY <1>1, <2>1, <2>2, <2>3, AheadOrder
  <2> QED
    BY <1>1, <2>1, <2>4, AheadOrder
<1> QED
  BY <1>2, <1>3, <1>4, <1>5

-----------------------------------------------------------------------------
\* CheapestFirst, as a relation of the places of a list of proposals.
Dearer(program, p, q) ==
    LET a == Priced(p, program[1].by)
        b == Priced(q, program[1].by) IN
    a # NoValue /\ b # NoValue /\ a[1] # 0 /\ b[1] # 0 /\ Less(b, a)

InOrder(program, s) == \A i, j \in DOMAIN s : i < j => ~ Dearer(program, s[i], s[j])

\* What is scored is in order, and everything held is a proposal.
HeldInOrder(program) ==
    /\ market \subseteq Proposals
    /\ unscored \in Seq(Proposals) /\ batch \in Seq(Proposals) /\ scored \in Seq(Proposals)
    /\ InOrder(program, scored)

CheapInv == scorers \in Programs /\ (CheapestWanted => HeldInOrder(scorers))

LEMMA CheapestIs == CheapestFirst <=> (CheapestWanted => InOrder(scorers, scored))
BY DEF CheapestFirst, InOrder, Dearer, PriceOf

LEMMA RankedInOrder ==
    ASSUME ScoringAssumption, NEW s \in Seq(Proposals), scorers \in Programs, CheapestWanted,
           scorers[1].normalize = TRUE, scorers[1].flip = TRUE, ~ ScoringRaises(scorers, s)
    PROVE  Ranked(scorers, s) \in Seq(Proposals) /\ InOrder(scorers, Ranked(scorers, s))
<1>1. PICK n \in Nat : n = Len(s) /\ DOMAIN s = 1..n /\ \A i \in 1..n : s[i] \in Proposals
  BY LenProperties, ElementOfSeq
<1>2. /\ \A i \in 1..n : Score(scorers, s, i) \in Fractions
      /\ \A i, j \in 1..n :
            Dearer(scorers, s[j], s[i]) => Less(Score(scorers, s, j), Score(scorers, s, i))
  BY <1>1, OneScorer DEF CheapestWanted, Dearer
<1> DEFINE r == Ranked(scorers, s)
<1>3. r = [k \in 1..n |-> r[k]]
  BY <1>1 DEF Ranked
<1>4. \A k \in 1..n : \E i \in 1..n :
        /\ r[k] = s[i]
        /\ \A l \in 1..n : k < l =>
              \E j \in 1..n : /\ r[l] = s[j]
                              /\ ~ Less(Score(scorers, s, i), Score(scorers, s, j))
  BY <1>1, <1>2, RankedBest
<1> HIDE DEF r
<1>5. r \in Seq(Proposals) /\ DOMAIN r = 1..n
  <2>1. \A k \in 1..n : r[k] \in Proposals
    BY <1>1, <1>4
  <2> QED
    BY <1>3, <2>1
<1>6. ASSUME NEW k \in 1..n, NEW l \in 1..n, k < l, Dearer(scorers, r[k], r[l])
      PROVE  FALSE
  BY <1>2, <1>4, <1>6
<1> QED
  BY <1>5, <1>6 DEF InOrder, r

LEMMA TailInOrder ==
    ASSUME NEW program, NEW s \in Seq(Proposals), s # <<>>, InOrder(program, s)
    PROVE  Tail(s) \in Seq(Proposals) /\ InOrder(program, Tail(s))
<1>1. /\ Tail(s) \in Seq(Proposals) /\ DOMAIN s = 1..Len(s) /\ Len(s) \in Nat
      /\ DOMAIN Tail(s) = 1..(Len(s) - 1)
      /\ \A i \in 1..(Len(s) - 1) : Tail(s)[i] = s[i + 1]
  BY HeadTailProperties, LenProperties
<1>2. \A i \in 1..(Len(s) - 1) : i + 1 \in DOMAIN s
  BY <1>1
<1> QED
  BY <1>1, <1>2 DEF InOrder

LEMMA RemovedInOrder ==
    ASSUME NEW program, NEW s \in Seq(Proposals), NEW i \in DOMAIN s, InOrder(program, s)
    PROVE  RemoveAt(s, i) \in Seq(Proposals) /\ InOrder(program, RemoveAt(s, i))
<1>1. PICK n \in Nat : n = Len(s) /\ DOMAIN s = 1..n /\ i \in 1..n
                        /\ \A k \in 1..n : s[k] \in Proposals
  BY LenProperties, ElementOfSeq
<1> DEFINE a == SubSeq(s, 1, i - 1)
           b == SubSeq(s, i + 1, n)
           r == a \o b
           old(k) == IF k < i THEN k ELSE k + 1
<1>2. /\ a \in Seq(Proposals) /\ Len(a) = i - 1 /\ \A k \in 1..(i - 1) : a[k] = s[k]
      /\ b \in Seq(Proposals) /\ Len(b) = n - i /\ \A k \in 1..(n - i) : b[k] = s[i + k]
  <2>1. \A k \in 1..(i - 1) : s[k] \in Proposals
    BY <1>1
  <2>2. \A k \in (i + 1)..n : s[k] \in Proposals
    BY <1>1
  <2>3. i - 1 \in Int /\ i + 1 \in Int /\ i \in Int /\ i >= 1 /\ i <= n
    BY <1>1
  <2> QED
    BY <1>1, <2>1, <2>2, <2>3, SubSeqProperties
<1> HIDE DEF a, b
<1>3. /\ r \in Seq(Proposals) /\ Len(r) = n - 1
      /\ \A k \in 1..(n - 1) : r[k] = s[old(k)] /\ old(k) \in 1..n
  <2>1. /\ r \in Seq(Proposals) /\ Len(r) = Len(a) + Len(b)
        /\ \A k \in 1..(Len(a) + Len(b)) :
              r[k] = IF k <= Len(a) THEN a[k] ELSE b[k - Len(a)]
    BY <1>2, ConcatProperties
  <2>2. Len(a) + Len(b) = n - 1 /\ Len(a) = i - 1 /\ Len(b) = n - i /\ i \in Int
    BY <1>1, <1>2
  <2> HIDE DEF r
  <2>3. ASSUME NEW k \in 1..(n - 1), k < i
        PROVE  r[k] = s[old(k)] /\ old(k) \in 1..n
    <3>1. k \in 1..(i - 1) /\ k \in 1..n
      BY <1>1, <2>3
    <3>2. r[k] = a[k] /\ a[k] = s[k]
      BY <1>2, <2>1, <2>2, <3>1, <2>3
    <3> QED
      BY <2>3, <3>1, <3>2
  <2>4. ASSUME NEW k \in 1..(n - 1), ~ (k < i)
        PROVE  r[k] = s[old(k)] /\ old(k) \in 1..n
    <3>1. k - (i - 1) \in 1..(n - i) /\ i + (k - (i - 1)) = k + 1 /\ k + 1 \in 1..n
          /\ ~ (k <= i - 1)
      BY <1>1, <2>4
    <3>2. r[k] = b[k - (i - 1)]
      BY <2>1, <2>2, <3>1
    <3>3. b[k - (i - 1)] = s[k + 1]
      BY <1>2, <3>1
    <3> QED
      BY <2>4, <3>1, <3>2, <3>3
  <2> QED
    BY <2>1, <2>2, <2>3, <2>4
<1>4. RemoveAt(s, i) = r
  BY <1>1 DEF RemoveAt, a, b
<1>5. DOMAIN r = 1..(n - 1)
  BY <1>3, LenProperties
<1> HIDE DEF r
<1>6. \A k, l \in 1..(n - 1) : k < l => old(k) < old(l)
  BY <1>1
<1> HIDE DEF old
<1> QED
  BY <1>1, <1>3, <1>4, <1>5, <1>6 DEF InOrder

LEMMA WantedFlips ==
    ASSUME ScoringAssumption, scorers \in Programs, CheapestWanted
    PROVE  scorers[1].normalize = TRUE /\ scorers[1].flip = TRUE
<1>1. ProgramAssumption(scorers)
  BY DEF ScoringAssumption
<1>2. /\ Len(scorers) = 1 /\ scorers[1].kind = "map"
      /\ scorers[1].normalize /\ scorers[1].flip
  BY DEF CheapestWanted
<1>3. scorers[1].normalize \in BOOLEAN /\ scorers[1].flip \in BOOLEAN
  BY <1>1, <1>2, ProgramOfOne
<1> QED
  BY <1>2, <1>3

LEMMA NothingInOrder ==
    ASSUME NEW program
    PROVE  <<>> \in Seq(Proposals) /\ InOrder(program, <<>>)
<1>1. <<>> \in Seq(Proposals) /\ DOMAIN <<>> = {}
  OBVIOUS
<1> QED
  BY <1>1 DEF InOrder

\* The steps that rank nothing keep it.
LEMMA HeldKept ==
    ASSUME NEW program, HeldInOrder(program), [ScoNext]_scoVars,
           ~ (Scored /\ ~ ScoringRaises(scorers, batch))
    PROVE  HeldInOrder(program)'
<1>0. /\ market \subseteq Proposals
      /\ unscored \in Seq(Proposals) /\ batch \in Seq(Proposals) /\ scored \in Seq(Proposals)
      /\ InOrder(program, scored)
      /\ <<>> \in Seq(Proposals) /\ InOrder(program, <<>>)
  BY NothingInOrder DEF HeldInOrder
<1>1. ASSUME UNCHANGED scored, market' \subseteq Proposals,
             unscored' \in Seq(Proposals), batch' \in Seq(Proposals)
      PROVE  HeldInOrder(program)'
  BY <1>0, <1>1 DEF HeldInOrder
<1>2. ASSUME scored' \in Seq(Proposals), InOrder(program, scored'), UNCHANGED <<market, unscored>>,
             batch' \in Seq(Proposals)
      PROVE  HeldInOrder(program)'
  BY <1>0, <1>2 DEF HeldInOrder
<1>3. ASSUME UNCHANGED <<market, unscored, batch, scored>>
      PROVE  HeldInOrder(program)'
  BY <1>0, <1>1, <1>3
<1>4. CASE UNCHANGED scoVars
  BY <1>3, <1>4 DEF scoVars
<1>5. ASSUME NEW u \in Getters, Enter(u) \/ GetRaises(u)
      PROVE  HeldInOrder(program)'
  BY <1>3, <1>5 DEF Enter, GetRaises, fetching
<1>6. ASSUME NEW u \in Getters, Take(u)
      PROVE  HeldInOrder(program)'
  <2>1. /\ scored # <<>> /\ scored' = Tail(scored)
        /\ market' = market /\ unscored' = unscored /\ batch' = batch
    BY <1>6 DEF Take
  <2>2. Tail(scored) \in Seq(Proposals) /\ InOrder(program, Tail(scored))
    BY <1>0, <2>1, TailInOrder
  <2> QED
    BY <1>0, <1>2, <2>1, <2>2
<1>7. ASSUME NEW p \in Proposals, Fetch(p)
      PROVE  HeldInOrder(program)'
  <2>1. Append(unscored, p) \in Seq(Proposals)
    BY <1>0, AppendProperties
  <2> QED
    BY <1>0, <1>1, <1>7, <2>1 DEF Fetch
<1>8. CASE FetchRaises
  BY <1>3, <1>8 DEF FetchRaises
<1>9. ASSUME NEW i \in DOMAIN scored, Expire(i)
      PROVE  HeldInOrder(program)'
  <2>1. /\ scored' = RemoveAt(scored, i)
        /\ market' = market /\ unscored' = unscored /\ batch' = batch
    BY <1>9 DEF Expire
  <2>2. RemoveAt(scored, i) \in Seq(Proposals) /\ InOrder(program, RemoveAt(scored, i))
    BY <1>0, RemovedInOrder
  <2> QED
    BY <1>0, <1>2, <2>1, <2>2
<1>10. CASE TakeUnscored
  <2>1. /\ scored' = scored /\ market' = market /\ unscored' = <<>> /\ batch' = unscored
    BY <1>10 DEF TakeUnscored
  <2> QED
    BY <1>0, <1>1, <2>1
<1>11. CASE TakeScored
  <2>1. market' = market /\ unscored' = unscored
    BY <1>11 DEF TakeScored, fetching
  <2>2. CASE scored = <<>> /\ failed
    <3>1. scored' = scored /\ batch' = <<>>
      BY <1>11, <2>2 DEF TakeScored
    <3> QED
      BY <1>0, <1>1, <2>1, <3>1
  <2>3. CASE ~ (scored = <<>> /\ failed)
    <3>1. scored' = <<>> /\ batch' = batch \o scored
      BY <1>11, <2>3 DEF TakeScored
    <3>2. batch \o scored \in Seq(Proposals)
      BY <1>0, ConcatProperties
    <3> QED
      BY <1>0, <1>2, <2>1, <3>1, <3>2
  <2> QED
    BY <2>2, <2>3
<1>12. CASE NothingFetched
  BY <1>3, <1>12 DEF NothingFetched, fetching
<1>13. CASE Scored
  <2>1. scored' = scored /\ batch' = <<>> /\ market' = market /\ unscored' = unscored
    BY <1>13 DEF Scored, fetching
  <2> QED
    BY <1>0, <1>1, <2>1
<1>14. ASSUME NEW fill \in BOOLEAN, Start(fill)
       PROVE  HeldInOrder(program)'
  BY <1>3, <1>14 DEF Start
<1>15. CASE Stop
  <2>1. scored' = scored /\ batch' = <<>> /\ market' = market /\ unscored' = unscored
    BY <1>15 DEF Stop
  <2> QED
    BY <1>0, <1>1, <2>1
<1> QED
  BY <1>4, <1>5, <1>6, <1>7, <1>8, <1>9, <1>10, <1>11, <1>12, <1>13, <1>14, <1>15
  DEF ScoNext, Loop

LEMMA CheapKept ==
    ASSUME ScoringAssumption, CheapInv, [ScoNext]_scoVars
    PROVE  CheapInv'
<1>1. scorers' = scorers
  BY DEF ScoNext, scoVars, control, Enter, Take, GetRaises, Fetch, FetchRaises, Expire, Loop,
         TakeUnscored, TakeScored, NothingFetched, Scored, Start, Stop
<1>2. PICK program : program = scorers
  OBVIOUS
<1>3. CheapestWanted' <=> CheapestWanted
  BY <1>1 DEF CheapestWanted
<1>4. ASSUME CheapestWanted
      PROVE  HeldInOrder(program)'
  <2>1. HeldInOrder(program)
    BY <1>2, <1>4 DEF CheapInv
  <2>2. CASE ~ (Scored /\ ~ ScoringRaises(scorers, batch))
    BY <2>1, <2>2, HeldKept
  <2>3. CASE Scored /\ ~ ScoringRaises(scorers, batch)
    <3>1. /\ scored' = Ranked(scorers, batch) /\ batch' = <<>>
          /\ market' = market /\ unscored' = unscored
      BY <2>3 DEF Scored, fetching
    <3>2. batch \in Seq(Proposals)
      BY <2>1 DEF HeldInOrder
    <3>3. Ranked(scorers, batch) \in Seq(Proposals) /\ InOrder(scorers, Ranked(scorers, batch))
      BY <1>4, <2>3, <3>2, WantedFlips, RankedInOrder DEF CheapInv
    <3>4. <<>> \in Seq(Proposals)
      OBVIOUS
    <3> QED
      BY <1>2, <2>1, <3>1, <3>3, <3>4 DEF HeldInOrder
  <2> QED
    BY <2>2, <2>3
<1>5. CheapestWanted => HeldInOrder(scorers)'
  BY <1>1, <1>2, <1>4 DEF HeldInOrder
<1>6. scorers' \in Programs
  BY <1>1 DEF CheapInv
<1> QED
  BY <1>1, <1>3, <1>5, <1>6 DEF CheapInv, HeldInOrder

LEMMA CheapInit == ASSUME ScoringAssumption, ScoInit PROVE CheapInv
<1>1. /\ scorers \in Programs /\ market = Proposals
      /\ unscored = <<>> /\ batch = <<>> /\ scored = <<>>
  BY DEF ScoInit, FillInit
<1> QED
  BY <1>1, NothingInOrder DEF CheapInv, HeldInOrder

\* See CheapestFirst in ScoringBuffer.
THEOREM CheapestIsFirst ==
    ASSUME ScoringAssumption PROVE ScoSpec => []CheapestFirst
<1>1. ScoInit => CheapInv
  BY CheapInit
<1>2. CheapInv /\ [ScoNext]_scoVars => CheapInv'
  BY CheapKept
<1>3. CheapInv => CheapestFirst
  BY CheapestIs DEF CheapInv, HeldInOrder
<1> QED
  BY <1>1, <1>2, <1>3, PTL DEF ScoSpec
=============================================================================
