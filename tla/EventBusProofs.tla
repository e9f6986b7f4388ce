--------------------------- MODULE EventBusProofs ---------------------------
(***************************************************************************)
(* Proofs about EventBus for every set of types, handlers and events; and, *)
(* at the end, about the proposals and debit notes that the collectors of  *)
(* ResourceTree hear of.                                                   *)
(*                                                                         *)
(* The inductive invariant is built in layers: TypeOK; QueueShape,         *)
(* DictShape and ListShape, what the queue, the dict, its lists and the    *)
(* iteration over them look like; Accounted, where each accepted event is; *)
(* and Pass, what the pass over the lists for the current event has done   *)
(* so far.                                                                 *)
(***************************************************************************)
EXTENDS EventBus, ResourceTree, FiniteSetTheorems, SequenceTheorems, TLAPS

\* The loop is between the first and the last line of _process_event.
InEvent == loop \in {"list", "call", "remove"}

\* Events are numbered consecutively: ev, then the queue.
QueueShape ==
    /\ ev.id + Len(queue) = emitted
    /\ \A i \in 1..Len(queue) : queue[i].id = ev.id + i
    /\ Busy => ev.id >= 1

\* The iteration is inside the dict, whose keys are distinct.
DictShape ==
    /\ Busy => dictSize <= Len(keys)
    /\ InEvent => keyPos >= 1
    /\ ~InEvent => toRemove = <<>>
    /\ \A i, j \in 1..Len(keys) : keys[i] = keys[j] => i = j

\* A list holds a handler once, under its own type, after its registration.
ListShape ==
    \A t \in Types :
        /\ \A i \in 1..Len(infos[t]) :
            /\ TypeOf[infos[t][i]] = t
            /\ infos[t][i] \notin fresh
            /\ \E k \in 1..Len(keys) : keys[k] = t
        /\ \A i, j \in 1..Len(infos[t]) : infos[t][i] = infos[t][j] => i = j

\* Every event taken is in flight, processed or aborted.
Accounted ==
    /\ 1..ev.id = InFlight \cup processed \cup aborted
    /\ InFlight \cap (processed \cup aborted) = {}
    /\ processed \cap aborted = {}
    /\ unfinished = Len(queue) + (IF Busy THEN 1 ELSE 0) + Cardinality(aborted)

Base == TypeOK /\ QueueShape /\ DictShape /\ ListShape /\ Accounted

-----------------------------------------------------------------------------
(* list.remove *)

\* Removing the element at i shortens a list by one and moves every later
\* element one place down.
LEMMA RemoveAtProperties ==
    ASSUME NEW S, NEW s \in Seq(S), NEW i \in 1..Len(s)
    PROVE  /\ RemoveAt(s, i) \in Seq(S)
           /\ Len(RemoveAt(s, i)) = Len(s) - 1
           /\ \A j \in 1..(Len(s) - 1) :
                RemoveAt(s, i)[j] = IF j < i THEN s[j] ELSE s[j + 1]
<1> DEFINE a == SubSeq(s, 1, i - 1)
           b == SubSeq(s, i + 1, Len(s))
<1>0. /\ i \in Int /\ Len(s) \in Nat
      /\ \A j \in 1..(i - 1) : s[j] \in S
      /\ \A j \in (i + 1)..Len(s) : s[j] \in S
  BY ElementOfSeq, LenProperties
<1>1. /\ a \in Seq(S)
      /\ Len(a) = i - 1
      /\ \A j \in 1..(i - 1) : a[j] = s[j]
  BY <1>0, SubSeqProperties, 1 <= i
<1>2. /\ b \in Seq(S)
      /\ Len(b) = Len(s) - i
      /\ \A j \in 1..(Len(s) - i) : b[j] = s[i + j]
  BY <1>0, SubSeqProperties
<1> HIDE DEF a, b
<1>3. /\ a \o b \in Seq(S)
      /\ Len(a \o b) = Len(a) + Len(b)
      /\ \A j \in 1..(Len(a) + Len(b)) :
            (a \o b)[j] = IF j <= Len(a) THEN a[j] ELSE b[j - Len(a)]
  BY <1>1, <1>2, ConcatProperties
<1>4. ASSUME NEW j \in 1..(Len(s) - 1)
      PROVE  (a \o b)[j] = IF j < i THEN s[j] ELSE s[j + 1]
  <2>0. j \in 1..(Len(a) + Len(b)) /\ j \in Int
    BY <1>0, <1>1, <1>2
  <2>1. CASE j < i
    <3>1. j <= Len(a) /\ j \in 1..(i - 1)
      BY <1>0, <1>1, <2>0, <2>1
    <3> QED BY <1>1, <1>3, <2>0, <2>1, <3>1
  <2>2. CASE ~(j < i)
    <3>1. /\ ~(j <= Len(a))
          /\ j - Len(a) \in 1..(Len(s) - i)
          /\ i + (j - Len(a)) = j + 1
      BY <1>0, <1>1, <2>0, <2>2
    <3> QED BY <1>2, <1>3, <2>0, <2>2, <3>1
  <2> QED BY <2>1, <2>2
<1>5. Len(a) + Len(b) = Len(s) - 1
  BY <1>0, <1>1, <1>2
<1> QED BY <1>3, <1>4, <1>5 DEF RemoveAt, a, b

-----------------------------------------------------------------------------
\* The initial state.
LEMMA InitBase == BusAssumption /\ Init => Base
<1> SUFFICES ASSUME BusAssumption, Init PROVE Base
  OBVIOUS
<1>1. TypeOK
  BY DEF Init, TypeOK, BusAssumption
<1>2. QueueShape /\ DictShape /\ ListShape
  BY DEF Init, QueueShape, DictShape, ListShape, Busy, InEvent
<1>3. Accounted
  <2>1. Cardinality({}) = 0
    BY FS_EmptySet
  <2> QED BY <2>1 DEF Init, Accounted, InFlight, Busy
<1> QED BY <1>1, <1>2, <1>3 DEF Base

\* A set of events has a size, one more with a new event.
LEMMA AbortedIsFinite ==
    ASSUME NEW S \in SUBSET (1..MaxEvents), MaxEvents \in Nat
    PROVE  IsFiniteSet(S) /\ Cardinality(S) \in Nat
<1>1. IsFiniteSet(1..MaxEvents)
  BY FS_Interval
<1>2. IsFiniteSet(S)
  BY <1>1, FS_Subset
<1> QED BY <1>2, FS_CardinalityType

LEMMA AbortedSize ==
    ASSUME NEW S \in SUBSET (1..MaxEvents), NEW e \in 1..MaxEvents, MaxEvents \in Nat
    PROVE  e \notin S => Cardinality(S \cup {e}) = Cardinality(S) + 1
BY AbortedIsFinite, FS_AddElement

-----------------------------------------------------------------------------
(* TypeOK, one step per action. *)

LEMMA TypeStep == BusAssumption /\ Base /\ [Next]_vars => TypeOK'
<1> SUFFICES ASSUME BusAssumption, Base, [Next]_vars PROVE TypeOK'
  OBVIOUS
<1> USE DEF BusAssumption, dictVars, queueVars, iterVars, passVars, logVars
<1>0. TypeOK /\ QueueShape /\ DictShape /\ ListShape /\ Accounted
  BY DEF Base
<1>1. CASE Start
  BY <1>0, <1>1 DEF Start, TypeOK
<1>2. ASSUME NEW h \in Handlers, On(h) PROVE TypeOK'
  <2>1. keys' \in Seq(Types)
    BY <1>0, <1>2 DEF On, TypeOK
  <2>2. infos' \in [Types -> Seq(Handlers)]
    BY <1>0, <1>2 DEF On, TypeOK
  <2>3. fresh' \subseteq Handlers
    BY <1>0, <1>2 DEF On, TypeOK
  <2> QED BY <1>0, <1>2, <2>1, <2>2, <2>3 DEF On, TypeOK
<1>3. ASSUME NEW h \in Handlers, Off(h) PROVE TypeOK'
  <2>0. infos[TypeOf[h]] \in Seq(Handlers)
    BY <1>0 DEF TypeOK
  <2>1. PICK i \in 1..Len(infos[TypeOf[h]]) :
            infos' = [infos EXCEPT ![TypeOf[h]] = RemoveAt(@, i)]
    BY <2>0, <1>3 DEF Off
  <2>2. RemoveAt(infos[TypeOf[h]], i) \in Seq(Handlers)
    BY <2>0, RemoveAtProperties
  <2>3. infos' \in [Types -> Seq(Handlers)]
    BY <1>0, <2>1, <2>2 DEF TypeOK
  <2>4. MovedBelow(TypeOf[h]) \subseteq Handlers
    BY <2>0 DEF MovedBelow
  <2>5. shifted' \subseteq Handlers
    BY <1>0, <1>3, <2>4 DEF Off, TypeOK
  <2> QED BY <1>0, <1>3, <2>3, <2>5 DEF Off, TypeOK
<1>4. ASSUME NEW c \in Types, Emit(c) PROVE TypeOK'
  <2>1. [id |-> emitted + 1, class |-> c] \in [id : 1..MaxEvents, class : Types]
    BY <1>0, <1>4 DEF Emit, TypeOK
  <2>2. queue' \in Seq([id : 1..MaxEvents, class : Types])
    BY <1>0, <1>4, <2>1 DEF Emit, TypeOK
  <2>3. unfinished' \in Nat /\ emitted' \in 0..MaxEvents
    BY <1>0, <1>4 DEF Emit, TypeOK
  <2> QED BY <1>0, <1>4, <2>2, <2>3 DEF Emit, TypeOK
<1>5. CASE Take
  <2>1. /\ ev' \in [id : 0..MaxEvents, class : Types]
        /\ queue' \in Seq([id : 1..MaxEvents, class : Types])
    <3> DEFINE E == [id : 1..MaxEvents, class : Types]
    <3>1. queue \in Seq(E) /\ queue # <<>>
      BY <1>0, <1>5 DEF Take, CanTake, TypeOK
    <3> HIDE DEF E
    <3>2. Head(queue) \in E /\ Tail(queue) \in Seq(E)
      BY <3>1
    <3> QED BY <1>5, <3>2 DEF Take, E
  <2>2. dictSize' \in Nat /\ keyPos' \in 0..dictSize'
    BY <1>0, <1>5 DEF Take, TypeOK
  <2>3. due' \subseteq Handlers
    BY <1>5 DEF Take, Registered
  <2> QED BY <1>0, <1>5, <2>1, <2>2, <2>3 DEF Take, TypeOK
<1>6. CASE NextKey
  <2>1. keyPos' \in 0..dictSize' /\ loop' \in {"list", "keys"}
    BY <1>0, <1>6 DEF NextKey, TypeOK
  <2>2. /\ UNCHANGED <<dictVars, queueVars, ev, cur, dictSize, toRemove, stopper>>
        /\ UNCHANGED <<passVars, logVars>>
        /\ listPos' \in Nat \ {0}
    BY <1>6 DEF NextKey
  <2> QED BY <1>0, <2>1, <2>2 DEF TypeOK
<1>7. ASSUME Die, Busy, UNCHANGED <<dictVars, queueVars>>, stopper' \in {stopper, "no"}
      PROVE TypeOK'
  <2>1. ev.id \in 1..MaxEvents
    BY <1>0, <1>7 DEF TypeOK, QueueShape
  <2>2. ToSet(toRemove) \subseteq Once
    BY <1>0 DEF TypeOK, ToSet
  <2>3. toRemove' \in Seq(Once)
    BY <1>7 DEF Die
  <2> QED BY <1>0, <1>7, <2>1, <2>2, <2>3 DEF Die, TypeOK
<1>8. CASE DictChanged
  <2>1. Die /\ Busy /\ UNCHANGED <<dictVars, queueVars>> /\ stopper' = stopper
    BY <1>8 DEF DictChanged, Die, Busy
  <2> QED BY <1>7, <2>1
<1>9. CASE TaskDone
  <2>1. Busy /\ ev.id \in 1..MaxEvents /\ Len(queue) \in Nat
    BY <1>0, <1>9 DEF TypeOK, TaskDone, Busy, QueueShape
  <2>3. Cardinality(aborted) \in Nat
    BY <1>0, <2>1, AbortedIsFinite DEF TypeOK, BusAssumption
  <2>2. unfinished' \in Nat
    <3>1. unfinished = Len(queue) + 1 + Cardinality(aborted)
      BY <1>0, <2>1 DEF Accounted
    <3> QED BY <1>9, <2>1, <2>3, <3>1 DEF TaskDone
  <2> QED BY <1>0, <1>9, <2>1, <2>2 DEF TaskDone, TypeOK, Woken
<1>10. CASE NextCallback
  <2> DEFINE t == keys[keyPos]
             h == infos[t][listPos]
  <2>1. Busy /\ ev.id \in 1..MaxEvents /\ keyPos \in 1..Len(keys)
    BY <1>0, <1>10 DEF NextCallback, TypeOK, QueueShape, DictShape, Busy, InEvent
  <2>2. t \in Types /\ infos[t] \in Seq(Handlers) /\ listPos \in 1..Len(infos[t])
    BY <1>0, <1>10, <2>1, SMTT(30) DEF NextCallback, TypeOK
  <2>3. h \in Handlers
    BY <2>2
  <2>4. considered' = considered \cup {h} /\ listPos' \in Nat \ {0}
    BY <1>0, <1>10 DEF NextCallback, TypeOK
  <2>5. /\ loop' \in {"list", "call"}
        /\ cur' \in {cur, h}
        /\ calls' \in {calls, [calls EXCEPT ![h] = Append(@, ev.id)]}
    BY <1>10 DEF NextCallback
  <2> HIDE DEF h
  <2>6. calls' \in [Handlers -> Seq(1..MaxEvents)]
    <3>1. calls \in [Handlers -> Seq(1..MaxEvents)]
      BY <1>0 DEF TypeOK
    <3>2. Append(calls[h], ev.id) \in Seq(1..MaxEvents)
      BY <2>1, <2>3, <3>1
    <3> QED BY <2>3, <2>5, <3>1, <3>2
  <2> QED BY <1>0, <1>10, <2>3, <2>4, <2>5, <2>6 DEF NextCallback, TypeOK
<1>11. CASE ListDone
  BY <1>0, <1>11 DEF ListDone, TypeOK
<1>12. CASE RemoveOnce
  <2>0. keyPos \in 1..Len(keys)
    BY <1>0, <1>12 DEF RemoveOnce, TypeOK, DictShape, Busy, InEvent
  <2>1. keys[keyPos] \in Types
    BY <1>0, <2>0 DEF TypeOK
  <2>2. infos[keys[keyPos]] \in Seq(Handlers)
    BY <1>0, <2>1 DEF TypeOK
  <2>3. PICK i \in 1..Len(infos[keys[keyPos]]) :
            infos' = [infos EXCEPT ![keys[keyPos]] = RemoveAt(@, i)]
    BY <1>12, <2>2 DEF RemoveOnce
  <2>4. RemoveAt(infos[keys[keyPos]], i) \in Seq(Handlers)
    BY <2>2, RemoveAtProperties
  <2>5. infos' \in [Types -> Seq(Handlers)]
    BY <1>0, <2>3, <2>4 DEF TypeOK
  <2>6. toRemove' \in Seq(Once)
    BY <1>0, <1>12 DEF RemoveOnce, TypeOK
  <2> QED BY <1>0, <1>12, <2>5, <2>6 DEF RemoveOnce, TypeOK
<1>13. CASE RemoveMissing
  <2>1. Die /\ Busy /\ UNCHANGED <<dictVars, queueVars>> /\ stopper' = stopper
    BY <1>13 DEF RemoveMissing, Die, Busy
  <2> QED BY <1>7, <2>1
<1>14. CASE RemoveDone
  BY <1>0, <1>14 DEF RemoveDone, TypeOK
<1>15. CASE CallbackReturns
  BY <1>0, <1>15, SMTT(30) DEF CallbackReturns, TypeOK, Marked
<1>16. CASE CallbackRaises
  BY <1>0, <1>16 DEF CallbackRaises, TypeOK
<1>17. CASE StopCall
  BY <1>0, <1>17 DEF StopCall, TypeOK
<1>18. CASE StopCancel
  BY <1>0, <1>18 DEF StopCancel, TypeOK
<1>19. CASE CancelIdle
  BY <1>0, <1>19 DEF CancelIdle, TypeOK
<1>20. CASE CancelCallback
  <2>1. Die /\ Busy /\ UNCHANGED <<dictVars, queueVars>> /\ stopper' = "no"
    BY <1>20 DEF CancelCallback, Die, Busy
  <2> QED BY <1>7, <2>1
<1>21. CASE UNCHANGED vars
  BY <1>0, <1>21 DEF vars, TypeOK
<1> QED
  BY <1>1, <1>2, <1>3, <1>4, <1>5, <1>6, <1>8, <1>9, <1>10, <1>11, <1>12, <1>13, <1>14,
     <1>15, <1>16, <1>17, <1>18, <1>19, <1>20, <1>21 DEF Next, Loop, Callback, Stop

-----------------------------------------------------------------------------
(* QueueShape, DictShape: only a few actions touch the queue or the dict. *)

LEMMA QueueShapeStep == BusAssumption /\ Base /\ [Next]_vars => QueueShape'
<1> SUFFICES ASSUME BusAssumption, Base, [Next]_vars PROVE QueueShape'
  OBVIOUS
<1> USE DEF dictVars, queueVars, iterVars, passVars, logVars
<1>0. TypeOK /\ QueueShape
  BY DEF Base
<1> DEFINE E == [id : 1..MaxEvents, class : Types]
<1>1. queue \in Seq(E) /\ emitted \in Nat /\ ev.id \in Nat
  BY <1>0 DEF TypeOK, BusAssumption
<1>2. ASSUME NEW c \in Types, Emit(c) PROVE QueueShape'
  <2> DEFINE e == [id |-> emitted + 1, class |-> c]
  <2>1. e \in E /\ e.id = emitted + 1
    BY <1>0, <1>2 DEF Emit, TypeOK, BusAssumption
  <2>2. /\ queue' = Append(queue, e) /\ emitted' = emitted + 1
        /\ UNCHANGED <<ev, loop>>
    BY <1>2 DEF Emit
  <2> HIDE DEF e, E
  <2>3. /\ Len(queue') = Len(queue) + 1
        /\ \A i \in 1..Len(queue) : queue'[i] = queue[i]
        /\ queue'[Len(queue) + 1] = e
    BY <1>1, <2>1, <2>2
  <2>4. ev'.id + Len(queue') = emitted' /\ (Busy' => ev'.id >= 1)
    BY <1>0, <1>1, <2>2, <2>3 DEF QueueShape, Busy
  <2>5. ASSUME NEW i \in 1..Len(queue') PROVE queue'[i].id = ev'.id + i
    <3>1. CASE i = Len(queue) + 1
      <4>1. ev.id + Len(queue) = emitted /\ ev' = ev /\ queue'[i] = e
        BY <1>0, <2>2, <2>3, <3>1 DEF QueueShape
      <4>2. Len(queue) \in Nat
        BY <1>1
      <4> QED BY <1>1, <2>1, <3>1, <4>1, <4>2
    <3>2. CASE i \in 1..Len(queue)
      BY <1>0, <1>1, <2>2, <2>3, <3>2 DEF QueueShape
    <3> QED BY <1>1, <2>3, <3>1, <3>2
  <2> QED BY <2>4, <2>5 DEF QueueShape
<1>3. CASE Take
  <2>1. /\ queue # <<>> /\ queue' = Tail(queue) /\ ev' = Head(queue)
        /\ UNCHANGED emitted
    BY <1>3 DEF Take, CanTake
  <2> HIDE DEF E
  <2>2. /\ Len(queue) >= 1 /\ ev' = queue[1]
        /\ Len(queue') = Len(queue) - 1
        /\ \A i \in 1..Len(queue') : queue'[i] = queue[i + 1]
    BY <1>1, <2>1
  <2>3. ev'.id = ev.id + 1
    BY <1>0, <1>1, <2>2 DEF QueueShape
  <2>4. ASSUME NEW i \in 1..Len(queue') PROVE queue'[i].id = ev'.id + i
    <3>1. i \in Nat /\ i + 1 \in 1..Len(queue) /\ queue'[i] = queue[i + 1]
      BY <1>1, <2>2
    <3>2. queue[i + 1].id = ev.id + (i + 1)
      BY <1>0, <3>1 DEF QueueShape
    <3>3. queue'[i].id = ev.id + (i + 1)
      BY <3>1, <3>2
    <3>4. ev.id + (i + 1) = (ev.id + 1) + i
      <4>1. ev.id \in Nat /\ i \in Nat
        BY <1>1, <3>1
      <4> QED BY <4>1
    <3> QED BY <2>3, <3>3, <3>4
  <2> QED BY <1>0, <1>1, <2>1, <2>2, <2>3, <2>4 DEF QueueShape
<1>4. ASSUME UNCHANGED <<queue, emitted, ev>>, Busy' => Busy PROVE QueueShape'
  BY <1>0, <1>4 DEF QueueShape
<1>5. CASE Start \/ (\E h \in Handlers : On(h) \/ Off(h)) \/ UNCHANGED vars
  BY <1>4, <1>5 DEF Start, On, Off, vars, Busy
<1>6. CASE NextKey \/ DictChanged \/ TaskDone \/ NextCallback \/ ListDone
  BY <1>4, <1>6 DEF NextKey, DictChanged, Die, TaskDone, NextCallback, ListDone, Busy
<1>7. CASE RemoveOnce \/ RemoveMissing \/ RemoveDone \/ Callback
  BY <1>4, <1>7 DEF RemoveOnce, RemoveMissing, Die, RemoveDone, Callback, CallbackReturns,
     CallbackRaises, Busy
<1>8. CASE StopCall \/ Stop
  BY <1>4, <1>8 DEF StopCall, Stop, StopCancel, CancelIdle, CancelCallback, Die, Busy
<1> QED BY <1>2, <1>3, <1>5, <1>6, <1>7, <1>8 DEF Next, Loop

LEMMA DictShapeStep == BusAssumption /\ Base /\ [Next]_vars => DictShape'
<1> SUFFICES ASSUME BusAssumption, Base, [Next]_vars PROVE DictShape'
  OBVIOUS
<1> USE DEF dictVars, queueVars, iterVars, passVars, logVars
<1>0. TypeOK /\ DictShape
  BY DEF Base
<1>1. keys \in Seq(Types) /\ dictSize \in Nat /\ keyPos \in Nat
  BY <1>0 DEF TypeOK
<1>2. ASSUME NEW h \in Handlers, On(h) PROVE DictShape'
  <2>1. /\ TypeOf[h] \in Types /\ UNCHANGED <<loop, dictSize, keyPos, toRemove>>
        /\ keys' = IF \E i \in 1..Len(keys) : keys[i] = TypeOf[h]
                   THEN keys ELSE Append(keys, TypeOf[h])
    BY <1>2 DEF On, BusAssumption
  <2>2. CASE \E i \in 1..Len(keys) : keys[i] = TypeOf[h]
    BY <1>0, <2>1, <2>2 DEF DictShape, Busy, InEvent
  <2>3. CASE ~\E i \in 1..Len(keys) : keys[i] = TypeOf[h]
    <3>1. keys' = Append(keys, TypeOf[h])
      BY <2>1, <2>3
    <3>2. /\ Len(keys') = Len(keys) + 1
          /\ \A i \in 1..Len(keys) : keys'[i] = keys[i]
          /\ keys'[Len(keys) + 1] = TypeOf[h]
      BY <1>1, <2>1, <3>1
    <3>3. \A i, j \in 1..Len(keys') : keys'[i] = keys'[j] => i = j
      BY <1>0, <1>1, <2>3, <3>2 DEF DictShape
    <3> QED BY <1>0, <1>1, <2>1, <3>2, <3>3 DEF DictShape, Busy, InEvent
  <2> QED BY <2>2, <2>3
<1>3. CASE Take
  BY <1>0, <1>1, <1>3 DEF Take, DictShape, Busy, InEvent
<1>4. CASE NextKey
  BY <1>0, <1>1, <1>4 DEF NextKey, DictShape, Busy, InEvent
<1>5. ASSUME UNCHANGED <<keys, dictSize, keyPos>>, Busy' => Busy, InEvent' => InEvent,
             InEvent' \/ toRemove' = <<>>
      PROVE  DictShape'
  BY <1>0, <1>5 DEF DictShape
<1>6. CASE Start \/ (\E h \in Handlers : Off(h)) \/ (\E c \in Types : Emit(c)) \/ UNCHANGED vars
  <2>1. CASE Start
    BY <1>0, <1>5, <2>1 DEF Start, Started, Busy, InEvent, DictShape
  <2>3. CASE UNCHANGED vars
    BY <1>0, <1>5, <2>3 DEF vars, Busy, InEvent, DictShape
  <2>2. CASE (\E h \in Handlers : Off(h)) \/ (\E c \in Types : Emit(c))
    BY <1>0, <1>5, <2>2 DEF Off, Emit, Busy, InEvent, DictShape
  <2> QED BY <1>6, <2>1, <2>2, <2>3
<1>7. CASE DictChanged \/ TaskDone \/ NextCallback \/ ListDone
  BY <1>0, <1>5, <1>7 DEF DictChanged, Die, TaskDone, NextCallback, ListDone, Busy, InEvent,
     DictShape
<1>8. CASE RemoveOnce \/ RemoveMissing \/ RemoveDone \/ Callback
  BY <1>0, <1>5, <1>8 DEF RemoveOnce, RemoveMissing, Die, RemoveDone, Callback,
     CallbackReturns, CallbackRaises, Busy, InEvent, DictShape
<1>9. CASE StopCall \/ Stop
  BY <1>0, <1>5, <1>9 DEF StopCall, Stop, StopCancel, CancelIdle, CancelCallback, Die, Busy,
     InEvent, DictShape
<1> QED BY <1>2, <1>3, <1>4, <1>6, <1>7, <1>8, <1>9 DEF Next, Loop

-----------------------------------------------------------------------------
(* ListShape: what removals and registrations preserve. *)

\* Removing one element of one list keeps every list well formed.
LEMMA RemovalKeepsListShape ==
    ASSUME TypeOK, ListShape, NEW t \in Types, NEW i \in 1..Len(infos[t]),
           infos' = [infos EXCEPT ![t] = RemoveAt(@, i)],
           UNCHANGED <<keys, fresh>>
    PROVE  ListShape'
<1> DEFINE s == infos[t]
<1>1. s \in Seq(Handlers) /\ infos \in [Types -> Seq(Handlers)]
  BY DEF TypeOK
<1>2. infos' = [infos EXCEPT ![t] = RemoveAt(s, i)]
  OBVIOUS
<1>3. /\ Len(s) \in Nat /\ i \in 1..Len(s)
      /\ Len(RemoveAt(s, i)) = Len(s) - 1
      /\ \A j \in 1..(Len(s) - 1) : RemoveAt(s, i)[j] = IF j < i THEN s[j] ELSE s[j + 1]
  BY <1>1, RemoveAtProperties, SMTT(30)
<1>4. /\ \A j \in 1..Len(s) : /\ TypeOf[s[j]] = t
                              /\ s[j] \notin fresh
                              /\ \E k \in 1..Len(keys) : keys[k] = t
      /\ \A j, k \in 1..Len(s) : s[j] = s[k] => j = k
  BY DEF ListShape
<1> HIDE DEF s
<1>5. ASSUME NEW u \in Types, u # t
      PROVE  infos'[u] = infos[u]
  BY <1>1, <1>2, <1>5
<1>6. infos'[t] = RemoveAt(s, i)
  BY <1>1, <1>2
<1>7. ASSUME NEW j \in 1..Len(infos'[t])
      PROVE  \E k \in 1..Len(s) : infos'[t][j] = s[k] /\ k = IF j < i THEN j ELSE j + 1
  BY <1>3, <1>6
<1>8. \A j \in 1..Len(infos'[t]) : /\ TypeOf[infos'[t][j]] = t
                                   /\ infos'[t][j] \notin fresh
                                   /\ \E k \in 1..Len(keys) : keys[k] = t
  BY <1>4, <1>7
<1>9. ASSUME NEW j \in 1..Len(infos'[t]), NEW k \in 1..Len(infos'[t]),
             infos'[t][j] = infos'[t][k]
      PROVE  j = k
  <2>1. PICK a \in 1..Len(s) : infos'[t][j] = s[a] /\ a = IF j < i THEN j ELSE j + 1
    BY <1>7
  <2>2. PICK b \in 1..Len(s) : infos'[t][k] = s[b] /\ b = IF k < i THEN k ELSE k + 1
    BY <1>7
  <2>3. a = b
    BY <1>4, <1>9, <2>1, <2>2
  <2> QED BY <1>3, <1>6, <2>1, <2>2, <2>3
<1> QED BY <1>5, <1>8, <1>9 DEF ListShape

LEMMA ListShapeStep == BusAssumption /\ Base /\ [Next]_vars => ListShape'
<1> SUFFICES ASSUME BusAssumption, Base, [Next]_vars PROVE ListShape'
  OBVIOUS
<1> USE DEF dictVars, queueVars, iterVars, passVars, logVars
<1>0. TypeOK /\ DictShape /\ ListShape
  BY DEF Base
<1>1. ASSUME NEW h \in Handlers, On(h) PROVE ListShape'
  <2> DEFINE t == TypeOf[h]
  <2>1. /\ t \in Types /\ h \in fresh /\ fresh' = fresh \ {h}
        /\ keys' = IF \E i \in 1..Len(keys) : keys[i] = t THEN keys ELSE Append(keys, t)
        /\ infos' = [infos EXCEPT ![t] = Append(@, h)]
    BY <1>1 DEF On, BusAssumption
  <2>2. keys \in Seq(Types) /\ infos \in [Types -> Seq(Handlers)]
    BY <1>0 DEF TypeOK
  <2>3. \A k \in 1..Len(keys) : k \in 1..Len(keys') /\ keys'[k] = keys[k]
    BY <2>1, <2>2
  <2>4. \E k \in 1..Len(keys') : keys'[k] = t
    <3>1. CASE \E i \in 1..Len(keys) : keys[i] = t
      BY <2>1, <3>1
    <3>2. CASE ~\E i \in 1..Len(keys) : keys[i] = t
      <4>1. keys' = Append(keys, t)
        BY <2>1, <3>2
      <4>2. Len(keys') = Len(keys) + 1 /\ keys'[Len(keys) + 1] = t /\ Len(keys) \in Nat
        BY <2>1, <2>2, <4>1
      <4>3. Len(keys) + 1 \in 1..Len(keys')
        BY <4>2
      <4> QED BY <4>2, <4>3
    <3> QED BY <3>1, <3>2
  <2>5. ASSUME NEW u \in Types, u # t PROVE infos'[u] = infos[u]
    BY <2>1, <2>2, <2>5
  <2>6. infos'[t] = Append(infos[t], h)
    BY <2>1, <2>2
  <2>7. /\ Len(infos'[t]) = Len(infos[t]) + 1 /\ Len(infos[t]) \in Nat
        /\ \A i \in 1..Len(infos[t]) : infos'[t][i] = infos[t][i]
        /\ infos'[t][Len(infos[t]) + 1] = h
    BY <2>1, <2>2, <2>6
  <2> HIDE DEF t
  <2>8. \A i \in 1..Len(infos[t]) : TypeOf[infos[t][i]] = t /\ infos[t][i] \notin fresh
    BY <1>0, <2>1 DEF ListShape
  <2>9. \A i, j \in 1..Len(infos[t]) : infos[t][i] = infos[t][j] => i = j
    BY <1>0, <2>1 DEF ListShape
  <2>10. TypeOf[h] = t
    BY DEF t
  <2>11. ASSUME NEW i \in 1..Len(infos'[t])
         PROVE  TypeOf[infos'[t][i]] = t /\ infos'[t][i] \notin fresh'
    <3>1. CASE i = Len(infos[t]) + 1
      BY <2>1, <2>7, <2>10, <3>1
    <3>2. CASE i \in 1..Len(infos[t])
      BY <2>1, <2>7, <2>8, <3>2
    <3> QED BY <2>7, <3>1, <3>2
  <2>12. \A i, j \in 1..Len(infos'[t]) : infos'[t][i] = infos'[t][j] => i = j
    BY <2>1, <2>7, <2>8, <2>9
  <2>13. ASSUME NEW u \in Types, u # t
         PROVE  /\ \A i \in 1..Len(infos'[u]) :
                    /\ TypeOf[infos'[u][i]] = u
                    /\ infos'[u][i] \notin fresh'
                    /\ \E k \in 1..Len(keys') : keys'[k] = u
                /\ \A i, j \in 1..Len(infos'[u]) : infos'[u][i] = infos'[u][j] => i = j
    BY <1>0, <2>1, <2>3, <2>5, <2>13 DEF ListShape
  <2> QED BY <2>4, <2>11, <2>12, <2>13 DEF ListShape
<1>2. ASSUME NEW h \in Handlers, Off(h) PROVE ListShape'
  <2>1. PICK i \in 1..Len(infos[TypeOf[h]]) :
            infos' = [infos EXCEPT ![TypeOf[h]] = RemoveAt(@, i)]
    BY <1>2 DEF Off
  <2>2. TypeOf[h] \in Types /\ UNCHANGED <<keys, fresh>>
    BY <1>2 DEF Off, BusAssumption
  <2> QED BY <1>0, <2>1, <2>2, RemovalKeepsListShape
<1>3. CASE RemoveOnce
  <2>1. keyPos \in 1..Len(keys)
    BY <1>0, <1>3 DEF RemoveOnce, TypeOK, DictShape, Busy, InEvent
  <2>2. keys[keyPos] \in Types /\ UNCHANGED <<keys, fresh>>
    BY <1>0, <1>3, <2>1 DEF RemoveOnce, TypeOK
  <2>3. PICK i \in 1..Len(infos[keys[keyPos]]) :
            infos' = [infos EXCEPT ![keys[keyPos]] = RemoveAt(@, i)]
    BY <1>3 DEF RemoveOnce
  <2> QED BY <1>0, <2>2, <2>3, RemovalKeepsListShape
<1>4. ASSUME UNCHANGED dictVars PROVE ListShape'
  BY <1>0, <1>4 DEF ListShape
<1>5. CASE Start \/ (\E c \in Types : Emit(c)) \/ UNCHANGED vars
  BY <1>4, <1>5 DEF Start, Emit, vars
<1>6. CASE Take \/ NextKey \/ DictChanged \/ TaskDone \/ NextCallback \/ ListDone
  BY <1>4, <1>6 DEF Take, NextKey, DictChanged, Die, TaskDone, NextCallback, ListDone
<1>7. CASE RemoveMissing \/ RemoveDone \/ Callback
  BY <1>4, <1>7 DEF RemoveMissing, Die, RemoveDone, Callback, CallbackReturns, CallbackRaises
<1>8. CASE StopCall \/ Stop
  BY <1>4, <1>8 DEF StopCall, Stop, StopCancel, CancelIdle, CancelCallback, Die
<1> QED BY <1>1, <1>2, <1>3, <1>5, <1>6, <1>7, <1>8 DEF Next, Loop

-----------------------------------------------------------------------------
(* Accounted: where the events are. *)

LEMMA AccountedStep == BusAssumption /\ Base /\ [Next]_vars => Accounted'
<1> SUFFICES ASSUME BusAssumption, Base, [Next]_vars PROVE Accounted'
  OBVIOUS
<1> USE DEF dictVars, queueVars, iterVars, passVars, logVars
<1>0. TypeOK /\ QueueShape /\ Accounted
  BY DEF Base
<1>1. /\ queue \in Seq([id : 1..MaxEvents, class : Types])
      /\ ev.id \in 0..MaxEvents /\ MaxEvents \in Nat
      /\ Len(queue) \in Nat /\ unfinished \in Nat
      /\ aborted \in SUBSET (1..MaxEvents)
  BY <1>0 DEF TypeOK, BusAssumption
<1>2. ASSUME NEW c \in Types, Emit(c) PROVE Accounted'
  <2>1. /\ Len(queue') = Len(queue) + 1 /\ unfinished' = unfinished + 1
        /\ UNCHANGED <<ev, loop, processed, aborted>>
    BY <1>1, <1>2 DEF Emit
  <2>2. InFlight' = InFlight /\ Busy' = Busy
    BY <2>1 DEF InFlight, Busy
  <2>3. Cardinality(aborted) \in Nat
    BY <1>1, AbortedIsFinite
  <2>4. unfinished' = Len(queue') + (IF Busy' THEN 1 ELSE 0) + Cardinality(aborted')
    <3>1. CASE Busy
      <4>1. unfinished = Len(queue) + 1 + Cardinality(aborted)
        BY <1>0, <3>1 DEF Accounted
      <4>2. unfinished' = Len(queue') + 1 + Cardinality(aborted')
        BY <1>1, <2>1, <2>3, <4>1
      <4> QED BY <2>2, <3>1, <4>2
    <3>2. CASE ~Busy
      <4>1. unfinished = Len(queue) + 0 + Cardinality(aborted)
        BY <1>0, <3>2 DEF Accounted
      <4>2. unfinished' = Len(queue') + 0 + Cardinality(aborted')
        BY <1>1, <2>1, <2>3, <4>1
      <4> QED BY <2>2, <3>2, <4>2
    <3> QED BY <3>1, <3>2
  <2> QED BY <1>0, <2>1, <2>2, <2>4 DEF Accounted
<1>3. CASE Take
  <2>1. /\ queue # <<>> /\ ~Busy /\ Busy' /\ ev' = queue[1]
        /\ Len(queue') = Len(queue) - 1
        /\ UNCHANGED <<unfinished, processed, aborted>>
    BY <1>1, <1>3 DEF Take, CanTake, Busy
  <2>2. ev'.id = ev.id + 1
    BY <1>0, <1>1, <2>1 DEF QueueShape
  <2>3. InFlight = {} /\ InFlight' = {ev.id + 1}
    BY <2>1, <2>2 DEF InFlight
  <2>4. 1..(ev.id + 1) = (1..ev.id) \cup {ev.id + 1} /\ ev.id + 1 \notin 1..ev.id
    BY <1>1
  <2>5. Cardinality(aborted) \in Nat
    BY <1>1, AbortedIsFinite
  <2>6. unfinished' = Len(queue') + 1 + Cardinality(aborted')
    BY <1>0, <1>1, <2>1, <2>5 DEF Accounted
  <2> QED BY <1>0, <2>1, <2>2, <2>3, <2>4, <2>6 DEF Accounted
<1>4. ASSUME Busy, ~Busy', UNCHANGED <<ev, queue, unfinished, processed>>,
             aborted' = aborted \cup {ev.id}
      PROVE  Accounted'
  <2>1. InFlight = {ev.id} /\ InFlight' = {}
    BY <1>4 DEF InFlight
  <2>2. ev.id \in 1..MaxEvents /\ ev.id \notin aborted
    BY <1>0, <1>1, <1>4, <2>1 DEF Accounted, QueueShape
  <2>3. Cardinality(aborted) \in Nat /\ Cardinality(aborted') = Cardinality(aborted) + 1
    BY <1>1, <1>4, <2>2, AbortedSize, AbortedIsFinite
  <2>4. unfinished' = Len(queue') + 0 + Cardinality(aborted')
    BY <1>0, <1>1, <1>4, <2>3 DEF Accounted
  <2> QED BY <1>0, <1>4, <2>1, <2>4 DEF Accounted
<1>5. CASE DictChanged \/ RemoveMissing \/ CancelCallback
  BY <1>4, <1>5 DEF DictChanged, RemoveMissing, CancelCallback, Die, Busy
<1>6. CASE TaskDone
  <2>1. /\ Busy /\ ~Busy' /\ UNCHANGED <<ev, queue, aborted>>
        /\ unfinished' = unfinished - 1 /\ processed' = processed \cup {ev.id}
    BY <1>6 DEF TaskDone, Busy
  <2>2. InFlight = {ev.id} /\ InFlight' = {}
    BY <2>1 DEF InFlight
  <2>3. Cardinality(aborted) \in Nat
    BY <1>1, AbortedIsFinite
  <2>4. unfinished' = Len(queue') + 0 + Cardinality(aborted')
    BY <1>0, <1>1, <2>1, <2>3 DEF Accounted
  <2> QED BY <1>0, <2>1, <2>2, <2>4 DEF Accounted
<1>7. ASSUME UNCHANGED <<ev, queue, unfinished, processed, aborted>>, Busy' = Busy
      PROVE  Accounted'
  BY <1>0, <1>7 DEF Accounted, InFlight
<1>8. CASE Start \/ (\E h \in Handlers : On(h) \/ Off(h)) \/ UNCHANGED vars
  BY <1>7, <1>8 DEF Start, Started, On, Off, vars, Busy
<1>9. CASE NextKey \/ NextCallback \/ ListDone
  BY <1>7, <1>9 DEF NextKey, NextCallback, ListDone, Busy
<1>10. CASE RemoveOnce \/ RemoveDone \/ Callback
  BY <1>7, <1>10 DEF RemoveOnce, RemoveDone, Callback, CallbackReturns, CallbackRaises, Busy
<1>11. CASE StopCall \/ StopCancel \/ CancelIdle
  BY <1>7, <1>11 DEF StopCall, StopCancel, CancelIdle, Busy
<1> QED
  BY <1>2, <1>3, <1>5, <1>6, <1>8, <1>9, <1>10, <1>11 DEF Next, Loop, Stop

\* The first layer of the invariant holds in every reachable state.
THEOREM BaseInvariant == Spec => []Base
<1>1. Init => Base
  BY InitBase, BusAssumption
<1>2. Base /\ [Next]_vars => Base'
  BY BusAssumption, TypeStep, QueueShapeStep, DictShapeStep, ListShapeStep, AccountedStep
     DEF Base
<1> QED BY <1>1, <1>2, PTL DEF Spec

-----------------------------------------------------------------------------
(***************************************************************************)
(* The second layer: the pass over the dict for the current event.         *)
(***************************************************************************)

\* The iterations are past h: its key was returned and, while its list is
\* iterated over, every place of h in it is below the iterator.
PassedBy(h) ==
    \E k \in 1..keyPos :
        /\ keys[k] = TypeOf[h]
        /\ k = keyPos /\ loop \in {"list", "call"} =>
            \A i \in 1..Len(infos[TypeOf[h]]) : infos[TypeOf[h]][i] = h => i < listPos

\* h is called for increasing events, the current one only if passed by.
CallsOrdered ==
    \A h \in Handlers :
        /\ \A i, j \in 1..Len(calls[h]) : i < j => calls[h][i] < calls[h][j]
        /\ \A i \in 1..Len(calls[h]) :
            /\ h \notin fresh
            /\ calls[h][i] <= ev.id
            /\ Busy /\ calls[h][i] = ev.id => PassedBy(h)

\* A due handler passed by was considered or shifted.
DueReached ==
    Busy => \A h \in due :
        /\ h \notin fresh
        /\ TypeOf[h] \in Super[ev.class]
        /\ InList(h) /\ PassedBy(h) => h \in considered \cup shifted

\* The callback awaited, and those that wait to be removed, were passed by in
\* the current list.
Pending(h) == h \notin fresh /\ TypeOf[h] = keys[keyPos] /\ PassedBy(h)

OncePending ==
    /\ loop = "call" => Pending(cur)
    /\ \A j \in 1..Len(toRemove) : Pending(toRemove[j])
    /\ \A h \in returned \ orphaned :
        /\ h \notin fresh
        /\ InList(h) => \E j \in 1..Len(toRemove) : toRemove[j] = h

Pass == CallsOrdered /\ DueReached /\ OncePending /\ OnceReturnsOnce

LEMMA InitPass == BusAssumption /\ Init => Pass
BY DEF BusAssumption, Init, Pass, CallsOrdered, DueReached, OncePending, OnceReturnsOnce, Busy

\* Where the elements of a list come from after a removal.
LEMMA AfterRemoval ==
    ASSUME TypeOK, NEW t \in Types, NEW i \in 1..Len(infos[t]),
           infos' = [infos EXCEPT ![t] = RemoveAt(@, i)]
    PROVE  /\ Len(infos[t]) \in Nat
           /\ Len(infos'[t]) = Len(infos[t]) - 1
           /\ \A j \in 1..Len(infos'[t]) :
                infos'[t][j] = IF j < i THEN infos[t][j] ELSE infos[t][j + 1]
           /\ \A u \in Types : u # t => infos'[u] = infos[u]
<1>1. infos[t] \in Seq(Handlers) /\ infos \in [Types -> Seq(Handlers)]
  BY DEF TypeOK
<1>2. infos'[t] = RemoveAt(infos[t], i)
  BY <1>1
<1>3. \A u \in Types : u # t => infos'[u] = infos[u]
  BY <1>1
<1>4. Len(infos[t]) \in Nat
  BY <1>1
<1>5. /\ Len(RemoveAt(infos[t], i)) = Len(infos[t]) - 1
      /\ \A j \in 1..(Len(infos[t]) - 1) :
            RemoveAt(infos[t], i)[j] = IF j < i THEN infos[t][j] ELSE infos[t][j + 1]
  BY <1>1, RemoveAtProperties
<1> QED BY <1>2, <1>3, <1>4, <1>5

\* No step puts a handler into a list a second time.
LEMMA ListsOnlyShrink ==
    ASSUME BusAssumption, Base, [Next]_vars, NEW g \in Handlers, g \notin fresh, InList(g)'
    PROVE  InList(g)
<1> USE DEF dictVars, queueVars, iterVars, passVars, logVars
<1>0. TypeOK /\ DictShape /\ TypeOf[g] \in Types /\ infos \in [Types -> Seq(Handlers)]
  BY DEF Base, TypeOK, BusAssumption
<1>1. ASSUME NEW t \in Types, NEW i \in 1..Len(infos[t]),
             infos' = [infos EXCEPT ![t] = RemoveAt(@, i)]
      PROVE  InList(g)
  <2>1. PICK j \in 1..Len(infos'[TypeOf[g]]) : infos'[TypeOf[g]][j] = g
    BY DEF InList
  <2>2. CASE TypeOf[g] = t
    <3> DEFINE k == IF j < i THEN j ELSE j + 1
    <3>0. /\ Len(infos[t]) \in Nat /\ i \in 1..Len(infos[t])
          /\ Len(infos'[t]) = Len(infos[t]) - 1
          /\ \A m \in 1..Len(infos'[t]) :
                infos'[t][m] = IF m < i THEN infos[t][m] ELSE infos[t][m + 1]
      BY <1>0, <1>1, AfterRemoval
    <3>1. k \in 1..Len(infos[t]) /\ infos'[t][j] = infos[t][k]
      BY <2>1, <2>2, <3>0
    <3> QED BY <2>1, <2>2, <3>1 DEF InList
  <2>3. CASE TypeOf[g] # t
    BY <1>0, <1>1, <2>1, <2>3, AfterRemoval DEF InList
  <2> QED BY <2>2, <2>3
<1>2. ASSUME NEW h \in Handlers, On(h) PROVE InList(g)
  <2>1. h # g /\ infos' = [infos EXCEPT ![TypeOf[h]] = Append(@, h)] /\ TypeOf[h] \in Types
    BY <1>2 DEF On, BusAssumption
  <2>2. PICK j \in 1..Len(infos'[TypeOf[g]]) : infos'[TypeOf[g]][j] = g
    BY DEF InList
  <2>3. CASE TypeOf[g] = TypeOf[h]
    <3>1. infos'[TypeOf[g]] = Append(infos[TypeOf[g]], h) /\ infos[TypeOf[g]] \in Seq(Handlers)
      BY <1>0, <2>1, <2>3
    <3>2. j \in 1..Len(infos[TypeOf[g]]) /\ infos[TypeOf[g]][j] = g
      BY <2>1, <2>2, <3>1
    <3> QED BY <3>2 DEF InList
  <2>4. CASE TypeOf[g] # TypeOf[h]
    BY <1>0, <2>1, <2>2, <2>4 DEF InList
  <2> QED BY <2>3, <2>4
<1>3. ASSUME NEW h \in Handlers, Off(h) PROVE InList(g)
  BY <1>1, <1>3 DEF Off, BusAssumption
<1>4. CASE RemoveOnce
  <2>1. keyPos \in 1..Len(keys)
    BY <1>0, <1>4 DEF RemoveOnce, TypeOK, DictShape, Busy, InEvent
  <2>2. keys[keyPos] \in Types
    BY <1>0, <2>1 DEF TypeOK
  <2> QED BY <1>1, <1>4, <2>2 DEF RemoveOnce
<1>5. ASSUME infos' = infos PROVE InList(g)
  BY <1>5 DEF InList
<1>6. CASE Start \/ (\E c \in Types : Emit(c)) \/ UNCHANGED vars
  BY <1>5, <1>6 DEF Start, Emit, vars
<1>7. CASE Take \/ NextKey \/ DictChanged \/ TaskDone \/ NextCallback \/ ListDone
  BY <1>5, <1>7 DEF Take, NextKey, DictChanged, Die, TaskDone, NextCallback, ListDone
<1>8. CASE RemoveMissing \/ RemoveDone \/ Callback
  BY <1>5, <1>8 DEF RemoveMissing, Die, RemoveDone, Callback, CallbackReturns, CallbackRaises
<1>9. CASE StopCall \/ Stop
  BY <1>5, <1>9 DEF StopCall, Stop, StopCancel, CancelIdle, CancelCallback, Die
<1> QED BY <1>2, <1>3, <1>4, <1>6, <1>7, <1>8, <1>9 DEF Next, Loop

\* The keys the iteration has returned are keys of the dict, also after a
\* registration.
LEMMA KeysInside ==
    ASSUME TypeOK, DictShape, Busy
    PROVE  \A i \in 1..keyPos :
            /\ i \in 1..Len(keys)
            /\ \A t \in Types : Append(keys, t)[i] = keys[i]
<1>1. keys \in Seq(Types) /\ dictSize \in Nat /\ keyPos \in Nat /\ keyPos <= dictSize
  BY DEF TypeOK
<1>2. dictSize <= Len(keys)
  BY DEF DictShape
<1>3. \A i \in 1..keyPos : i \in 1..Len(keys)
  BY <1>1, <1>2
<1> QED BY <1>1, <1>3

\* Inside the processing of one event, a handler that was passed by stays so.
LEMMA PassedByStays ==
    ASSUME BusAssumption, Base, [Next]_vars, Busy, Busy',
           NEW g \in Handlers, g \notin fresh, PassedBy(g)
    PROVE  PassedBy(g)'
<1> USE DEF dictVars, queueVars, iterVars, passVars, logVars
<1> DEFINE t == TypeOf[g]
           Below(l, p) == \A i \in 1..Len(l) : l[i] = g => i < p
<1>0. /\ TypeOK /\ t \in Types
      /\ infos \in [Types -> Seq(Handlers)] /\ keys \in Seq(Types)
      /\ keyPos \in Nat /\ listPos \in Nat
      /\ \A i \in 1..keyPos : i \in 1..Len(keys)
  <2>1. TypeOK /\ DictShape
    BY DEF Base
  <2>2. \A i \in 1..keyPos : i \in 1..Len(keys)
    BY <2>1, KeysInside
  <2> QED BY <2>1, <2>2, SMTT(30) DEF TypeOK, BusAssumption
<1>1. PICK k \in 1..keyPos :
        keys[k] = t /\ (k = keyPos /\ loop \in {"list", "call"} => Below(infos[t], listPos))
  BY DEF PassedBy
<1>2. ASSUME keyPos' = keyPos, keys'[k] = keys[k],
             loop' \in {"list", "call"} => loop \in {"list", "call"},
             k = keyPos /\ loop' \in {"list", "call"} /\ Below(infos[t], listPos)
                => Below(infos'[t], listPos')
      PROVE  PassedBy(g)'
  BY <1>1, <1>2 DEF PassedBy
<1>3. ASSUME UNCHANGED <<keys, infos, keyPos, loop, listPos>> PROVE PassedBy(g)'
  BY <1>2, <1>3
<1>4. CASE Start \/ Take \/ DictChanged \/ TaskDone \/ RemoveMissing \/ CancelIdle \/ CancelCallback
  BY <1>4 DEF Start, Started, Take, DictChanged, TaskDone, RemoveMissing, CancelIdle,
     CancelCallback, Die, Busy
<1>5. CASE (\E c \in Types : Emit(c)) \/ StopCall \/ StopCancel \/ UNCHANGED vars
  BY <1>3, <1>5 DEF Emit, StopCall, StopCancel, vars
<1>6. ASSUME NEW h \in Handlers, On(h) PROVE PassedBy(g)'
  <2>1. /\ h # g /\ infos' = [infos EXCEPT ![TypeOf[h]] = Append(@, h)] /\ TypeOf[h] \in Types
        /\ keys' \in {keys, Append(keys, TypeOf[h])}
        /\ UNCHANGED <<keyPos, loop, listPos>>
    BY <1>6 DEF On, BusAssumption
  <2>2. keys'[k] = keys[k]
    BY <1>1, <2>1, KeysInside DEF Base
  <2>3. CASE t # TypeOf[h]
    BY <1>0, <1>2, <2>1, <2>2, <2>3
  <2>4. CASE t = TypeOf[h]
    <3>1. infos'[t] = Append(infos[t], h) /\ infos[t] \in Seq(Handlers)
      BY <1>0, <2>1, <2>4
    <3>2. /\ Len(infos'[t]) = Len(infos[t]) + 1
          /\ \A i \in 1..Len(infos[t]) : infos'[t][i] = infos[t][i]
          /\ infos'[t][Len(infos[t]) + 1] = h
      BY <3>1
    <3>3. Below(infos[t], listPos) => Below(infos'[t], listPos')
      BY <2>1, <3>1, <3>2
    <3> QED BY <1>2, <2>1, <2>2, <3>3
  <2> QED BY <2>3, <2>4
<1>7. ASSUME NEW u \in Types, NEW i \in 1..Len(infos[u]),
             infos' = [infos EXCEPT ![u] = RemoveAt(@, i)]
      PROVE  Below(infos[t], listPos) => Below(infos'[t], listPos)
  <2>1. CASE u # t
    BY <1>0, <1>7, <2>1, AfterRemoval
  <2>2. CASE u = t
    <3>1. /\ Len(infos[t]) \in Nat /\ i \in 1..Len(infos[t])
          /\ Len(infos'[t]) = Len(infos[t]) - 1
          /\ \A j \in 1..Len(infos'[t]) :
                infos'[t][j] = IF j < i THEN infos[t][j] ELSE infos[t][j + 1]
      BY <1>0, <1>7, <2>2, AfterRemoval
    <3> SUFFICES ASSUME Below(infos[t], listPos), NEW j \in 1..Len(infos'[t]), infos'[t][j] = g
                 PROVE  j < listPos
      OBVIOUS
    <3>2. CASE j < i
      <4>1. infos[t][j] = g /\ j \in 1..Len(infos[t])
        BY <3>1, <3>2
      <4> QED BY <4>1
    <3>3. CASE ~(j < i)
      <4>1. infos[t][j + 1] = g /\ j + 1 \in 1..Len(infos[t])
        BY <3>1, <3>3
      <4> QED BY <1>0, <4>1
    <3> QED BY <3>2, <3>3
  <2> QED BY <2>1, <2>2
<1>8. ASSUME NEW h \in Handlers, Off(h) PROVE PassedBy(g)'
  <2>1. UNCHANGED <<keys, keyPos, loop, listPos>>
    BY <1>8 DEF Off
  <2>2. Below(infos[t], listPos) => Below(infos'[t], listPos)
    BY <1>7, <1>8 DEF Off, BusAssumption
  <2> QED BY <1>2, <2>1, <2>2
<1>9. CASE NextKey
  <2>1. /\ UNCHANGED <<keys, infos>> /\ keyPos' = keyPos + 1
    BY <1>9 DEF NextKey
  <2>2. k \in 1..keyPos' /\ k # keyPos'
    BY <1>0, <2>1
  <2> QED BY <1>1, <2>1, <2>2 DEF PassedBy
<1>10. CASE NextCallback
  <2>1. /\ UNCHANGED <<keys, infos, keyPos>> /\ listPos' = listPos + 1 /\ loop = "list"
    BY <1>10 DEF NextCallback
  <2>2. Below(infos[t], listPos) => Below(infos[t], listPos + 1)
    BY <1>0
  <2> QED BY <1>2, <2>1, <2>2
<1>11. CASE ListDone
  BY <1>2, <1>11 DEF ListDone
<1>12. CASE RemoveOnce
  BY <1>2, <1>12 DEF RemoveOnce
<1>13. CASE RemoveDone
  BY <1>2, <1>13 DEF RemoveDone
<1>14. CASE Callback
  <2>1. UNCHANGED <<keys, infos, keyPos, listPos>> /\ loop = "call"
    BY <1>14 DEF Callback, CallbackReturns, CallbackRaises
  <2> QED BY <1>2, <2>1
<1> QED
  BY <1>4, <1>5, <1>6, <1>8, <1>9, <1>10, <1>11, <1>12, <1>13, <1>14 DEF Next, Loop, Stop

\* Whom a step adds to the registered handlers passed by: only one that it
\* considers or shifts, and a handler of another type than the event's.
LEMMA PassedByGained ==
    ASSUME BusAssumption, Base, [Next]_vars, Busy, Busy',
           NEW g \in Handlers, g \notin fresh, TypeOf[g] \in Super[ev.class],
           InList(g)', PassedBy(g)'
    PROVE  PassedBy(g) \/ g \in considered' \cup shifted'
<1> USE DEF dictVars, queueVars, iterVars, passVars, logVars
<1> DEFINE t == TypeOf[g]
           Below(l, p) == \A i \in 1..Len(l) : l[i] = g => i < p
<1>0. /\ TypeOK /\ t \in Types
      /\ infos \in [Types -> Seq(Handlers)] /\ keys \in Seq(Types)
      /\ keyPos \in Nat /\ listPos \in Nat \ {0}
      /\ \A i \in 1..keyPos : i \in 1..Len(keys)
  <2>1. TypeOK /\ DictShape
    BY DEF Base
  <2>2. \A i \in 1..keyPos : i \in 1..Len(keys)
    BY <2>1, KeysInside
  <2> QED BY <2>1, <2>2, SMTT(30) DEF TypeOK, BusAssumption
<1>1. PICK k \in 1..keyPos' :
        keys'[k] = t /\ (k = keyPos' /\ loop' \in {"list", "call"} => Below(infos'[t], listPos'))
  BY DEF PassedBy
<1>2. ASSUME keyPos' = keyPos, keys'[k] = keys[k],
             loop \in {"list", "call"} => loop' \in {"list", "call"},
             k = keyPos /\ loop \in {"list", "call"} /\ Below(infos'[t], listPos')
                => Below(infos[t], listPos)
      PROVE  PassedBy(g)
  BY <1>1, <1>2 DEF PassedBy
<1>3. ASSUME UNCHANGED <<keys, infos, keyPos, loop, listPos>> PROVE PassedBy(g)
  BY <1>2, <1>3
<1>4. ~(Start \/ Take \/ DictChanged \/ TaskDone \/ RemoveMissing \/ CancelIdle \/ CancelCallback)
  BY DEF Start, Started, Take, DictChanged, TaskDone, RemoveMissing, CancelIdle,
     CancelCallback, Die, Busy
<1>5. CASE (\E c \in Types : Emit(c)) \/ StopCall \/ StopCancel \/ UNCHANGED vars
  BY <1>3, <1>5 DEF Emit, StopCall, StopCancel, vars
<1>6. ASSUME NEW h \in Handlers, On(h) PROVE PassedBy(g)
  <2>1. /\ h # g /\ infos' = [infos EXCEPT ![TypeOf[h]] = Append(@, h)] /\ TypeOf[h] \in Types
        /\ keys' \in {keys, Append(keys, TypeOf[h])}
        /\ UNCHANGED <<keyPos, loop, listPos>>
    BY <1>6 DEF On, BusAssumption
  <2>2. keys'[k] = keys[k]
    BY <1>1, <2>1, KeysInside DEF Base
  <2>3. CASE t # TypeOf[h]
    BY <1>0, <1>2, <2>1, <2>2, <2>3
  <2>4. CASE t = TypeOf[h]
    <3>1. infos'[t] = Append(infos[t], h) /\ infos[t] \in Seq(Handlers)
      BY <1>0, <2>1, <2>4
    <3>2. /\ Len(infos'[t]) = Len(infos[t]) + 1
          /\ \A i \in 1..Len(infos[t]) : infos'[t][i] = infos[t][i]
      BY <3>1
    <3>3. Below(infos'[t], listPos') => Below(infos[t], listPos)
      BY <2>1, <3>1, <3>2
    <3> QED BY <1>2, <2>1, <2>2, <3>3
  <2> QED BY <2>3, <2>4
<1>7. ASSUME NEW h \in Handlers, Off(h) PROVE PassedBy(g) \/ g \in shifted'
  <2>1. PICK i \in 1..Len(infos[TypeOf[h]]) :
            /\ infos[TypeOf[h]][i] = h
            /\ infos' = [infos EXCEPT ![TypeOf[h]] = RemoveAt(@, i)]
            /\ shifted' = IF Shifts(TypeOf[h], i)
                          THEN shifted \cup MovedBelow(TypeOf[h]) ELSE shifted
            /\ UNCHANGED <<keys, keyPos, loop, listPos>>
            /\ loop \in {"off", "idle", "call"} /\ TypeOf[h] \in Types
    BY <1>7 DEF Off, Free, BusAssumption
  <2>2. CASE TypeOf[h] # t
    <3>1. infos'[t] = infos[t]
      BY <1>0, <2>1, <2>2, AfterRemoval
    <3> QED BY <1>2, <2>1, <3>1
  <2>3. CASE TypeOf[h] = t
    <3>1. /\ Len(infos[t]) \in Nat /\ i \in 1..Len(infos[t])
          /\ Len(infos'[t]) = Len(infos[t]) - 1
          /\ \A j \in 1..Len(infos'[t]) :
                infos'[t][j] = IF j < i THEN infos[t][j] ELSE infos[t][j + 1]
      BY <1>0, <2>1, <2>3, AfterRemoval
    <3>2. PICK m \in 1..Len(infos'[t]) : infos'[t][m] = g
      BY DEF InList
    <3> DEFINE n == IF m < i THEN m ELSE m + 1
    <3>3. n \in 1..Len(infos[t]) /\ infos[t][n] = g
      BY <3>1, <3>2
    <3>4. \A j \in 1..Len(infos[t]) : infos[t][j] = g => j = n
      <4>1. \A a, b \in 1..Len(infos[t]) : infos[t][a] = infos[t][b] => a = b
        BY <1>0 DEF Base, ListShape
      <4> QED BY <3>3, <4>1
    <3>5. CASE n < listPos \/ ~(k = keyPos /\ loop = "call")
      <4>1. loop \in {"list", "call"} => loop = "call"
        BY <2>1
      <4> QED BY <1>2, <2>1, <3>4, <3>5, <4>1
    <3>6. CASE ~(n < listPos) /\ k = keyPos /\ loop = "call"
      <4>1. m < listPos
        BY <1>1, <2>1, <3>2, <3>6
      <4>2. n = listPos /\ i < listPos
        BY <1>0, <3>1, <3>6, <4>1
      <4>3. Shifts(TypeOf[h], i)
        BY <1>1, <2>1, <2>3, <3>6, <4>2 DEF Shifts
      <4>4. g \in MovedBelow(TypeOf[h])
        BY <2>3, <3>3, <4>2 DEF MovedBelow
      <4> QED BY <2>1, <4>3, <4>4
    <3> QED BY <3>5, <3>6
  <2> QED BY <2>2, <2>3
<1>8. CASE NextKey
  <2>1. /\ UNCHANGED <<keys, infos>> /\ keyPos' = keyPos + 1 /\ listPos' = 1 /\ loop = "keys"
        /\ loop' = IF keys[keyPos'] \in Super[ev.class] THEN "list" ELSE "keys"
    BY <1>8 DEF NextKey
  <2>2. CASE k # keyPos'
    <3>1. k \in 1..keyPos
      BY <1>0, <1>1, <2>1, <2>2
    <3> QED BY <1>1, <2>1, <3>1 DEF PassedBy
  <2>3. CASE k = keyPos'
    <3>1. loop' = "list" /\ Below(infos[t], 1)
      BY <1>1, <2>1, <2>3
    <3>2. ~InList(g)'
      BY <2>1, <3>1 DEF InList
    <3> QED BY <3>2
  <2> QED BY <2>2, <2>3
<1>9. CASE NextCallback
  <2> DEFINE h == infos[keys[keyPos]][listPos]
  <2>1. /\ UNCHANGED <<keys, infos, keyPos>> /\ listPos' = listPos + 1 /\ loop = "list"
        /\ considered' = considered \cup {h} /\ loop' \in {"list", "call"}
    BY <1>9 DEF NextCallback
  <2>2. CASE g = h
    BY <2>1, <2>2
  <2>3. CASE g # h
    <3>1. k = keyPos /\ Below(infos[t], listPos + 1) => Below(infos[t], listPos)
      <4> SUFFICES ASSUME k = keyPos, NEW i \in 1..Len(infos[t]), infos[t][i] = g,
                          i < listPos + 1
                   PROVE  i < listPos
        OBVIOUS
      <4>1. keys[keyPos] = t
        BY <1>1, <2>1
      <4>2. i # listPos
        BY <2>3, <4>1
      <4> QED BY <1>0, <4>2
    <3> QED BY <1>2, <2>1, <3>1
  <2> QED BY <2>2, <2>3
<1>10. CASE ListDone
  <2>1. /\ UNCHANGED <<keys, infos, keyPos, listPos>> /\ loop = "list"
        /\ listPos \notin 1..Len(infos[keys[keyPos]])
    BY <1>10 DEF ListDone
  <2>2. k = keyPos => Below(infos[t], listPos)
    BY <1>0, <1>1, <2>1
  <2> QED BY <1>1, <2>1, <2>2 DEF PassedBy
<1>11. CASE RemoveOnce
  BY <1>2, <1>11 DEF RemoveOnce
<1>12. CASE RemoveDone
  BY <1>2, <1>12 DEF RemoveDone
<1>13. CASE Callback
  <2>1. UNCHANGED <<keys, infos, keyPos, listPos>> /\ loop' = "list"
    BY <1>13 DEF Callback, CallbackReturns, CallbackRaises
  <2> QED BY <1>2, <2>1
<1> QED
  BY <1>4, <1>5, <1>6, <1>7, <1>8, <1>9, <1>10, <1>11, <1>12, <1>13 DEF Next, Loop, Stop

-----------------------------------------------------------------------------
(* Pass, one lemma per conjunct. *)

\* The actions outside of the processing of an event, or at its end.
LEMMA NotInside ==
    ASSUME BusAssumption, Base, [Next]_vars, ~(Busy /\ Busy')
    PROVE  \/ UNCHANGED <<loop, fresh, calls, ev, returned, orphaned, toRemove, cur>>
           \/ Take /\ ~Busy
           \/ /\ ~Busy' /\ UNCHANGED <<fresh, calls, ev, returned, toRemove, cur, orphaned>>
           \/ ~Busy' /\ Die
           \/ \E h \in Handlers : On(h) /\ ~Busy /\ ~Busy'
<1> USE DEF dictVars, queueVars, iterVars, passVars, logVars
<1>1. CASE Start \/ (\E c \in Types : Emit(c)) \/ UNCHANGED vars
  BY <1>1 DEF Start, Emit, vars, Busy
<1>2. CASE \E h \in Handlers : On(h) \/ Off(h)
  BY <1>2 DEF On, Off, Busy
<1>3. CASE Take \/ DictChanged \/ TaskDone \/ RemoveMissing
  BY <1>3 DEF Take, DictChanged, TaskDone, RemoveMissing, Die, Busy
<1>4. CASE NextKey \/ NextCallback \/ ListDone \/ RemoveOnce \/ RemoveDone \/ Callback
  BY <1>4 DEF NextKey, NextCallback, ListDone, RemoveOnce, RemoveDone, Callback,
     CallbackReturns, CallbackRaises, Busy
<1>5. CASE StopCall \/ Stop
  BY <1>5 DEF StopCall, Stop, StopCancel, CancelIdle, CancelCallback, Die, Busy
<1> QED BY <1>1, <1>2, <1>3, <1>4, <1>5 DEF Next, Loop

\* The event taken comes after every event a handler was called for.
LEMMA TakenIsNew ==
    ASSUME BusAssumption, Base, Take
    PROVE  ev.id \in Nat /\ ev'.id = ev.id + 1
<1>1. /\ queue \in Seq([id : 1..MaxEvents, class : Types]) /\ queue # <<>>
      /\ ev' = Head(queue) /\ ev.id \in Nat
  BY DEF Take, CanTake, Base, TypeOK, BusAssumption
<1>2. ev' = queue[1] /\ 1 \in 1..Len(queue)
  BY <1>1
<1>3. queue[1].id = ev.id + 1
  BY <1>2 DEF Base, QueueShape
<1> QED BY <1>1, <1>2, <1>3

\* The callback the iteration reaches was not passed by yet, and now is.
LEMMA CallbackVisited ==
    ASSUME BusAssumption, Base, NextCallback
    PROVE  /\ infos[keys[keyPos]][listPos] \in Handlers
           /\ \A g \in Handlers : g = infos[keys[keyPos]][listPos] =>
                /\ InList(g) /\ g \notin fresh /\ TypeOf[g] = keys[keyPos]
                /\ ~PassedBy(g)
                /\ PassedBy(g)'
<1>1. /\ Busy /\ UNCHANGED <<infos, keys, keyPos>> /\ loop = "list"
      /\ listPos \in 1..Len(infos[keys[keyPos]])
      /\ listPos' = listPos + 1
  BY DEF NextCallback, Busy, dictVars
<1>2. keyPos \in 1..Len(keys) /\ keyPos \in 1..keyPos
  BY <1>1, KeysInside DEF Base, DictShape, InEvent, TypeOK
<1>3. keys[keyPos] \in Types
  <2>1. keys \in Seq(Types)
    BY DEF Base, TypeOK
  <2> QED BY <1>2, <2>1
<1>4. infos[keys[keyPos]] \in Seq(Handlers)
  BY <1>3 DEF Base, TypeOK
<1>5. infos[keys[keyPos]][listPos] \in Handlers
  BY <1>1, <1>4
<1>6. ASSUME NEW g \in Handlers, g = infos[keys[keyPos]][listPos]
      PROVE  /\ InList(g) /\ g \notin fresh /\ TypeOf[g] = keys[keyPos]
             /\ ~PassedBy(g)
             /\ PassedBy(g)'
  <2>1. TypeOf[g] = keys[keyPos] /\ g \notin fresh
    BY <1>1, <1>3, <1>6 DEF Base, ListShape
  <2>2. InList(g)
    BY <1>1, <1>6, <2>1 DEF InList
  <2>3. ~PassedBy(g)
    <3>1. \A k \in 1..keyPos : keys[k] = keys[keyPos] => k = keyPos
      BY <1>1, <1>2, KeysInside DEF Base, DictShape
    <3>2. ~(listPos < listPos)
      BY DEF Base, TypeOK
    <3> QED BY <1>1, <1>6, <2>1, <3>1, <3>2 DEF PassedBy
  <2>4. PassedBy(g)'
    <3>1. \A i, j \in 1..Len(infos[keys[keyPos]]) :
            infos[keys[keyPos]][i] = infos[keys[keyPos]][j] => i = j
      BY <1>3 DEF Base, ListShape
    <3>2. \A i \in 1..Len(infos[keys[keyPos]]) : infos[keys[keyPos]][i] = g => i < listPos + 1
      BY <1>1, <1>6, <3>1, SMTT(30)
    <3>3. /\ keyPos \in 1..keyPos'
          /\ keys'[keyPos] = TypeOf[g]
          /\ \A i \in 1..Len(infos'[TypeOf[g]]) : infos'[TypeOf[g]][i] = g => i < listPos'
      BY <1>1, <1>2, <2>1, <3>2
    <3> QED BY <3>3 DEF PassedBy
  <2> QED BY <2>1, <2>2, <2>3, <2>4
<1> QED BY <1>5, <1>6

LEMMA CallsOrderedStep ==
    ASSUME BusAssumption, Base, Base', Pass, [Next]_vars
    PROVE  CallsOrdered'
<1> USE DEF dictVars, queueVars, iterVars, passVars, logVars
<1>0. CallsOrdered /\ TypeOK /\ ev.id \in Nat /\ calls \in [Handlers -> Seq(1..MaxEvents)]
  <2>1. CallsOrdered /\ TypeOK
    BY DEF Pass, Base
  <2> QED BY <2>1, SMTT(30) DEF TypeOK, BusAssumption
<1>1. CASE ~(Busy /\ Busy')
  <2>1. CASE UNCHANGED <<loop, fresh, calls, ev>> \/ (~Busy' /\ UNCHANGED <<fresh, calls, ev>>)
    BY <1>0, <1>1, <2>1 DEF CallsOrdered, Busy
  <2>2. CASE Take /\ ~Busy
    <3>1. ev'.id = ev.id + 1 /\ UNCHANGED <<fresh, calls>>
      BY <2>2, TakenIsNew DEF Take
    <3>2. ASSUME NEW h \in Handlers, NEW i \in 1..Len(calls[h])
          PROVE  /\ h \notin fresh /\ calls[h][i] \in Nat
                 /\ calls[h][i] <= ev.id
      <4>1. calls[h] \in Seq(1..MaxEvents)
        BY <1>0
      <4> QED BY <1>0, <4>1 DEF CallsOrdered
    <3> QED BY <1>0, <3>1, <3>2 DEF CallsOrdered
  <2>3. CASE ~Busy' /\ Die
    BY <1>0, <2>3 DEF CallsOrdered, Die
  <2>4. CASE \E h \in Handlers : On(h) /\ ~Busy /\ ~Busy'
    BY <1>0, <2>4 DEF CallsOrdered, On
  <2> QED BY <1>1, <2>1, <2>2, <2>3, <2>4, NotInside
<1>2. CASE Busy /\ Busy' /\ UNCHANGED <<calls, ev>> /\ fresh' \subseteq fresh
  <2>1. ASSUME NEW h \in Handlers, h \notin fresh, PassedBy(h) PROVE PassedBy(h)'
    BY <1>2, <2>1, PassedByStays
  <2> QED BY <1>0, <1>2, <2>1 DEF CallsOrdered
<1>3. CASE NextCallback
  <2>1. Busy /\ Busy' /\ UNCHANGED <<ev, fresh>>
    BY <1>3 DEF NextCallback, Busy
  <2> PICK g \in Handlers :
        /\ g \notin fresh /\ ~PassedBy(g) /\ PassedBy(g)'
        /\ \/ calls' = [calls EXCEPT ![g] = Append(@, ev.id)]
           \/ calls' = calls
    BY <1>3, CallbackVisited DEF NextCallback
  <2>5. g \notin fresh
    OBVIOUS
  <2>6. ~PassedBy(g)
    OBVIOUS
  <2>7. ASSUME NEW h \in Handlers, h \notin fresh, PassedBy(h) PROVE PassedBy(h)'
    BY <2>1, <2>7, PassedByStays
  <2>8. PassedBy(g)'
    OBVIOUS
  <2>12. calls' = [calls EXCEPT ![g] = Append(@, ev.id)] \/ calls' = calls
    OBVIOUS
  <2>9. ASSUME NEW h \in Handlers, h # g \/ calls' = calls
        PROVE  calls'[h] = calls[h]
    BY <1>0, <2>9, <2>12
  <2>10. CASE calls' = [calls EXCEPT ![g] = Append(@, ev.id)]
    <3>1. calls'[g] = Append(calls[g], ev.id) /\ calls[g] \in Seq(1..MaxEvents)
      BY <1>0, <2>5, <2>10
    <3>2. /\ Len(calls'[g]) = Len(calls[g]) + 1 /\ Len(calls[g]) \in Nat
          /\ \A i \in 1..Len(calls[g]) : calls'[g][i] = calls[g][i] /\ calls[g][i] \in Nat
          /\ calls'[g][Len(calls[g]) + 1] = ev.id
      BY <3>1
    <3>3. \A i \in 1..Len(calls[g]) : calls[g][i] < ev.id
      BY <1>0, <2>1, <2>5, <2>6, <3>2 DEF CallsOrdered
    <3>4. \A i, j \in 1..Len(calls[g]) : i < j => calls[g][i] < calls[g][j]
      BY <1>0, <2>5 DEF CallsOrdered
    <3>5. \A i, j \in 1..Len(calls'[g]) : i < j => calls'[g][i] < calls'[g][j]
      <4> SUFFICES ASSUME NEW i \in 1..Len(calls'[g]), NEW j \in 1..Len(calls'[g]), i < j
                   PROVE  calls'[g][i] < calls'[g][j]
        OBVIOUS
      <4>1. i \in 1..Len(calls[g])
        BY <3>2
      <4>2. CASE j = Len(calls[g]) + 1
        BY <3>2, <3>3, <4>1, <4>2
      <4>3. CASE j \in 1..Len(calls[g])
        BY <3>2, <3>4, <4>1, <4>3
      <4>4. j = Len(calls[g]) + 1 \/ j \in 1..Len(calls[g])
        <5>1. Len(calls'[g]) = Len(calls[g]) + 1 /\ Len(calls[g]) \in Nat
          BY <3>2
        <5> QED BY <5>1
      <4> QED BY <4>2, <4>3, <4>4
    <3>6. \A i \in 1..Len(calls'[g]) : calls'[g][i] <= ev.id
      <4> SUFFICES ASSUME NEW i \in 1..Len(calls'[g]) PROVE calls'[g][i] <= ev.id
        OBVIOUS
      <4>1. CASE i = Len(calls[g]) + 1
        BY <1>0, <3>2, <4>1
      <4>2. CASE i \in 1..Len(calls[g])
        <5>1. calls'[g][i] = calls[g][i] /\ calls[g][i] \in Nat
          BY <3>2, <4>2
        <5>2. calls[g][i] < ev.id
          BY <3>3, <4>2
        <5> QED BY <1>0, <5>1, <5>2
      <4>3. i = Len(calls[g]) + 1 \/ i \in 1..Len(calls[g])
        <5>1. Len(calls'[g]) = Len(calls[g]) + 1 /\ Len(calls[g]) \in Nat
          BY <3>2
        <5> QED BY <5>1
      <4> QED BY <4>1, <4>2, <4>3
    <3>7. \A h \in Handlers : h # g =>
            /\ \A i, j \in 1..Len(calls'[h]) : i < j => calls'[h][i] < calls'[h][j]
            /\ \A i \in 1..Len(calls'[h]) :
                /\ h \notin fresh'
                /\ calls'[h][i] <= ev'.id
                /\ Busy' /\ calls'[h][i] = ev'.id => PassedBy(h)'
      BY <1>0, <2>1, <2>7, <2>9 DEF CallsOrdered
    <3>8. /\ \A i, j \in 1..Len(calls'[g]) : i < j => calls'[g][i] < calls'[g][j]
          /\ \A i \in 1..Len(calls'[g]) :
              /\ g \notin fresh'
              /\ calls'[g][i] <= ev'.id
              /\ Busy' /\ calls'[g][i] = ev'.id => PassedBy(g)'
      BY <2>1, <2>5, <2>8, <3>5, <3>6
    <3> QED BY <3>7, <3>8 DEF CallsOrdered
  <2>11. CASE calls' = calls
    BY <1>0, <2>1, <2>7, <2>11 DEF CallsOrdered
  <2> QED BY <2>10, <2>11, <2>12
<1>4. ASSUME Busy, Busy', ~NextCallback
      PROVE  UNCHANGED <<calls, ev>> /\ fresh' \subseteq fresh
  <2>1. CASE Start \/ (\E c \in Types : Emit(c)) \/ UNCHANGED vars
    BY <2>1 DEF Start, Emit, vars
  <2>2. CASE \E h \in Handlers : On(h) \/ Off(h)
    BY <2>2 DEF On, Off
  <2>3. CASE Take \/ NextKey \/ DictChanged \/ TaskDone \/ ListDone
    BY <1>4, <2>3 DEF Take, NextKey, DictChanged, Die, TaskDone, ListDone, Busy
  <2>4. CASE RemoveOnce \/ RemoveMissing \/ RemoveDone \/ Callback
    BY <2>4 DEF RemoveOnce, RemoveMissing, Die, RemoveDone, Callback, CallbackReturns,
       CallbackRaises
  <2>5. CASE StopCall \/ Stop
    BY <2>5 DEF StopCall, Stop, StopCancel, CancelIdle, CancelCallback, Die
  <2> QED BY <1>4, <2>1, <2>2, <2>3, <2>4, <2>5 DEF Next, Loop
<1> QED BY <1>1, <1>2, <1>3, <1>4

LEMMA DueReachedStep ==
    ASSUME BusAssumption, Base, Base', Pass, [Next]_vars
    PROVE  DueReached'
<1> USE DEF dictVars, queueVars, iterVars, passVars, logVars
<1>1. CASE ~Busy'
  BY <1>1 DEF DueReached
<1>2. CASE Take
  <2>1. /\ due' = {h \in Registered : TypeOf[h] \in Super[ev'.class]}
        /\ fresh' = fresh /\ keyPos' = 0
    BY <1>2 DEF Take
  <2>2. ASSUME NEW h \in due' PROVE h \in Handlers /\ InList(h) /\ TypeOf[h] \in Super[ev'.class]
    BY <2>1, <2>2 DEF Registered
  <2>3. ASSUME NEW h \in Handlers, InList(h) PROVE h \notin fresh
    <3>1. TypeOf[h] \in Types
      BY DEF BusAssumption
    <3> QED BY <2>3, <3>1 DEF InList, Base, ListShape
  <2>4. ASSUME NEW h PROVE ~PassedBy(h)'
    BY <2>1 DEF PassedBy
  <2> QED BY <2>1, <2>2, <2>3, <2>4 DEF DueReached
<1>3. CASE Busy /\ Busy'
  <2>1. /\ UNCHANGED <<due, ev>> /\ fresh' \subseteq fresh
        /\ considered \subseteq considered' /\ shifted \subseteq shifted'
    <3>1. CASE Start \/ (\E c \in Types : Emit(c)) \/ UNCHANGED vars
      BY <3>1 DEF Start, Emit, vars
    <3>2. CASE \E h \in Handlers : On(h) \/ Off(h)
      BY <3>2 DEF On, Off
    <3>3. CASE Take \/ NextKey \/ DictChanged \/ TaskDone \/ NextCallback \/ ListDone
      BY <1>3, <3>3 DEF Take, NextKey, DictChanged, Die, TaskDone, NextCallback, ListDone, Busy
    <3>4. CASE RemoveOnce \/ RemoveMissing \/ RemoveDone \/ Callback
      BY <3>4 DEF RemoveOnce, RemoveMissing, Die, RemoveDone, Callback, CallbackReturns,
         CallbackRaises
    <3>5. CASE StopCall \/ Stop
      BY <3>5 DEF StopCall, Stop, StopCancel, CancelIdle, CancelCallback, Die
    <3> QED BY <3>1, <3>2, <3>3, <3>4, <3>5 DEF Next, Loop
  <2>2. ASSUME NEW h \in due
        PROVE  h \in Handlers /\ h \notin fresh /\ TypeOf[h] \in Super[ev.class]
    BY <1>3 DEF Pass, DueReached, Base, TypeOK
  <2>3. ASSUME NEW h \in due, InList(h)', PassedBy(h)'
        PROVE  h \in considered' \cup shifted'
    <3>1. InList(h)
      BY <2>2, <2>3, ListsOnlyShrink
    <3>2. PassedBy(h) \/ h \in considered' \cup shifted'
      BY <1>3, <2>2, <2>3, PassedByGained
    <3> QED BY <1>3, <2>1, <3>1, <3>2 DEF Pass, DueReached
  <2> QED BY <2>1, <2>2, <2>3 DEF DueReached
<1>4. Busy' /\ ~Busy => Take
  <2>1. CASE Start \/ (\E c \in Types : Emit(c)) \/ UNCHANGED vars
    BY <2>1 DEF Start, Emit, vars, Busy
  <2>2. CASE \E h \in Handlers : On(h) \/ Off(h)
    BY <2>2 DEF On, Off, Busy
  <2>3. CASE Take \/ NextKey \/ DictChanged \/ TaskDone \/ NextCallback \/ ListDone
    BY <2>3 DEF NextKey, DictChanged, Die, TaskDone, NextCallback, ListDone, Busy
  <2>4. CASE RemoveOnce \/ RemoveMissing \/ RemoveDone \/ Callback
    BY <2>4 DEF RemoveOnce, RemoveMissing, Die, RemoveDone, Callback, CallbackReturns,
       CallbackRaises, Busy
  <2>5. CASE StopCall \/ Stop
    BY <2>5 DEF StopCall, Stop, StopCancel, CancelIdle, CancelCallback, Die, Busy
  <2> QED BY <2>1, <2>2, <2>3, <2>4, <2>5 DEF Next, Loop
<1> QED BY <1>1, <1>2, <1>3, <1>4

\* What a step does to the handlers that wait to be removed.
LEMMA PendingStays ==
    ASSUME BusAssumption, Base, [Next]_vars, Busy, Busy', keyPos' = keyPos,
           fresh' \subseteq fresh, keyPos \in 1..keyPos,
           NEW h \in Handlers, Pending(h)
    PROVE  Pending(h)'
<1>1. PassedBy(h)'
  BY PassedByStays DEF Pending
<1>2. keyPos \in 1..Len(keys) /\ \A t \in Types : Append(keys, t)[keyPos] = keys[keyPos]
  BY KeysInside DEF Base
<1>3. keys' = keys \/ \E t \in Types : keys' = Append(keys, t)
  <2> USE DEF dictVars, queueVars, iterVars, passVars, logVars
  <2>1. CASE Start \/ (\E c \in Types : Emit(c)) \/ UNCHANGED vars
    BY <2>1 DEF Start, Emit, vars
  <2>2. CASE \E g \in Handlers : On(g) \/ Off(g)
    BY <2>2 DEF On, Off, BusAssumption
  <2>3. CASE Take \/ NextKey \/ DictChanged \/ TaskDone \/ NextCallback \/ ListDone
    BY <2>3 DEF Take, NextKey, DictChanged, Die, TaskDone, NextCallback, ListDone
  <2>4. CASE RemoveOnce \/ RemoveMissing \/ RemoveDone \/ Callback
    BY <2>4 DEF RemoveOnce, RemoveMissing, Die, RemoveDone, Callback, CallbackReturns,
       CallbackRaises
  <2>5. CASE StopCall \/ Stop
    BY <2>5 DEF StopCall, Stop, StopCancel, CancelIdle, CancelCallback, Die
  <2> QED BY <2>1, <2>2, <2>3, <2>4, <2>5 DEF Next, Loop
<1> QED BY <1>1, <1>2, <1>3 DEF Pending

LEMMA OncePendingStep ==
    ASSUME BusAssumption, Base, Base', Pass, [Next]_vars
    PROVE  OncePending'
<1> USE DEF dictVars, queueVars, iterVars, passVars, logVars
<1>0. /\ TypeOK /\ DictShape /\ ListShape /\ OncePending
      /\ toRemove \in Seq(Once) /\ Once \subseteq Handlers /\ cur \in Handlers
      /\ returned \subseteq Handlers
      /\ toRemove' \in Seq(Once) /\ (~InEvent' => toRemove' = <<>>)
      /\ keyPos \in Nat
  <2>1. TypeOK /\ TypeOK' /\ DictShape' /\ DictShape /\ ListShape /\ OncePending
    BY DEF Base, Pass
  <2>2. /\ toRemove \in Seq(Once) /\ Once \subseteq Handlers /\ cur \in Handlers
        /\ returned \subseteq Once
    BY <2>1 DEF TypeOK, BusAssumption
  <2>4. toRemove' \in Seq(Once)
    BY <2>1 DEF TypeOK
  <2>5. keyPos \in Nat
    BY <2>1 DEF TypeOK
  <2>3. ~InEvent' => toRemove' = <<>>
    BY <2>1 DEF DictShape
  <2> QED BY <2>1, <2>2, <2>3, <2>4, <2>5
<1>1. ASSUME toRemove = <<>>, ~InEvent \/ loop = "remove", loop' # "call", toRemove' = <<>>,
             UNCHANGED <<returned, orphaned>>, fresh' \subseteq fresh
      PROVE  OncePending'
  <2>1. ASSUME NEW h \in returned \ orphaned PROVE h \notin fresh' /\ ~InList(h)'
    <3>1. h \in Handlers /\ h \notin fresh /\ ~InList(h)
      BY <1>0, <1>1 DEF OncePending
    <3> QED BY <1>1, <3>1, ListsOnlyShrink
  <2> QED BY <1>1, <2>1 DEF OncePending
<1>2. ASSUME InEvent, InEvent', UNCHANGED <<keyPos, returned, orphaned>>,
             fresh' \subseteq fresh,
             loop' = "call" => (cur' = cur /\ Pending(cur)) \/ Pending(cur)',
             \A j \in 1..Len(toRemove') : Pending(toRemove'[j]) /\ toRemove'[j] \in Handlers,
             \A h \in Handlers : h \in returned /\ InList(h)' =>
                ((\E j \in 1..Len(toRemove) : toRemove[j] = h)
                    => \E j \in 1..Len(toRemove') : toRemove'[j] = h),
             cur' \in Handlers
      PROVE  OncePending'
  <2>1. Busy /\ Busy' /\ keyPos \in 1..keyPos
    BY <1>0, <1>2 DEF Busy, InEvent, DictShape
  <2>2. ASSUME NEW h \in Handlers, Pending(h) PROVE Pending(h)'
    BY <1>2, <2>1, <2>2, PendingStays
  <2>3. ASSUME NEW h \in returned \ orphaned, InList(h)'
        PROVE  h \notin fresh' /\ \E j \in 1..Len(toRemove') : toRemove'[j] = h
    <3>1. h \in Handlers /\ h \notin fresh
      BY <1>0 DEF OncePending
    <3>2. InList(h)
      BY <2>3, <3>1, ListsOnlyShrink
    <3> QED BY <1>0, <1>2, <2>3, <3>1, <3>2 DEF OncePending
  <2>4. ASSUME NEW h \in returned \ orphaned PROVE h \notin fresh'
    BY <1>0, <1>2 DEF OncePending
  <2>5. loop' = "call" => Pending(cur)'
    BY <1>0, <1>2, <2>2 DEF Pending, PassedBy
  <2>6. \A j \in 1..Len(toRemove') : Pending(toRemove[j])'
    BY <1>2, <2>2 DEF Pending, PassedBy
  <2> QED BY <1>2, <2>3, <2>4, <2>5, <2>6 DEF OncePending
<1>3. ASSUME Die PROVE OncePending'
  <2>1. /\ loop' = "off" /\ toRemove' = <<>> /\ returned' = returned /\ fresh' = fresh
        /\ orphaned' = orphaned \cup ToSet(toRemove) /\ infos' = infos
    BY <1>3 DEF Die
  <2>2. ASSUME NEW h \in returned' \ orphaned' PROVE h \notin fresh' /\ ~InList(h)'
    <3>1. h \in returned \ orphaned /\ h \notin ToSet(toRemove)
      BY <2>1, <2>2
    <3>2. ~\E j \in 1..Len(toRemove) : toRemove[j] = h
      BY <1>0, <3>1 DEF ToSet
    <3>3. h \notin fresh /\ ~InList(h)
      BY <1>0, <3>1, <3>2 DEF OncePending
    <3> QED BY <2>1, <3>3 DEF InList
  <2> QED BY <2>1, <2>2 DEF OncePending
<1>4. ASSUME UNCHANGED <<loop, keyPos, toRemove, cur, returned, orphaned>>, fresh' \subseteq fresh
      PROVE  OncePending'
  <2>1. CASE InEvent
    <3>1. \A j \in 1..Len(toRemove) : Pending(toRemove[j]) /\ toRemove[j] \in Handlers
      BY <1>0 DEF OncePending
    <3>2. loop = "call" => Pending(cur)
      BY <1>0 DEF OncePending
    <3>3. InEvent'
      BY <1>4, <2>1 DEF InEvent
    <3> QED BY <1>0, <1>2, <1>4, <2>1, <3>1, <3>2, <3>3
  <2>2. CASE ~InEvent
    <3>1. toRemove = <<>>
      BY <1>0, <2>2 DEF DictShape
    <3> QED BY <1>1, <1>4, <2>2, <3>1 DEF InEvent
  <2> QED BY <2>1, <2>2
<1>5. CASE (\E h \in Handlers : On(h) \/ Off(h)) \/ (\E c \in Types : Emit(c)) \/ UNCHANGED vars
  BY <1>4, <1>5 DEF On, Off, Emit, vars
<1>6. CASE StopCall \/ StopCancel
  BY <1>4, <1>6 DEF StopCall, StopCancel
<1>7. CASE DictChanged \/ RemoveMissing \/ CancelCallback
  BY <1>3, <1>7 DEF DictChanged, RemoveMissing, CancelCallback
<1>8. CASE Start \/ Take \/ NextKey \/ TaskDone \/ CancelIdle \/ RemoveDone
  <2>1. toRemove = <<>> /\ toRemove' = <<>> /\ (~InEvent \/ loop = "remove")
    BY <1>0, <1>8 DEF Start, Started, Take, NextKey, TaskDone, CancelIdle, RemoveDone,
       DictShape, InEvent
  <2>2. loop' # "call" /\ UNCHANGED <<returned, orphaned, fresh>>
    BY <1>8 DEF Start, Take, NextKey, TaskDone, CancelIdle, RemoveDone
  <2> QED BY <1>1, <2>1, <2>2
<1>9. CASE NextCallback
  <2>1. /\ InEvent /\ InEvent' /\ UNCHANGED <<keyPos, returned, orphaned, fresh, toRemove>>
        /\ UNCHANGED keys
        /\ loop' = "call" => cur' = infos[keys[keyPos]][listPos]
    BY <1>9 DEF NextCallback, InEvent
  <2>2. loop' = "call" => Pending(cur)'
    <3> SUFFICES ASSUME loop' = "call" PROVE Pending(cur)'
      OBVIOUS
    <3> PICK g \in Handlers : g = infos[keys[keyPos]][listPos]
      BY <1>9, CallbackVisited
    <3>1. cur' = g /\ g \notin fresh /\ TypeOf[g] = keys[keyPos] /\ PassedBy(g)'
      BY <1>9, <2>1, CallbackVisited
    <3>2. PassedBy(cur)'
      BY <3>1 DEF PassedBy
    <3> QED BY <2>1, <3>1, <3>2 DEF Pending
  <2>3. cur' \in Handlers
    BY DEF Base, TypeOK
  <2>4. \A j \in 1..Len(toRemove) : Pending(toRemove[j]) /\ toRemove[j] \in Handlers
    BY <1>0 DEF OncePending
  <2> QED BY <1>2, <2>1, <2>2, <2>3, <2>4
<1>10. CASE ListDone \/ CallbackRaises
  <2>1. /\ InEvent /\ InEvent' /\ loop' # "call"
        /\ UNCHANGED <<keyPos, returned, orphaned, fresh, toRemove, cur>>
    BY <1>10 DEF ListDone, CallbackRaises, InEvent
  <2>2. \A j \in 1..Len(toRemove) : Pending(toRemove[j]) /\ toRemove[j] \in Handlers
    BY <1>0 DEF OncePending
  <2> QED BY <1>0, <1>2, <2>1, <2>2
<1>11. CASE RemoveOnce
  <2>1. /\ InEvent /\ InEvent' /\ loop' # "call" /\ toRemove # <<>> /\ toRemove' = Tail(toRemove)
        /\ UNCHANGED <<keyPos, keys, returned, orphaned, fresh, cur>>
    BY <1>11 DEF RemoveOnce, InEvent
  <2>2. /\ Len(toRemove') = Len(toRemove) - 1 /\ Len(toRemove) \in Nat
        /\ \A j \in 1..Len(toRemove') : toRemove'[j] = toRemove[j + 1]
        /\ Head(toRemove) = toRemove[1] /\ 1 \in 1..Len(toRemove)
    BY <1>0, <2>1
  <2>3. \A j \in 1..Len(toRemove) : Pending(toRemove[j]) /\ toRemove[j] \in Handlers
    BY <1>0 DEF OncePending
  <2>4. \A j \in 1..Len(toRemove') : Pending(toRemove'[j]) /\ toRemove'[j] \in Handlers
    BY <2>2, <2>3
  <2> PICK g \in Handlers : g = toRemove[1] /\ TypeOf[g] = keys[keyPos]
    BY <2>2, <2>3 DEF Pending
  <2>5. ~InList(g)'
    <3> DEFINE t == TypeOf[g]
    <3>1. t \in Types
      BY DEF BusAssumption
    <3>2. PICK i \in 1..Len(infos[t]) : /\ infos[t][i] = g
                                        /\ infos' = [infos EXCEPT ![t] = RemoveAt(@, i)]
      BY <1>11, <2>2 DEF RemoveOnce
    <3>3. /\ Len(infos[t]) \in Nat
          /\ Len(infos'[t]) = Len(infos[t]) - 1
          /\ \A j \in 1..Len(infos'[t]) :
                infos'[t][j] = IF j < i THEN infos[t][j] ELSE infos[t][j + 1]
      BY <1>0, <3>1, <3>2, AfterRemoval
    <3>4. \A j \in 1..Len(infos[t]) : infos[t][j] = g => j = i
      BY <1>0, <3>1, <3>2 DEF ListShape
    <3>5. ASSUME NEW j \in 1..Len(infos'[t]) PROVE infos'[t][j] # g
      <4>1. CASE j < i
        BY <3>3, <3>4, <4>1
      <4>2. CASE ~(j < i)
        <5>1. j + 1 \in 1..Len(infos[t]) /\ j + 1 # i /\ infos'[t][j] = infos[t][j + 1]
          BY <3>3, <4>2
        <5> QED BY <3>4, <5>1
      <4> QED BY <4>1, <4>2
    <3> QED BY <3>5 DEF InList
  <2>6. ASSUME NEW h \in Handlers, InList(h)', NEW j \in 1..Len(toRemove), toRemove[j] = h
        PROVE  \E m \in 1..Len(toRemove') : toRemove'[m] = h
    <3>1. j # 1
      BY <2>2, <2>5, <2>6
    <3>2. j - 1 \in 1..Len(toRemove') /\ toRemove'[j - 1] = toRemove[j]
      BY <2>2, <3>1
    <3> QED BY <2>6, <3>2
  <2> QED BY <1>0, <1>2, <2>1, <2>4, <2>6
<1>12. CASE CallbackReturns
  <2>1. /\ Busy /\ Busy' /\ loop = "call" /\ loop' = "list" /\ toRemove' = Marked
        /\ returned' = returned \cup ({cur} \cap Once)
        /\ UNCHANGED <<keyPos, keys, orphaned, fresh>>
    BY <1>12 DEF CallbackReturns, Busy
  <2>2. keyPos \in 1..keyPos
    BY <1>0, <2>1 DEF DictShape, InEvent
  <2>3. ASSUME NEW h \in Handlers, Pending(h) PROVE Pending(h)'
    BY <2>1, <2>2, <2>3, PendingStays
  <2>4. /\ \A j \in 1..Len(toRemove) : Pending(toRemove[j]) /\ toRemove[j] \in Handlers
        /\ Pending(cur) /\ cur \notin fresh
    BY <1>0, <2>1 DEF OncePending, Pending
  <2>5. CASE cur \in Once
    <3>1. /\ Len(toRemove) \in Nat /\ Len(toRemove') = Len(toRemove) + 1
          /\ \A j \in 1..Len(toRemove) : toRemove'[j] = toRemove[j]
          /\ toRemove'[Len(toRemove) + 1] = cur
      BY <1>0, <2>1, <2>5 DEF Marked
    <3>2. ASSUME NEW j \in 1..Len(toRemove') PROVE Pending(toRemove'[j])
      <4>1. CASE j = Len(toRemove) + 1
        BY <2>4, <3>1, <4>1
      <4>2. CASE j \in 1..Len(toRemove)
        BY <2>4, <3>1, <4>2
      <4> QED BY <3>1, <4>1, <4>2
    <3>3. ASSUME NEW j \in 1..Len(toRemove') PROVE toRemove'[j] \in Handlers
      BY <1>0
    <3>4. \A j \in 1..Len(toRemove') : Pending(toRemove[j])'
      BY <2>3, <3>2, <3>3 DEF Pending, PassedBy
    <3>5. ASSUME NEW h \in returned' \ orphaned', InList(h)'
          PROVE  \E j \in 1..Len(toRemove') : toRemove'[j] = h
      <4>1. CASE h = cur
        BY <3>1, <4>1
      <4>2. CASE h # cur
        <5>1. h \in returned \ orphaned /\ h \in Handlers /\ h \notin fresh
          BY <1>0, <2>1, <3>5, <4>2 DEF OncePending
        <5>2. PICK j \in 1..Len(toRemove) : toRemove[j] = h
          BY <1>0, <3>5, <5>1, ListsOnlyShrink DEF OncePending
        <5> QED BY <3>1, <5>2
      <4> QED BY <4>1, <4>2
    <3>6. ASSUME NEW h \in returned' \ orphaned' PROVE h \notin fresh'
      BY <1>0, <2>1, <2>4, <3>6 DEF OncePending
    <3> QED BY <2>1, <3>4, <3>5, <3>6 DEF OncePending
  <2>6. CASE cur \notin Once
    <3>1. returned' = returned /\ toRemove' = toRemove /\ InEvent /\ InEvent' /\ cur' \in Handlers
      <4>1. InEvent /\ InEvent' /\ cur' \in Handlers
        BY <1>0, <1>12, <2>1 DEF CallbackReturns, InEvent
      <4>2. returned' = returned /\ toRemove' = toRemove
        BY <2>1, <2>6 DEF Marked
      <4> QED BY <4>1, <4>2
    <3>2. loop' # "call" /\ fresh' \subseteq fresh
      BY <2>1
    <3> QED BY <1>2, <2>1, <2>4, <3>1, <3>2
  <2> QED BY <2>5, <2>6
<1> QED
  BY <1>5, <1>6, <1>7, <1>8, <1>9, <1>10, <1>11, <1>12 DEF Next, Loop, Callback, Stop

\* The callback reached is not one that returned already.
LEMMA OnceReturnsOnceStep ==
    ASSUME BusAssumption, Base, Base', Pass, [Next]_vars
    PROVE  OnceReturnsOnce'
<1> USE DEF dictVars, queueVars, iterVars, passVars, logVars
<1>0. OnceReturnsOnce /\ OncePending
  BY DEF Pass
<1>1. CASE NextCallback
  <2> SUFFICES ASSUME loop' = "call", cur' \in returned', cur' \notin orphaned'
               PROVE  FALSE
    BY DEF OnceReturnsOnce
  <2> PICK g \in Handlers : g = infos[keys[keyPos]][listPos]
    BY <1>1, CallbackVisited
  <2>1. InList(g) /\ ~PassedBy(g)
    BY <1>1, CallbackVisited
  <2>2. cur' = g /\ UNCHANGED <<returned, orphaned>>
    BY <1>1 DEF NextCallback
  <2>3. PICK j \in 1..Len(toRemove) : toRemove[j] = g
    BY <1>0, <2>1, <2>2 DEF OncePending
  <2>4. Pending(g)
    BY <1>0, <2>3 DEF OncePending
  <2> QED BY <2>1, <2>4 DEF Pending
<1>2. CASE (\E h \in Handlers : On(h) \/ Off(h)) \/ (\E c \in Types : Emit(c)) \/ UNCHANGED vars
  <2>1. CASE (\E h \in Handlers : On(h) \/ Off(h)) \/ (\E c \in Types : Emit(c))
    <3>1. UNCHANGED <<loop, cur, returned, orphaned>>
      BY <2>1 DEF On, Off, Emit
    <3> QED BY <1>0, <3>1 DEF OnceReturnsOnce
  <2>2. CASE UNCHANGED vars
    BY <1>0, <2>2 DEF vars, OnceReturnsOnce
  <2> QED BY <1>2, <2>1, <2>2
<1>3. CASE StopCall \/ StopCancel
  BY <1>0, <1>3 DEF StopCall, StopCancel, OnceReturnsOnce
<1>4. CASE Start \/ Take \/ NextKey \/ DictChanged \/ TaskDone \/ ListDone \/ CancelIdle
  BY <1>4 DEF Start, Take, NextKey, DictChanged, Die, TaskDone, ListDone, CancelIdle,
     OnceReturnsOnce
<1>5. CASE RemoveOnce \/ RemoveMissing \/ RemoveDone \/ Callback \/ CancelCallback
  BY <1>5 DEF RemoveOnce, RemoveMissing, Die, RemoveDone, Callback, CallbackReturns,
     CallbackRaises, CancelCallback, OnceReturnsOnce
<1> QED BY <1>1, <1>2, <1>3, <1>4, <1>5 DEF Next, Loop, Stop

-----------------------------------------------------------------------------
(* The invariant, and what follows from it. *)

THEOREM Invariant == Spec => [](Base /\ Pass)
<1>1. Init => Base /\ Pass
  BY InitBase, InitPass, BusAssumption
<1>2. Base /\ Pass /\ [Next]_vars => Base' /\ Pass'
  <2>1. Base /\ [Next]_vars => Base'
    BY BusAssumption, TypeStep, QueueShapeStep, DictShapeStep, ListShapeStep, AccountedStep
       DEF Base
  <2>2. ASSUME Base, Base', Pass, [Next]_vars PROVE Pass'
    BY <2>2, BusAssumption, CallsOrderedStep, DueReachedStep, OncePendingStep,
       OnceReturnsOnceStep DEF Pass
  <2> QED BY <2>1, <2>2
<1> QED BY <1>1, <1>2, PTL DEF Spec

\* Every variable keeps its type and the unfinished counter never underflows.
THEOREM TypeCorrect == Spec => []TypeOK
<1>1. Base /\ Pass => TypeOK
  BY DEF Base
<1> QED BY <1>1, Invariant, PTL

\* Callbacks are called in emission order, at most once per event.
THEOREM CallsInOrder == Spec => []CalledInOrder
<1>1. Base /\ Pass => CalledInOrder
  BY DEF Pass, CallsOrdered, CalledInOrder
<1> QED BY <1>1, Invariant, PTL

\* Every accepted event is in one place, and join() counts the right ones.
THEOREM NoEventLost == Spec => []EventsAccounted
<1>1. Base /\ Pass => EventsAccounted
  <2> SUFFICES ASSUME Base PROVE EventsAccounted
    OBVIOUS
  <2>1. TypeOK /\ QueueShape /\ Accounted
    BY DEF Base
  <2>2. /\ ev.id \in Nat /\ Len(queue) \in Nat /\ emitted = ev.id + Len(queue)
        /\ aborted \in SUBSET (1..MaxEvents)
    <3>1. queue \in Seq([id : 1..MaxEvents, class : Types])
      BY <2>1 DEF TypeOK
    <3> QED BY <2>1, <3>1, BusAssumption DEF TypeOK, QueueShape, BusAssumption
  <2>3. QueuedIds = (ev.id + 1)..emitted
    <3>1. \A i \in 1..Len(queue) : queue[i].id = ev.id + i
      BY <2>1 DEF QueueShape
    <3>2. ASSUME NEW n \in (ev.id + 1)..emitted PROVE n \in QueuedIds
      <4>1. n - ev.id \in 1..Len(queue) /\ ev.id + (n - ev.id) = n
        BY <2>2
      <4> QED BY <3>1, <4>1 DEF QueuedIds
    <3>3. ASSUME NEW n \in QueuedIds PROVE n \in (ev.id + 1)..emitted
      <4>1. PICK i \in 1..Len(queue) : n = ev.id + i
        BY <3>1 DEF QueuedIds
      <4> QED BY <2>2, <4>1
    <3> QED BY <3>2, <3>3
  <2>4. 1..emitted = QueuedIds \cup 1..ev.id /\ QueuedIds \cap 1..ev.id = {}
    BY <2>2, <2>3
  <2>5. Cardinality(InFlight) = IF Busy THEN 1 ELSE 0
    BY FS_EmptySet, FS_Singleton DEF InFlight
  <2> QED BY <2>1, <2>4, <2>5 DEF Accounted, EventsAccounted
<1> QED BY <1>1, Invariant, PTL

\* join() returns only when everything emitted has been processed.
THEOREM StopWaits == Spec => StopDrains
<1>1. ASSUME Base, EventsAccounted, EventsAccounted', [Next]_vars,
             stopper = "join", stopper' = "joined"
      PROVE  processed' = 1..emitted'
  <2>1. TaskDone /\ unfinished' = 0
    <3>1. ~(Start \/ (\E h \in Handlers : On(h) \/ Off(h)) \/ (\E c \in Types : Emit(c)))
      BY <1>1 DEF Start, On, Off, Emit
    <3>2. ~(Take \/ NextKey \/ DictChanged \/ NextCallback \/ ListDone \/ RemoveOnce)
      BY <1>1 DEF Take, NextKey, DictChanged, NextCallback, ListDone, RemoveOnce
    <3>3. ~(RemoveMissing \/ RemoveDone \/ Callback \/ StopCall \/ Stop \/ UNCHANGED vars)
      BY <1>1 DEF RemoveMissing, RemoveDone, Callback, CallbackReturns, CallbackRaises,
         StopCall, Stop, StopCancel, CancelIdle, CancelCallback, vars
    <3>4. TaskDone
      BY <1>1, <3>1, <3>2, <3>3 DEF Next, Loop
    <3> QED BY <1>1, <3>4 DEF TaskDone, Woken
  <2>2. /\ aborted' = aborted /\ queue' = queue
        /\ aborted \in SUBSET (1..MaxEvents) /\ MaxEvents \in Nat
        /\ Len(queue) \in Nat /\ ~Busy'
    <3>1. queue \in Seq([id : 1..MaxEvents, class : Types]) /\ aborted \in SUBSET (1..MaxEvents)
      BY <1>1 DEF Base, TypeOK
    <3> QED BY <2>1, <3>1, BusAssumption DEF TaskDone, logVars, Busy, BusAssumption
  <2>3. IsFiniteSet(aborted) /\ Cardinality(aborted) \in Nat
    BY <2>2, AbortedIsFinite
  <2>4. InFlight' = {} /\ Cardinality({}) = 0
    BY <2>2, FS_EmptySet DEF InFlight
  <2>5. 0 = Len(queue') + 0 + Cardinality(aborted')
    BY <1>1, <2>1, <2>4 DEF EventsAccounted
  <2>6. Len(queue') = 0 /\ Cardinality(aborted) = 0
    BY <2>2, <2>3, <2>5
  <2>7. aborted' = {} /\ QueuedIds' = {}
    BY <2>2, <2>3, <2>6, FS_EmptySet DEF QueuedIds
  <2> QED BY <1>1, <2>4, <2>7 DEF EventsAccounted
<1>2. ASSUME Base, EventsAccounted, EventsAccounted', [Next]_vars
      PROVE  [stopper = "join" /\ stopper' = "joined" => processed' = 1..emitted']_vars
  BY <1>1, <1>2
<1>3. Spec => []Base /\ []EventsAccounted
  <2>1. Base /\ Pass => Base
    OBVIOUS
  <2> QED BY <2>1, Invariant, NoEventLost, PTL
<1> QED BY <1>2, <1>3, PTL DEF Spec, StopDrains

\* A handler loses its turn only to a removal in front of it.
THEOREM SkippedOnlyByRemoval == Spec => []OnlyShiftedSkipped
<1>1. Base /\ Pass => OnlyShiftedSkipped
  <2> SUFFICES ASSUME Base, Pass, loop = "keys", keyPos = dictSize, Len(keys) = dictSize,
                      NEW h \in due, h \in Registered
               PROVE  h \in considered \cup shifted
    BY DEF OnlyShiftedSkipped
  <2>1. Busy /\ h \in Handlers /\ InList(h) /\ TypeOf[h] \in Types
    BY BusAssumption DEF Busy, Registered, BusAssumption
  <2>2. PICK k \in 1..Len(keys) : keys[k] = TypeOf[h]
    BY <2>1 DEF InList, Base, ListShape
  <2>3. PassedBy(h)
    BY <2>2 DEF PassedBy
  <2> QED BY <2>1, <2>3 DEF Pass, DueReached
<1> QED BY <1>1, Invariant, PTL

\* A once-callback that returned is called again only after a loop death.
THEOREM OnceOnly == Spec => []OnceReturnsOnce
<1>1. Base /\ Pass => OnceReturnsOnce
  BY DEF Pass
<1> QED BY <1>1, Invariant, PTL

\* Both promises of the bus to its callbacks together.
THEOREM HandlersAreServed == Spec => []HandlersServed
BY CallsInOrder, SkippedOnlyByRemoval, PTL DEF HandlersServed

-----------------------------------------------------------------------------
(***************************************************************************)
(* ResourceTree: the events of debit notes.                                *)
(***************************************************************************)

NotesTypes ==
    /\ issued \in 0..Len(NoteLog) /\ minTs \in Nat /\ stops \in Nat
    /\ inHand \in Seq(1..issued) /\ gathered \in Seq(1..issued)

\* The collector has an unbroken piece of the log in hand, of which it is at the
\* first; what comes later is newer than the least time.
InHandRight ==
    /\ \A k \in 1..Len(inHand) : inHand[k] = inHand[1] + k - 1
    /\ inHand # <<>> => minTs = NoteLog[inHand[1]].date
    /\ \A i \in (issued + 1)..Len(NoteLog) : NoteLog[i].date > minTs

\* What was added to debit notes is older than what is in hand.
GatheredRight ==
    /\ \A k \in 1..Len(gathered) : /\ NoteLog[gathered[k]].date <= minTs
                                   /\ inHand # <<>> => gathered[k] < inHand[1]
    /\ \A j, k \in 1..Len(gathered) : j < k => gathered[j] < gathered[k]

NotesInv == NotesTypes /\ InHandRight /\ GatheredRight /\ Cardinality(Lost) <= stops

\* Dates of the log.
LEMMA LogDates ==
    ASSUME TreeAssumption
    PROVE  /\ Len(NoteLog) \in Nat
           /\ \A i \in 1..Len(NoteLog) : NoteLog[i].date \in Nat /\ NoteLog[i].date > 0
           /\ \A i, j \in 1..Len(NoteLog) : NoteLog[i].date < NoteLog[j].date => i < j
           /\ \A i, j \in 1..Len(NoteLog) : i < j => NoteLog[i].date < NoteLog[j].date
<1>1. PICK N : NoteLog \in Seq([note : N, date : Nat \ {0}])
  BY DEF TreeAssumption
<1>2. Len(NoteLog) \in Nat /\ \A i \in 1..Len(NoteLog) : NoteLog[i] \in [note : N, date : Nat \ {0}]
  BY <1>1, ElementOfSeq, LenProperties
<1>3. \A i \in 1..Len(NoteLog) : NoteLog[i].date \in Nat \ {0}
  BY <1>2
<1>4. \A i, j \in 1..Len(NoteLog) : i < j => NoteLog[i].date < NoteLog[j].date
  BY DEF TreeAssumption
<1>5. ASSUME NEW i \in 1..Len(NoteLog), NEW j \in 1..Len(NoteLog), NoteLog[i].date < NoteLog[j].date
      PROVE  i < j
  <2>1. ~ (NoteLog[j].date < NoteLog[i].date) /\ NoteLog[i].date # NoteLog[j].date
    BY <1>3, <1>5
  <2>2. i # j /\ ~ (j < i)
    BY <1>4, <1>5, <2>1
  <2> QED
    BY <1>2, <2>2
<1> QED
  BY <1>2, <1>3, <1>4, <1>5

\* Lost does not grow with a step that does not raise, and by one with an interruption.
LEMMA LostFinite ==
    ASSUME NotesTypes, TreeAssumption PROVE IsFiniteSet(Lost) /\ Cardinality(Lost) \in Nat
<1>1. IsFiniteSet(1..issued)
  BY FS_Interval DEF NotesTypes
<1>2. Lost \subseteq 1..issued
  BY DEF Lost
<1> QED
  BY <1>1, <1>2, FS_Subset, FS_CardinalityType

LEMMA LostKept ==
    ASSUME NotesTypes, TreeAssumption, Lost' \subseteq Lost, Cardinality(Lost) <= stops,
           stops' = stops
    PROVE  Cardinality(Lost') <= stops'
<1>1. Cardinality(Lost') <= Cardinality(Lost) /\ Cardinality(Lost') \in Nat
  BY LostFinite, FS_Subset, FS_CardinalityType
<1> QED
  BY <1>1, LostFinite DEF NotesTypes

LEMMA LostOne ==
    ASSUME NotesTypes, TreeAssumption, NEW x, Lost' \subseteq Lost \cup {x},
           Cardinality(Lost) <= stops, stops' = stops + 1
    PROVE  Cardinality(Lost') <= stops'
<1>1. /\ IsFiniteSet(Lost \cup {x})
      /\ Cardinality(Lost \cup {x}) \in {Cardinality(Lost), Cardinality(Lost) + 1}
  BY LostFinite, FS_AddElement
<1>2. Cardinality(Lost') <= Cardinality(Lost \cup {x}) /\ Cardinality(Lost') \in Nat
  BY <1>1, FS_Subset, FS_CardinalityType
<1> QED
  BY <1>1, <1>2, LostFinite DEF NotesTypes

\* The elements of a list.
LEMMA ListElements ==
    ASSUME NEW S, NEW s \in Seq(S), NEW x
    PROVE  x \in ToSet(s) <=> \E k \in 1..Len(s) : s[k] = x
BY DEF ToSet
LEMMA OneMore ==
    ASSUME NEW S, NEW s \in Seq(S), NEW y \in S, NEW x
    PROVE  x \in ToSet(Append(s, y)) <=> x \in ToSet(s) \/ x = y
<1>1. /\ Append(s, y) \in Seq(S) /\ Len(Append(s, y)) = Len(s) + 1 /\ Len(s) \in Nat
      /\ Append(s, y)[Len(s) + 1] = y
      /\ \A k \in 1..Len(s) : Append(s, y)[k] = s[k]
  BY AppendProperties
<1>2. \A k \in 1..(Len(s) + 1) : k \in 1..Len(s) \/ k = Len(s) + 1
  BY <1>1
<1>3. Len(s) + 1 \in 1..(Len(s) + 1) /\ \A k \in 1..Len(s) : k \in 1..(Len(s) + 1)
  BY <1>1
<1>4. \A t \in Seq(S) : x \in ToSet(t) <=> \E k \in 1..Len(t) : t[k] = x
  BY ListElements
<1> QED
  BY <1>1, <1>2, <1>3, <1>4

\* yagna has one more event, later than all before.
LEMMA IssueStep == ASSUME TreeAssumption, NotesInv, Issue PROVE NotesInv'
<1>0. /\ issued' = issued + 1 /\ issued < Len(NoteLog)
      /\ UNCHANGED <<minTs, inHand, gathered, stops>>
  BY DEF Issue
<1>1. /\ issued \in Nat /\ issued' \in 0..Len(NoteLog) /\ 1..issued \subseteq 1..issued'
      /\ (issued' + 1)..Len(NoteLog) \subseteq (issued + 1)..Len(NoteLog)
      /\ issued' \in (issued + 1)..Len(NoteLog)
  BY <1>0, LogDates DEF NotesInv, NotesTypes
<1>2. NotesTypes'
  <2>1. Seq(1..issued) \subseteq Seq(1..issued')
    BY <1>1
  <2> QED
    BY <1>0, <1>1, <2>1 DEF NotesInv, NotesTypes
<1>3. InHandRight'
  BY <1>0, <1>1 DEF NotesInv, InHandRight
<1>4. GatheredRight'
  BY <1>0 DEF NotesInv, GatheredRight
<1>5. Lost' \subseteq Lost
  <2> SUFFICES ASSUME NEW i \in Lost' PROVE i \in Lost
    OBVIOUS
  <2>1. i \in 1..issued' /\ NoteLog[i].date <= minTs /\ i \notin ToSet(gathered) \cup ToSet(inHand)
    BY <1>0 DEF Lost
  <2>2. i # issued'
    <3>1. NoteLog[issued'].date > minTs
      BY <1>1 DEF NotesInv, InHandRight
    <3>2. NoteLog[issued'].date \in Nat /\ minTs \in Nat
      BY <1>1, LogDates DEF NotesInv, NotesTypes
    <3> QED
      BY <2>1, <3>1, <3>2
  <2>3. i \in 1..issued
    BY <1>0, <1>1, <2>1, <2>2
  <2> QED
    BY <2>1, <2>3 DEF Lost
<1> QED
  BY <1>0, <1>2, <1>3, <1>4, <1>5, LostKept DEF NotesInv

\* A collector without an event in hand takes what is new.
LEMMA CollectStep == ASSUME TreeAssumption, NotesInv, Collect PROVE NotesInv'
<1>0. inHand = <<>> /\ UNCHANGED <<issued, gathered, stops>>
  BY DEF Collect
<1>1. PICK seen \in 0..(issued - 1) :
          /\ \A i \in 1..issued : i > seen <=> NoteLog[i].date > minTs
          /\ TakeUp([k \in 1..(issued - seen) |-> seen + k])
  BY DEF Collect
<1> DEFINE n == issued - seen
           new == [k \in 1..n |-> seen + k]
<1>2. /\ issued \in Nat /\ seen \in Nat /\ n \in Nat /\ n > 0 /\ seen + 1 \in 1..issued
      /\ seen + 1 \in 1..Len(NoteLog) /\ 1 \in 1..n
      /\ \A k \in 1..n : seen + k \in 1..issued
  BY LogDates DEF NotesInv, NotesTypes
<1>3. new \in Seq(1..issued) /\ Len(new) = n /\ new # <<>> /\ Head(new) = seen + 1
  <2>1. new \in Seq(1..issued) /\ Len(new) = n
    BY <1>2
  <2>2. new # <<>>
    BY <1>2, <2>1, EmptySeq
  <2>3. Head(new) = new[1]
    BY <2>1
  <2> QED
    BY <1>2, <2>1, <2>2, <2>3
<1>4. inHand' = new /\ minTs' = NoteLog[seen + 1].date
  BY <1>1, <1>3 DEF TakeUp, ReachedTs
<1>5. /\ Len(inHand') = n /\ inHand' # <<>> /\ inHand'[1] = seen + 1
      /\ \A k \in 1..n : inHand'[k] = seen + k
  BY <1>2, <1>3, <1>4
<1>6. minTs' \in Nat /\ minTs' > minTs /\ minTs \in Nat
  BY <1>1, <1>2, <1>4, LogDates DEF NotesInv, NotesTypes
<1> HIDE DEF new, n
<1>7. NotesTypes'
  BY <1>0, <1>3, <1>4, <1>6 DEF NotesInv, NotesTypes
<1>8. InHandRight'
  <2>1. \A i \in (issued + 1)..Len(NoteLog) : i \in 1..Len(NoteLog) /\ seen + 1 < i
    BY <1>2, LogDates
  <2>2. \A i \in (issued + 1)..Len(NoteLog) : NoteLog[i].date > minTs'
    BY <1>2, <1>4, <2>1, LogDates
  <2>3. \A k \in 1..n : inHand'[k] = inHand'[1] + k - 1
    BY <1>2, <1>5
  <2> QED
    BY <1>0, <1>4, <1>5, <2>2, <2>3 DEF InHandRight
<1>9. GatheredRight'
  <2>1. ASSUME NEW k \in 1..Len(gathered)
        PROVE  NoteLog[gathered[k]].date <= minTs' /\ gathered[k] < seen + 1
    <3>1. gathered[k] \in 1..issued /\ NoteLog[gathered[k]].date <= minTs
      BY ElementOfSeq DEF NotesInv, NotesTypes, GatheredRight
    <3>2. NoteLog[gathered[k]].date \in Nat
      BY <3>1, LogDates DEF NotesInv, NotesTypes
    <3>3. ~ (gathered[k] > seen)
      BY <1>1, <1>6, <3>1, <3>2
    <3> QED
      BY <1>2, <1>6, <3>1, <3>2, <3>3
  <2> QED
    BY <1>0, <1>5, <2>1 DEF NotesInv, GatheredRight
<1>10. Lost' \subseteq Lost
  <2> SUFFICES ASSUME NEW i \in Lost' PROVE i \in Lost
    OBVIOUS
  <2>1. /\ i \in 1..issued /\ NoteLog[i].date <= minTs' /\ i \notin ToSet(gathered)
        /\ i \notin ToSet(inHand')
    BY <1>0 DEF Lost
  <2>2. i \in Nat /\ i \in 1..Len(NoteLog) /\ NoteLog[i].date \in Nat
    BY <2>1, LogDates DEF NotesInv, NotesTypes
  <2>3. ~ (i > seen)
    <3>1. SUFFICES ASSUME i > seen PROVE FALSE
      OBVIOUS
    <3>2. i - seen \in 1..n /\ seen + (i - seen) = i
      BY <1>2, <2>1, <2>2, <3>1 DEF n
    <3>3. inHand'[i - seen] = i
      BY <1>5, <3>2
    <3>4. i \in ToSet(inHand')
      BY <1>3, <1>4, <1>5, <3>2, <3>3, ListElements
    <3> QED
      BY <2>1, <3>4
  <2>4. ~ (NoteLog[i].date > minTs)
    BY <1>1, <2>1, <2>3
  <2>5. i \notin ToSet(inHand)
    BY <1>0 DEF ToSet
  <2> QED
    BY <1>6, <2>1, <2>2, <2>4, <2>5 DEF Lost
<1> QED
  BY <1>0, <1>7, <1>8, <1>9, <1>10, LostKept DEF NotesInv

\* The event in hand is added to its debit note, and the next one taken up.
LEMMA ProcessStep == ASSUME TreeAssumption, NotesInv, ProcessEvent PROVE NotesInv'
<1> DEFINE h == Head(inHand)
           t == Tail(inHand)
<1>0. /\ inHand # <<>> /\ inHand' = t /\ minTs' = ReachedTs(t)
      /\ gathered' = Append(gathered, h) /\ UNCHANGED <<issued, stops>>
  BY DEF ProcessEvent, TakeUp
<1>1. /\ inHand \in Seq(1..issued) /\ gathered \in Seq(1..issued) /\ issued \in Nat
      /\ minTs \in Nat /\ 1..issued \subseteq 1..Len(NoteLog)
  BY LogDates DEF NotesInv, NotesTypes
<1>2. /\ h = inHand[1] /\ h \in 1..issued /\ Len(inHand) \in Nat /\ Len(inHand) > 0
      /\ t \in Seq(1..issued) /\ Len(t) = Len(inHand) - 1
      /\ \A k \in 1..Len(t) : t[k] = inHand[k + 1]
  BY <1>0, <1>1, HeadTailProperties, EmptySeq
<1>3. minTs = NoteLog[h].date /\ \A k \in 1..Len(inHand) : inHand[k] = h + k - 1
  BY <1>0, <1>2 DEF NotesInv, InHandRight
<1> HIDE DEF h, t
<1>4. \A k \in 1..Len(t) : t[k] = h + k
  BY <1>1, <1>2, <1>3
<1>5. /\ gathered' \in Seq(1..issued) /\ Len(gathered') = Len(gathered) + 1 /\ Len(gathered) \in Nat
      /\ gathered'[Len(gathered) + 1] = h
      /\ \A k \in 1..Len(gathered) : gathered'[k] = gathered[k]
      /\ \A k \in 1..Len(gathered') : k \in 1..Len(gathered) \/ k = Len(gathered) + 1
  BY <1>0, <1>1, <1>2, AppendProperties
<1>6. \A i \in 1..issued : i \in ToSet(gathered') <=> i \in ToSet(gathered) \/ i = h
  BY <1>0, <1>1, <1>2, OneMore
<1>7. /\ \A k \in 1..Len(gathered) : gathered[k] < h
      /\ \A k \in 1..Len(gathered) : gathered[k] \in 1..issued
      /\ \A k \in 1..Len(gathered) : NoteLog[gathered[k]].date <= minTs
      /\ \A k \in 1..Len(gathered) : NoteLog[gathered[k]].date \in Nat
  <2>1. \A k \in 1..Len(gathered) : gathered[k] \in 1..issued
    BY <1>1, ElementOfSeq
  <2>2. \A k \in 1..Len(gathered) : NoteLog[gathered[k]].date \in Nat
    BY <1>1, <2>1, LogDates
  <2> QED
    BY <1>0, <1>2, <2>1, <2>2 DEF NotesInv, GatheredRight
<1>8. \A j, k \in 1..Len(gathered') : j < k => gathered'[j] < gathered'[k]
  <2> SUFFICES ASSUME NEW j \in 1..Len(gathered'), NEW k \in 1..Len(gathered'), j < k
               PROVE  gathered'[j] < gathered'[k]
    OBVIOUS
  <2>1. j \in 1..Len(gathered)
    BY <1>5
  <2>2. CASE k \in 1..Len(gathered)
    BY <1>5, <2>1, <2>2 DEF NotesInv, GatheredRight
  <2>3. CASE k = Len(gathered) + 1
    BY <1>5, <1>7, <2>1, <2>3
  <2> QED
    BY <1>5, <2>2, <2>3
\* What is taken up next is just after h, or nothing.
<1>9. /\ minTs' \in Nat /\ minTs <= minTs'
      /\ inHand' # <<>> => inHand'[1] = h + 1 /\ minTs' = NoteLog[h + 1].date /\ h + 1 \in 1..issued
      /\ inHand' = <<>> => minTs' = minTs
  <2>1. CASE t = <<>>
    BY <1>0, <1>1, <2>1 DEF ReachedTs
  <2>2. CASE t # <<>>
    <3>1. Len(t) > 0 /\ 1 \in 1..Len(t) /\ Head(t) = t[1]
      BY <1>2, <2>2, EmptySeq
    <3>2. t[1] = h + 1 /\ t[1] \in 1..issued
      BY <1>2, <1>4, <3>1, ElementOfSeq
    <3>3. minTs' = NoteLog[h + 1].date
      BY <1>0, <2>2, <3>1, <3>2 DEF ReachedTs
    <3>4. NoteLog[h].date < NoteLog[h + 1].date /\ NoteLog[h + 1].date \in Nat
      BY <1>1, <1>2, <3>2, LogDates
    <3> QED
      BY <1>0, <1>1, <1>3, <2>2, <3>2, <3>3, <3>4
  <2> QED
    BY <2>1, <2>2
<1>10. NotesTypes'
  BY <1>0, <1>2, <1>5, <1>9 DEF NotesInv, NotesTypes
<1>11. InHandRight'
  <2>1. \A k \in 1..Len(inHand') : inHand'[k] = inHand'[1] + k - 1
    <3> SUFFICES ASSUME NEW k \in 1..Len(t) PROVE t[k] = t[1] + k - 1
      BY <1>0
    <3>1. 1 \in 1..Len(t)
      BY <1>2
    <3> QED
      BY <1>2, <1>4, <3>1
  <2>2. ASSUME NEW i \in (issued + 1)..Len(NoteLog) PROVE NoteLog[i].date > minTs'
    <3>1. i \in 1..Len(NoteLog) /\ h + 1 \in Int /\ (h + 1 \in 1..issued => h + 1 < i)
      BY <1>1, <1>2, LogDates
    <3>2. CASE inHand' = <<>>
      BY <1>0, <1>9, <2>2, <3>2 DEF NotesInv, InHandRight
    <3>3. CASE inHand' # <<>>
      BY <1>1, <1>9, <3>1, <3>3, LogDates
    <3> QED
      BY <3>2, <3>3
  <2> QED
    BY <1>0, <1>9, <2>1, <2>2 DEF InHandRight
<1>12. GatheredRight'
  <2> SUFFICES ASSUME NEW k \in 1..Len(gathered')
               PROVE  /\ NoteLog[gathered'[k]].date <= minTs'
                      /\ inHand' # <<>> => gathered'[k] < inHand'[1]
    BY <1>8 DEF GatheredRight
  <2>0. gathered'[k] \in 1..issued /\ NoteLog[gathered'[k]].date \in Nat
        /\ NoteLog[gathered'[k]].date <= minTs /\ gathered'[k] <= h
    <3>1. CASE k \in 1..Len(gathered)
      <4>1. gathered'[k] = gathered[k]
        BY <1>5, <3>1
      <4>2. gathered[k] \in 1..issued /\ gathered[k] < h
        BY <1>7, <3>1
      <4> QED
        BY <1>1, <1>2, <1>7, <3>1, <4>1, <4>2
    <3>2. CASE k = Len(gathered) + 1
      <4>1. gathered'[k] = h /\ NoteLog[h].date = minTs
        BY <1>3, <1>5, <3>2
      <4> QED
        BY <1>1, <1>2, <4>1
    <3> QED
      BY <1>5, <3>1, <3>2
  <2>1. PICK d \in Nat : d = NoteLog[gathered'[k]].date /\ d <= minTs
    BY <2>0
  <2>2. d <= minTs'
    BY <1>1, <1>9, <2>1
  <2>3. inHand' # <<>> => gathered'[k] < inHand'[1]
    BY <1>2, <1>9, <2>0
  <2> QED
    BY <2>1, <2>2, <2>3
<1>13. Lost' \subseteq Lost
  <2> SUFFICES ASSUME NEW i \in Lost' PROVE i \in Lost
    OBVIOUS
  <2>1. /\ i \in 1..issued /\ NoteLog[i].date <= minTs' /\ i \notin ToSet(gathered) /\ i # h
        /\ i \notin ToSet(inHand')
    BY <1>0, <1>6 DEF Lost
  <2>2. i \in Nat /\ i \in 1..Len(NoteLog) /\ NoteLog[i].date \in Nat
    BY <1>1, <2>1, LogDates
  <2>3. i \notin ToSet(inHand)
    <3>1. SUFFICES ASSUME NEW k \in 1..Len(inHand), inHand[k] = i PROVE FALSE
      BY <1>1, ListElements
    <3>2. k # 1
      BY <1>2, <2>1, <3>1
    <3>3. k - 1 \in 1..Len(t) /\ t[k - 1] = i
      <4>1. k - 1 \in 1..Len(t) /\ (k - 1) + 1 = k
        BY <1>2, <3>2
      <4> QED
        BY <1>2, <3>1, <4>1
    <3>4. i \in ToSet(t)
      BY <1>2, <3>3, ListElements
    <3> QED
      BY <1>0, <2>1, <3>4
  <2>4. NoteLog[i].date <= minTs
    <3>1. CASE inHand' = <<>>
      BY <1>9, <2>1, <3>1
    <3>2. CASE inHand' # <<>>
      <4>1. ~ (h + 1 < i)
        <5>1. h + 1 < i => NoteLog[h + 1].date < NoteLog[i].date
          BY <1>1, <1>9, <2>2, <3>2, LogDates
        <5> QED
          BY <1>9, <2>1, <2>2, <3>2, <5>1
      <4>2. i # h + 1
        <5>1. 1 \in 1..Len(t) /\ t[1] = h + 1
          BY <1>0, <1>2, <1>9, <3>2, EmptySeq
        <5>2. h + 1 \in ToSet(t)
          BY <1>2, <5>1, ListElements
        <5> QED
          BY <1>0, <2>1, <5>2
      <4>3. i < h
        BY <1>2, <2>1, <2>2, <4>1, <4>2
      <4>4. NoteLog[i].date < NoteLog[h].date /\ NoteLog[h].date = minTs
        BY <1>1, <1>2, <1>3, <2>2, <4>3, LogDates
      <4> QED
        BY <1>1, <2>2, <4>4
    <3> QED
      BY <3>1, <3>2
  <2> QED
    BY <2>1, <2>3, <2>4 DEF Lost
<1> QED
  BY <1>0, <1>10, <1>11, <1>12, <1>13, LostKept DEF NotesInv

\* The collector is interrupted: the event it is at is asked for no more, those behind
\* it are.
LEMMA HandLostStep == ASSUME TreeAssumption, NotesInv, HandLost PROVE NotesInv'
<1>0. inHand' = <<>> /\ stops' = stops + 1 /\ UNCHANGED <<issued, minTs, gathered>>
  BY DEF HandLost
<1>1. /\ inHand \in Seq(1..issued) /\ gathered \in Seq(1..issued) /\ issued \in Nat
      /\ minTs \in Nat /\ 1..issued \subseteq 1..Len(NoteLog)
  BY LogDates DEF NotesInv, NotesTypes
<1>2. NotesTypes'
  BY <1>0, <1>1 DEF NotesInv, NotesTypes
<1>3. InHandRight'
  BY <1>0 DEF NotesInv, InHandRight
<1>4. GatheredRight'
  BY <1>0 DEF NotesInv, GatheredRight
<1>5. Lost' \subseteq Lost \cup {inHand[1]}
  <2> SUFFICES ASSUME NEW i \in Lost', i # inHand[1] PROVE i \in Lost
    OBVIOUS
  <2>1. i \in 1..issued /\ NoteLog[i].date <= minTs /\ i \notin ToSet(gathered)
    BY <1>0 DEF Lost
  <2>2. i \notin ToSet(inHand)
    <3>1. SUFFICES ASSUME NEW k \in 1..Len(inHand), inHand[k] = i PROVE FALSE
      BY <1>1, ListElements
    <3>2. k # 1 /\ inHand # <<>> /\ 1 \in 1..Len(inHand) /\ Len(inHand) \in Nat
      BY <1>1, <3>1, EmptySeq
    <3>3. minTs = NoteLog[inHand[1]].date /\ i = inHand[1] + k - 1
      BY <3>1, <3>2 DEF NotesInv, InHandRight
    <3>4. inHand[1] \in 1..issued
      BY <1>1, <3>2, ElementOfSeq
    <3>5. inHand[1] < i
      BY <1>1, <3>2, <3>3, <3>4
    <3>6. NoteLog[inHand[1]].date < NoteLog[i].date
      BY <1>1, <2>1, <3>4, <3>5, LogDates
    <3>7. PICK d \in Nat : d = NoteLog[i].date
      BY <1>1, <2>1, LogDates
    <3>8. minTs < d /\ d <= minTs
      BY <2>1, <3>3, <3>6, <3>7
    <3> QED
      BY <1>1, <3>8
  <2> QED
    BY <2>1, <2>2 DEF Lost
<1> QED
  BY <1>0, <1>2, <1>3, <1>4, <1>5, LostOne DEF NotesInv

\* A step of anything else.
LEMMA NotesRest ==
    ASSUME NotesInv, UNCHANGED <<issued, minTs, inHand, gathered, stops>> PROVE NotesInv'
BY DEF NotesInv, NotesTypes, InHandRight, GatheredRight, Lost

LEMMA NotesStart == ASSUME TreeAssumption, TreeInit PROVE NotesInv
<1>1. /\ issued = 0 /\ minTs = 0 /\ stops = 0 /\ inHand = <<>> /\ gathered = <<>>
  BY DEF TreeInit
<1>2. Lost = {}
  BY <1>1 DEF Lost
<1>3. Cardinality(Lost) = 0
  BY <1>2, FS_EmptySet
<1>4. NotesTypes
  BY <1>1, LogDates DEF NotesTypes
<1>5. InHandRight
  BY <1>1, LogDates DEF InHandRight
<1>6. GatheredRight
  BY <1>1 DEF GatheredRight
<1> QED
  BY <1>1, <1>3, <1>4, <1>5, <1>6 DEF NotesInv

(***************************************************************************)
(* NoteEventsKept, for every log of events, any failures and any number of *)
(* times that collecting is stopped and started (event_collectors.py       *)
(* _process_event, _collect_events_kwargs).                                *)
(***************************************************************************)
THEOREM NoteEventsInOrder ==
    ASSUME TreeAssumption PROVE TreeSpec => []NoteEventsKept
<1>1. TreeInit => NotesInv
  BY NotesStart
<1>2. NotesInv /\ [TreeNext]_treeVars => NotesInv'
  <2> SUFFICES ASSUME NotesInv, [TreeNext]_treeVars PROVE NotesInv'
    OBVIOUS
  <2>1. CASE DemandNext
    <3>1. UNCHANGED noteVars
      BY <2>1 DEF DemandNext, CollectFails
    <3> QED
      BY <3>1, NotesRest DEF noteVars
  <2>2. CASE NoteStep
    <3>1. CASE GetNoteRaises \/ StopCollecting
      BY <3>1, HandLostStep DEF GetNoteRaises, StopCollecting
    <3>2. CASE ListNotes
      BY <3>2, NotesRest DEF ListNotes
    <3> QED
      BY <2>2, <3>1, <3>2, IssueStep, ProcessStep DEF NoteStep
  <2>3. CASE StartCollecting
    BY <2>3, NotesRest DEF StartCollecting, noteVars
  <2>4. ASSUME NEW e \in Errors, CollectFails("notes", e) PROVE NotesInv'
    BY <2>4, NotesRest DEF CollectFails, noteVars
  <2>5. CASE UNCHANGED treeVars
    BY <2>5, NotesRest DEF treeVars, noteVars
  <2> QED
    BY <2>1, <2>2, <2>3, <2>4, <2>5, CollectStep DEF TreeNext, NoteNext
<1>3. NotesInv => NoteEventsKept
  <2> SUFFICES ASSUME NotesInv PROVE NoteEventsKept
    OBVIOUS
  <2>1. DOMAIN gathered = 1..Len(gathered)
    BY DEF NotesInv, NotesTypes
  <2> QED
    BY <2>1 DEF NotesInv, GatheredRight, NoteEventsKept
<1> QED
  BY <1>1, <1>2, <1>3, PTL DEF TreeSpec

-----------------------------------------------------------------------------
(***************************************************************************)
(* ResourceTree: the proposals of a demand.                                *)
(***************************************************************************)

Happenings == [kind : {"proposal", "rejected"}, id : Ids]

DemandTypes ==
    /\ known \subseteq Ids
    /\ parent \in [Ids -> Ids \cup {Demand, NoParent}]
    /\ children \in [Ids \cup {Demand} -> Seq(Ids)]
    /\ events \in [Ids -> Seq(Happenings)]
    /\ inbox \in Seq(Happenings)
    /\ told \subseteq Happenings
    /\ responses \in [Ours -> {"none", "sent", "returned", "failed"}]
    /\ collector \in [Collectors -> {"on", "off", "dead"}]

Taken == told \ ToSet(inbox)

\* The market tells of everything once, of what it was sent.
InboxRight ==
    /\ \A i, j \in 1..Len(inbox) : inbox[i] = inbox[j] => i = j
    /\ ToSet(inbox) \subseteq told
    /\ \A e \in told :
           IF e.kind = "proposal"
           THEN e.id \in Theirs /\ (Prev[e.id] \in Ours => responses[Prev[e.id]] # "none")
           ELSE e.id \in Ours /\ responses[e.id] # "none"

\* A proposal with a parent has an object, and is a child once; our response has
\* its parent when its call has returned.
FamilyRight ==
    \A p \in Ids :
        /\ parent[p] \in {NoParent, Prev[p]}
        /\ HowOften(children[Prev[p]], p) = IF parent[p] = NoParent THEN 0 ELSE 1
        /\ parent[p] # NoParent => p \in known
        /\ p \in known /\ parent[p] = NoParent =>
               p \in Early \/ (p \in Ours /\ responses[p] \in {"sent", "failed"})
        /\ p \in Ours => (parent[p] # NoParent <=> responses[p] = "returned")

\* What was not taken was not added.
HeardRight ==
    /\ \A e \in Happenings \ Taken : Heard(e) = 0
    /\ \A e \in Taken : Heard(e) <= 1 /\ Heard(e) \in Nat
    /\ collector["offers"] = "on" => \A e \in Taken : Heard(e) = 1

FamilyInv == DemandTypes /\ InboxRight /\ FamilyRight /\ HeardRight

\* How often something is in a list that has one more element.
LEMMA OftenAppend ==
    ASSUME NEW S, NEW s \in Seq(S), NEW y \in S, NEW x
    PROVE  /\ HowOften(s, x) \in Nat
           /\ HowOften(Append(s, y), x) = HowOften(s, x) + (IF x = y THEN 1 ELSE 0)
<1> DEFINE A == {i \in DOMAIN s : s[i] = x}
           t == Append(s, y)
           B == {i \in DOMAIN t : t[i] = x}
           n == Len(s) + 1
<1>1. /\ Len(s) \in Nat /\ DOMAIN s = 1..Len(s) /\ t \in Seq(S) /\ Len(t) = n
      /\ DOMAIN t = 1..n /\ t[n] = y /\ \A i \in 1..Len(s) : t[i] = s[i]
  BY AppendProperties
<1>2. IsFiniteSet(A)
  <2>1. A \subseteq 1..Len(s) /\ IsFiniteSet(1..Len(s))
    BY <1>1, FS_Interval
  <2> QED
    BY <2>1, FS_Subset
<1>3. n \notin A
  BY <1>1
<1>4. B = IF x = y THEN A \cup {n} ELSE A
  <2>1. \A i \in 1..n : i \in 1..Len(s) \/ i = n
    BY <1>1
  <2>2. \A i \in 1..Len(s) : i \in 1..n
    BY <1>1
  <2>3. n \in 1..n
    BY <1>1
  <2> QED
    BY <1>1, <2>1, <2>2, <2>3
<1> HIDE DEF A, B, n
<1>5. Cardinality(A) \in Nat /\ Cardinality(A \cup {n}) = Cardinality(A) + 1
  BY <1>2, <1>3, FS_AddElement, FS_CardinalityType
<1>6. HowOften(s, x) = Cardinality(A) /\ HowOften(t, x) = Cardinality(B)
  BY DEF HowOften, A, B
<1> QED
  BY <1>4, <1>5, <1>6

LEMMA OftenEmpty == ASSUME NEW x PROVE HowOften(<<>>, x) = 0
<1>1. {i \in DOMAIN <<>> : <<>>[i] = x} = {}
  OBVIOUS
<1> QED
  BY <1>1, FS_EmptySet DEF HowOften

\* The head of the inbox, and what is left.
LEMMA InboxHead ==
    ASSUME TreeAssumption, FamilyInv, inbox # <<>>
    PROVE  /\ Head(inbox) \in told /\ Head(inbox) \in ToSet(inbox) /\ Head(inbox) \in Happenings
           /\ Tail(inbox) \in Seq(Happenings)
           /\ ToSet(Tail(inbox)) = ToSet(inbox) \ {Head(inbox)}
           /\ \A i, j \in 1..Len(Tail(inbox)) : Tail(inbox)[i] = Tail(inbox)[j] => i = j
<1> DEFINE s == inbox
           t == Tail(inbox)
           h == Head(inbox)
<1>1. /\ s \in Seq(Happenings) /\ Len(s) \in Nat /\ Len(s) > 0 /\ h = s[1]
      /\ t \in Seq(Happenings) /\ Len(t) = Len(s) - 1
      /\ \A i \in 1..Len(t) : t[i] = s[i + 1]
  BY HeadTailProperties, EmptySeq DEF FamilyInv, DemandTypes
<1>2. \A i, j \in 1..Len(s) : s[i] = s[j] => i = j
  BY DEF FamilyInv, InboxRight
<1>3. DOMAIN s = 1..Len(s) /\ DOMAIN t = 1..Len(t)
  BY <1>1
<1>4. ToSet(s) = {s[i] : i \in 1..Len(s)} /\ ToSet(t) = {t[i] : i \in 1..Len(t)}
  BY <1>3 DEF ToSet
<1>5. 1 \in 1..Len(s)
  BY <1>1
<1> HIDE DEF t, h
<1>6. h \in ToSet(s) /\ h \in told /\ h \in Happenings
  BY <1>1, <1>4, <1>5 DEF FamilyInv, InboxRight, DemandTypes
<1>7. \A i \in 1..Len(t) : i + 1 \in 1..Len(s) /\ i + 1 # 1
  BY <1>1
<1>8. \A i \in 1..Len(s) : i # 1 => i - 1 \in 1..Len(t) /\ (i - 1) + 1 = i
  BY <1>1
<1>9. ASSUME NEW x \in ToSet(t) PROVE x \in ToSet(s) \ {h}
  <2>1. PICK i \in 1..Len(t) : x = t[i]
    BY <1>4
  <2>2. x = s[i + 1] /\ i + 1 \in 1..Len(s) /\ i + 1 # 1
    BY <1>1, <1>7, <2>1
  <2> QED
    BY <1>1, <1>2, <1>4, <1>5, <2>2
<1>10. ASSUME NEW x \in ToSet(s) \ {h} PROVE x \in ToSet(t)
  <2>1. PICK i \in 1..Len(s) : x = s[i]
    BY <1>4
  <2>2. i - 1 \in 1..Len(t) /\ (i - 1) + 1 = i
    BY <1>1, <1>8, <2>1
  <2>3. t[i - 1] = x
    BY <1>1, <2>1, <2>2
  <2> QED
    BY <1>4, <2>2, <2>3
<1>11. ASSUME NEW i \in 1..Len(t), NEW j \in 1..Len(t), t[i] = t[j] PROVE i = j
  <2>1. i + 1 = j + 1
    BY <1>1, <1>2, <1>7, <1>11
  <2> QED
    BY <2>1
<1> QED
  BY <1>1, <1>6, <1>9, <1>10, <1>11 DEF t, h

\* The market tells of one more thing.
LEMMA TellStep ==
    ASSUME TreeAssumption, FamilyInv, NEW e \in Happenings, Tell(e),
           IF e.kind = "proposal"
           THEN e.id \in Theirs /\ (Prev[e.id] \in Ours => responses[Prev[e.id]] # "none")
           ELSE e.id \in Ours /\ responses[e.id] # "none",
           UNCHANGED <<known, parent, children, events, responses, collector>>
    PROVE  FamilyInv'
<1>1. e \notin told /\ told' = told \cup {e} /\ inbox' = Append(inbox, e)
  BY DEF Tell
<1>2. inbox \in Seq(Happenings) /\ Len(inbox) \in Nat /\ DOMAIN inbox = 1..Len(inbox)
  BY DEF FamilyInv, DemandTypes
<1>3. /\ inbox' \in Seq(Happenings) /\ Len(inbox') = Len(inbox) + 1
      /\ inbox'[Len(inbox) + 1] = e /\ DOMAIN inbox' = 1..(Len(inbox) + 1)
      /\ \A i \in 1..Len(inbox) : inbox'[i] = inbox[i]
  BY <1>1, <1>2, AppendProperties
<1>4. \A i \in 1..Len(inbox') : i \in 1..Len(inbox) \/ i = Len(inbox) + 1
  BY <1>2, <1>3
<1>5. ToSet(inbox') = ToSet(inbox) \cup {e}
  <2>1. \A i \in 1..Len(inbox) : i \in 1..(Len(inbox) + 1)
    BY <1>2
  <2>2. Len(inbox) + 1 \in 1..(Len(inbox) + 1)
    BY <1>2
  <2> QED
    BY <1>2, <1>3, <1>4, <2>1, <2>2 DEF ToSet
<1>6. Taken' = Taken
  BY <1>1, <1>5 DEF Taken, FamilyInv, InboxRight
<1>7. InboxRight'
  <2>1. \A i \in 1..Len(inbox) : inbox[i] \in told /\ inbox[i] # e
    BY <1>1, <1>2 DEF ToSet, FamilyInv, InboxRight
  <2>2. ASSUME NEW i \in 1..Len(inbox'), NEW j \in 1..Len(inbox'), inbox'[i] = inbox'[j]
        PROVE  i = j
    <3>1. CASE i \in 1..Len(inbox) /\ j \in 1..Len(inbox)
      BY <1>3, <2>2, <3>1 DEF FamilyInv, InboxRight
    <3>2. CASE i = Len(inbox) + 1 \/ j = Len(inbox) + 1
      BY <1>3, <1>4, <2>1, <2>2, <3>2
    <3> QED
      BY <1>4, <3>1, <3>2
  <2>3. ToSet(inbox') \subseteq told'
    BY <1>1, <1>5 DEF FamilyInv, InboxRight
  <2>4. \A f \in told' :
            IF f.kind = "proposal"
            THEN f.id \in Theirs /\ (Prev[f.id] \in Ours => responses[Prev[f.id]] # "none")
            ELSE f.id \in Ours /\ responses[f.id] # "none"
    BY <1>1 DEF FamilyInv, InboxRight
  <2> QED
    BY <2>2, <2>3, <2>4 DEF InboxRight
<1>8. DemandTypes'
  BY <1>1, <1>3 DEF FamilyInv, DemandTypes
<1>9. HeardRight'
  BY <1>6 DEF FamilyInv, HeardRight, Heard
<1> QED
  BY <1>7, <1>8, <1>9 DEF FamilyInv, FamilyRight

\* Calls of respond go on.
LEMMA ResponseStep ==
    ASSUME TreeAssumption, FamilyInv, NEW p \in Ours, Respond(p) \/ RespondTimesOut(p),
           UNCHANGED collector
    PROVE  FamilyInv'
<1>1. /\ UNCHANGED <<known, parent, children, events, inbox, told, collector>>
      /\ responses[p] \in {"none", "sent"}
      /\ \/ responses' = [responses EXCEPT ![p] = "sent"]
         \/ responses' = [responses EXCEPT ![p] = "failed"]
  BY DEF Respond, RespondTimesOut
<1>2. /\ responses' \in [Ours -> {"none", "sent", "returned", "failed"}]
      /\ responses'[p] \in {"sent", "failed"}
      /\ \A q \in Ours : q # p => responses'[q] = responses[q]
  BY <1>1 DEF FamilyInv, DemandTypes
<1>3. DemandTypes'
  BY <1>1, <1>2 DEF FamilyInv, DemandTypes
<1>4. InboxRight'
  BY <1>1, <1>2 DEF FamilyInv, InboxRight
<1>5. FamilyRight'
  BY <1>1, <1>2 DEF FamilyInv, FamilyRight
<1>6. HeardRight'
  BY <1>1 DEF FamilyInv, HeardRight, Heard, Taken
<1> QED
  BY <1>3, <1>4, <1>5, <1>6 DEF FamilyInv

\* A proposal without a parent is added to the one it answers.
LEMMA Adopted ==
    ASSUME TreeAssumption, FamilyInv, NEW p \in Ids, AddChild(p)
    PROVE  /\ parent' \in [Ids -> Ids \cup {Demand, NoParent}]
           /\ children' \in [Ids \cup {Demand} -> Seq(Ids)]
           /\ parent'[p] = Prev[p] /\ \A q \in Ids : q # p => parent'[q] = parent[q]
           /\ \A q \in Ids : HowOften(children'[Prev[q]], q)
                                = HowOften(children[Prev[q]], q) + (IF q = p THEN 1 ELSE 0)
<1>1. /\ parent' = [parent EXCEPT ![p] = Prev[p]]
      /\ children' = [children EXCEPT ![Prev[p]] = Append(@, p)]
  BY DEF AddChild, Attached
<1>2. /\ parent \in [Ids -> Ids \cup {Demand, NoParent}]
      /\ children \in [Ids \cup {Demand} -> Seq(Ids)]
      /\ \A q \in Ids : Prev[q] \in Ids \cup {Demand}
  BY DEF FamilyInv, DemandTypes, TreeAssumption
<1>3. \A q \in Ids : children[Prev[q]] \in Seq(Ids)
  BY <1>2
<1>4. Append(children[Prev[p]], p) \in Seq(Ids)
  BY <1>3
<1>5. children' \in [Ids \cup {Demand} -> Seq(Ids)]
  BY <1>1, <1>2, <1>4
<1>6. ASSUME NEW q \in Ids
      PROVE  HowOften(children'[Prev[q]], q)
                = HowOften(children[Prev[q]], q) + (IF q = p THEN 1 ELSE 0)
  <2>1. /\ HowOften(children[Prev[q]], q) \in Nat
        /\ HowOften(Append(children[Prev[p]], p), q)
             = HowOften(children[Prev[p]], q) + (IF q = p THEN 1 ELSE 0)
    BY <1>3, OftenAppend
  <2>2. CASE Prev[q] = Prev[p]
    <3>1. children'[Prev[q]] = Append(children[Prev[p]], p)
      BY <1>1, <1>2, <2>2
    <3> QED
      BY <2>1, <2>2, <3>1
  <2>3. CASE Prev[q] # Prev[p]
    <3>1. children'[Prev[q]] = children[Prev[q]] /\ q # p
      BY <1>1, <1>2, <2>3
    <3> QED
      BY <2>1, <3>1
  <2> QED
    BY <2>2, <2>3
<1> QED
  BY <1>1, <1>2, <1>5, <1>6

LEMMA ReturnStep ==
    ASSUME TreeAssumption, FamilyInv, NEW p \in Ours, RespondReturns(p), UNCHANGED collector
    PROVE  FamilyInv'
<1>1. /\ UNCHANGED <<events, inbox, told, collector>> /\ known' = known \cup {p}
      /\ responses[p] = "sent" /\ responses' = [responses EXCEPT ![p] = "returned"]
      /\ AddChild(p) /\ p \in Ids
  BY DEF RespondReturns, CreateObject, Ids
<1>2. /\ responses' \in [Ours -> {"none", "sent", "returned", "failed"}]
      /\ responses'[p] = "returned" /\ \A q \in Ours : q # p => responses'[q] = responses[q]
  BY <1>1 DEF FamilyInv, DemandTypes
<1>3. /\ parent[p] = NoParent /\ HowOften(children[Prev[p]], p) = 0
      /\ Prev[p] # NoParent
  BY <1>1 DEF FamilyInv, FamilyRight, TreeAssumption, Ids
<1>4. DemandTypes'
  BY <1>1, <1>2, Adopted DEF FamilyInv, DemandTypes
<1>5. InboxRight'
  BY <1>1, <1>2 DEF FamilyInv, InboxRight
<1>6. FamilyRight'
  <2> SUFFICES ASSUME NEW q \in Ids
               PROVE  /\ parent'[q] \in {NoParent, Prev[q]}
                      /\ HowOften(children'[Prev[q]], q) = IF parent'[q] = NoParent THEN 0 ELSE 1
                      /\ parent'[q] # NoParent => q \in known'
                      /\ q \in known' /\ parent'[q] = NoParent =>
                             q \in Early \/ (q \in Ours /\ responses'[q] \in {"sent", "failed"})
                      /\ q \in Ours => (parent'[q] # NoParent <=> responses'[q] = "returned")
    BY DEF FamilyRight
  <2>1. CASE q = p
    BY <1>1, <1>2, <1>3, <2>1, Adopted
  <2>2. CASE q # p
    <3>1. /\ parent'[q] = parent[q]
          /\ HowOften(children'[Prev[q]], q) = HowOften(children[Prev[q]], q) + 0
      BY <1>1, <2>2, Adopted
    <3>2. HowOften(children'[Prev[q]], q) = HowOften(children[Prev[q]], q)
      BY <3>1 DEF FamilyInv, FamilyRight
    <3> QED
      BY <1>1, <1>2, <2>2, <3>1, <3>2 DEF FamilyInv, FamilyRight
  <2> QED
    BY <2>1, <2>2
<1>7. HeardRight'
  BY <1>1 DEF FamilyInv, HeardRight, Heard, Taken
<1> QED
  BY <1>4, <1>5, <1>6, <1>7 DEF FamilyInv

\* An object is made for an id that is looked up or heard of.
LEMMA KnownRight ==
    ASSUME TreeAssumption, FamilyInv, NEW p \in Ids, Known(p),
           p \in Early \/ (p \in Ours /\ responses[p] # "none"),
           UNCHANGED <<parent, children, responses>>
    PROVE  FamilyRight' /\ known' \subseteq Ids
<1>1. known' = known \cup {p}
  BY DEF Known, CreateObject
<1>2. p \in Ours /\ parent[p] = NoParent => responses[p] \in {"none", "sent", "failed"}
  BY DEF FamilyInv, FamilyRight, DemandTypes
<1> QED
  BY <1>1, <1>2 DEF FamilyInv, FamilyRight, DemandTypes

LEMMA LookupStep ==
    ASSUME TreeAssumption, FamilyInv, NEW p \in Early, Lookup(p), UNCHANGED collector
    PROVE  FamilyInv'
<1>1. /\ Known(p) /\ UNCHANGED <<parent, children, events, inbox, told, responses, collector>>
      /\ p \in Ids
  BY DEF Lookup, TreeAssumption
<1>2. FamilyRight' /\ known' \subseteq Ids
  BY <1>1, KnownRight
<1> QED
  BY <1>1, <1>2 DEF FamilyInv, DemandTypes, InboxRight, HeardRight, Heard, Taken

\* The collector takes an event.
LEMMA HeadTaken ==
    ASSUME TreeAssumption, FamilyInv, inbox # <<>>, inbox' = Tail(inbox),
           UNCHANGED <<told, responses>>
    PROVE  /\ inbox' \in Seq(Happenings) /\ InboxRight'
           /\ Taken' = Taken \cup {Head(inbox)} /\ Head(inbox) \notin Taken
           /\ Head(inbox) \in Happenings /\ Heard(Head(inbox)) = 0
<1> DEFINE h == Head(inbox)
<1>1. /\ h \in told /\ h \in ToSet(inbox) /\ h \in Happenings
      /\ inbox' \in Seq(Happenings) /\ ToSet(inbox') = ToSet(inbox) \ {h}
      /\ \A i, j \in 1..Len(inbox') : inbox'[i] = inbox'[j] => i = j
  BY InboxHead
<1> HIDE DEF h
<1>2. Taken' = Taken \cup {h} /\ h \notin Taken
  BY <1>1 DEF Taken
<1>3. Heard(h) = 0
  BY <1>1, <1>2 DEF FamilyInv, HeardRight
<1>4. InboxRight'
  BY <1>1 DEF FamilyInv, InboxRight
<1> QED
  BY <1>1, <1>2, <1>3, <1>4 DEF h

\* The event is added to its proposal.
LEMMA HeadHeard ==
    ASSUME TreeAssumption, FamilyInv, inbox # <<>>, inbox' = Tail(inbox), AddEvent,
           UNCHANGED <<told, responses, collector>>
    PROVE  events' \in [Ids -> Seq(Happenings)] /\ HeardRight'
<1> DEFINE h == Head(inbox)
<1>1. Taken' = Taken \cup {h} /\ h \notin Taken /\ h \in Happenings /\ Heard(h) = 0
  BY HeadTaken
<1>2. /\ events' = [events EXCEPT ![h.id] = Append(@, h)] /\ h.id \in Ids
      /\ events \in [Ids -> Seq(Happenings)]
  BY <1>1 DEF AddEvent, FamilyInv, DemandTypes, Happenings
<1> HIDE DEF h
<1>3. events' \in [Ids -> Seq(Happenings)]
  <2>1. Append(events[h.id], h) \in Seq(Happenings)
    BY <1>1, <1>2
  <2> QED
    BY <1>2, <2>1
<1>4. ASSUME NEW e \in Happenings
      PROVE  Heard(e) \in Nat /\ Heard(e)' = Heard(e) + (IF e = h THEN 1 ELSE 0)
  <2>1. e.id \in Ids /\ events[e.id] \in Seq(Happenings)
    BY <1>2 DEF Happenings
  <2>2. /\ HowOften(events[e.id], e) \in Nat
        /\ HowOften(Append(events[e.id], h), e)
             = HowOften(events[e.id], e) + (IF e = h THEN 1 ELSE 0)
    BY <1>1, <2>1, OftenAppend
  <2>3. CASE e.id = h.id
    <3>1. events'[e.id] = Append(events[e.id], h)
      BY <1>2, <2>3
    <3> QED
      BY <2>2, <3>1 DEF Heard
  <2>4. CASE e.id # h.id
    <3>1. events'[e.id] = events[e.id] /\ e # h
      BY <1>2, <2>1, <2>4
    <3> QED
      BY <2>2, <3>1 DEF Heard
  <2> QED
    BY <2>3, <2>4
<1>5. Taken \subseteq Happenings
  BY DEF Taken, FamilyInv, DemandTypes
<1>6. ASSUME NEW e \in Happenings \ Taken' PROVE Heard(e)' = 0
  <2>1. e # h /\ Heard(e) = 0
    BY <1>1, <1>6 DEF FamilyInv, HeardRight
  <2> QED
    BY <1>4, <2>1
<1>7. ASSUME NEW e \in Taken'
      PROVE  /\ Heard(e)' \in Nat /\ Heard(e)' <= 1
             /\ collector["offers"] = "on" => Heard(e)' = 1
  <2>1. CASE e = h
    BY <1>1, <1>4, <2>1
  <2>2. CASE e # h
    <3>1. e \in Taken /\ Heard(e)' = Heard(e)
      BY <1>1, <1>4, <1>5, <1>7, <2>2
    <3> QED
      BY <3>1 DEF FamilyInv, HeardRight
  <2> QED
    BY <2>1, <2>2
<1>8. HeardRight'
  BY <1>6, <1>7 DEF HeardRight
<1> QED
  BY <1>3, <1>8

LEMMA ProposalStep == ASSUME TreeAssumption, FamilyInv, ProposalEvent PROVE FamilyInv'
<1> DEFINE h == Head(inbox)
           p == h.id
<1>1. /\ inbox # <<>> /\ h.kind = "proposal" /\ p \notin known
      /\ known' = known \cup ({p, Prev[p]} \cap Ids) /\ AddChild(p) /\ AddEvent
      /\ inbox' = Tail(inbox) /\ UNCHANGED <<told, responses, collector>>
  BY DEF ProposalEvent, Next1, CreateObject
<1>2. /\ inbox' \in Seq(Happenings) /\ InboxRight' /\ h \in told
      /\ events' \in [Ids -> Seq(Happenings)] /\ HeardRight'
  BY <1>1, HeadTaken, HeadHeard, InboxHead
<1>3. p \in Theirs /\ p \in Ids /\ (Prev[p] \in Ours => responses[Prev[p]] # "none")
  BY <1>1, <1>2 DEF FamilyInv, InboxRight, Ids
<1>4. /\ Prev[p] \in Ours \cup {Demand} /\ p \notin Ours /\ Demand \notin Ids /\ Prev[p] # NoParent
      /\ Ours \subseteq Ids
  BY <1>3 DEF TreeAssumption, Ids
<1>5. parent[p] = NoParent /\ HowOften(children[Prev[p]], p) = 0
  BY <1>1, <1>3 DEF FamilyInv, FamilyRight
<1> HIDE DEF h, p
<1>6. DemandTypes'
  BY <1>1, <1>2, <1>3, Adopted DEF FamilyInv, DemandTypes
<1>7. FamilyRight'
  <2> SUFFICES ASSUME NEW q \in Ids
               PROVE  /\ parent'[q] \in {NoParent, Prev[q]}
                      /\ HowOften(children'[Prev[q]], q) = IF parent'[q] = NoParent THEN 0 ELSE 1
                      /\ parent'[q] # NoParent => q \in known'
                      /\ q \in known' /\ parent'[q] = NoParent =>
                             q \in Early \/ (q \in Ours /\ responses'[q] \in {"sent", "failed"})
                      /\ q \in Ours => (parent'[q] # NoParent <=> responses'[q] = "returned")
    BY DEF FamilyRight
  <2>1. CASE q = p
    BY <1>1, <1>3, <1>4, <1>5, <2>1, Adopted
  <2>2. CASE q # p
    <3>1. /\ parent'[q] = parent[q]
          /\ HowOften(children'[Prev[q]], q) = HowOften(children[Prev[q]], q) + 0
      BY <1>1, <1>3, <2>2, Adopted
    <3>2. HowOften(children'[Prev[q]], q) = HowOften(children[Prev[q]], q)
      BY <3>1 DEF FamilyInv, FamilyRight
    <3>3. CASE q = Prev[p]
      <4>1. q \in Ours /\ responses[q] \in {"sent", "failed", "returned"}
        BY <1>3, <1>4, <3>3 DEF FamilyInv, DemandTypes
      <4> QED
        BY <1>1, <2>2, <3>1, <3>2, <3>3, <4>1 DEF FamilyInv, FamilyRight
    <3>4. CASE q # Prev[p]
      BY <1>1, <2>2, <3>1, <3>2, <3>4 DEF FamilyInv, FamilyRight
    <3> QED
      BY <3>3, <3>4
  <2> QED
    BY <2>1, <2>2
<1> QED
  BY <1>2, <1>6, <1>7 DEF FamilyInv

\* The assertion ends the collector: what it was at is not added.
LEMMA RepeatedStep == ASSUME TreeAssumption, FamilyInv, RepeatedId PROVE FamilyInv'
<1>1. /\ inbox # <<>> /\ inbox' = Tail(inbox)
      /\ UNCHANGED <<known, parent, children, events, told, responses>>
      /\ collector' = [collector EXCEPT !["offers"] = "dead"]
  BY DEF RepeatedId, Next1
<1>2. /\ inbox' \in Seq(Happenings) /\ InboxRight' /\ Head(inbox) \in Happenings
      /\ Taken' = Taken \cup {Head(inbox)} /\ Heard(Head(inbox)) = 0
  BY <1>1, HeadTaken
<1>3. HeardRight'
  <2>1. \A e \in Happenings : Heard(e)' = Heard(e)
    BY <1>1 DEF Heard
  <2>3. Taken' \subseteq Happenings
    BY <1>2 DEF Taken, FamilyInv, DemandTypes
  <2>4. collector'["offers"] # "on"
    BY <1>1 DEF FamilyInv, DemandTypes, Collectors
  <2> QED
    BY <1>2, <2>1, <2>3, <2>4 DEF FamilyInv, HeardRight
<1>4. collector' \in [Collectors -> {"on", "off", "dead"}]
  BY <1>1 DEF FamilyInv, DemandTypes
<1> QED
  BY <1>1, <1>2, <1>3, <1>4 DEF FamilyInv, DemandTypes, FamilyRight

LEMMA RejectedStep == ASSUME TreeAssumption, FamilyInv, RejectedEvent PROVE FamilyInv'
<1> DEFINE h == Head(inbox)
<1>1. /\ inbox # <<>> /\ h.kind = "rejected" /\ Known(h.id) /\ AddEvent
      /\ inbox' = Tail(inbox) /\ UNCHANGED <<parent, children, told, responses, collector>>
  BY DEF RejectedEvent, Next1
<1>2. /\ inbox' \in Seq(Happenings) /\ InboxRight' /\ h \in told /\ h \in Happenings
      /\ events' \in [Ids -> Seq(Happenings)] /\ HeardRight'
  BY <1>1, HeadTaken, HeadHeard, InboxHead
<1>3. h.id \in Ours /\ responses[h.id] # "none" /\ h.id \in Ids
  BY <1>1, <1>2 DEF FamilyInv, InboxRight, Ids
<1>4. FamilyRight' /\ known' \subseteq Ids
  BY <1>1, <1>3, KnownRight
<1> QED
  BY <1>1, <1>2, <1>4 DEF FamilyInv, DemandTypes

\* What touches neither the tree nor the events, nor puts the collector on.
LEMMA FamilyRest ==
    ASSUME FamilyInv, UNCHANGED <<known, parent, children, events, inbox, told, responses>>,
           collector' \in [Collectors -> {"on", "off", "dead"}],
           collector'["offers"] = "on" => collector["offers"] = "on"
    PROVE  FamilyInv'
BY DEF FamilyInv, DemandTypes, InboxRight, FamilyRight, HeardRight, Heard, Taken

LEMMA FamilyStart == ASSUME TreeAssumption, TreeInit PROVE FamilyInv
<1>1. /\ known = {} /\ inbox = <<>> /\ told = {} /\ parent = [p \in Ids |-> NoParent]
      /\ children = [p \in Ids \cup {Demand} |-> <<>>]
      /\ events = [p \in Ids |-> <<>>] /\ responses = [p \in Ours |-> "none"]
  BY DEF TreeInit
<1>2. DemandTypes
  BY <1>1 DEF DemandTypes, TreeInit
<1>3. InboxRight
  BY <1>1 DEF InboxRight, ToSet
<1>4. FamilyRight
  BY <1>1, OftenEmpty DEF FamilyRight, TreeAssumption
<1>5. HeardRight
  BY <1>1, OftenEmpty DEF HeardRight, Heard, Taken, Happenings
<1> QED
  BY <1>2, <1>3, <1>4, <1>5 DEF FamilyInv

\* The actions that move a demand.
LEMMA DemandMoves ==
    ASSUME TreeAssumption, FamilyInv, DemandNext PROVE FamilyInv'
<1>1. CASE DemandStep /\ UNCHANGED <<noteVars, collector, notFound>>
  <2>1. ASSUME NEW p \in Theirs, Offered(p) PROVE FamilyInv'
    <3>1. Event("proposal", p) \in Happenings
      BY DEF Event, Happenings, Ids
    <3> QED
      BY <1>1, <2>1, <3>1, TellStep DEF Offered, Event
  <2>2. ASSUME NEW p \in Ours, Rejected(p) PROVE FamilyInv'
    <3>1. Event("rejected", p) \in Happenings
      BY DEF Event, Happenings, Ids
    <3> QED
      BY <1>1, <2>2, <3>1, TellStep DEF Rejected, Event
  <2>3. ASSUME NEW p \in Ids, GetData(p) PROVE FamilyInv'
    BY <1>1, <2>3, FamilyRest DEF GetData, FamilyInv, DemandTypes
  <2> QED
    BY <1>1, <2>1, <2>2, <2>3, ResponseStep, ReturnStep, LookupStep DEF DemandStep
<1>2. CASE Unsubscribe
  <2>1. collector' = [collector EXCEPT !["offers"] = "off"]
    BY <1>2 DEF Unsubscribe
  <2>2. /\ collector' \in [Collectors -> {"on", "off", "dead"}]
        /\ collector'["offers"] # "on"
    BY <2>1 DEF FamilyInv, DemandTypes, Collectors
  <2> QED
    BY <1>2, <2>2, FamilyRest DEF Unsubscribe
<1>3. ASSUME NEW e \in Errors, CollectFails("offers", e) PROVE FamilyInv'
  <2>1. /\ UNCHANGED demandVars
        /\ collector' = collector \/ collector' = [collector EXCEPT !["offers"] = "dead"]
    BY <1>3 DEF CollectFails
  <2>2. /\ collector' \in [Collectors -> {"on", "off", "dead"}]
        /\ collector'["offers"] = "on" => collector["offers"] = "on"
    BY <2>1 DEF FamilyInv, DemandTypes, Collectors
  <2> QED
    BY <2>1, <2>2, FamilyRest DEF demandVars
<1> QED
  BY <1>1, <1>2, <1>3, ProposalStep, RepeatedStep, RejectedStep DEF DemandNext

\* Those that move the collector of debit notes.
LEMMA NotesApart == ASSUME FamilyInv, NoteNext PROVE FamilyInv'
<1>1. UNCHANGED demandVars
  BY DEF NoteNext, CollectFails
<1>2. \/ collector' = collector
      \/ \E x \in {"on", "off", "dead"} : collector' = [collector EXCEPT !["notes"] = x]
  BY DEF NoteNext, NoteStep, Collect, Issue, ProcessEvent, GetNoteRaises, StopCollecting,
         StartCollecting, ListNotes, CollectFails
<1>3. /\ collector' \in [Collectors -> {"on", "off", "dead"}]
      /\ collector'["offers"] = collector["offers"]
  BY <1>2 DEF FamilyInv, DemandTypes, Collectors
<1> QED
  BY <1>1, <1>3, FamilyRest DEF demandVars

(***************************************************************************)
(* TreeKept, for every exchange of proposals, whatever is looked up, in    *)
(* whatever order events and answers come, and whatever fails              *)
(* (demand.py _process_event, proposal.py respond, base.py add_child).     *)
(***************************************************************************)
THEOREM TreeInPlace ==
    ASSUME TreeAssumption PROVE TreeSpec => []TreeKept
<1>1. TreeInit => FamilyInv
  BY FamilyStart
<1>2. FamilyInv /\ [TreeNext]_treeVars => FamilyInv'
  <2> SUFFICES ASSUME FamilyInv, [TreeNext]_treeVars PROVE FamilyInv'
    OBVIOUS
  <2>1. CASE UNCHANGED treeVars
    BY <2>1, FamilyRest DEF treeVars, demandVars, FamilyInv, DemandTypes
  <2> QED
    BY <2>1, DemandMoves, NotesApart DEF TreeNext
<1>3. FamilyInv => TreeKept
  <2> SUFFICES ASSUME FamilyInv PROVE TreeKept
    OBVIOUS
  <2>1. ASSUME NEW p \in known PROVE Placed(p)
    BY DEF FamilyInv, FamilyRight, DemandTypes, Placed
  <2> QED
    BY <2>1 DEF FamilyInv, HeardRight, Taken, TreeKept
<1> QED
  BY <1>1, <1>2, <1>3, PTL DEF TreeSpec

=============================================================================
