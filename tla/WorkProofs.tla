----------------------------- MODULE WorkProofs -----------------------------
(***************************************************************************)
(* Proofs about the tasks that run works, for all lists of works and any   *)
(* number of workers: WorkManager, SequentialWork and Pipeline.            *)
(***************************************************************************)
EXTENDS WorkManager, SequentialWork, Pipeline,
        FiniteSetTheorems, SequenceTheorems, FunctionTheorems, TLAPS

(***************************************************************************)
(* SequentialWork: one agreement or activity is left behind per fault at   *)
(* most.                                                                   *)
(*                                                                         *)
(* What carries it is where do_work_list holds an activity, and that after *)
(* destroy() the one it holds is destroyed: only then may a retry ask for  *)
(* another (single_use.py _prepare_activity).                              *)
(***************************************************************************)
seqVars == <<callbacks, turn, caller, counts, attempts, hand, activity, ok, results, faults>>

SeqSpec == SeqInit /\ [][SeqNext]_seqVars

Holding == {"create", "start", "work", "destroy", "after"}

WorkShape ==
    /\ caller \in {"next", "agreement", "raised"} \cup Holding
    /\ hand \in Activities \cup {None}
    /\ activity \in [Activities -> {"none", "agreed", "runs", "destroyed"}]
    /\ faults \in Nat

\* The caller holds an activity exactly between the two ends of an attempt.
HandHeld ==
    /\ caller \in {"next", "agreement", "raised"} => hand = None
    /\ caller \in Holding => hand \in Activities

AfterDestroy == caller = "after" /\ "stop" \in callbacks => activity[hand] = "destroyed"

WorkInv == WorkShape /\ HandHeld /\ AfterDestroy /\ LeftPerFault

-----------------------------------------------------------------------------

\* A step that leaves nothing new behind.
LEMMA NoneLeft ==
    ASSUME SequentialAssumption, WorkInv, callbacks' = callbacks,
           faults' \in Nat, faults <= faults', Left' \subseteq Left
    PROVE  LeftPerFault'
<1>1. IsFiniteSet(Left) /\ faults \in Nat
  BY FS_Subset DEF Left, SequentialAssumption, WorkInv, WorkShape
<1>2. /\ Cardinality(Left') \in Nat /\ Cardinality(Left) \in Nat
      /\ Cardinality(Left') <= Cardinality(Left)
  BY <1>1, FS_Subset, FS_CardinalityType
<1>3. "stop" \in callbacks => Cardinality(Left) <= faults
  BY DEF WorkInv, LeftPerFault
<1>4. "stop" \in callbacks' => Cardinality(Left') <= faults'
  BY <1>1, <1>2, <1>3
<1> QED
  BY <1>4 DEF LeftPerFault

\* A fault that leaves the activity in hand behind.
LEMMA OneLeft ==
    ASSUME SequentialAssumption, WorkInv, callbacks' = callbacks,
           faults' = faults + 1, Left' \subseteq Left \cup {hand}
    PROVE  LeftPerFault'
<1>1. IsFiniteSet(Left) /\ faults \in Nat
  BY FS_Subset DEF Left, SequentialAssumption, WorkInv, WorkShape
<1>2. /\ IsFiniteSet(Left \cup {hand}) /\ Cardinality(Left) \in Nat
      /\ Cardinality(Left \cup {hand}) \in Nat
      /\ Cardinality(Left \cup {hand}) <= Cardinality(Left) + 1
  <2>1. Cardinality(Left) \in Nat
    BY <1>1, FS_CardinalityType
  <2>2. /\ IsFiniteSet(Left \cup {hand})
        /\ \/ Cardinality(Left \cup {hand}) = Cardinality(Left)
           \/ Cardinality(Left \cup {hand}) = Cardinality(Left) + 1
    BY <1>1, FS_AddElement
  <2> QED
    BY <2>1, <2>2
<1>3. /\ Cardinality(Left') \in Nat
      /\ Cardinality(Left') <= Cardinality(Left \cup {hand})
  BY <1>2, FS_Subset, FS_CardinalityType
<1>4. "stop" \in callbacks => Cardinality(Left) <= faults
  BY DEF WorkInv, LeftPerFault
<1>5. "stop" \in callbacks' => Cardinality(Left') <= faults'
  BY <1>1, <1>2, <1>3, <1>4
<1> QED
  BY <1>5 DEF LeftPerFault

\* The caller goes on with what it holds and no activity changes.
LEMMA GoesOn ==
    ASSUME SequentialAssumption, WorkInv,
           UNCHANGED <<callbacks, hand, activity, faults>>,
           \/ caller = "next" /\ caller' = "agreement"
           \/ caller \in Holding /\ caller' \in Holding \ {"after"}
    PROVE  WorkInv'
<1>1. Left' = Left
  BY DEF Left
<1>2. LeftPerFault'
  BY <1>1, NoneLeft DEF WorkInv, WorkShape
<1>3. WorkShape' /\ HandHeld' /\ AfterDestroy'
  BY DEF WorkInv, WorkShape, HandHeld, AfterDestroy, Holding
<1> QED
  BY <1>2, <1>3 DEF WorkInv

\* The caller lets go of what it holds at a fault.
LEMMA LetGo ==
    ASSUME SequentialAssumption, WorkInv,
           UNCHANGED <<callbacks, activity>>, hand' = None, faults' = faults + 1,
           caller' \in {"next", "agreement", "raised"}
    PROVE  WorkInv'
<1>1. Left' \subseteq Left \cup {hand}
  BY DEF Left
<1>2. LeftPerFault'
  BY <1>1, OneLeft
<1>3. WorkShape' /\ HandHeld' /\ AfterDestroy'
  BY DEF WorkInv, WorkShape, HandHeld, AfterDestroy, Holding
<1> QED
  BY <1>2, <1>3 DEF WorkInv

\* The caller lets go of an activity that is destroyed, or has none to end.
LEMMA LetGoDestroyed ==
    ASSUME SequentialAssumption, WorkInv, hand \in Activities,
           "stop" \in callbacks => activity[hand] = "destroyed",
           UNCHANGED <<callbacks, activity, faults>>, hand' = None,
           caller' \in {"next", "agreement", "raised"}
    PROVE  WorkInv'
<1>1. ASSUME "stop" \in callbacks PROVE LeftPerFault'
  <2>1. Left' \subseteq Left
    <3> SUFFICES ASSUME NEW a \in Left' PROVE a \in Left
      OBVIOUS
    <3>1. a \in Activities /\ activity[a] \in {"agreed", "runs"}
      BY DEF Left
    <3> QED
      BY <1>1, <3>1 DEF Left
  <2> QED
    BY <2>1, NoneLeft DEF WorkInv, WorkShape
<1>2. ASSUME "stop" \notin callbacks PROVE LeftPerFault'
  <2>1. "stop" \notin callbacks'
    BY <1>2
  <2> QED
    BY <2>1 DEF LeftPerFault
<1>3. WorkShape' /\ HandHeld' /\ AfterDestroy'
  BY DEF WorkInv, WorkShape, HandHeld, AfterDestroy, Holding
<1> QED
  BY <1>1, <1>2, <1>3 DEF WorkInv

\* The activity in hand changes.
LEMMA HandChanges ==
    ASSUME SequentialAssumption, WorkInv, hand \in Activities,
           NEW state \in {"none", "agreed", "runs", "destroyed"},
           activity' = [activity EXCEPT ![hand] = state],
           UNCHANGED <<callbacks, hand, faults>>,
           caller' \in Holding, caller' = "after" => state = "destroyed"
    PROVE  WorkInv'
<1>1. activity' \in [Activities -> {"none", "agreed", "runs", "destroyed"}]
      /\ activity'[hand] = state
      /\ \A a \in Activities \ {hand} : activity'[a] = activity[a]
  BY DEF WorkInv, WorkShape
<1>2. Left' = Left
  BY <1>1 DEF Left
<1>3. LeftPerFault'
  BY <1>2, NoneLeft DEF WorkInv, WorkShape
<1>4. WorkShape' /\ HandHeld' /\ AfterDestroy'
  BY <1>1 DEF WorkInv, WorkShape, HandHeld, AfterDestroy, Holding
<1> QED
  BY <1>3, <1>4 DEF WorkInv

-----------------------------------------------------------------------------

LEMMA GetAgreementInv ==
    ASSUME SequentialAssumption, WorkInv, NEW a \in Activities, GetAgreement(a)
    PROVE  WorkInv'
<1>1. hand = None /\ None \notin Activities
  BY DEF GetAgreement, WorkInv, HandHeld, SequentialAssumption
<1>2. activity' \in [Activities -> {"none", "agreed", "runs", "destroyed"}]
      /\ \A b \in Activities \ {a} : activity'[b] = activity[b]
  BY DEF GetAgreement, WorkInv, WorkShape
<1>3. Left' \subseteq Left
  BY <1>1, <1>2 DEF GetAgreement, Left
<1>4. LeftPerFault'
  BY <1>3, NoneLeft DEF GetAgreement, WorkInv, WorkShape
<1>5. WorkShape' /\ HandHeld' /\ AfterDestroy'
  BY <1>2 DEF GetAgreement, WorkInv, WorkShape, HandHeld, AfterDestroy, Holding
<1> QED
  BY <1>4, <1>5 DEF WorkInv

\* destroy() that is done, and terminate() in the work.
LEMMA ReleaseInv ==
    ASSUME SequentialAssumption, WorkInv, Destroy \/ Terminate
    PROVE  WorkInv'
<1>1. hand \in Activities /\ UNCHANGED <<callbacks, hand, faults>> /\ Release
      /\ caller' \in {"work", "after"}
  BY DEF Destroy, Terminate, WorkInv, HandHeld, Holding
<1>2. CASE "stop" \in callbacks
  BY <1>1, <1>2, HandChanges DEF Release, Holding
<1>3. CASE "stop" \notin callbacks
  <2>1. activity' = activity
    BY <1>1, <1>3 DEF Release
  <2>2. WorkShape' /\ HandHeld' /\ AfterDestroy'
    BY <1>1, <1>3, <2>1 DEF WorkInv, WorkShape, HandHeld, AfterDestroy, Holding
  <2> QED
    BY <1>1, <1>3, <2>2 DEF WorkInv, LeftPerFault
<1> QED
  BY <1>2, <1>3

LEMMA DestroyRaisesInv ==
    ASSUME SequentialAssumption, WorkInv, DestroyRaises
    PROVE  WorkInv'
<1>1. /\ UNCHANGED <<callbacks, activity>> /\ hand' = None /\ caller' = "raised"
      /\ hand \in Activities
  BY DEF DestroyRaises, Abort, WorkInv, HandHeld, Holding
<1>2. CASE Fault
  BY <1>1, <1>2, LetGo DEF Fault
<1>3. CASE activity[hand] = "destroyed" /\ UNCHANGED faults
  BY <1>1, <1>3, LetGoDestroyed
<1> QED
  BY <1>2, <1>3 DEF DestroyRaises

\* The faults that are not those of destroy().
LEMMA FaultInv ==
    ASSUME SequentialAssumption, WorkInv,
           AgreementRaises \/ CreateRaises \/ StartRaises \/ Cancel
    PROVE  WorkInv'
<1>1. /\ UNCHANGED <<callbacks, activity>> /\ hand' = None /\ faults' = faults + 1
      /\ caller' \in {"agreement", "raised"}
  BY DEF AgreementRaises, CreateRaises, StartRaises, Cancel, Abort, Fault
<1> QED
  BY <1>1, LetGo

\* An attempt has ended: the next one or the result.
LEMMA EndedInv ==
    ASSUME SequentialAssumption, WorkInv, Again \/ Return
    PROVE  WorkInv'
<1>1. /\ UNCHANGED <<callbacks, activity, faults>> /\ hand' = None /\ hand \in Activities
      /\ caller' \in {"next", "agreement"} /\ caller = "after"
  BY DEF Again, Return, WorkInv, HandHeld, Holding
<1>2. "stop" \in callbacks => activity[hand] = "destroyed"
  BY <1>1 DEF WorkInv, AfterDestroy
<1> QED
  BY <1>1, <1>2, LetGoDestroyed

LEMMA SeqInitInv == ASSUME SequentialAssumption, SeqInit PROVE WorkInv
<1>1. Left = {}
  BY DEF SeqInit, Left
<1>2. LeftPerFault
  BY <1>1, FS_EmptySet DEF SeqInit, LeftPerFault
<1>3. WorkShape /\ HandHeld /\ AfterDestroy
  BY DEF SeqInit, WorkShape, HandHeld, AfterDestroy, Holding
<1> QED
  BY <1>2, <1>3 DEF WorkInv

LEMMA SeqStepInv ==
    ASSUME SequentialAssumption, WorkInv, [SeqNext]_seqVars
    PROVE  WorkInv'
<1>1. CASE UNCHANGED seqVars
  <2>1. UNCHANGED <<callbacks, caller, hand, activity, faults>>
    BY <1>1 DEF seqVars
  <2> QED
    BY <2>1 DEF WorkInv, WorkShape, HandHeld, AfterDestroy, LeftPerFault, Left
<1>2. CASE NextWork \/ Started
  BY <1>2, GoesOn DEF NextWork, Started, Holding
<1>3. CASE \E result \in BOOLEAN : WorkEnds(result)
  BY <1>3, GoesOn DEF WorkEnds, WorkLeaves, Holding
<1>4. CASE Create
  <2>1. hand \in Activities
    BY <1>4 DEF Create, WorkInv, HandHeld, Holding
  <2> QED
    BY <1>4, <2>1, HandChanges DEF Create, Holding
<1>5. CASE SeqNext
  BY <1>2, <1>3, <1>4, <1>5, GetAgreementInv, ReleaseInv, DestroyRaisesInv, FaultInv,
     EndedInv DEF SeqNext
<1> QED
  BY <1>1, <1>5

\* With an on_activity_stop, as many agreements and activities are left behind
\* as there were faults at most, however often the works fail, are tried again
\* or terminate their activity (single_use.py _prepare_activity).
THEOREM FaultsBoundLeaks ==
    ASSUME SequentialAssumption
    PROVE  SeqSpec => []LeftPerFault
<1>1. SeqInit => WorkInv
  BY SeqInitInv
<1>2. WorkInv /\ [SeqNext]_seqVars => WorkInv'
  BY SeqStepInv
<1>3. WorkInv => LeftPerFault
  BY DEF WorkInv
<1> QED
  BY <1>1, <1>2, <1>3, PTL DEF SeqSpec

-----------------------------------------------------------------------------
(***************************************************************************)
(* SequentialWork: how often a work is called.  The retries count like the *)
(* digits of a number, those inside being the lower ones: the attempts so  *)
(* far are as many as there are lower countings, whatever the tries.       *)
(***************************************************************************)

\* f is lower than c: at the outermost place where they differ.
Lower(f, c) == \E i \in DOMAIN c : f[i] < c[i] /\ \A j \in DOMAIN c : j > i => f[j] = c[j]

Before(L, c) == {f \in Countings(L) : Lower(f, c)}

Calling == {"work", "destroy", "after"}

\* The attempts at the work of this turn, of which one is under way.
AttemptsRight ==
    LET L == Layers(Todo[turn])
        begun == IF caller \in Calling THEN 1 ELSE 0
    IN  /\ turn \in 1..Len(Todo)
        /\ counts \in Countings(L)
        /\ attempts = Cardinality(Before(L, counts)) + begun
        /\ Len(L) = 1 => attempts = counts[1] + begun

Result == [work : DOMAIN WorkRetries, ok : BOOLEAN, attempts : Nat, tries : Nat \cup {None}]

TriesInv ==
    /\ turn \in 0..Len(Todo) /\ ok \in BOOLEAN
    /\ caller \in {"next", "agreement", "raised"} \cup Holding
    /\ caller \in {"agreement"} \cup Holding => AttemptsRight
    /\ results \in Seq(Result)
    /\ caller = "raised" => results = <<>>
    /\ caller = "next" => Len(results) = turn
    /\ caller \in {"agreement"} \cup Holding => Len(results) = turn - 1
    /\ TriedEnough

\* Functions that agree everywhere are the same.
LEMMA SameCount ==
    ASSUME NEW S, NEW U, NEW c \in [S -> U], NEW e \in [S -> U],
           \A i \in S : c[i] = e[i]
    PROVE  c = e
<1>1. c = [i \in S |-> c[i]] /\ e = [i \in S |-> e[i]]
  OBVIOUS
<1>2. [i \in S |-> c[i]] = [i \in S |-> e[i]]
  OBVIOUS
<1> QED
  BY <1>1, <1>2

\* A function under which no two have the same value.
LEMMA NoTwoAlike ==
    ASSUME NEW S, NEW T, NEW F \in [S -> T], \A c, e \in S : F[c] = F[e] => c = e
    PROVE  F \in Injection(S, T)
BY DEF Injection, IsInjective

\* The functions between two finite sets, each told by its graph.
LEMMA FiniteFunctions ==
    ASSUME NEW S, NEW U, IsFiniteSet(S), IsFiniteSet(U)
    PROVE  IsFiniteSet([S -> U])
<1> DEFINE T == SUBSET (S \X U)
           graph == [c \in [S -> U] |-> {<<i, c[i]>> : i \in S}]
<1>1. IsFiniteSet(T)
  BY FS_Product, FS_SUBSET
<1>2. graph \in [[S -> U] -> T]
  <2>1. ASSUME NEW c \in [S -> U] PROVE {<<i, c[i]>> : i \in S} \in T
    OBVIOUS
  <2> HIDE DEF T
  <2> QED
    BY <2>1
<1>3. \A c, e \in [S -> U] : graph[c] = graph[e] => c = e
  <2>1. SUFFICES ASSUME NEW c \in [S -> U], NEW e \in [S -> U], graph[c] = graph[e]
                 PROVE  c = e
    OBVIOUS
  <2>2. {<<i, c[i]>> : i \in S} = {<<i, e[i]>> : i \in S}
    BY <2>1
  <2>3. ASSUME NEW i \in S PROVE c[i] = e[i]
    <3>1. <<i, c[i]>> \in {<<k, e[k]>> : k \in S}
      BY <2>2
    <3> QED
      BY <3>1
  <2>4. \A i \in S : c[i] = e[i]
    BY <2>3
  <2> HIDE DEF graph, T
  <2> QED
    BY <2>4, SameCount
<1> HIDE DEF graph, T
<1>4. graph \in Injection([S -> U], T)
  BY <1>2, <1>3, NoTwoAlike
<1> QED
  BY <1>1, <1>4, FS_Injection

\* What there is to count is finite.
LEMMA CountingsFinite == ASSUME NEW L \in Seq(Nat) PROVE IsFiniteSet(Countings(L))
<1> DEFINE n == Len(L)
           W == {0..L[i] : i \in 1..n}
           U == UNION W
           g == [i \in 1..n |-> 0..L[i]]
<1>1. n \in Nat /\ DOMAIN L = 1..n /\ \A i \in 1..n : L[i] \in Nat
  BY ElementOfSeq, LenProperties
<1>2. IsFiniteSet(1..n)
  BY <1>1, FS_Interval
<1>3. IsFiniteSet(W)
  <2>1. g \in Surjection(1..n, W)
    BY DEF Surjection
  <2> QED
    BY <1>2, <2>1, FS_Surjection
<1>4. IsFiniteSet(U)
  <2>1. \A S \in W : IsFiniteSet(S)
    BY <1>1, FS_Interval
  <2> QED
    BY <1>3, <2>1, FS_UNION
<1>5. Countings(L) \subseteq [1..n -> U]
  BY <1>1 DEF Countings
<1> HIDE DEF W, U, g, n
<1>6. IsFiniteSet([1..n -> U])
  BY <1>2, <1>4, FiniteFunctions
<1> QED
  BY <1>5, <1>6, FS_Subset

\* The places from i on.
From(n, i) == {k \in 1..n : k >= i}

\* The outermost of some places: that from on which there are the fewest of 1..n.
LEMMA Outermost ==
    ASSUME NEW n \in Nat, NEW S \in SUBSET (1..n), S # {}
    PROVE  \E m \in S : \A k \in S : k <= m
<1> DEFINE H == 1..n
           T == {From(n, k) : k \in S}
<1>1. IsFiniteSet(H) /\ FiniteSubsetsOf(H) = SUBSET H
  BY FS_Interval, FS_FiniteSubsetsOfFinite
<1>2. T \subseteq SUBSET H /\ T # {}
  BY DEF From
<1>3. PICK X \in T : \A Y \in T : ~(<<Y, X>> \in StrictSubsetOrdering(H))
  <2> HIDE DEF T, H
  <2> QED
    BY <1>1, <1>2, FS_StrictSubsetOrderingWellFounded, WFMin
<1>4. PICK m \in S : X = From(n, m)
  OBVIOUS
<1>5. ASSUME NEW k \in S, ~ (k <= m) PROVE FALSE
  <2>1. m \in 1..n /\ k \in 1..n /\ m < k
    BY <1>5
  <2>2. From(n, k) \subseteq X /\ From(n, k) # X
    <3>1. m \in X /\ m \notin From(n, k)
      BY <1>4, <2>1 DEF From
    <3>2. \A i \in 1..n : i >= k => i >= m
      BY <2>1
    <3> QED
      BY <1>4, <3>1, <3>2 DEF From
  <2>3. From(n, k) \in T /\ From(n, k) \in SUBSET H /\ X \in SUBSET H
    BY <1>2
  <2> HIDE DEF T, H
  <2> QED
    BY <1>3, <2>2, <2>3 DEF StrictSubsetOrdering
<1> QED
  BY <1>5

\* Countings, by their places.
LEMMA CountingPlaces ==
    ASSUME NEW L \in Seq(Nat), NEW c
    PROVE  c \in Countings(L) <=> c \in [1..Len(L) -> Nat] /\ \A i \in 1..Len(L) : c[i] <= L[i]
<1> DEFINE U == UNION {0..L[i] : i \in 1..Len(L)}
<1>1. Len(L) \in Nat /\ DOMAIN L = 1..Len(L) /\ \A i \in 1..Len(L) : L[i] \in Nat
  BY ElementOfSeq, LenProperties
<1>2. Countings(L) = {f \in [1..Len(L) -> U] : \A i \in 1..Len(L) : f[i] <= L[i]}
  BY <1>1 DEF Countings
<1>3. U \subseteq Nat
  BY <1>1
<1>4. ASSUME c \in [1..Len(L) -> Nat], \A i \in 1..Len(L) : c[i] <= L[i]
      PROVE  c \in [1..Len(L) -> U]
  <2>1. \A i \in 1..Len(L) : c[i] \in 0..L[i]
    BY <1>1, <1>4
  <2>2. \A i \in 1..Len(L) : c[i] \in U
    BY <2>1
  <2> HIDE DEF U
  <2> QED
    BY <1>4, <2>2
<1> HIDE DEF U
<1> QED
  BY <1>2, <1>3, <1>4

\* What counts nowhere more, and not everywhere the same, is lower.
LEMMA LessIsLower ==
    ASSUME NEW n \in Nat, NEW f \in [1..n -> Nat], NEW c \in [1..n -> Nat], f # c,
           \A i \in 1..n : f[i] <= c[i]
    PROVE  Lower(f, c)
<1> DEFINE D == {i \in 1..n : f[i] # c[i]}
<1>1. D # {}
  OBVIOUS
<1>2. PICK m \in D : \A k \in D : k <= m
  <2> HIDE DEF D
  <2>1. D \in SUBSET (1..n)
    BY DEF D
  <2> QED
    BY <1>1, <2>1, Outermost
<1>3. m \in 1..n /\ f[m] < c[m] /\ \A j \in 1..n : j > m => f[j] = c[j]
  BY <1>2
<1> QED
  BY <1>3 DEF Lower

\* The next counting: one more at the i-th place, none at those inside it.
Successor(c, i) ==
    [j \in DOMAIN c |-> IF j < i THEN 0 ELSE c[j] + IF j = i THEN 1 ELSE 0]

\* Nothing is lower than a counting of zeros, and nothing than itself.
LEMMA ZeroIsLowest ==
    ASSUME NEW L \in Seq(Nat), NEW c \in Countings(L), \A i \in 1..Len(L) : c[i] = 0
    PROVE  Before(L, c) = {}
<1>1. \A f \in Countings(L) : \A i \in 1..Len(L) : f[i] \in Nat
  BY CountingPlaces
<1>2. DOMAIN c = 1..Len(L)
  BY CountingPlaces
<1> QED
  BY <1>1, <1>2 DEF Before, Lower

LEMMA BeforeIsFinite ==
    ASSUME NEW L \in Seq(Nat), NEW c \in Countings(L)
    PROVE  /\ IsFiniteSet(Before(L, c))
           /\ c \notin Before(L, c)
           /\ Cardinality(Before(L, c) \cup {c}) = Cardinality(Before(L, c)) + 1
           /\ Cardinality(Before(L, c)) \in Nat
           /\ Cardinality(Before(L, c)) + 1 <= Cardinality(Countings(L))
<1>1. IsFiniteSet(Countings(L)) /\ Before(L, c) \subseteq Countings(L)
  BY CountingsFinite DEF Before
<1>2. IsFiniteSet(Before(L, c))
  BY <1>1, FS_Subset
<1>3. c \notin Before(L, c)
  <2>1. c \in [1..Len(L) -> Nat]
    BY CountingPlaces
  <2> QED
    BY <2>1 DEF Before, Lower
<1>4. Cardinality(Before(L, c) \cup {c}) = Cardinality(Before(L, c)) + 1
  BY <1>2, <1>3, FS_AddElement
<1>5. Cardinality(Before(L, c) \cup {c}) <= Cardinality(Countings(L))
  BY <1>1, FS_Subset
<1>6. Cardinality(Before(L, c)) \in Nat
  BY <1>2, FS_CardinalityType
<1> QED
  BY <1>2, <1>3, <1>4, <1>5, <1>6

\* When nothing can count on, everything else is lower.
LEMMA FullIsHighest ==
    ASSUME NEW L \in Seq(Nat), NEW c \in Countings(L),
           \A i \in 1..Len(L) : ~ (c[i] < L[i])
    PROVE  Cardinality(Countings(L)) = Cardinality(Before(L, c)) + 1
<1>1. /\ Len(L) \in Nat /\ c \in [1..Len(L) -> Nat]
      /\ \A i \in 1..Len(L) : L[i] \in Nat /\ c[i] <= L[i]
  BY CountingPlaces, LenProperties, ElementOfSeq
<1>2. ASSUME NEW f \in Countings(L), f # c PROVE f \in Before(L, c)
  <2>1. f \in [1..Len(L) -> Nat] /\ \A i \in 1..Len(L) : f[i] <= L[i]
    BY CountingPlaces
  <2>2. ASSUME NEW i \in 1..Len(L) PROVE f[i] <= c[i]
    <3>1. f[i] \in Nat /\ c[i] \in Nat /\ L[i] \in Nat
      BY <1>1, <2>1
    <3>2. f[i] <= L[i] /\ ~ (c[i] < L[i])
      BY <2>1
    <3> QED
      BY <3>1, <3>2
  <2>3. Lower(f, c)
    BY <1>1, <1>2, <2>1, <2>2, LessIsLower
  <2> QED
    BY <2>3 DEF Before
<1>3. Countings(L) = Before(L, c) \cup {c}
  BY <1>2 DEF Before
<1> QED
  BY <1>3, BeforeIsFinite

\* Lower than the next counting are the counting and what is lower than it.
LEMMA NextIsOneMore ==
    ASSUME NEW L \in Seq(Nat), NEW c \in Countings(L), NEW i \in 1..Len(L), c[i] < L[i],
           \A j \in 1..Len(L) : j < i => ~ (c[j] < L[j])
    PROVE  /\ Successor(c, i) \in Countings(L)
           /\ Cardinality(Before(L, Successor(c, i))) = Cardinality(Before(L, c)) + 1
<1> DEFINE n == Len(L)
           d == Successor(c, i)
<1>1. /\ n \in Nat /\ i \in Nat /\ c \in [1..n -> Nat]
      /\ \A j \in 1..n : L[j] \in Nat /\ c[j] <= L[j]
  BY CountingPlaces, LenProperties, ElementOfSeq
<1>2. /\ d \in [1..n -> Nat] /\ d[i] = c[i] + 1
      /\ \A j \in 1..n : (j < i => d[j] = 0) /\ (j > i => d[j] = c[j])
  <2>1. DOMAIN c = 1..n
    BY <1>1
  <2>2. d = [j \in 1..n |-> IF j < i THEN 0 ELSE c[j] + IF j = i THEN 1 ELSE 0]
    BY <2>1 DEF Successor
  <2>3. \A j \in 1..n : c[j] \in Nat /\ j \in Nat
    BY <1>1
  <2>4. \A j \in 1..n : d[j] = IF j < i THEN 0 ELSE c[j] + IF j = i THEN 1 ELSE 0
    BY <2>2
  <2> HIDE DEF d
  <2>5. \A j \in 1..n : d[j] \in Nat
    BY <2>3, <2>4
  <2>6. d[i] = c[i] + 1
    BY <1>1, <2>4
  <2>7. \A j \in 1..n : j > i => d[j] = c[j]
    BY <1>1, <2>3, <2>4
  <2>8. \A j \in 1..n : j < i => d[j] = 0
    BY <2>4
  <2>9. d \in [1..n -> Nat]
    BY <2>2, <2>5
  <2> QED
    BY <2>6, <2>7, <2>8, <2>9
<1>3. d \in Countings(L)
  <2>1. \A j \in 1..n : d[j] <= L[j]
    BY <1>1, <1>2
  <2> HIDE DEF d
  <2> QED
    BY <1>2, <2>1, CountingPlaces
<1> HIDE DEF d
<1>4. Lower(c, d)
  BY <1>1, <1>2 DEF Lower
<1>5. ASSUME NEW f \in Countings(L), Lower(f, c) PROVE Lower(f, d)
  <2>1. f \in [1..n -> Nat]
    BY CountingPlaces
  <2>2. PICK k \in 1..n : f[k] < c[k] /\ \A j \in 1..n : j > k => f[j] = c[j]
    BY <1>1, <1>5 DEF Lower
  <2>3. CASE k > i
    <3>1. f[k] < d[k] /\ \A j \in 1..n : j > k => f[j] = d[j]
      BY <1>1, <1>2, <2>1, <2>2, <2>3
    <3> QED
      BY <1>2, <3>1 DEF Lower
  <2>4. CASE ~ (k > i)
    <3>1. f[i] < d[i] /\ \A j \in 1..n : j > i => f[j] = d[j]
      <4>0. /\ k \in Nat /\ \A j \in 1..n : j \in Nat
            /\ f[i] \in Nat /\ c[i] \in Nat
        <5>1. \A j \in 1..n : j \in Nat /\ f[j] \in Nat /\ c[j] \in Nat
          BY <1>1, <2>1
        <5> QED
          BY <5>1
      <4>1. CASE k = i
        <5>1. f[i] < c[i]
          BY <2>2, <4>1
        <5>2. f[i] < d[i]
          BY <1>2, <4>0, <5>1
        <5>3. \A j \in 1..n : j > i => f[j] = d[j]
          BY <1>2, <2>2, <4>1
        <5> QED
          BY <5>2, <5>3
      <4>2. CASE k < i
        <5>1. \A j \in 1..n : j >= i => f[j] = c[j]
          BY <1>1, <2>2, <4>0, <4>2
        <5>2. f[i] = c[i]
          BY <1>1, <5>1
        <5>3. f[i] < d[i]
          BY <1>2, <4>0, <5>2
        <5>4. \A j \in 1..n : j > i => f[j] = d[j]
          BY <1>1, <1>2, <4>0, <5>1
        <5> QED
          BY <5>3, <5>4
      <4> QED
        BY <1>1, <2>4, <4>1, <4>2
    <3> QED
      BY <1>2, <3>1 DEF Lower
  <2> QED
    BY <2>3, <2>4
<1>6. ASSUME NEW f \in Countings(L), Lower(f, d), f # c PROVE Lower(f, c)
  <2>1. f \in [1..n -> Nat] /\ \A j \in 1..n : f[j] <= L[j]
    BY CountingPlaces
  <2>2. PICK k \in 1..n : f[k] < d[k] /\ \A j \in 1..n : j > k => f[j] = d[j]
    BY <1>2, <1>6 DEF Lower
  <2>3. ~ (k < i)
    BY <1>2, <2>1, <2>2
  <2>4. CASE k > i
    <3>1. f[k] < c[k] /\ \A j \in 1..n : j > k => f[j] = c[j]
      BY <1>1, <1>2, <2>1, <2>2, <2>4
    <3> QED
      BY <1>1, <3>1 DEF Lower
  <2>5. CASE k = i
    <3>1. f[i] <= c[i] /\ \A j \in 1..n : j > i => f[j] = c[j]
      BY <1>1, <1>2, <2>1, <2>2, <2>5
    <3>2. \A j \in 1..n : j < i => f[j] <= c[j]
      BY <1>1, <2>1
    <3>3. \A j \in 1..n : f[j] <= c[j]
      <4>1. \A j \in 1..n : j < i \/ j = i \/ j > i
        BY <1>1
      <4>2. ASSUME NEW j \in 1..n, j > i PROVE f[j] <= c[j]
        <5>1. f[j] = c[j] /\ c[j] \in Nat
          BY <1>1, <3>1, <4>2
        <5> QED
          BY <5>1
      <4> QED
        BY <3>1, <3>2, <4>1, <4>2
    <3> QED
      BY <1>1, <1>6, <2>1, <3>3, LessIsLower
  <2> QED
    BY <1>1, <2>3, <2>4, <2>5
<1>7. Before(L, d) = Before(L, c) \cup {c}
  BY <1>4, <1>5, <1>6 DEF Before
<1> QED
  BY <1>3, <1>7, BeforeIsFinite DEF d

-----------------------------------------------------------------------------

\* What is said of the result of a work.
ResultRight(r, wk) ==
    LET most == Cardinality(Countings(Layers(wk)))
    IN  /\ r.work = wk
        /\ r.attempts \in 1..most
        /\ ~r.ok => r.attempts = most
        /\ Len(Layers(wk)) = 1 => r.attempts = IF r.ok THEN r.tries + 1 ELSE r.tries

LEMMA TriedByWork ==
    TriedEnough <=> \A n \in DOMAIN results : ResultRight(results[n], Todo[n])
BY DEF TriedEnough, ResultRight

LEMMA LayersAreTries ==
    ASSUME SequentialAssumption, NEW t \in 1..Len(Todo)
    PROVE  Todo[t] \in DOMAIN WorkRetries /\ Layers(Todo[t]) \in Seq(Nat)
<1>1. Todo[t] \in DOMAIN WorkRetries
  BY ElementOfSeq DEF SequentialAssumption
<1> QED
  BY <1>1, ConcatProperties DEF Layers, SequentialAssumption

\* The counts are a sequence as long as there are retries.
LEMMA CountsLength ==
    ASSUME NEW L \in Seq(Nat), NEW c \in Countings(L)
    PROVE  /\ DOMAIN c = 1..Len(L) /\ Len(c) = Len(L) /\ Len(L) \in Nat
           /\ \A i \in 1..Len(L) : c[i] \in Nat /\ c[i] <= L[i] /\ L[i] \in Nat
<1>1. /\ c \in [1..Len(L) -> Nat] /\ Len(L) \in Nat
      /\ \A i \in 1..Len(L) : c[i] <= L[i] /\ L[i] \in Nat
  BY CountingPlaces, LenProperties, ElementOfSeq
<1>2. c \in Seq(Nat)
  BY <1>1, SeqDef
<1>3. DOMAIN c = 1..Len(c) /\ Len(c) \in Nat
  BY <1>2, LenProperties
<1>4. 1..Len(c) = 1..Len(L)
  BY <1>1, <1>3
<1>5. Len(c) = Len(L)
  BY <1>1, <1>3, <1>4
<1> QED
  BY <1>1, <1>5

\* A step within an attempt, or before the work is called.
LEMMA WithinAttempt ==
    ASSUME TriesInv, UNCHANGED <<turn, counts, attempts, results>>, ok' \in BOOLEAN,
           \/ {caller, caller'} \subseteq {"agreement", "create", "start"}
           \/ {caller, caller'} \subseteq Calling
    PROVE  TriesInv'
<1>1. caller \in Calling <=> caller' \in Calling
  BY DEF Calling
<1>2. {caller, caller'} \subseteq {"agreement"} \cup Holding
  BY DEF Calling, Holding
<1>3. AttemptsRight'
  BY <1>1, <1>2 DEF TriesInv, AttemptsRight
<1>4. TriedEnough'
  BY DEF TriesInv, TriedEnough
<1> QED
  BY <1>2, <1>3, <1>4 DEF TriesInv, Holding

LEMMA AbortTries ==
    ASSUME TriesInv, Abort
    PROVE  TriesInv'
<1>1. results' \in Seq(Result) /\ DOMAIN results' = {}
  BY DEF Abort
<1>2. TriedEnough'
  BY <1>1 DEF TriedEnough
<1> QED
  BY <1>1, <1>2 DEF TriesInv, Abort, Holding

\* The counts of a new work: it was not called yet.
LEMMA NextWorkTries ==
    ASSUME SequentialAssumption, TriesInv, NextWork
    PROVE  TriesInv'
<1> DEFINE L == Layers(Todo[turn'])
<1>1. turn' \in 1..Len(Todo) /\ turn' = turn + 1 /\ turn \in Nat /\ Len(Todo) \in Nat
  BY LenProperties DEF TriesInv, NextWork, SequentialAssumption
<1>2. L \in Seq(Nat)
  BY <1>1, LayersAreTries
<1>3. /\ DOMAIN L = 1..Len(L) /\ Len(L) \in Nat
      /\ \A i \in 1..Len(L) : L[i] \in Nat
  BY <1>2, LenProperties, ElementOfSeq
<1>4. counts' = [i \in DOMAIN L |-> 0]
  BY <1>1 DEF NextWork
<1> HIDE DEF L
<1>5. /\ counts' \in [1..Len(L) -> Nat]
      /\ \A i \in 1..Len(L) : counts'[i] = 0 /\ counts'[i] <= L[i]
  BY <1>3, <1>4
<1>6. counts' \in Countings(L)
  BY <1>2, <1>5, CountingPlaces
<1>7. Before(L, counts') = {}
  BY <1>2, <1>5, <1>6, ZeroIsLowest
<1>8. /\ attempts' = 0 /\ caller' = "agreement" /\ caller' \notin Calling
  BY DEF NextWork, Calling
<1>9. Len(L) = 1 => counts'[1] = 0
  BY <1>5
<1>10. AttemptsRight'
  BY <1>1, <1>6, <1>7, <1>8, <1>9, FS_EmptySet DEF AttemptsRight, L
<1>11. TriedEnough' /\ results' = results /\ Len(results') = turn' - 1 /\ ok' = ok
  BY <1>1 DEF TriesInv, NextWork, TriedEnough
<1> QED
  BY <1>1, <1>8, <1>10, <1>11 DEF TriesInv, Holding

\* The work is called.
LEMMA StartedTries ==
    ASSUME SequentialAssumption, TriesInv, Started
    PROVE  TriesInv'
<1> DEFINE L == Layers(Todo[turn])
<1>1. AttemptsRight /\ caller = "start"
  BY DEF TriesInv, Started, Holding
<1>2. /\ turn \in 1..Len(Todo) /\ L \in Seq(Nat) /\ counts \in Countings(L)
      /\ attempts = Cardinality(Before(L, counts)) + 0
      /\ Len(L) = 1 => attempts = counts[1] + 0
  BY <1>1, LayersAreTries DEF AttemptsRight, Calling
<1> HIDE DEF L
<1>3. Cardinality(Before(L, counts)) \in Nat
  BY <1>2, BeforeIsFinite
<1>4. /\ attempts' = Cardinality(Before(L, counts)) + 1
      /\ Len(L) = 1 => attempts' = counts[1] + 1
  <2>1. Len(L) = 1 => counts[1] \in Nat
    BY <1>2, CountsLength
  <2>2. attempts' = attempts + 1
    BY DEF Started
  <2> QED
    BY <1>2, <1>3, <2>1, <2>2
<1>5. caller' = "work" /\ UNCHANGED <<turn, counts, results, ok>>
  BY DEF Started
<1>6. AttemptsRight'
  BY <1>2, <1>4, <1>5 DEF AttemptsRight, Calling, L
<1>7. TriedEnough'
  BY <1>5 DEF TriesInv, TriedEnough
<1> QED
  BY <1>1, <1>5, <1>6, <1>7 DEF TriesInv, Holding

\* The attempts at a work that was called.
LEMMA AttemptsMade ==
    ASSUME SequentialAssumption, TriesInv, caller = "after", NEW L, L = Layers(Todo[turn])
    PROVE  /\ turn \in 1..Len(Todo) /\ L \in Seq(Nat) /\ counts \in Countings(L)
           /\ attempts = Cardinality(Before(L, counts)) + 1
           /\ Len(L) = 1 => attempts = counts[1] + 1
BY LayersAreTries DEF TriesInv, Holding, AttemptsRight, Calling

\* A retry counts.
LEMMA AgainTries ==
    ASSUME SequentialAssumption, TriesInv, Again
    PROVE  TriesInv'
<1>1. PICK L : L = Layers(Todo[turn])
  OBVIOUS
<1>2. /\ turn \in 1..Len(Todo) /\ L \in Seq(Nat) /\ counts \in Countings(L)
      /\ attempts = Cardinality(Before(L, counts)) + 1
      /\ Len(L) = 1 => attempts = counts[1] + 1
  BY <1>1, AttemptsMade DEF Again
<1>3. /\ DOMAIN counts = 1..Len(L) /\ Len(L) \in Nat
      /\ \A j \in 1..Len(L) : counts[j] \in Nat
  BY <1>2, CountsLength
<1>4. PICK i \in 1..Len(L) :
        /\ counts[i] < L[i] /\ counts' = Successor(counts, i)
        /\ \A j \in 1..Len(L) : counts[j] < L[j] => i <= j
  BY <1>1, <1>3 DEF Again, Willing, CountedBy, Successor
<1>5. \A j \in 1..Len(L) : j < i => ~ (counts[j] < L[j])
  BY <1>3, <1>4
<1>6. /\ counts' \in Countings(L)
      /\ Cardinality(Before(L, counts')) = Cardinality(Before(L, counts)) + 1
  BY <1>2, <1>4, <1>5, NextIsOneMore
<1>7. /\ caller' = "agreement" /\ UNCHANGED <<turn, attempts, results, ok>>
      /\ caller = "after"
  BY DEF Again
<1>8. Cardinality(Before(L, counts')) \in Nat
  BY <1>2, <1>6, BeforeIsFinite
<1>9. attempts' = Cardinality(Before(L, counts')) + 0
  BY <1>2, <1>6, <1>7, <1>8
<1>10. ASSUME Len(L) = 1 PROVE attempts' = counts'[1] + 0
  <2>1. i = 1
    BY <1>10
  <2>2. counts'[1] = counts[1] + 1
    BY <1>3, <1>4, <2>1 DEF Successor
  <2> QED
    BY <1>2, <1>3, <1>7, <1>10, <2>1, <2>2
<1>11. AttemptsRight'
  BY <1>1, <1>2, <1>6, <1>7, <1>9, <1>10 DEF AttemptsRight, Calling
<1>12. TriedEnough'
  BY <1>7 DEF TriesInv, TriedEnough
<1> QED
  BY <1>7, <1>11, <1>12 DEF TriesInv, Holding

\* The result of a work.
LEMMA ReturnTries ==
    ASSUME SequentialAssumption, TriesInv, Return
    PROVE  TriesInv'
<1>1. PICK L : L = Layers(Todo[turn])
  OBVIOUS
<1> DEFINE most == Cardinality(Countings(L))
<1>2. /\ turn \in 1..Len(Todo) /\ L \in Seq(Nat) /\ counts \in Countings(L)
      /\ attempts = Cardinality(Before(L, counts)) + 1
      /\ Len(L) = 1 => attempts = counts[1] + 1
  BY <1>1, AttemptsMade DEF Return
<1>3. /\ DOMAIN counts = 1..Len(L) /\ Len(counts) = Len(L) /\ Len(L) \in Nat
      /\ \A j \in 1..Len(L) : counts[j] \in Nat
  BY <1>2, CountsLength
<1>4. /\ Cardinality(Before(L, counts)) \in Nat
      /\ attempts \in Nat /\ attempts >= 1 /\ attempts <= most
  <2>1. /\ Cardinality(Before(L, counts)) \in Nat
        /\ Cardinality(Before(L, counts)) + 1 <= most
    BY <1>2, BeforeIsFinite
  <2> HIDE DEF most
  <2> QED
    BY <1>2, <2>1
<1>5. most \in Nat
  BY <1>2, CountingsFinite, FS_CardinalityType
<1>6. ASSUME ~ok PROVE attempts = most
  <2>1. \A i \in 1..Len(L) : ~ (counts[i] < L[i])
    BY <1>1, <1>3, <1>6 DEF Return, Willing
  <2> QED
    BY <1>2, <2>1, FullIsHighest
<1> HIDE DEF most
<1>7. PICK r : r = [work |-> Todo[turn], ok |-> ok, attempts |-> attempts, tries |-> Extras]
  OBVIOUS
<1>8. results' = Append(results, r) /\ caller = "after" /\ caller' = "next"
      /\ UNCHANGED <<turn, ok>>
  BY <1>7 DEF Return
<1>9. Extras \in Nat \cup {None}
  <2>1. ASSUME counts # <<>> PROVE Len(counts) \in 1..Len(L)
    BY <1>3, <2>1
  <2> QED
    BY <1>3, <2>1 DEF Extras
<1>10. r \in Result
  BY <1>2, <1>4, <1>7, <1>9, LayersAreTries DEF Result, TriesInv
<1>11. Len(L) = 1 => Extras = IF ok THEN counts[1] ELSE counts[1] + 1
  <2>1. Len(L) = 1 => counts # <<>>
    <3>1. counts = <<>> => Len(counts) = 0
      BY EmptySeq
    <3> QED
      BY <1>3, <3>1
  <2> QED
    BY <1>3, <2>1 DEF Extras
<1>12. ResultRight(r, Todo[turn])
  <2>1. r.work = Todo[turn] /\ r.ok = ok /\ r.attempts = attempts /\ r.tries = Extras
    BY <1>7
  <2>2. r.attempts \in 1..most /\ (~r.ok => r.attempts = most)
    BY <1>4, <1>5, <1>6, <2>1
  <2>3. Len(L) = 1 => r.attempts = IF r.ok THEN r.tries + 1 ELSE r.tries
    <3>1. ASSUME Len(L) = 1 PROVE counts[1] \in Nat
      BY <1>3, <3>1
    <3> QED
      BY <1>2, <1>11, <2>1, <3>1
  <2> QED
    BY <1>1, <2>1, <2>2, <2>3 DEF ResultRight, most
<1>13. results \in Seq(Result) /\ Len(results) = turn - 1 /\ turn \in Nat /\ ok \in BOOLEAN
       /\ turn \in 0..Len(Todo)
  BY <1>2, <1>8, LenProperties DEF TriesInv, Holding, SequentialAssumption
<1>14. /\ results' \in Seq(Result) /\ Len(results') = turn
       /\ DOMAIN results' = DOMAIN results \cup {turn} /\ results'[turn] = r
       /\ \A n \in DOMAIN results : results'[n] = results[n]
  <2>1. /\ results' \in Seq(Result) /\ Len(results') = Len(results) + 1
        /\ results'[Len(results) + 1] = r
        /\ \A n \in 1..Len(results) : results'[n] = results[n]
    BY <1>8, <1>10, <1>13, AppendProperties
  <2>2. DOMAIN results = 1..(turn - 1) /\ DOMAIN results' = 1..turn
    BY <1>13, <2>1, LenProperties
  <2> QED
    BY <1>2, <1>13, <2>1, <2>2
<1>15. TriedEnough'
  <2>1. \A n \in DOMAIN results : ResultRight(results[n], Todo[n])
    BY TriedByWork DEF TriesInv
  <2>2. \A n \in DOMAIN results' : ResultRight(results'[n], Todo[n])
    BY <1>12, <1>14, <2>1
  <2> QED
    BY <2>2 DEF TriedEnough, ResultRight
<1> QED
  BY <1>8, <1>13, <1>14, <1>15 DEF TriesInv, Holding

LEMMA TriesStep ==
    ASSUME SequentialAssumption, TriesInv, [SeqNext]_seqVars
    PROVE  TriesInv'
<1>1. CASE NextWork
  BY <1>1, NextWorkTries
<1>2. CASE AgreementRaises \/ DestroyRaises \/ Cancel
  BY <1>2, AbortTries DEF AgreementRaises, DestroyRaises, Cancel
<1>3. CASE Create \/ CreateRaises \/ StartRaises
  BY <1>3, WithinAttempt DEF Create, CreateRaises, StartRaises, TriesInv
<1>4. CASE Terminate \/ Destroy
  BY <1>4, WithinAttempt DEF Terminate, Destroy, TriesInv, Calling
<1>5. CASE Started
  BY <1>5, StartedTries
<1>6. CASE Again
  BY <1>6, AgainTries
<1>7. CASE Return
  BY <1>7, ReturnTries
<1>8. ASSUME NEW a \in Activities, GetAgreement(a) PROVE TriesInv'
  BY <1>8, WithinAttempt DEF GetAgreement, TriesInv
<1>9. ASSUME NEW result \in BOOLEAN, WorkEnds(result) PROVE TriesInv'
  BY <1>9, WithinAttempt DEF WorkEnds, WorkLeaves, Calling
<1>10. CASE UNCHANGED seqVars
  <2>1. UNCHANGED <<turn, counts, attempts, results, ok, caller>>
    BY <1>10 DEF seqVars
  <2> QED
    BY <2>1 DEF TriesInv, AttemptsRight, TriedEnough
<1> QED
  BY <1>1, <1>2, <1>3, <1>4, <1>5, <1>6, <1>7, <1>8, <1>9, <1>10 DEF SeqNext

LEMMA TriesInit == ASSUME SequentialAssumption, SeqInit PROVE TriesInv
<1>1. results \in Seq(Result) /\ DOMAIN results = {} /\ Len(results) = 0 /\ turn = 0
  BY DEF SeqInit
<1>2. turn \in 0..Len(Todo)
  BY <1>1, LenProperties DEF SequentialAssumption
<1>3. TriedEnough
  BY <1>1 DEF TriedEnough
<1> QED
  BY <1>1, <1>2, <1>3 DEF SeqInit, TriesInv, Holding

(***************************************************************************)
(* The results come in the order of the works, and a work is called as     *)
(* often as the retries of the manager and of its decorators, multiplied,  *)
(* allow, whatever their number and their tries (work/sequential.py        *)
(* _do_work_with_plugins, work/plugins.py retry).                          *)
(***************************************************************************)
THEOREM TriesMultiply == ASSUME SequentialAssumption PROVE SeqSpec => []TriedEnough
<1>1. SeqInit => TriesInv
  BY TriesInit
<1>2. TriesInv /\ [SeqNext]_seqVars => TriesInv'
  BY TriesStep
<1>3. TriesInv => TriedEnough
  BY DEF TriesInv
<1> QED
  BY <1>1, <1>2, <1>3, PTL DEF SeqSpec

-----------------------------------------------------------------------------
(***************************************************************************)
(* WorkManager: no work is lost or done twice.                             *)
(*                                                                         *)
(* join() returns when unfinished is 0; that no worker has a work then is  *)
(* what makes the works that do_work_list cancels with its workers none.   *)
(***************************************************************************)

\* task_done() was called for what is neither queued nor with a worker.
Unfinished == unfinished = Len(queue) + Cardinality(Busy)

\* There are workers between the two ends of do_work_list only.
WorkersOff == client = "ready" => \A w \in Workers : worker[w] = "off"

\* A worker that is busy has a work.
HasWork == \A w \in Busy : current[w] \in Works

\* A copy in an attempt has not used all its tries before.
Trying ==
    \A u \in Users : user[u] \in {"get", "work", "over"} => tries[u] <= Tries

ListInv ==
    /\ TypeOK /\ user \in [Users -> Pool!UserStates] /\ Trying
    /\ HasWork /\ WorkersOff /\ Unfinished /\ WorkConserved

-----------------------------------------------------------------------------
(* The counts. *)

\* Two sets with a function between them that is one-to-one and onto.
LEMMA SameSize ==
    ASSUME NEW S, NEW T, IsFiniteSet(S), NEW f \in [S -> T],
           \A x, y \in S : f[x] = f[y] => x = y,
           \A t \in T : \E x \in S : f[x] = t
    PROVE  IsFiniteSet(T) /\ Cardinality(T) = Cardinality(S)
<1>1. f \in Bijection(S, T)
  BY Fun_IsBij
<1>2. ExistsBijection(S, T)
  BY <1>1 DEF ExistsBijection
<1> QED
  BY <1>2, FS_Bijection

\* Two sets that have no element in common.
LEMMA DisjointUnion ==
    ASSUME NEW S, NEW T, IsFiniteSet(S), IsFiniteSet(T), S \cap T = {}
    PROVE  /\ IsFiniteSet(S \cup T)
           /\ Cardinality(S \cup T) = Cardinality(S) + Cardinality(T)
<1>1. Cardinality(S \cap T) = 0
  BY FS_EmptySet
<1>2. Cardinality(S) \in Nat /\ Cardinality(T) \in Nat
  BY FS_CardinalityType
<1>3. /\ IsFiniteSet(S \cup T)
      /\ Cardinality(S \cup T) = Cardinality(S) + Cardinality(T) - Cardinality(S \cap T)
  BY FS_Union
<1> QED
  BY <1>1, <1>2, <1>3

LEMMA PlacesFinite ==
    ASSUME NEW wk, NEW S, NEW s \in Seq(S)
    PROVE  IsFiniteSet(Places(wk, s)) /\ Cardinality(Places(wk, s)) \in Nat
<1>1. DOMAIN s = 1..Len(s) /\ Len(s) \in Nat
  BY LenProperties
<1>2. Places(wk, s) \in SUBSET (1..Len(s))
  BY <1>1 DEF Places
<1>3. IsFiniteSet(1..Len(s))
  BY <1>1, FS_Interval
<1>4. IsFiniteSet(Places(wk, s))
  BY <1>2, <1>3, FS_Subset
<1> QED
  BY <1>4, FS_CardinalityType

\* The places of a work in two lists that are put together.
LEMMA PlacesConcat ==
    ASSUME NEW wk, NEW S, NEW s \in Seq(S), NEW t \in Seq(S)
    PROVE  Cardinality(Places(wk, s \o t))
              = Cardinality(Places(wk, s)) + Cardinality(Places(wk, t))
<1> DEFINE Moved == {i \in (Len(s) + 1)..(Len(s) + Len(t)) : t[i - Len(s)] = wk}
           move == [i \in Places(wk, t) |-> Len(s) + i]
<1>1. /\ Len(s) \in Nat /\ Len(t) \in Nat
      /\ DOMAIN s = 1..Len(s) /\ DOMAIN t = 1..Len(t)
      /\ DOMAIN (s \o t) = 1..(Len(s) + Len(t))
      /\ \A i \in 1..(Len(s) + Len(t)) :
            (s \o t)[i] = IF i <= Len(s) THEN s[i] ELSE t[i - Len(s)]
  BY ConcatProperties, LenProperties
<1>2. Places(wk, s \o t) = Places(wk, s) \cup Moved
  BY <1>1 DEF Places
<1>3. Places(wk, s) \cap Moved = {}
  BY <1>1 DEF Places
<1>4. /\ move \in [Places(wk, t) -> Moved]
      /\ \A x, y \in Places(wk, t) : move[x] = move[y] => x = y
      /\ \A m \in Moved : \E x \in Places(wk, t) : move[x] = m
  <2>1. \A i \in Places(wk, t) : i \in 1..Len(t) /\ t[i] = wk
    BY <1>1 DEF Places
  <2>2. ASSUME NEW i \in Places(wk, t) PROVE Len(s) + i \in Moved
    <3>1. i \in Nat /\ (Len(s) + i) - Len(s) = i
      BY <1>1, <2>1
    <3> QED
      BY <1>1, <2>1, <3>1
  <2>3. ASSUME NEW m \in Moved PROVE m - Len(s) \in Places(wk, t) /\ Len(s) + (m - Len(s)) = m
    BY <1>1 DEF Places
  <2>4. \A x, y \in Places(wk, t) : Len(s) + x = Len(s) + y => x = y
    BY <1>1, <2>1
  <2> QED
    BY <2>2, <2>3, <2>4
<1> HIDE DEF move, Moved
<1>5. IsFiniteSet(Moved) /\ Cardinality(Moved) = Cardinality(Places(wk, t))
  BY <1>4, PlacesFinite, SameSize
<1> QED
  BY <1>2, <1>3, <1>5, PlacesFinite, DisjointUnion

\* The places of a work in a list of one.
LEMMA PlacesOne ==
    ASSUME NEW wk, NEW x
    PROVE  Cardinality(Places(wk, <<x>>)) = IF x = wk THEN 1 ELSE 0
<1>1. DOMAIN <<x>> = {1} /\ <<x>>[1] = x
  OBVIOUS
<1>2. Places(wk, <<x>>) = IF x = wk THEN {1} ELSE {}
  BY <1>1 DEF Places
<1> QED
  BY <1>2, FS_EmptySet, FS_Singleton

\* A work that is taken off a list.
LEMMA PlacesTail ==
    ASSUME NEW wk, NEW S, NEW s \in Seq(S), s # <<>>
    PROVE  Cardinality(Places(wk, s))
              = Cardinality(Places(wk, Tail(s))) + (IF Head(s) = wk THEN 1 ELSE 0)
<1>1. /\ Head(s) \in S /\ Tail(s) \in Seq(S)
      /\ s = <<Head(s)>> \o Tail(s)
  OBVIOUS
<1>2. <<Head(s)>> \in Seq(S)
  BY <1>1
<1>3. Cardinality(Places(wk, s))
        = Cardinality(Places(wk, <<Head(s)>>)) + Cardinality(Places(wk, Tail(s)))
  BY <1>1, <1>2, PlacesConcat
<1>4. Cardinality(Places(wk, Tail(s))) \in Nat
  BY <1>1, PlacesFinite
<1> QED
  BY <1>3, <1>4, PlacesOne

LEMMA GivenFinite ==
    ASSUME NEW wk, NEW n \in 0..Len(Calls)
    PROVE  IsFiniteSet(Given(wk, n)) /\ Cardinality(Given(wk, n)) \in Nat
<1> DEFINE Lists == {{c} \X DOMAIN Calls[c] : c \in 1..n}
           list == [c \in 1..n |-> {c} \X DOMAIN Calls[c]]
<1>1. ASSUME NEW c \in 1..n PROVE IsFiniteSet({c} \X DOMAIN Calls[c])
  <2>1. Calls[c] \in Seq(Works)
    BY <1>1, WorkAssumption, ElementOfSeq
  <2>2. DOMAIN Calls[c] = 1..Len(Calls[c]) /\ Len(Calls[c]) \in Nat
    BY <2>1, LenProperties
  <2>3. IsFiniteSet(DOMAIN Calls[c])
    BY <2>2, FS_Interval
  <2> QED
    BY <2>3, FS_Singleton, FS_Product
<1>2. IsFiniteSet(1..n)
  BY FS_Interval
<1>3. list \in Surjection(1..n, Lists)
  BY Fun_IsSurj
<1>4. IsFiniteSet(Lists)
  BY <1>2, <1>3, FS_Surjection
<1>5. IsFiniteSet(UNION Lists)
  BY <1>1, <1>4, FS_UNION
<1>6. Given(wk, n) \in SUBSET UNION Lists
  BY DEF Given
<1> HIDE DEF Lists
<1>7. IsFiniteSet(Given(wk, n))
  BY <1>5, <1>6, FS_Subset
<1> QED
  BY <1>7, FS_CardinalityType

\* One more call.
LEMMA GivenOneMore ==
    ASSUME NEW wk, NEW n \in 0..Len(Calls), n < Len(Calls)
    PROVE  Cardinality(Given(wk, n + 1))
              = Cardinality(Given(wk, n)) + Cardinality(Places(wk, Calls[n + 1]))
<1> DEFINE New == {n + 1} \X Places(wk, Calls[n + 1])
           pair == [i \in Places(wk, Calls[n + 1]) |-> <<n + 1, i>>]
<1>0. n \in Nat /\ Len(Calls) \in Nat /\ Calls[n + 1] \in Seq(Works)
  <2>1. n \in Nat /\ Len(Calls) \in Nat
    BY WorkAssumption, LenProperties
  <2>2. n + 1 \in 1..Len(Calls)
    BY <2>1
  <2> QED
    BY <2>1, <2>2, WorkAssumption, ElementOfSeq
<1>1. Given(wk, n + 1) = Given(wk, n) \cup New
  <2>1. 1..(n + 1) = (1..n) \cup {n + 1}
    BY <1>0
  <2> QED
    BY <2>1 DEF Given, Places
<1>2. Given(wk, n) \cap New = {}
  BY <1>0 DEF Given
<1>3. IsFiniteSet(Places(wk, Calls[n + 1]))
  BY <1>0, PlacesFinite
<1>4. IsFiniteSet(New) /\ Cardinality(New) = Cardinality(Places(wk, Calls[n + 1]))
  <2>1. /\ pair \in [Places(wk, Calls[n + 1]) -> New]
        /\ \A x, y \in Places(wk, Calls[n + 1]) : pair[x] = pair[y] => x = y
        /\ \A t \in New : \E x \in Places(wk, Calls[n + 1]) : pair[x] = t
    OBVIOUS
  <2> HIDE DEF pair, New
  <2> QED
    BY <1>3, <2>1, SameSize
<1> HIDE DEF New
<1> QED
  BY <1>1, <1>2, <1>4, GivenFinite, DisjointUnion

-----------------------------------------------------------------------------
(* The steps. *)

\* The workers that have a work, and its results.
Doing(wk) == {w \in Busy : current[w] = wk}
Done(wk) == {i \in DOMAIN allResults : allResults[i].work = wk}

LEMMA CountsFinite ==
    ASSUME TypeOK, NEW wk
    PROVE  /\ IsFiniteSet(Busy) /\ Cardinality(Busy) \in Nat
           /\ IsFiniteSet(Doing(wk)) /\ Cardinality(Doing(wk)) \in Nat
           /\ IsFiniteSet(Done(wk)) /\ Cardinality(Done(wk)) \in Nat
           /\ IsFiniteSet(Places(wk, queue)) /\ Cardinality(Places(wk, queue)) \in Nat
           /\ IsFiniteSet(Given(wk, called)) /\ Cardinality(Given(wk, called)) \in Nat
<1>1. Busy \in SUBSET Workers /\ Doing(wk) \in SUBSET Workers
  BY DEF Busy, Doing
<1>2. IsFiniteSet(Busy) /\ IsFiniteSet(Doing(wk))
  BY <1>1, WorkAssumption, FS_Subset
<1>3. DOMAIN allResults = 1..Len(allResults) /\ Len(allResults) \in Nat
  BY LenProperties DEF TypeOK
<1>4. IsFiniteSet(Done(wk))
  <2>1. Done(wk) \in SUBSET (1..Len(allResults))
    BY <1>3 DEF Done
  <2>2. IsFiniteSet(1..Len(allResults))
    BY <1>3, FS_Interval
  <2> QED
    BY <2>1, <2>2, FS_Subset
<1>5. queue \in Seq(Works) /\ called \in 0..Len(Calls)
  BY DEF TypeOK
<1> QED
  BY <1>2, <1>4, <1>5, FS_CardinalityType, PlacesFinite, GivenFinite

\* A step that moves no work.
LEMMA NoWorkMoves ==
    ASSUME ListInv, UNCHANGED <<called, client, queue, unfinished, worker, current, allResults>>,
           user' \in [Users -> Pool!UserStates], tries' \in [Users -> 0..(Tries + 1)],
           Trying'
    PROVE  ListInv'
<1>1. Busy' = Busy
  BY DEF Busy
<1>2. TypeOK'
  BY DEF ListInv, TypeOK
<1>3. HasWork' /\ WorkersOff' /\ Unfinished'
  BY <1>1 DEF ListInv, HasWork, WorkersOff, Unfinished
<1>4. WorkConserved'
  BY <1>1 DEF ListInv, WorkConserved, Given, Places
<1> QED
  BY <1>2, <1>3, <1>4 DEF ListInv

\* A worker stops to have a work.
LEMMA WorkLeft ==
    ASSUME TypeOK, NEW w \in Busy, NEW state \in {"get", "dead"},
           worker' = [worker EXCEPT ![w] = state]
    PROVE  Busy' = IF state = "get" THEN Busy \ {w} ELSE Busy
BY DEF TypeOK, Busy

LEMMA DoWorkListInv ==
    ASSUME ListInv, DoWorkList
    PROVE  ListInv'
<1> USE DEF poolVars
<1>1. /\ called \in 0..Len(Calls) /\ Len(Calls) \in Nat /\ called < Len(Calls)
      /\ queue \in Seq(Works) /\ Calls[called + 1] \in Seq(Works)
  <2>1. called \in 0..Len(Calls) /\ Len(Calls) \in Nat /\ called < Len(Calls)
    BY WorkAssumption, LenProperties DEF ListInv, TypeOK, DoWorkList
  <2>2. called + 1 \in 1..Len(Calls)
    BY <2>1
  <2> QED
    BY <2>1, <2>2, WorkAssumption, ElementOfSeq DEF ListInv, TypeOK
<1>2. /\ queue' \in Seq(Works)
      /\ Len(queue') = Len(queue) + Len(Calls[called + 1])
      /\ Len(queue) \in Nat /\ Len(Calls[called + 1]) \in Nat
  BY <1>1, ConcatProperties, LenProperties DEF DoWorkList
<1>3. Busy = {} /\ Busy' = {}
  BY DEF DoWorkList, ListInv, WorkersOff, Busy
<1>4. TypeOK'
  <2>1. called' \in 0..Len(Calls)
    BY <1>1 DEF DoWorkList
  <2>2. unfinished' \in Nat
    BY <1>2 DEF DoWorkList, ListInv, TypeOK
  <2> QED
    BY <1>2, <2>1, <2>2 DEF DoWorkList, ListInv, TypeOK
<1>5. HasWork' /\ WorkersOff' /\ Trying' /\ user' = user
  BY <1>3 DEF DoWorkList, ListInv, HasWork, WorkersOff, Trying
<1>6. Unfinished'
  <2>1. /\ unfinished = Len(queue) + Cardinality(Busy)
        /\ unfinished' = unfinished + Len(Calls[called + 1])
    BY DEF DoWorkList, ListInv, Unfinished
  <2>2. Cardinality(Busy) = 0 /\ Cardinality(Busy') = 0
    BY <1>3, FS_EmptySet
  <2> QED
    BY <1>2, <2>1, <2>2 DEF Unfinished
<1>7. ASSUME NEW wk \in Works
      PROVE  Cardinality(Given(wk, called'))
                = Cardinality(Places(wk, queue')) + Cardinality(Doing(wk)')
                  + Cardinality(Done(wk)')
  <2>1. Doing(wk)' = Doing(wk) /\ Done(wk)' = Done(wk)
    BY <1>3 DEF Doing, Done, DoWorkList
  <2>2. Cardinality(Given(wk, called'))
          = Cardinality(Given(wk, called)) + Cardinality(Places(wk, Calls[called + 1]))
    BY <1>1, GivenOneMore DEF DoWorkList
  <2>3. Cardinality(Places(wk, queue'))
          = Cardinality(Places(wk, queue)) + Cardinality(Places(wk, Calls[called + 1]))
    BY <1>1, PlacesConcat DEF DoWorkList
  <2>4. Cardinality(Given(wk, called))
          = Cardinality(Places(wk, queue)) + Cardinality(Doing(wk)) + Cardinality(Done(wk))
    BY DEF ListInv, WorkConserved, Doing, Done
  <2>5. Cardinality(Places(wk, Calls[called + 1])) \in Nat
    BY <1>1, PlacesFinite
  <2> QED
    BY <2>1, <2>2, <2>3, <2>4, <2>5, CountsFinite DEF ListInv
<1>8. WorkConserved'
  BY <1>7 DEF WorkConserved, Doing, Done, Given, Places
<1> QED
  BY <1>4, <1>5, <1>6, <1>8 DEF ListInv

LEMMA TakeWorkInv ==
    ASSUME ListInv, NEW w \in Workers, TakeWork(w)
    PROVE  ListInv'
<1> DEFINE h == Head(queue)
<1>1. /\ queue \in Seq(Works) /\ queue # <<>> /\ h \in Works
      /\ Tail(queue) \in Seq(Works)
      /\ Len(Tail(queue)) = Len(queue) - 1 /\ Len(queue) \in Nat
  BY HeadTailProperties, LenProperties DEF ListInv, TypeOK, TakeWork
<1>2. /\ Busy' = Busy \cup {w} /\ w \notin Busy
      /\ current'[w] = h
      /\ \A v \in Workers \ {w} : current'[v] = current[v]
  BY <1>1 DEF ListInv, TypeOK, TakeWork, Busy
<1>3. TypeOK'
  <2>1. tries' \in [Users -> 0..(Tries + 1)]
    BY WorkAssumption DEF ListInv, TypeOK, TakeWork
  <2>2. worker' \in [Workers -> {"off", "get", "do", "dead"}]
        /\ current' \in [Workers -> Works \cup {NoWork}]
    BY <1>1 DEF ListInv, TypeOK, TakeWork
  <2> QED
    BY <1>1, <2>1, <2>2 DEF ListInv, TypeOK, TakeWork
<1>4. user' \in [Users -> Pool!UserStates] /\ Trying'
  <2>1. user' = [u \in Users |-> IF u \in CopiesOf(w) THEN "get" ELSE user[u]]
    BY DEF TakeWork, Pool!Begin
  <2>2. tries' = [u \in Users |-> IF u \in CopiesOf(w) THEN 0 ELSE tries[u]]
    BY DEF TakeWork
  <2> QED
    BY <2>1, <2>2, WorkAssumption DEF ListInv, Trying, Pool!UserStates
<1>5. HasWork' /\ WorkersOff'
  <2>1. client = "join" /\ client' = client
    BY DEF TakeWork, ListInv, WorkersOff, TypeOK
  <2> QED
    BY <1>1, <1>2, <2>1 DEF ListInv, HasWork, WorkersOff, Busy
<1>6. Unfinished'
  <2>1. Cardinality(Busy') = Cardinality(Busy) + 1 /\ Cardinality(Busy) \in Nat
    BY <1>2, CountsFinite, FS_AddElement DEF ListInv
  <2>2. /\ unfinished = Len(queue) + Cardinality(Busy) /\ unfinished' = unfinished
        /\ Len(queue') = Len(queue) - 1
    BY <1>1 DEF TakeWork, ListInv, Unfinished
  <2> QED
    BY <1>1, <2>1, <2>2 DEF Unfinished
<1>7. ASSUME NEW wk \in Works
      PROVE  Cardinality(Given(wk, called))
                = Cardinality(Places(wk, Tail(queue))) + Cardinality(Doing(wk)')
                  + Cardinality(Done(wk))
  <2>1. Doing(wk)' = IF h = wk THEN Doing(wk) \cup {w} ELSE Doing(wk)
    BY <1>2 DEF Doing, Busy
  <2>2. w \notin Doing(wk)
    BY <1>2 DEF Doing
  <2>3. Cardinality(Doing(wk)') = Cardinality(Doing(wk)) + (IF h = wk THEN 1 ELSE 0)
    <3>1. Cardinality(Doing(wk) \cup {w}) = Cardinality(Doing(wk)) + 1
          /\ Cardinality(Doing(wk)) \in Nat
      BY <2>2, CountsFinite, FS_AddElement DEF ListInv
    <3> QED
      BY <2>1, <3>1
  <2>4. Cardinality(Places(wk, queue))
          = Cardinality(Places(wk, Tail(queue))) + (IF h = wk THEN 1 ELSE 0)
    BY <1>1, PlacesTail
  <2>5. Cardinality(Given(wk, called))
          = Cardinality(Places(wk, queue)) + Cardinality(Doing(wk)) + Cardinality(Done(wk))
    BY DEF ListInv, WorkConserved, Doing, Done
  <2>6. Cardinality(Places(wk, Tail(queue))) \in Nat
    BY <1>1, PlacesFinite
  <2> QED
    BY <2>3, <2>4, <2>5, <2>6, CountsFinite DEF ListInv
<1>8. WorkConserved'
  <2>1. called' = called /\ allResults' = allResults /\ queue' = Tail(queue)
    BY DEF TakeWork
  <2> QED
    BY <1>7, <2>1 DEF WorkConserved, Doing, Done, Given, Places
<1> QED
  BY <1>3, <1>4, <1>5, <1>6, <1>8 DEF ListInv

\* Cancelled copies are in no attempt.
LEMMA CancelTries ==
    ASSUME ListInv, NEW S, Pool!Cancel(S), tries' = tries
    PROVE  user' \in [Users -> Pool!UserStates] /\ Trying'
<1>1. user' = [u \in Users |-> IF u \in S /\ user[u] \in {"get", "work", "over"}
                               THEN "cancelled" ELSE user[u]]
  BY DEF Pool!Cancel
<1> QED
  BY <1>1 DEF ListInv, Trying, Pool!UserStates

LEMMA CollectInv ==
    ASSUME ListInv, NEW u \in Users, Collect(u)
    PROVE  ListInv'
<1> DEFINE w == u[1]
           r == [work |-> current[w], ok |-> user[u] = "ok", tries |-> tries[u]]
<1>1. w \in Busy /\ w \in Workers /\ current[w] \in Works
  BY DEF Collect, ListInv, HasWork, Busy, Users
<1>2. Busy' = Busy \ {w} /\ UNCHANGED <<called, client, queue, current, tries>>
  BY <1>1, WorkLeft DEF Collect, ListInv
<1>3. /\ allResults' = Append(allResults, r)
      /\ r \in [work : Works, ok : BOOLEAN, tries : 0..(Tries + 1)]
  BY <1>1 DEF Collect, Added, ListInv, TypeOK
<1>4. Cardinality(Busy) \in Nat /\ Cardinality(Busy') = Cardinality(Busy) - 1
      /\ Cardinality(Busy') \in Nat /\ Len(queue) \in Nat
  <2>1. IsFiniteSet(Busy \ {w}) /\ Cardinality(Busy \ {w}) = Cardinality(Busy) - 1
    BY <1>1, CountsFinite, FS_RemoveElement DEF ListInv
  <2> QED
    BY <1>2, <2>1, CountsFinite, FS_CardinalityType, LenProperties DEF ListInv, TypeOK
<1>5. Unfinished' /\ unfinished' \in Nat
  BY <1>2, <1>4 DEF Collect, ListInv, Unfinished
<1>6. TypeOK'
  BY <1>1, <1>2, <1>3, <1>5, AppendProperties DEF Collect, ListInv, TypeOK
<1>7. user' \in [Users -> Pool!UserStates] /\ Trying'
  BY CancelTries DEF Collect
<1>8. HasWork' /\ WorkersOff'
  BY <1>1, <1>2 DEF Collect, ListInv, HasWork, WorkersOff, Busy
<1>9. ASSUME NEW wk \in Works
      PROVE  Cardinality(Doing(wk)') + Cardinality(Done(wk)')
                = Cardinality(Doing(wk)) + Cardinality(Done(wk))
  <2>1. Doing(wk)' = Doing(wk) \ {w} /\ (w \in Doing(wk) <=> current[w] = wk)
    BY <1>1, <1>2 DEF Doing
  <2>2. Cardinality(Doing(wk)')
          = IF current[w] = wk THEN Cardinality(Doing(wk)) - 1 ELSE Cardinality(Doing(wk))
    <3>1. Cardinality(Doing(wk) \ {w})
            = IF w \in Doing(wk) THEN Cardinality(Doing(wk)) - 1 ELSE Cardinality(Doing(wk))
      BY CountsFinite, FS_RemoveElement DEF ListInv
    <3> QED
      BY <2>1, <3>1
  <2>3. /\ Len(allResults) \in Nat
        /\ DOMAIN allResults = 1..Len(allResults)
        /\ DOMAIN allResults' = 1..(Len(allResults) + 1)
        /\ \A i \in 1..Len(allResults) : allResults'[i] = allResults[i]
        /\ allResults'[Len(allResults) + 1].work = current[w]
    <3>1. allResults \in Seq([work : Works, ok : BOOLEAN, tries : 0..(Tries + 1)])
      BY DEF ListInv, TypeOK
    <3> HIDE DEF r
    <3>2. /\ Len(allResults) \in Nat
          /\ DOMAIN allResults = 1..Len(allResults)
          /\ DOMAIN allResults' = 1..(Len(allResults) + 1)
          /\ \A i \in 1..Len(allResults) : allResults'[i] = allResults[i]
          /\ allResults'[Len(allResults) + 1] = r
      BY <1>3, <3>1, AppendProperties, LenProperties
    <3>3. r.work = current[w]
      BY DEF r
    <3> QED
      BY <3>2, <3>3
  <2>4. Done(wk)' = IF current[w] = wk THEN Done(wk) \cup {Len(allResults) + 1} ELSE Done(wk)
    BY <2>3 DEF Done
  <2>5. Len(allResults) + 1 \notin Done(wk)
    BY <2>3 DEF Done
  <2>6. Cardinality(Done(wk)')
          = IF current[w] = wk THEN Cardinality(Done(wk)) + 1 ELSE Cardinality(Done(wk))
    BY <2>4, <2>5, CountsFinite, FS_AddElement DEF ListInv
  <2> QED
    BY <2>2, <2>6, CountsFinite DEF ListInv
<1>10. WorkConserved'
  <2> SUFFICES ASSUME NEW wk \in Works
               PROVE  Cardinality(Given(wk, called))
                        = Cardinality(Places(wk, queue)) + Cardinality(Doing(wk)')
                          + Cardinality(Done(wk)')
    BY <1>2 DEF WorkConserved, Doing, Done, Given, Places
  <2>1. Cardinality(Given(wk, called))
          = Cardinality(Places(wk, queue)) + Cardinality(Doing(wk)) + Cardinality(Done(wk))
    BY DEF ListInv, WorkConserved, Doing, Done
  <2>2. /\ Cardinality(Doing(wk)) \in Nat /\ Cardinality(Done(wk)) \in Nat
        /\ Cardinality(Places(wk, queue)) \in Nat
    BY CountsFinite DEF ListInv
  <2>3. TypeOK'
    BY <1>6
  <2>4. IsFiniteSet(Doing(wk)') /\ IsFiniteSet(Done(wk)')
    <3>1. Doing(wk)' \in SUBSET Workers
      BY DEF Doing, Busy
    <3>2. Done(wk)' \in SUBSET (1..Len(allResults')) /\ Len(allResults') \in Nat
      BY <2>3, LenProperties DEF Done, TypeOK
    <3>3. IsFiniteSet(1..Len(allResults'))
      BY <3>2, FS_Interval
    <3> QED
      BY <3>1, <3>2, <3>3, WorkAssumption, FS_Subset
  <2>5. Cardinality(Doing(wk)') \in Nat /\ Cardinality(Done(wk)') \in Nat
    BY <2>4, FS_CardinalityType
  <2> QED
    BY <1>9, <2>1, <2>2, <2>5
<1> QED
  BY <1>5, <1>6, <1>7, <1>8, <1>10 DEF ListInv

LEMMA WorkerDiesInv ==
    ASSUME ListInv, NEW u \in Users, WorkerDies(u)
    PROVE  ListInv'
<1>1. u[1] \in Busy /\ u[1] \in Workers
  BY DEF WorkerDies, ListInv, Busy, Users
<1>2. Busy' = Busy
      /\ UNCHANGED <<called, client, queue, unfinished, current, tries, allResults>>
  BY <1>1, WorkLeft DEF WorkerDies, ListInv
<1>3. TypeOK'
  BY <1>1, <1>2 DEF WorkerDies, ListInv, TypeOK
<1>4. user' \in [Users -> Pool!UserStates] /\ Trying'
  BY CancelTries DEF WorkerDies
<1>5. HasWork' /\ WorkersOff' /\ Unfinished'
  BY <1>1, <1>2 DEF WorkerDies, ListInv, HasWork, WorkersOff, Unfinished, Busy
<1>6. WorkConserved'
  BY <1>2 DEF ListInv, WorkConserved, Given, Places
<1> QED
  BY <1>3, <1>4, <1>5, <1>6 DEF ListInv

LEMMA ReturnResultsInv ==
    ASSUME ListInv, ReturnResults
    PROVE  ListInv'
<1> USE DEF poolVars
<1>1. Busy = {} /\ Busy' = {}
  <2>1. Cardinality(Busy) = 0
    <3>1. Len(queue) \in Nat /\ Cardinality(Busy) \in Nat
      BY CountsFinite, LenProperties DEF ListInv, TypeOK
    <3>2. Len(queue) + Cardinality(Busy) = 0
      BY DEF ReturnResults, Joined, ListInv, Unfinished
    <3> QED
      BY <3>1, <3>2
  <2> QED
    BY <2>1, CountsFinite, FS_EmptySet DEF ListInv, ReturnResults, Busy
<1>2. TypeOK' /\ Trying' /\ user' = user
  BY DEF ReturnResults, ListInv, TypeOK, Trying
<1>3. HasWork' /\ WorkersOff' /\ Unfinished'
  BY <1>1 DEF ReturnResults, ListInv, HasWork, WorkersOff, Unfinished
<1>4. WorkConserved'
  BY <1>1 DEF ReturnResults, ListInv, WorkConserved, Given, Places
<1> QED
  BY <1>2, <1>3, <1>4 DEF ListInv

\* The steps in which no work moves.
LEMMA AttemptInv ==
    ASSUME ListInv, NEW u \in Users, NEW result \in {"ok", "failed"},
           GetActivity(u) \/ TryAgain(u) \/ Cancelled(u) \/ AttemptEnds(u, result)
    PROVE  ListInv'
<1> USE DEF workVars
<1>0. user \in [Users -> Pool!UserStates] /\ tries \in [Users -> 0..(Tries + 1)] /\ Trying
  BY DEF ListInv, TypeOK
<1>1. CASE GetActivity(u)
  <2>1. user[u] = "get" /\ user' = [user EXCEPT ![u] = "work"]
    BY <1>1 DEF GetActivity, Pool!Take
  <2>2. user' \in [Users -> Pool!UserStates] /\ Trying'
    BY <1>0, <1>1, <2>1 DEF GetActivity, Trying, Pool!UserStates
  <2> QED
    BY <1>0, <1>1, <2>2, NoWorkMoves DEF GetActivity
<1>2. CASE TryAgain(u)
  <2>1. tries[u] <= Tries
        /\ user' = [v \in Users |-> IF v \in {u} THEN "get" ELSE user[v]]
    BY <1>2 DEF TryAgain, AttemptsLeft, Pool!Begin
  <2>2. user' \in [Users -> Pool!UserStates] /\ Trying'
    BY <1>0, <1>2, <2>1 DEF TryAgain, Trying, Pool!UserStates
  <2> QED
    BY <1>0, <1>2, <2>2, NoWorkMoves DEF TryAgain
<1>3. CASE Cancelled(u)
  BY <1>0, <1>3, CancelTries, NoWorkMoves DEF Cancelled
<1>4. CASE AttemptEnds(u, result)
  <2>1. /\ user[u] \in {"work", "over"} /\ user' = [user EXCEPT ![u] = result]
        /\ tries' = Counted(u, result)
    BY <1>4 DEF AttemptEnds, Pool!Finish, Pool!Working
  <2>2. tries[u] <= Tries /\ Tries \in Nat
    BY <1>0, <2>1, WorkAssumption DEF Trying
  <2>3. tries' \in [Users -> 0..(Tries + 1)]
    BY <1>0, <2>1, <2>2 DEF Counted
  <2>4. user' \in [Users -> Pool!UserStates] /\ Trying'
    BY <1>0, <2>1 DEF Counted, Trying, Pool!UserStates
  <2> QED
    BY <1>4, <2>3, <2>4, NoWorkMoves DEF AttemptEnds
<1> QED
  BY <1>1, <1>2, <1>3, <1>4

LEMMA PoolStepInv ==
    ASSUME ListInv, PoolStep
    PROVE  ListInv'
<1>1. user' = user
  BY DEF PoolStep, Pool!Manager, Pool!Start, Pool!Fill, Pool!PrepareRaises, Pool!FillDone,
         Pool!Leave, Pool!ReleaseGet, Pool!Released, Pool!StopCall, Pool!StopFilling,
         Pool!StopReleasing, Pool!StopLate, Pool!StopReturn, Pool!Created,
         Pool!StartRaises, Pool!Started, Pool!Stopped, Pool!StopRaises, Pool!userVars
<1>2. UNCHANGED workVars
  BY DEF PoolStep
<1>3. Trying' /\ UNCHANGED <<called, client, queue, unfinished, worker, current, allResults>>
      /\ tries' = tries
  BY <1>1, <1>2 DEF workVars, ListInv, Trying
<1> QED
  BY <1>1, <1>3, NoWorkMoves DEF ListInv, TypeOK

LEMMA ListInitInv == ASSUME Init PROVE ListInv
<1>1. user = [u \in Users |-> "idle"]
  BY DEF Init, Pool!Init
<1>2. Busy = {}
  BY DEF Init, Busy
<1>3. TypeOK
  BY WorkAssumption, LenProperties DEF Init, TypeOK
<1>4. user \in [Users -> Pool!UserStates] /\ Trying
  BY <1>1 DEF Trying, Pool!UserStates
<1>5. HasWork /\ WorkersOff /\ Unfinished
  BY <1>2, FS_EmptySet DEF Init, HasWork, WorkersOff, Unfinished
<1>6. WorkConserved
  <2> SUFFICES ASSUME NEW wk \in Works
               PROVE  Cardinality(Given(wk, called))
                        = Cardinality(Places(wk, queue)) + Cardinality(Doing(wk))
                          + Cardinality(Done(wk))
    BY DEF WorkConserved, Doing, Done
  <2>1. /\ Given(wk, called) = {} /\ Places(wk, queue) = {}
        /\ Doing(wk) = {} /\ Done(wk) = {}
    BY <1>2 DEF Init, Given, Places, Doing, Done
  <2> QED
    BY <2>1, FS_EmptySet
<1> QED
  BY <1>3, <1>4, <1>5, <1>6 DEF ListInv

\* ListInv holds in every reachable state.
LEMMA ListInvariant == Spec => []ListInv
<1>1. Init => ListInv
  BY ListInitInv
<1>2. ListInv /\ [Next]_vars => ListInv'
  <2> SUFFICES ASSUME ListInv, [Next]_vars PROVE ListInv'
    OBVIOUS
  <2>1. CASE UNCHANGED vars
    <3>1. UNCHANGED <<called, client, queue, unfinished, worker, current, allResults,
                      user, tries>>
      BY <2>1 DEF vars, poolVars, workVars
    <3> QED
      BY <3>1, NoWorkMoves DEF ListInv, TypeOK, Trying
  <2>2. ASSUME NEW u \in Users, Copy(u) PROVE ListInv'
    BY <2>2, AttemptInv, CollectInv, WorkerDiesInv DEF Copy
  <2> QED
    BY <2>1, <2>2, DoWorkListInv, TakeWorkInv, ReturnResultsInv, PoolStepInv DEF Next
<1> QED
  BY <1>1, <1>2, PTL DEF Spec

\* All variables keep their types: no copy is tried more than Tries + 1 times,
\* and task_done() is never called too often.
THEOREM WorkTypesCorrect == Spec => []TypeOK
<1>1. ListInv => TypeOK
  BY DEF ListInv
<1> QED
  BY <1>1, ListInvariant, PTL

\* Each time a work was given to do_work_list it is queued, with a worker or
\* has one result, for every number of workers, copies and tries: when
\* do_work_list returns, every work it was given has a result.
THEOREM NoWorkLost == Spec => []WorkConserved
<1>1. ListInv => WorkConserved
  BY DEF ListInv
<1> QED
  BY <1>1, ListInvariant, PTL

-----------------------------------------------------------------------------
(***************************************************************************)
(* Pipeline: the permits of the Buffer.                                    *)
(*                                                                         *)
(* Every step keeps the sum; only the end of the generator lowers it, by   *)
(* the result it drops, so that it never exceeds the size.                 *)
(***************************************************************************)

\* The awaitables that are awaited.
Awaited == {w \in Awaitables : awaitable[w] # "free"}

\* Free permits and those with an awaitable, a result or the program.
AllPermits ==
    permits + Cardinality(Awaited) + Len(resultQueue) + (IF got = Nothing THEN 0 ELSE 1)
    + (IF consumer \in {"yielded", "left"} THEN 1 ELSE 0)

\* func is called with an element.
FuncHasElement == \A w \in Awaitables : awaitable[w] = "func" => value[w] \in Elements

PipeInv ==
    /\ PipeTypeOK /\ FuncHasElement
    /\ AllPermits <= Size /\ (consumer # "ended" => AllPermits = Size)

LEMMA AwaitedFinite ==
    ASSUME PipeTypeOK
    PROVE  IsFiniteSet(Awaited) /\ Cardinality(Awaited) \in Nat
<1>1. IsFiniteSet(Awaitables)
  BY PipelineAssumption, FS_Interval DEF Awaitables
<1>2. Awaited \in SUBSET Awaitables
  BY DEF Awaited
<1>3. IsFiniteSet(Awaited)
  BY <1>1, <1>2, FS_Subset
<1> QED
  BY <1>3, FS_CardinalityType

\* An awaitable is taken, goes on or is given up.
LEMMA AwaitedChanges ==
    ASSUME PipeTypeOK, NEW w \in Awaitables, NEW l \in {"free", "lock", "next", "func"},
           To(w, l)
    PROVE  /\ awaitable' \in [Awaitables -> {"free", "lock", "next", "func"}]
           /\ awaitable'[w] = l
           /\ \A v \in Awaitables \ {w} : awaitable'[v] = awaitable[v]
           /\ Cardinality(Awaited) \in Nat
           /\ Cardinality(Awaited') =
                IF awaitable[w] = "free" /\ l # "free" THEN Cardinality(Awaited) + 1
                ELSE IF awaitable[w] # "free" /\ l = "free" THEN Cardinality(Awaited) - 1
                ELSE Cardinality(Awaited)
<1>1. /\ awaitable' \in [Awaitables -> {"free", "lock", "next", "func"}]
      /\ awaitable'[w] = l
      /\ \A v \in Awaitables \ {w} : awaitable'[v] = awaitable[v]
  BY DEF PipeTypeOK, To
<1>2. Awaited' = IF l = "free" THEN Awaited \ {w} ELSE Awaited \cup {w}
  BY <1>1 DEF Awaited
<1>3. w \in Awaited <=> awaitable[w] # "free"
  BY DEF Awaited
<1>4. /\ Cardinality(Awaited \cup {w})
           = IF w \in Awaited THEN Cardinality(Awaited) ELSE Cardinality(Awaited) + 1
      /\ Cardinality(Awaited \ {w})
           = IF w \in Awaited THEN Cardinality(Awaited) - 1 ELSE Cardinality(Awaited)
      /\ Cardinality(Awaited) \in Nat
  BY AwaitedFinite, FS_AddElement, FS_RemoveElement
<1> QED
  BY <1>1, <1>2, <1>3, <1>4

\* A step that keeps the sum.
LEMMA SameSum ==
    ASSUME PipeInv, PipeTypeOK', FuncHasElement', AllPermits' = AllPermits,
           consumer' = "ended" <=> consumer = "ended"
    PROVE  PipeInv'
BY DEF PipeInv

\* Free permits are never more than the sum.
LEMMA PermitsFit ==
    ASSUME NEW p \in Nat, NEW a \in Nat, NEW q \in Nat,
           p + a + q + (IF got = Nothing THEN 0 ELSE 1)
             + (IF consumer \in {"yielded", "left"} THEN 1 ELSE 0) <= Size
    PROVE  p \in 0..Size
<1>1. Size \in Nat
  BY PipelineAssumption
<1>2. PICK g \in {0, 1} : g = IF got = Nothing THEN 0 ELSE 1
  OBVIOUS
<1>3. PICK c \in {0, 1} : c = IF consumer \in {"yielded", "left"} THEN 1 ELSE 0
  OBVIOUS
<1> QED
  BY <1>1, <1>2, <1>3

-----------------------------------------------------------------------------

\* The steps of Sort.
LEMMA SortInv ==
    ASSUME PipeInv,
           (\E e \in Elements : ScoreElement(e)) \/ NoMoreElements \/ SortRaises \/ Ready
    PROVE  PipeInv'
<1> USE DEF mapVars, bufferVars, sortVars
<1>1. UNCHANGED <<mapVars, permits, bufferVars>>
  BY DEF ScoreElement, NoMoreElements, SortRaises, Ready
<1>2. AllPermits' = AllPermits /\ FuncHasElement'
  <2>1. Awaited' = Awaited
    BY <1>1 DEF Awaited
  <2> QED
    BY <1>1, <2>1 DEF AllPermits, PipeInv, FuncHasElement
<1>3. PipeTypeOK'
  <2>1. /\ source' \subseteq Elements /\ scored' \subseteq Elements
        /\ sorter' \in {"run", "done", "dead"} /\ ready' \in BOOLEAN
        /\ dropped' \subseteq Elements /\ failures' \in 0..Failures
    <3>1. CASE SortRaises
      <4>1. failures \in 0..Failures /\ failures < Failures /\ failures' = failures + 1
            /\ Failures \in Nat
        BY <3>1, PipelineAssumption DEF SortRaises, Fails, PipeInv, PipeTypeOK
      <4>2. failures' \in 0..Failures
        BY <4>1
      <4> QED
        BY <3>1, <4>2 DEF SortRaises, PipeInv, PipeTypeOK
    <3>2. CASE \E e \in Elements : ScoreElement(e)
      BY <3>2 DEF ScoreElement, PipeInv, PipeTypeOK
    <3>3. CASE NoMoreElements \/ Ready
      BY <3>3 DEF NoMoreElements, Ready, PipeInv, PipeTypeOK
    <3> QED
      BY <3>1, <3>2, <3>3
  <2> QED
    BY <1>1, <2>1 DEF PipeInv, PipeTypeOK
<1> QED
  BY <1>1, <1>2, <1>3, SameSum

\* An awaitable goes on, or returns: the permits of the others stay.
LEMMA AwaitableInv ==
    ASSUME PipeInv, NEW w \in Awaitables,
           \/ Spawn(w) \/ Acquire(w) \/ NextElement(w) \/ Exhausted(w)
           \/ FuncReturns(w) \/ FuncRaises(w) \/ AwaitRaises(w)
    PROVE  PipeInv'
<1> USE DEF mapVars, bufferVars, sortVars
<1>0. /\ PipeTypeOK /\ FuncHasElement /\ AllPermits <= Size /\ Size \in Nat
      /\ permits \in Nat /\ Len(resultQueue) \in Nat /\ Cardinality(Awaited) \in Nat
  BY PipelineAssumption, AwaitedFinite, LenProperties DEF PipeInv, PipeTypeOK
<1>1. /\ got' = got /\ consumer' = consumer
  BY DEF Spawn, Acquire, NextElement, Exhausted, FuncReturns, FuncRaises, AwaitRaises
<1>2. PICK l \in {"free", "lock", "next", "func"} : To(w, l)
  BY DEF Spawn, Acquire, NextElement, Exhausted, FuncReturns, FuncRaises, AwaitRaises
<1>3. /\ awaitable' \in [Awaitables -> {"free", "lock", "next", "func"}]
      /\ awaitable'[w] = l
      /\ \A v \in Awaitables \ {w} : awaitable'[v] = awaitable[v]
      /\ Cardinality(Awaited') =
                IF awaitable[w] = "free" /\ l # "free" THEN Cardinality(Awaited) + 1
                ELSE IF awaitable[w] # "free" /\ l = "free" THEN Cardinality(Awaited) - 1
                ELSE Cardinality(Awaited)
  BY <1>0, <1>2, AwaitedChanges
<1>4. /\ value' \in [Awaitables -> Elements \cup {Nothing}]
      /\ awaitable'[w] = "func" => value'[w] \in Elements
      /\ \A v \in Awaitables \ {w} : value'[v] = value[v]
      /\ scored' \subseteq Elements /\ dropped' \subseteq Elements
      /\ tasks' \in 0..Tasks /\ locked' \in Awaitables \cup {Nothing}
      /\ failures' \in 0..Failures /\ main' \in BOOLEAN /\ exhausted' \in BOOLEAN
      /\ UNCHANGED <<source, sorter, ready, stopped, out>>
  <2>1. CASE Spawn(w)
    BY <1>0, <2>1 DEF PipeTypeOK, Spawn, To
  <2>2. CASE Acquire(w)
    BY <1>0, <2>2, PipelineAssumption DEF PipeTypeOK, Acquire, To
  <2>3. CASE NextElement(w)
    BY <1>0, <2>3 DEF PipeTypeOK, NextElement, To, Best
  <2>4. CASE Exhausted(w)
    BY <1>0, <2>4 DEF PipeTypeOK, Exhausted, To
  <2>5. CASE FuncReturns(w)
    BY <1>0, <2>5 DEF PipeTypeOK, FuncReturns, To
  <2>6. CASE FuncRaises(w)
    BY <1>0, <2>6, PipelineAssumption DEF PipeTypeOK, FuncRaises, To, Fails, FuncHasElement
  <2>7. CASE AwaitRaises(w)
    BY <1>0, <2>7, PipelineAssumption DEF PipeTypeOK, AwaitRaises, To, Fails, FuncHasElement
  <2> QED
    BY <2>1, <2>2, <2>3, <2>4, <2>5, <2>6, <2>7
<1>5. FuncHasElement'
  BY <1>0, <1>3, <1>4 DEF FuncHasElement
<1>6. /\ permits' \in Nat /\ resultQueue' \in Seq(Elements) /\ Len(resultQueue') \in Nat
      /\ permits' + Cardinality(Awaited') + Len(resultQueue')
           = permits + Cardinality(Awaited) + Len(resultQueue)
  <2>0. resultQueue \in Seq(Elements)
    BY <1>0 DEF PipeTypeOK
  <2>1. CASE Spawn(w)
    <3>1. awaitable[w] = "free" /\ l = "lock"
          /\ permits > 0 /\ permits' = permits - 1 /\ resultQueue' = resultQueue
      BY <1>0, <1>3, <2>1 DEF PipeTypeOK, Spawn, To
    <3> QED
      BY <1>0, <1>3, <2>0, <3>1
  <2>2. CASE Acquire(w) \/ NextElement(w) \/ FuncRaises(w)
    <3>1. awaitable[w] # "free" /\ l # "free"
          /\ permits' = permits /\ resultQueue' = resultQueue
      BY <1>0, <1>3, <2>2 DEF PipeTypeOK, Acquire, NextElement, FuncRaises, To
    <3> QED
      BY <1>0, <1>3, <2>0, <3>1
  <2>3. CASE Exhausted(w) \/ AwaitRaises(w)
    <3>1. awaitable[w] # "free" /\ l = "free"
          /\ permits' = permits + 1 /\ resultQueue' = resultQueue
      BY <1>0, <1>3, <2>3 DEF PipeTypeOK, Exhausted, AwaitRaises, PermitBack, To
    <3> QED
      BY <1>0, <1>3, <2>0, <3>1
  <2>4. CASE FuncReturns(w)
    <3>1. awaitable[w] # "free" /\ l = "free"
          /\ permits' = permits /\ resultQueue' = Append(resultQueue, value[w])
          /\ value[w] \in Elements
      BY <1>0, <1>3, <2>4 DEF PipeTypeOK, FuncReturns, To, FuncHasElement
    <3>2. resultQueue' \in Seq(Elements) /\ Len(resultQueue') = Len(resultQueue) + 1
      BY <2>0, <3>1, AppendProperties
    <3> QED
      BY <1>0, <1>3, <3>1, <3>2
  <2> QED
    BY <2>1, <2>2, <2>3, <2>4
<1>7. AllPermits' = AllPermits
  BY <1>1, <1>6 DEF AllPermits
<1>8. permits' \in 0..Size
  <2>1. Cardinality(Awaited') \in Nat
    <3>1. IsFiniteSet(Awaited')
      <4>1. Awaited' \in SUBSET Awaitables /\ IsFiniteSet(Awaitables)
        BY PipelineAssumption, FS_Interval DEF Awaited, Awaitables
      <4> QED
        BY <4>1, FS_Subset
    <3> QED
      BY <3>1, FS_CardinalityType
  <2>2. permits' + Cardinality(Awaited') + Len(resultQueue') + (IF got = Nothing THEN 0 ELSE 1)
          + (IF consumer \in {"yielded", "left"} THEN 1 ELSE 0) <= Size
    BY <1>0, <1>1, <1>7 DEF AllPermits
  <2> QED
    BY <1>6, <2>1, <2>2, PermitsFit
<1>9. PipeTypeOK'
  BY <1>0, <1>1, <1>3, <1>4, <1>6, <1>8 DEF PipeTypeOK
<1> QED
  BY <1>1, <1>5, <1>7, <1>9, SameSum

\* The steps of the generator and of the program.
LEMMA GeneratorInv ==
    ASSUME PipeInv, GetResult \/ Stop \/ Yield \/ Ask
    PROVE  PipeInv'
<1> USE DEF mapVars, bufferVars, sortVars
<1>0. /\ PipeTypeOK /\ FuncHasElement /\ AllPermits <= Size /\ Size \in Nat
      /\ permits \in Nat /\ Cardinality(Awaited) \in Nat
      /\ resultQueue \in Seq(Elements) /\ Len(resultQueue) \in Nat
      /\ Nothing \notin Elements
  BY PipelineAssumption, AwaitedFinite, LenProperties DEF PipeInv, PipeTypeOK
<1>1. UNCHANGED <<sortVars, mapVars, dropped, failures>>
  BY DEF GetResult, Stop, Yield, Ask
<1>2. Awaited' = Awaited /\ FuncHasElement'
  BY <1>0, <1>1 DEF Awaited, FuncHasElement
<1>3. consumer # "ended" \/ consumer' = consumer
  BY DEF Stop, GetResult, Yield, Ask
<1>4. /\ AllPermits' = AllPermits /\ (consumer' = "ended" <=> consumer = "ended")
      /\ permits' \in Nat /\ resultQueue' \in Seq(Elements)
      /\ got' \in Elements \cup {Nothing} /\ out' \subseteq Elements
      /\ consumer' \in {"wait", "yielded", "ended", "left"} /\ stopped' \in BOOLEAN
  <2>1. CASE GetResult
    <3>1. /\ got = Nothing /\ got' = Head(resultQueue) /\ Head(resultQueue) \in Elements
          /\ resultQueue' \in Seq(Elements) /\ Len(resultQueue') = Len(resultQueue) - 1
          /\ UNCHANGED <<permits, consumer, out, stopped>>
      BY <1>0, <2>1, HeadTailProperties DEF GetResult
    <3>2. got' # Nothing
      BY <1>0, <3>1
    <3> QED
      BY <1>0, <1>2, <3>1, <3>2 DEF AllPermits, PipeTypeOK
  <2>2. CASE Stop
    BY <1>0, <1>2, <2>2 DEF Stop, AllPermits, PipeTypeOK
  <2>3. CASE Yield
    <3>1. /\ got \in Elements /\ got' = Nothing /\ consumer = "wait"
          /\ consumer' \in {"left", "yielded"} /\ out' = out \cup {got}
          /\ UNCHANGED <<permits, resultQueue, stopped>>
      BY <1>0, <2>3 DEF Yield, PipeTypeOK
    <3>2. got # Nothing
      BY <1>0, <3>1
    <3> QED
      BY <1>0, <1>2, <3>1, <3>2 DEF AllPermits, PipeTypeOK
  <2>4. CASE Ask
    BY <1>0, <1>2, <2>4 DEF Ask, AllPermits, PipeTypeOK
  <2> QED
    BY <2>1, <2>2, <2>3, <2>4
<1>5. permits' \in 0..Size
  <2>1. CASE Ask
    <3>1. permits' + Cardinality(Awaited) + Len(resultQueue) + (IF got = Nothing THEN 0 ELSE 1)
            + (IF consumer' \in {"yielded", "left"} THEN 1 ELSE 0) <= Size
      BY <1>0, <1>2, <1>4, <2>1 DEF Ask, AllPermits
    <3>2. consumer' = "wait" /\ consumer = "yielded" /\ permits' = permits + 1
      BY <2>1 DEF Ask
    <3>3. PICK g \in {0, 1} : g = IF got = Nothing THEN 0 ELSE 1
      OBVIOUS
    <3> QED
      BY <1>0, <1>4, <3>1, <3>2, <3>3
  <2>2. CASE GetResult \/ Stop \/ Yield
    BY <1>0, <2>2 DEF GetResult, Stop, Yield, PipeTypeOK
  <2> QED
    BY <2>1, <2>2
<1>6. PipeTypeOK'
  BY <1>0, <1>1, <1>4, <1>5 DEF PipeTypeOK
<1> QED
  BY <1>2, <1>4, <1>6, SameSum

\* The generator ends: a result that was taken off the queue is dropped.
LEMMA EndInv ==
    ASSUME PipeInv, End
    PROVE  PipeInv'
<1> USE DEF mapVars, bufferVars, sortVars
<1>1. /\ UNCHANGED <<sortVars, mapVars, permits, resultQueue, stopped, out, failures>>
      /\ consumer = "wait" /\ consumer' = "ended" /\ got' = Nothing
      /\ dropped' = dropped \cup ({got} \ {Nothing})
  BY DEF End
<1>2. Awaited' = Awaited /\ FuncHasElement'
  BY <1>1 DEF Awaited, PipeInv, FuncHasElement
<1>3. PipeTypeOK'
  BY <1>1 DEF PipeInv, PipeTypeOK
<1>4. AllPermits' <= Size
  <2>1. /\ permits \in Nat /\ Cardinality(Awaited) \in Nat /\ Len(resultQueue) \in Nat
        /\ Size \in Nat
    BY PipelineAssumption, AwaitedFinite, LenProperties DEF PipeInv, PipeTypeOK
  <2>2. permits + Cardinality(Awaited) + Len(resultQueue) + (IF got = Nothing THEN 0 ELSE 1) <= Size
    BY <1>1, <2>1 DEF PipeInv, AllPermits
  <2>3. permits + Cardinality(Awaited) + Len(resultQueue) <= Size
    BY <2>1, <2>2
  <2> QED
    BY <1>1, <1>2, <2>1, <2>3 DEF AllPermits
<1> QED
  BY <1>1, <1>2, <1>3, <1>4 DEF PipeInv

LEMMA PipeInitInv == ASSUME PipeInit PROVE PipeInv
<1>1. Awaited = {} /\ FuncHasElement
  BY DEF PipeInit, Awaited, FuncHasElement
<1>2. PipeTypeOK
  <2>1. Tasks \in 0..Tasks /\ Size \in 0..Size /\ 0 \in 0..Failures
    BY PipelineAssumption
  <2>2. awaitable \in [Awaitables -> {"free", "lock", "next", "func"}]
        /\ value \in [Awaitables -> Elements \cup {Nothing}]
        /\ resultQueue \in Seq(Elements)
    BY EmptySeq DEF PipeInit
  <2> QED
    BY <2>1, <2>2 DEF PipeInit, PipeTypeOK
<1>3. AllPermits = Size
  BY <1>1, FS_EmptySet, PipelineAssumption DEF PipeInit, AllPermits
<1> QED
  BY <1>1, <1>2, <1>3, PipelineAssumption DEF PipeInv

\* At no time are more elements on their way through the Buffer than its size,
\* and no failure of the mapped function costs a permit, for every size, any
\* elements and scores and any number of failures.
THEOREM PermitsKept == PipeSpec => []PermitsAccounted
<1>1. PipeInit => PipeInv
  BY PipeInitInv
<1>2. PipeInv /\ [PipeNext]_pipeVars => PipeInv'
  <2> SUFFICES ASSUME PipeInv, [PipeNext]_pipeVars PROVE PipeInv'
    OBVIOUS
  <2>1. CASE UNCHANGED pipeVars
    <3>1. Awaited' = Awaited
      BY <2>1 DEF pipeVars, Awaited
    <3> QED
      BY <2>1, <3>1 DEF pipeVars, PipeInv, PipeTypeOK, FuncHasElement, AllPermits
  <2> QED
    BY <2>1, SortInv, AwaitableInv, GeneratorInv, EndInv DEF PipeNext
<1>3. PipeInv => PermitsAccounted
  BY DEF PipeInv, AllPermits, Awaited, PermitsAccounted
<1> QED
  BY <1>1, <1>2, <1>3, PTL DEF PipeSpec

=============================================================================
