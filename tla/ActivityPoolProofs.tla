------------------------- MODULE ActivityPoolProofs -------------------------
(***************************************************************************)
(* Proofs about ActivityPool for every set of activities and users and     *)
(* every target, and about TaskApi, the example that gives tasks to        *)
(* providers, for all tasks, workers, machines and results, and about      *)
(* DemandBuilding for all payloads and offers.  The three share no state.  *)
(*                                                                         *)
(* ActivityPool has three layers: Core, the tasks of the loop and the      *)
(* accounts of the size; Places, that an activity is in one place only;    *)
(* Clean, what is left when the loop ends.  TaskApi has one, TaskInv, and  *)
(* DemandBuilding one, BuildInv; what trees mean is about no state at all. *)
(***************************************************************************)
EXTENDS
    ActivityPool, TaskApi, DemandBuilding,
    SequenceTheorems, FunctionTheorems, FiniteSetTheorems, TLAPS

\* Which tasks exist while the loop is where.
Tasks ==
    /\ loop = "off" => size = 0
    /\ loop \in {"off", "sleep"} => preparing = 0 /\ Starting = {}
    /\ loop \in {"off", "sleep", "prepare", "leaving"} =>
            releasing = 0 /\ \A a \in Activities : stops[a] = 0
    /\ releasing <= size
    /\ \A u \in Working : holds[u] \in Activities

Core == TypeOK /\ Tasks /\ SizeAccounts /\ NeverOverfull

\* Without a terminate(), an activity is in the pool once, or held by one
\* user, or neither; what is not ready yet is in no place, what is being
\* stopped or destroyed neither.
Alone ==
    /\ \A i, j \in 1..Len(pool) : pool[i] = pool[j] => i = j
    /\ \A i \in 1..Len(pool), u \in Working : pool[i] # holds[u]
    /\ \A u, v \in Working : holds[u] = holds[v] => u = v

Unready ==
    \A a \in Activities : act[a] \in {"new", "starting"} =>
        ~Pooled(a) /\ ~Held(a) /\ stops[a] = 0

Unused ==
    \A a \in Activities : (stops[a] > 0 \/ act[a] = "destroyed") =>
        ~Pooled(a) /\ ~Held(a)

Places == extra = 0 => Alone /\ Unready /\ Unused

\* What is left to do when nothing failed, and where ready activities are.
Quiet ==
    ~fault =>
        /\ loop # "raised"
        /\ loop \in {"leaving", "release", "ended"} => preparing = 0 /\ Starting = {}
        /\ loop = "release" => releasing = size
        /\ loop = "ended" => size = 0 /\ \A a \in Activities : stops[a] = 0

Found ==
    lost = 0 => \A a \in Activities :
        act[a] = "ready" => Pooled(a) \/ Held(a) \/ stops[a] > 0

-----------------------------------------------------------------------------
(* The queue and the sets that are counted. *)

\* Starting and Working are finite and their sizes are numbers.
LEMMA FiniteSets ==
    ASSUME PoolAssumption
    PROVE  /\ IsFiniteSet(Starting) /\ Cardinality(Starting) \in Nat
           /\ IsFiniteSet(Working) /\ Cardinality(Working) \in Nat
<1>1. Starting \in SUBSET Activities /\ Working \in SUBSET Users
  BY DEF Starting, Working
<1>2. IsFiniteSet(Starting) /\ IsFiniteSet(Working)
  BY <1>1, FS_Subset DEF PoolAssumption
<1> QED BY <1>2, FS_CardinalityType

\* An activity that begins or ends its start is one more or one less.
LEMMA StartingChanges ==
    ASSUME PoolAssumption, NEW a \in Activities, NEW s,
           act \in [Activities -> ActivityStates],
           act' = [act EXCEPT ![a] = s]
    PROVE  /\ s = "starting" /\ act[a] # "starting" =>
                Cardinality(Starting') = Cardinality(Starting) + 1
           /\ s # "starting" /\ act[a] = "starting" =>
                /\ Cardinality(Starting') = Cardinality(Starting) - 1
                /\ Cardinality(Starting) > 0
<1>1. ASSUME s = "starting", act[a] # "starting"
      PROVE  Cardinality(Starting') = Cardinality(Starting) + 1
  <2>1. Starting' = Starting \cup {a} /\ a \notin Starting
    BY <1>1 DEF Starting
  <2> QED BY <2>1, FiniteSets, FS_AddElement
<1>2. ASSUME s # "starting", act[a] = "starting"
      PROVE  /\ Cardinality(Starting') = Cardinality(Starting) - 1
             /\ Cardinality(Starting) > 0
  <2>1. Starting' = Starting \ {a} /\ a \in Starting
    BY <1>2 DEF Starting
  <2>2. Cardinality(Starting') = Cardinality(Starting) - 1
    BY <2>1, FiniteSets, FS_RemoveElement
  <2>3. Cardinality(Starting) # 0
    BY <2>1, FiniteSets, FS_EmptySet
  <2> QED BY <2>2, <2>3, FiniteSets
<1> QED BY <1>1, <1>2

\* A user that begins or ends its work is one more or one less.
LEMMA WorkingChanges ==
    ASSUME PoolAssumption, NEW u \in Users, NEW s,
           user \in [Users -> UserStates],
           user' = [user EXCEPT ![u] = s]
    PROVE  /\ s \in {"work", "over"} /\ u \notin Working =>
                /\ Cardinality(Working') = Cardinality(Working) + 1
                /\ Working' = Working \cup {u}
           /\ s \notin {"work", "over"} /\ u \in Working =>
                /\ Cardinality(Working') = Cardinality(Working) - 1
                /\ Working' = Working \ {u}
           /\ (s \in {"work", "over"}) = (u \in Working) => Working' = Working
<1>1. s \in {"work", "over"} => Working' = Working \cup {u}
  BY DEF Working
<1>2. s \notin {"work", "over"} => Working' = Working \ {u}
  BY DEF Working
<1>3. (s \in {"work", "over"}) = (u \in Working) => Working' = Working
  BY DEF Working
<1> QED BY <1>1, <1>2, <1>3, FiniteSets, FS_AddElement, FS_RemoveElement

-----------------------------------------------------------------------------
(* Core. *)

\* The initial state: nothing was made yet.
LEMMA InitCore == PoolAssumption /\ Init => Core
<1> SUFFICES ASSUME PoolAssumption, Init PROVE Core
  OBVIOUS
<1>1. Starting = {} /\ Working = {}
  BY DEF Init, Starting, Working
<1>2. Cardinality(Starting) = 0 /\ Cardinality(Working) = 0
  BY <1>1, FS_EmptySet
<1>3. TypeOK
  <2>1. pool \in Seq(Activities)
    BY DEF Init
  <2>2. holds \in [Users -> Activities \cup {NoActivity}]
    BY DEF Init
  <2>3. user \in [Users -> UserStates] /\ act \in [Activities -> ActivityStates]
    BY DEF Init, UserStates, ActivityStates
  <2>4. stops \in [Activities -> Nat]
    BY DEF Init
  <2> QED BY <2>1, <2>2, <2>3, <2>4 DEF Init, TypeOK, LoopStates
<1>4. Tasks
  BY <1>1 DEF Init, Tasks
<1>5. SizeAccounts
  BY <1>2 DEF Init, SizeAccounts
<1>6. NeverOverfull
  BY DEF Init, NeverOverfull
<1> QED BY <1>3, <1>4, <1>5, <1>6 DEF Core

\* Every step keeps the types.
LEMMA TypeStep ==
    ASSUME PoolAssumption, Core, Next
    PROVE  TypeOK'
<1> USE DEF poolVars, releaseVars, userVars
<1>0. TypeOK /\ Tasks
  BY DEF Core
<1>1. CASE Start
  BY <1>0, <1>1 DEF Start, TypeOK, LoopStates
<1>2. CASE Fill
  <2>1. Missing \in Nat
    BY <1>0, <1>2 DEF Fill, Missing, PoolAssumption, TypeOK
  <2> QED BY <1>0, <1>2, <2>1 DEF Fill, TypeOK, LoopStates
<1>3. CASE PrepareRaises
  BY <1>0, <1>3 DEF PrepareRaises, TypeOK, LoopStates, Raise
<1>4. CASE FillDone
  BY <1>0, <1>4 DEF FillDone, TypeOK, LoopStates
<1>5. CASE Leave
  BY <1>0, <1>5 DEF Leave, TypeOK, LoopStates, ToRelease
<1>6. CASE ReleaseGet
  <2>1. size >= 1
    BY <1>0, <1>6 DEF ReleaseGet, TypeOK, Tasks
  <2>2. Tail(pool) \in Seq(Activities) /\ Head(pool) \in Activities
    BY <1>0, <1>6, HeadTailProperties DEF ReleaseGet, TypeOK
  <2> QED BY <1>0, <1>6, <2>1, <2>2 DEF ReleaseGet, TypeOK, LoopStates, Taken
<1>7. CASE Released
  BY <1>0, <1>7 DEF Released, TypeOK, LoopStates
<1>8. CASE StopCall
  BY <1>0, <1>8 DEF StopCall, TypeOK, LoopStates
<1>9. CASE StopFilling
  <2>1. act' \in [Activities -> ActivityStates]
    BY <1>0, <1>9 DEF StopFilling, TypeOK, ActivityStates
  <2> QED BY <1>0, <1>9, <2>1 DEF StopFilling, TypeOK, LoopStates
<1>10. CASE StopReleasing
  <2>1. act' \in [Activities -> ActivityStates]
    BY <1>0, <1>10 DEF StopReleasing, TypeOK, ActivityStates
  <2>2. stops' \in [Activities -> Nat]
    BY <1>0, <1>10 DEF StopReleasing, TypeOK
  <2> QED BY <1>0, <1>10, <2>1, <2>2 DEF StopReleasing, TypeOK, LoopStates
<1>11. CASE StopLate
  BY <1>0, <1>11 DEF StopLate, TypeOK, LoopStates
<1>12. CASE StopReturn
  BY <1>0, <1>12 DEF StopReturn, TypeOK, LoopStates
<1>13. ASSUME NEW a \in Activities, Created(a)
      PROVE  TypeOK'
  <2>1. act' \in [Activities -> ActivityStates]
    BY <1>0, <1>13 DEF Created, TypeOK, ActivityStates
  <2> QED BY <1>0, <1>13, <2>1 DEF Created, TypeOK, LoopStates
<1>14. ASSUME NEW a \in Activities, StartRaises(a)
      PROVE  TypeOK'
  <2>1. act' \in [Activities -> ActivityStates]
    BY <1>0, <1>14 DEF StartRaises, TypeOK, ActivityStates
  <2> QED BY <1>0, <1>14, <2>1 DEF StartRaises, TypeOK, LoopStates, Raise
<1>15. ASSUME NEW a \in Activities, Started(a)
      PROVE  TypeOK'
  <2>1. act' \in [Activities -> ActivityStates]
    BY <1>0, <1>15 DEF Started, TypeOK, ActivityStates
  <2>2. pool' \in Seq(Activities)
    BY <1>0, <1>15, AppendProperties DEF Started, TypeOK
  <2> QED BY <1>0, <1>15, <2>1, <2>2 DEF Started, TypeOK, LoopStates
<1>16. ASSUME NEW a \in Activities, Stopped(a)
      PROVE  TypeOK'
  <2>1. act' \in [Activities -> ActivityStates]
    BY <1>0, <1>16 DEF Stopped, TypeOK, ActivityStates
  <2>2. stops' \in [Activities -> Nat]
    BY <1>0, <1>16 DEF Stopped, TypeOK
  <2> QED BY <1>0, <1>16, <2>1, <2>2 DEF Stopped, TypeOK, LoopStates
<1>17. ASSUME NEW a \in Activities, StopRaises(a)
      PROVE  TypeOK'
  <2>1. act' \in [Activities -> ActivityStates]
    BY <1>0, <1>17 DEF StopRaises, TypeOK, ActivityStates
  <2>2. stops' \in [Activities -> Nat]
    BY <1>0, <1>17 DEF StopRaises, TypeOK
  <2> QED BY <1>0, <1>17, <2>1, <2>2 DEF StopRaises, TypeOK, LoopStates
<1>18. ASSUME NEW u \in Users, Begin({u})
      PROVE  TypeOK'
  BY <1>0, <1>18 DEF Begin, TypeOK, LoopStates, UserStates
<1>19. ASSUME NEW u \in Users, Cancel({u})
      PROVE  TypeOK'
  <2>1. IsFiniteSet({u} \cap Working)
    BY FiniteSets, FS_Subset, {u} \cap Working \in SUBSET Working
  <2>2. Cardinality({u} \cap Working) \in Nat
    BY <2>1, FS_CardinalityType
  <2> QED BY <1>0, <1>19, <2>2 DEF Cancel, TypeOK, LoopStates, UserStates
<1>20. ASSUME NEW u \in Users, Take(u)
      PROVE  TypeOK'
  <2>1. Tail(pool) \in Seq(Activities) /\ Head(pool) \in Activities
    BY <1>0, <1>20, HeadTailProperties DEF Take, TypeOK
  <2> QED BY <1>0, <1>20, <2>1 DEF Take, TypeOK, LoopStates, Taken, UserStates
<1>21. ASSUME NEW u \in Users, Terminate(u)
      PROVE  TypeOK'
  <2>1. holds[u] \in Activities
    BY <1>0, <1>21 DEF Terminate, Working, Tasks
  <2>2. Append(pool, holds[u]) \in Seq(Activities)
    BY <1>0, <2>1, AppendProperties DEF TypeOK
  <2> QED BY <1>0, <1>21, <2>2 DEF Terminate, TypeOK, LoopStates, UserStates
<1>22. ASSUME NEW u \in Users, NEW result \in {"ok", "failed"}, Finish(u, result)
      PROVE  TypeOK'
  <2>1. holds[u] \in Activities
    BY <1>0, <1>22 DEF Finish, Working, Tasks
  <2>2. Append(pool, holds[u]) \in Seq(Activities)
    BY <1>0, <2>1, AppendProperties DEF TypeOK
  <2> QED BY <1>0, <1>22, <2>2 DEF Finish, TypeOK, LoopStates, PutBack, UserStates
<1> QED
  BY <1>1, <1>2, <1>3, <1>4, <1>5, <1>6, <1>7, <1>8, <1>9, <1>10, <1>11, <1>12, <1>13, <1>14, <1>15, <1>16, <1>17, <1>18, <1>19, <1>20, <1>21, <1>22
  DEF Next, Manager, User

\* Every step keeps Tasks.
LEMMA TasksStep ==
    ASSUME PoolAssumption, Core, Next
    PROVE  Tasks'
<1> USE DEF poolVars, releaseVars, userVars
<1>0. TypeOK /\ Tasks
  BY DEF Core
<1>1. CASE Start
  <2>1. Starting' = Starting /\ Working' = Working
    BY <1>0, <1>1 DEF Start, Starting, Working, TypeOK
  <2> QED BY <1>0, <1>1, <2>1 DEF Start, Tasks, TypeOK
<1>2. CASE Fill
  <2>1. Starting' = Starting /\ Working' = Working
    BY <1>0, <1>2 DEF Fill, Starting, Working, TypeOK
  <2> QED BY <1>0, <1>2, <2>1 DEF Fill, Tasks, TypeOK
<1>3. CASE PrepareRaises
  <2>1. Starting' = Starting /\ Working' = Working
    BY <1>0, <1>3 DEF PrepareRaises, Starting, Working, TypeOK
  <2> QED BY <1>0, <1>3, <2>1 DEF PrepareRaises, Raise, Tasks, TypeOK
<1>4. CASE FillDone
  <2>1. Starting' = Starting /\ Working' = Working
    BY <1>0, <1>4 DEF FillDone, Starting, Working, TypeOK
  <2> QED BY <1>0, <1>4, <2>1 DEF FillDone, Filled, Tasks, TypeOK
<1>5. CASE Leave
  <2>1. Starting' = Starting /\ Working' = Working
    BY <1>0, <1>5 DEF Leave, Starting, Working, TypeOK
  <2> QED BY <1>0, <1>5, <2>1 DEF Leave, ToRelease, Tasks, TypeOK
<1>6. CASE ReleaseGet
  <2>1. Starting' = Starting /\ Working' = Working
    BY <1>0, <1>6 DEF ReleaseGet, Starting, Working, TypeOK
  <2> QED BY <1>0, <1>6, <2>1 DEF ReleaseGet, Tasks, TypeOK
<1>7. CASE Released
  <2>1. Starting' = Starting /\ Working' = Working
    BY <1>0, <1>7 DEF Released, Starting, Working, TypeOK
  <2> QED BY <1>0, <1>7, <2>1 DEF Released, Tasks, TypeOK
<1>8. CASE StopCall
  <2>1. Starting' = Starting /\ Working' = Working
    BY <1>0, <1>8 DEF StopCall, Starting, Working, TypeOK
  <2> QED BY <1>0, <1>8, <2>1 DEF StopCall, Tasks, TypeOK
<1>9. CASE StopLate
  <2>1. Starting' = Starting /\ Working' = Working
    BY <1>0, <1>9 DEF StopLate, Starting, Working, TypeOK
  <2> QED BY <1>0, <1>9, <2>1 DEF StopLate, Tasks, TypeOK
<1>10. CASE StopReturn
  <2>1. Starting' = Starting /\ Working' = Working
    BY <1>0, <1>10 DEF StopReturn, Starting, Working, TypeOK
  <2> QED BY <1>0, <1>10, <2>1 DEF StopReturn, Tasks, TypeOK
<1>11. CASE StopFilling
  <2>1. Starting' = {} /\ Working' = Working
    BY <1>0, <1>11 DEF StopFilling, Starting, Working, TypeOK
  <2> QED BY <1>0, <1>11, <2>1 DEF StopFilling, Tasks, TypeOK
<1>12. CASE StopReleasing
  <2>1. Working' = Working
    BY <1>12 DEF StopReleasing, Working
  <2> QED BY <1>0, <1>12, <2>1 DEF StopReleasing, Tasks, TypeOK
<1>13. ASSUME NEW a \in Activities, Created(a)
      PROVE  Tasks'
  <2>1. loop \notin {"off", "sleep"} /\ Working' = Working
    BY <1>0, <1>13 DEF Created, Tasks, TypeOK, Starting, Working
  <2> QED BY <1>0, <1>13, <2>1 DEF Created, Tasks, TypeOK
<1>14. ASSUME NEW a \in Activities, StartRaises(a)
      PROVE  Tasks'
  <2>1. loop \notin {"off", "sleep"} /\ Working' = Working
    BY <1>0, <1>14 DEF StartRaises, Tasks, TypeOK, Starting, Working
  <2> QED BY <1>0, <1>14, <2>1 DEF StartRaises, Raise, Tasks, TypeOK
<1>15. ASSUME NEW a \in Activities, Started(a)
      PROVE  Tasks'
  <2>1. loop \notin {"off", "sleep"} /\ Working' = Working
    BY <1>0, <1>15 DEF Started, Tasks, TypeOK, Starting, Working
  <2> QED BY <1>0, <1>15, <2>1 DEF Started, Tasks, TypeOK
<1>16. ASSUME NEW a \in Activities, Stopped(a)
      PROVE  Tasks'
  <2>1. loop \notin {"off", "sleep", "prepare", "leaving"} /\ Working' = Working
    BY <1>0, <1>16 DEF Stopped, Tasks, TypeOK, Working
  <2> QED BY <1>0, <1>16, <2>1 DEF Stopped, Tasks, TypeOK
<1>17. ASSUME NEW a \in Activities, StopRaises(a)
      PROVE  Tasks'
  <2>1. loop \notin {"off", "sleep", "prepare", "leaving"} /\ Working' = Working
    BY <1>0, <1>17 DEF StopRaises, Tasks, TypeOK, Working
  <2> QED BY <1>0, <1>17, <2>1 DEF StopRaises, Tasks, TypeOK
<1>18. ASSUME NEW u \in Users, Begin({u})
      PROVE  Tasks'
  <2>1. Starting' = Starting /\ Working' \subseteq Working
    BY <1>0, <1>18 DEF Begin, Starting, Working, TypeOK
  <2> QED BY <1>0, <1>18, <2>1 DEF Begin, Tasks, TypeOK
<1>19. ASSUME NEW u \in Users, Cancel({u})
      PROVE  Tasks'
  <2>1. Starting' = Starting /\ Working' \subseteq Working
    BY <1>0, <1>19 DEF Cancel, Starting, Working, TypeOK
  <2> QED BY <1>0, <1>19, <2>1 DEF Cancel, Tasks, TypeOK
<1>20. ASSUME NEW u \in Users, Take(u)
      PROVE  Tasks'
  <2>1. Head(pool) \in Activities
    BY <1>0, <1>20, HeadTailProperties DEF Take, TypeOK
  <2>2. Starting' = Starting /\ Working' \subseteq Working \cup {u}
    BY <1>0, <1>20 DEF Take, Starting, Working, TypeOK
  <2>3. \A v \in Working' : holds'[v] \in Activities
    BY <1>0, <1>20, <2>1, <2>2 DEF Take, Tasks, TypeOK, Working
  <2> QED BY <1>0, <1>20, <2>2, <2>3 DEF Take, Tasks, TypeOK
<1>21. ASSUME NEW u \in Users, Terminate(u)
      PROVE  Tasks'
  <2>1. Starting' = Starting /\ Working' \subseteq Working
    BY <1>0, <1>21 DEF Terminate, Starting, Working, TypeOK
  <2> QED BY <1>0, <1>21, <2>1 DEF Terminate, Tasks, TypeOK
<1>22. ASSUME NEW u \in Users, NEW result \in {"ok", "failed"}, Finish(u, result)
      PROVE  Tasks'
  <2>1. Starting' = Starting /\ Working' \subseteq Working
    BY <1>0, <1>22 DEF Finish, Starting, Working, TypeOK
  <2> QED BY <1>0, <1>22, <2>1 DEF Finish, Tasks, TypeOK
<1> QED
  BY <1>1, <1>2, <1>3, <1>4, <1>5, <1>6, <1>7, <1>8, <1>9, <1>10, <1>11, <1>12, <1>13, <1>14, <1>15, <1>16, <1>17, <1>18, <1>19, <1>20, <1>21, <1>22
  DEF Next, Manager, User

\* Every step keeps the accounts.
LEMMA AccountsStep ==
    ASSUME PoolAssumption, Core, Next
    PROVE  SizeAccounts'
<1> USE DEF poolVars, releaseVars, userVars
<1>0. /\ TypeOK /\ Tasks /\ SizeAccounts
      /\ Len(pool) \in Nat
      /\ Cardinality(Working) \in Nat
      /\ size \in Nat /\ lost \in Nat /\ extra \in Nat
  BY FiniteSets DEF Core, TypeOK
<1>1. CASE UNCHANGED <<size, pool, user, lost, extra>>
  <2>1. Working' = Working
    BY <1>1 DEF Working
  <2> QED BY <1>0, <1>1, <2>1 DEF SizeAccounts
<1>2. ASSUME NEW a \in Activities, Started(a)
      PROVE  SizeAccounts'
  <2>1. Working' = Working
    BY <1>2 DEF Started, Working
  <2>2. Len(pool') = Len(pool) + 1
    BY <1>0, <1>2, AppendProperties DEF Started, TypeOK
  <2>3. size' = size + 1 /\ lost' = lost /\ extra' = extra
    BY <1>2 DEF Started
  <2> QED BY <1>0, <2>1, <2>2, <2>3 DEF SizeAccounts, TypeOK
<1>3. CASE ReleaseGet
  <2>1. Working' = Working
    BY <1>3 DEF ReleaseGet, Working
  <2>2. Len(pool') = Len(pool) - 1
    BY <1>0, <1>3, HeadTailProperties DEF ReleaseGet, Taken, TypeOK
  <2>3. size' = size - 1 /\ lost' = lost /\ extra' = extra
    BY <1>3 DEF ReleaseGet
  <2> QED BY <1>0, <2>1, <2>2, <2>3, SMTT(30) DEF SizeAccounts, TypeOK
<1>4. ASSUME NEW u \in Users, Begin({u})
      PROVE  SizeAccounts'
  <2>1. Working' = Working
    BY <1>0, <1>4 DEF Begin, Free, Working, TypeOK
  <2> QED BY <1>0, <1>4, <2>1 DEF Begin, Free, SizeAccounts
<1>5. ASSUME NEW u \in Users, Cancel({u})
      PROVE  SizeAccounts'
  <2>1. Len(pool') = Len(pool) /\ size' = size /\ extra' = extra
    BY <1>5 DEF Cancel
  <2>2. CASE u \in Working
    <3>1. Working' = Working \ {u} /\ {u} \cap Working = {u}
      BY <1>0, <1>5, <2>2 DEF Cancel, Working, TypeOK
    <3>2. Cardinality(Working') = Cardinality(Working) - 1
      BY <3>1, <2>2, FiniteSets, FS_RemoveElement
    <3>3. lost' = lost + 1
      BY <1>5, <3>1, FS_Singleton DEF Cancel
    <3> QED BY <1>0, <2>1, <3>2, <3>3 DEF SizeAccounts, TypeOK
  <2>3. CASE u \notin Working
    <3>1. Working' = Working /\ {u} \cap Working = {}
      BY <1>0, <1>5, <2>3 DEF Cancel, Working, TypeOK
    <3>2. lost' = lost + 0
      BY <1>5, <3>1, FS_EmptySet DEF Cancel
    <3> QED BY <1>0, <2>1, <3>1, <3>2 DEF SizeAccounts, TypeOK
  <2> QED BY <2>2, <2>3
<1>6. ASSUME NEW u \in Users, Take(u)
      PROVE  SizeAccounts'
  <2>1. Cardinality(Working') = Cardinality(Working) + 1
    BY <1>0, <1>6, WorkingChanges DEF Take, Working, TypeOK
  <2>2. Len(pool') = Len(pool) - 1
    BY <1>0, <1>6, HeadTailProperties DEF Take, Taken, TypeOK
  <2>3. size' = size /\ lost' = lost /\ extra' = extra
    BY <1>6 DEF Take
  <2> QED BY <1>0, <2>1, <2>2, <2>3 DEF SizeAccounts, TypeOK
<1>7. ASSUME NEW u \in Users, Terminate(u)
      PROVE  SizeAccounts'
  <2>1. u \in Working /\ holds[u] \in Activities
    BY <1>0, <1>7 DEF Terminate, Working, Tasks
  <2>2. Working' = Working
    BY <1>0, <1>7, <2>1, WorkingChanges DEF Terminate, TypeOK
  <2>3. Len(pool') = Len(pool) + 1
    BY <1>0, <1>7, <2>1, AppendProperties DEF Terminate, TypeOK
  <2>4. size' = size /\ lost' = lost /\ extra' = extra + 1
    BY <1>7 DEF Terminate
  <2> QED BY <1>0, <2>2, <2>3, <2>4 DEF SizeAccounts
<1>8. ASSUME NEW u \in Users, NEW result \in {"ok", "failed"}, Finish(u, result)
      PROVE  SizeAccounts'
  <2>1. u \in Working /\ holds[u] \in Activities
    BY <1>0, <1>8 DEF Finish, Tasks
  <2>2. Cardinality(Working') = Cardinality(Working) - 1
    BY <1>0, <1>8, <2>1, WorkingChanges DEF Finish, TypeOK
  <2>3. Len(pool') = Len(pool) + 1
    BY <1>0, <1>8, <2>1, AppendProperties DEF Finish, PutBack, TypeOK
  <2>4. size' = size /\ lost' = lost /\ extra' = extra
    BY <1>8 DEF Finish
  <2> QED BY <1>0, <2>2, <2>3, <2>4 DEF SizeAccounts
<1> QED
  BY <1>1, <1>2, <1>3, <1>4, <1>5, <1>6, <1>7, <1>8
  DEF Next, Manager, User, Start, Fill, PrepareRaises, FillDone, Leave, Released,
      StopCall, StopFilling, StopReleasing, StopLate, StopReturn, Created,
      StartRaises, Stopped, StopRaises

\* Every step keeps the pool within its target.
LEMMA OverfullStep ==
    ASSUME PoolAssumption, Core, Next
    PROVE  NeverOverfull'
<1> USE DEF poolVars, releaseVars, userVars
<1>0. /\ TypeOK /\ Tasks /\ NeverOverfull
      /\ Cardinality(Starting) \in Nat
      /\ Target \in Nat
  BY FiniteSets DEF Core, TypeOK, PoolAssumption
<1>1. CASE UNCHANGED <<size, preparing, act>> /\ (loop' # loop => loop' \notin {"sleep", "prepare"})
  <2>1. Starting' = Starting
    BY <1>1 DEF Starting
  <2> QED BY <1>0, <1>1, <2>1 DEF NeverOverfull
<1>2. CASE loop' \notin {"sleep", "prepare"}
  BY <1>2 DEF NeverOverfull
<1>3. CASE Start \/ Fill \/ FillDone
  <2>1. Starting = {} /\ Starting' = {}
    BY <1>0, <1>3 DEF Start, Fill, FillDone, Filled, Tasks, Starting
  <2>2. Cardinality(Starting) = 0 /\ Cardinality(Starting') = 0
    BY <2>1, FS_EmptySet
  <2>3. CASE Start
    BY <1>0, <2>2, <2>3 DEF Start, NeverOverfull, Tasks
  <2>4. CASE Fill
    BY <1>0, <2>2, <2>4 DEF Fill, NeverOverfull, TypeOK, Missing
  <2>5. CASE FillDone
    BY <1>0, <2>2, <2>5 DEF FillDone, Filled, NeverOverfull, TypeOK
  <2> QED BY <1>3, <2>3, <2>4, <2>5
<1>4. CASE PrepareRaises
  BY <1>0, <1>4 DEF PrepareRaises, Raise, NeverOverfull, Tasks, TypeOK
<1>5. ASSUME NEW a \in Activities, Created(a)
      PROVE  NeverOverfull'
  <2>1. Cardinality(Starting') = Cardinality(Starting) + 1
    BY <1>0, <1>5, StartingChanges DEF Created, TypeOK
  <2> QED BY <1>0, <1>5, <2>1 DEF Created, NeverOverfull, TypeOK
<1>6. ASSUME NEW a \in Activities, StartRaises(a)
      PROVE  NeverOverfull'
  <2>1. loop \notin {"off", "sleep"}
    BY <1>0, <1>6 DEF StartRaises, Tasks, Starting
  <2> QED BY <1>6, <2>1 DEF StartRaises, Raise, NeverOverfull
<1>7. ASSUME NEW a \in Activities, Started(a)
      PROVE  NeverOverfull'
  <2>0. /\ act[a] = "starting"
        /\ act' = [act EXCEPT ![a] = "ready"]
        /\ act \in [Activities -> ActivityStates]
    BY <1>0, <1>7 DEF Started, TypeOK
  <2>1. /\ Cardinality(Starting') = Cardinality(Starting) - 1
        /\ Cardinality(Starting) > 0
    BY <2>0, StartingChanges, "ready" # "starting", Zenon
  <2> QED BY <1>0, <1>7, <2>1 DEF Started, NeverOverfull, TypeOK
<1>8. CASE ReleaseGet
  BY <1>0, <1>8, <1>2 DEF ReleaseGet, Tasks
<1>9. ASSUME NEW a \in Activities, Stopped(a) \/ StopRaises(a)
      PROVE  NeverOverfull'
  <2>1. loop' \notin {"sleep", "prepare"}
    BY <1>0, <1>9 DEF Stopped, StopRaises, Tasks
  <2> QED BY <1>2, <2>1
<1> QED
  BY <1>1, <1>2, <1>3, <1>4, <1>5, <1>6, <1>7, <1>8, <1>9
  DEF Next, Manager, User, Leave, Released, StopCall, StopFilling, StopReleasing,
      StopLate, StopReturn, Begin, Take, Terminate, Finish, Cancel

\* Core is inductive.
LEMMA CoreStep == PoolAssumption /\ Core /\ [Next]_vars => Core'
<1> SUFFICES ASSUME PoolAssumption, Core, [Next]_vars PROVE Core'
  OBVIOUS
<1>1. CASE Next
  BY <1>1, TypeStep, TasksStep, AccountsStep, OverfullStep DEF Core
<1>2. CASE UNCHANGED vars
  <2>1. Starting' = Starting /\ Working' = Working
    BY <1>2 DEF vars, poolVars, userVars, Starting, Working
  <2> USE DEF vars, poolVars, releaseVars, userVars
  <2>2. TypeOK'
    BY <1>2 DEF Core, TypeOK
  <2>3. Tasks'
    BY <1>2, <2>1 DEF Core, Tasks
  <2>4. SizeAccounts' /\ NeverOverfull'
    BY <1>2, <2>1 DEF Core, SizeAccounts, NeverOverfull
  <2> QED BY <2>2, <2>3, <2>4 DEF Core
<1> QED BY <1>1, <1>2

-----------------------------------------------------------------------------
(* Places. *)

\* The activities in the pool, when one is taken or put.
LEMMA PooledChanges ==
    ASSUME pool \in Seq(Activities)
    PROVE  /\ pool # <<>> /\ pool' = Tail(pool) =>
                /\ Pooled(Head(pool))
                /\ \A a : Pooled(a)' => Pooled(a)
                /\ \A a : Pooled(a) => Pooled(a)' \/ a = Head(pool)
           /\ \A b \in Activities : pool' = Append(pool, b) =>
                \A a : Pooled(a)' <=> Pooled(a) \/ a = b
<1>1. ASSUME pool # <<>>, pool' = Tail(pool)
      PROVE  /\ Pooled(Head(pool))
             /\ \A a : Pooled(a)' => Pooled(a)
             /\ \A a : Pooled(a) => Pooled(a)' \/ a = Head(pool)
  <2>1. /\ Len(pool) \in Nat /\ Len(pool) >= 1 /\ Len(pool') = Len(pool) - 1
        /\ \A j \in 1..Len(pool') : pool'[j] = pool[j + 1]
        /\ Head(pool) = pool[1]
    BY <1>1, HeadTailProperties
  <2>2. \A i \in 1..Len(pool) : i = 1 \/ i - 1 \in 1..Len(pool')
    BY <2>1
  <2>3. \A j \in 1..Len(pool') : j + 1 \in 1..Len(pool)
    BY <2>1
  <2>4. Pooled(Head(pool))
    BY <2>1 DEF Pooled
  <2>5. \A a : Pooled(a)' => Pooled(a)
    BY <2>1, <2>3 DEF Pooled
  <2>6. ASSUME NEW a, Pooled(a)
        PROVE  Pooled(a)' \/ a = Head(pool)
    <3>1. PICK i \in 1..Len(pool) : pool[i] = a
      BY <2>6 DEF Pooled
    <3>2. CASE i = 1
      BY <2>1, <3>1, <3>2
    <3>3. CASE i - 1 \in 1..Len(pool')
      <4>1. pool'[i - 1] = a
        BY <2>1, <3>1, <3>3
      <4> QED BY <3>3, <4>1 DEF Pooled
    <3> QED BY <2>2, <3>2, <3>3
  <2> QED BY <2>4, <2>5, <2>6
<1>2. ASSUME NEW b \in Activities, pool' = Append(pool, b)
      PROVE  \A a : Pooled(a)' <=> Pooled(a) \/ a = b
  <2>1. /\ Len(pool) \in Nat /\ Len(pool') = Len(pool) + 1
        /\ \A j \in 1..Len(pool') : pool'[j] = IF j <= Len(pool) THEN pool[j] ELSE b
    BY <1>2, AppendProperties
  <2>2. 1..Len(pool') = 1..Len(pool) \cup {Len(pool) + 1}
    BY <2>1
  <2>3. pool'[Len(pool) + 1] = b
    BY <2>1, <2>2
  <2>4. \A j \in 1..Len(pool) : pool'[j] = pool[j]
    BY <2>1, <2>2
  <2> QED BY <2>2, <2>3, <2>4 DEF Pooled
<1> QED BY <1>1, <1>2

\* Every step keeps Places, when no activity was put back by terminate().
LEMMA PlacesStep ==
    ASSUME PoolAssumption, Core, Places, Next
    PROVE  Places'
<1> USE DEF poolVars, releaseVars, userVars
<1> SUFFICES ASSUME extra' = 0
             PROVE  Alone' /\ Unready' /\ Unused'
  BY DEF Places
<1>0. /\ TypeOK /\ Tasks
      /\ pool \in Seq(Activities) /\ Len(pool) \in Nat
  BY DEF Core, TypeOK
<1>p. Alone /\ Unready /\ Unused
  <2>1. extra' = extra \/ extra' = extra + 1
    BY DEF Next, Manager, User, Start, Fill, PrepareRaises, FillDone,
           Leave, ReleaseGet, Released, StopCall, StopFilling, StopReleasing,
           StopLate, StopReturn, Created, StartRaises, Started, Stopped,
           StopRaises, Begin, Take, Terminate, Finish, Cancel
  <2>2. extra = 0
    BY <1>0, <2>1 DEF TypeOK
  <2> QED BY <2>2 DEF Places
<1>1. CASE UNCHANGED <<pool, user, holds, act, stops>>
  <2>1. /\ Working' = Working
        /\ \A a : (Held(a)' <=> Held(a)) /\ (Pooled(a)' <=> Pooled(a))
    BY <1>1 DEF Working, Held, Pooled
  <2> QED BY <1>1, <1>p, <2>1 DEF Alone, Unready, Unused
<1>2. ASSUME UNCHANGED <<pool, user, holds>>,
             \A a \in Activities :
                /\ act'[a] \in {"new", "starting"} =>
                        act[a] \in {"new", "starting"} /\ stops'[a] = stops[a]
                /\ stops'[a] > 0 \/ act'[a] = "destroyed" =>
                        stops[a] > 0 \/ act[a] = "destroyed"
      PROVE  Alone' /\ Unready' /\ Unused'
  <2>1. /\ Working' = Working
        /\ \A a : (Held(a)' <=> Held(a)) /\ (Pooled(a)' <=> Pooled(a))
    BY <1>2 DEF Working, Held, Pooled
  <2>2. Alone'
    BY <1>2, <1>p, <2>1 DEF Alone
  <2>3. Unready'
    BY <1>2, <1>p, <2>1 DEF Unready
  <2>4. Unused'
    BY <1>2, <1>p, <2>1 DEF Unused
  <2> QED BY <2>2, <2>3, <2>4
<1>3. ASSUME NEW a \in Activities,
             Created(a) \/ StartRaises(a) \/ Stopped(a) \/ StopRaises(a)
      PROVE  Alone' /\ Unready' /\ Unused'
  <2>1. CASE Created(a)
    BY <1>0, <1>2, <2>1 DEF Created, TypeOK
  <2>2. CASE StartRaises(a)
    BY <1>0, <1>2, <2>2 DEF StartRaises, TypeOK
  <2>3. CASE Stopped(a)
    BY <1>0, <1>2, <2>3 DEF Stopped, TypeOK
  <2>4. CASE StopRaises(a)
    <3>1. act[a] \notin {"new", "starting"}
      BY <1>0, <1>p, <2>4 DEF StopRaises, Unready, TypeOK
    <3> QED BY <1>0, <1>2, <2>4, <3>1 DEF StopRaises, TypeOK
  <2> QED BY <1>3, <2>1, <2>2, <2>3, <2>4
<1>4. CASE StopFilling
  BY <1>0, <1>2, <1>4 DEF StopFilling, TypeOK
<1>5. CASE StopReleasing
  <2>1. \A a \in Activities : act[a] \in {"new", "starting"} => stops[a] = 0
    BY <1>p DEF Unready
  <2> QED BY <1>0, <1>2, <1>5, <2>1 DEF StopReleasing, TypeOK
<1>6. ASSUME NEW a \in Activities, Started(a)
      PROVE  Alone' /\ Unready' /\ Unused'
  <2>1. ~Pooled(a) /\ ~Held(a) /\ stops[a] = 0
    BY <1>6, <1>p DEF Started, Unready
  <2>2. /\ Working' = Working /\ holds' = holds
        /\ \A b : Held(b)' <=> Held(b)
    BY <1>6 DEF Started, Working, Held
  <2>3. \A b : Pooled(b)' <=> Pooled(b) \/ b = a
    BY <1>0, <1>6, PooledChanges DEF Started
  <2>4. /\ Len(pool') = Len(pool) + 1
        /\ \A j \in 1..Len(pool') : pool'[j] = IF j <= Len(pool) THEN pool[j] ELSE a
    BY <1>0, <1>6, AppendProperties DEF Started
  <2>5. Alone'
    BY <1>0, <1>p, <2>1, <2>2, <2>4 DEF Alone, Pooled, Held
  <2>6. Unready'
    BY <1>0, <1>p, <1>6, <2>2, <2>3 DEF Unready, Started, TypeOK
  <2>7. Unused'
    BY <1>0, <1>p, <1>6, <2>1, <2>2, <2>3 DEF Unused, Started, TypeOK
  <2> QED BY <2>5, <2>6, <2>7
<1>7. CASE ReleaseGet
  <2>0. Head(pool) \in Activities
    BY <1>0, <1>7, HeadTailProperties DEF ReleaseGet
  <2>h. PICK h \in Activities : h = Head(pool)
    BY <2>0
  <2>1. /\ Len(pool) >= 1 /\ Len(pool') = Len(pool) - 1
        /\ \A j \in 1..Len(pool') : pool'[j] = pool[j + 1]
        /\ h = pool[1]
    BY <1>0, <1>7, <2>h, HeadTailProperties DEF ReleaseGet, Taken
  <2>2. /\ Working' = Working /\ holds' = holds
        /\ \A b : Held(b)' <=> Held(b)
    BY <1>7 DEF ReleaseGet, Working, Held
  <2>3. Pooled(h) /\ \A b : Pooled(b)' => Pooled(b)
    BY <1>0, <1>7, <2>h, PooledChanges DEF ReleaseGet, Taken
  <2>4. ~Pooled(h)'
    BY <1>0, <1>p, <2>1 DEF Alone, Pooled
  <2>5. ~Held(h)
    BY <1>p, <2>1, 1 \in 1..Len(pool) DEF Alone, Held
  <2>6. Alone'
    <3>1. \A i, j \in 1..Len(pool') : pool'[i] = pool'[j] => i = j
      BY <1>0, <1>p, <2>1 DEF Alone
    <3>2. \A i \in 1..Len(pool'), v \in Working : pool'[i] # holds[v]
      BY <1>0, <1>p, <2>1 DEF Alone
    <3> QED BY <1>p, <2>2, <3>1, <3>2 DEF Alone
  <2>7. /\ \A b \in Activities : b # h => stops'[b] = stops[b]
        /\ act' = act
    BY <1>0, <1>7, <2>h DEF ReleaseGet, TypeOK
  <2>8. Unready'
    BY <1>p, <2>2, <2>3, <2>7 DEF Unready
  <2>9. Unused'
    BY <1>p, <2>2, <2>3, <2>4, <2>5, <2>7 DEF Unused
  <2> QED BY <2>6, <2>8, <2>9
<1>8. ASSUME NEW u \in Users, Begin({u}) \/ Cancel({u})
      PROVE  Alone' /\ Unready' /\ Unused'
  <2>1. /\ UNCHANGED <<pool, holds, act, stops>>
        /\ Working' \subseteq Working
        /\ \A a : (Held(a)' => Held(a)) /\ (Pooled(a)' <=> Pooled(a))
    BY <1>0, <1>8 DEF Begin, Cancel, Free, Working, Held, Pooled, TypeOK
  <2> QED BY <1>p, <2>1 DEF Alone, Unready, Unused
<1>9. ASSUME NEW u \in Users, Take(u)
      PROVE  Alone' /\ Unready' /\ Unused'
  <2>0. Head(pool) \in Activities
    BY <1>0, <1>9, HeadTailProperties DEF Take
  <2>h. PICK h \in Activities : h = Head(pool)
    BY <2>0
  <2>1. /\ Len(pool) >= 1 /\ Len(pool') = Len(pool) - 1
        /\ \A j \in 1..Len(pool') : pool'[j] = pool[j + 1]
        /\ h = pool[1]
    BY <1>0, <1>9, <2>h, HeadTailProperties DEF Take, Taken
  <2>2. /\ Working' = Working \cup {u} /\ u \notin Working
        /\ holds'[u] = h
        /\ \A v \in Working : holds'[v] = holds[v]
        /\ UNCHANGED <<act, stops>>
    BY <1>0, <1>9, <2>h DEF Take, Working, TypeOK, UserStates
  <2>3. Pooled(h) /\ \A b : Pooled(b)' => Pooled(b)
    BY <1>0, <1>9, <2>h, PooledChanges DEF Take, Taken
  <2>4. ~Pooled(h)' /\ ~Held(h)
    BY <1>0, <1>p, <2>1, 1 \in 1..Len(pool) DEF Alone, Pooled, Held
  <2>5. \A b : Held(b)' => Held(b) \/ b = h
    BY <2>2 DEF Held
  <2>6. Alone'
    <3>1. \A i, j \in 1..Len(pool') : pool'[i] = pool'[j] => i = j
      BY <1>0, <1>p, <2>1 DEF Alone
    <3>2. \A i \in 1..Len(pool'), v \in Working' : pool'[i] # holds'[v]
      <4>1. \A i \in 1..Len(pool') : pool'[i] # h
        BY <2>4 DEF Pooled
      <4>2. \A i \in 1..Len(pool'), v \in Working : pool'[i] # holds[v]
        BY <1>0, <1>p, <2>1 DEF Alone
      <4> QED BY <2>2, <4>1, <4>2
    <3>3. \A v, w \in Working' : holds'[v] = holds'[w] => v = w
      BY <1>p, <2>2, <2>4 DEF Alone, Held
    <3> QED BY <3>1, <3>2, <3>3 DEF Alone
  <2>7. Unready'
    BY <1>p, <2>2, <2>3, <2>5 DEF Unready
  <2>8. Unused'
    BY <1>p, <2>2, <2>3, <2>5 DEF Unused
  <2> QED BY <2>6, <2>7, <2>8
<1>10. ASSUME NEW u \in Users, Terminate(u)
       PROVE  FALSE
  BY <1>0, <1>10 DEF Terminate, TypeOK
<1>11. ASSUME NEW u \in Users, NEW result \in {"ok", "failed"}, Finish(u, result)
       PROVE  Alone' /\ Unready' /\ Unused'
  <2> DEFINE h == holds[u]
  <2>1. u \in Working /\ h \in Activities
    BY <1>0, <1>11 DEF Finish, Tasks
  <2>2. /\ Working' = Working \ {u}
        /\ UNCHANGED <<holds, act, stops>>
    BY <1>0, <1>11, <2>1, WorkingChanges DEF Finish, TypeOK
  <2>3. \A b : Pooled(b)' <=> Pooled(b) \/ b = h
    BY <1>0, <1>11, <2>1, PooledChanges DEF Finish, PutBack
  <2>4. /\ Len(pool') = Len(pool) + 1
        /\ \A j \in 1..Len(pool') : pool'[j] = IF j <= Len(pool) THEN pool[j] ELSE h
    BY <1>0, <1>11, <2>1, AppendProperties DEF Finish, PutBack
  <2>5. \A v \in Working' : v \in Working /\ holds[v] # h
    BY <1>p, <2>1, <2>2 DEF Alone
  <2>6. \A b : Held(b)' => Held(b) /\ b # h
    BY <2>2, <2>5 DEF Held
  <2>7. Held(h) /\ ~Pooled(h)
    BY <1>p, <2>1 DEF Alone, Held, Pooled
  <2>8. Alone'
    <3>1. \A i, j \in 1..Len(pool') : pool'[i] = pool'[j] => i = j
      BY <1>0, <1>p, <2>4, <2>7 DEF Alone, Pooled
    <3>2. \A i \in 1..Len(pool'), v \in Working' : pool'[i] # holds'[v]
      BY <1>0, <1>p, <2>2, <2>4, <2>5 DEF Alone
    <3>3. \A v, w \in Working' : holds'[v] = holds'[w] => v = w
      BY <1>p, <2>2 DEF Alone
    <3> QED BY <3>1, <3>2, <3>3 DEF Alone
  <2>9. Unready'
    BY <1>p, <2>2, <2>3, <2>6, <2>7 DEF Unready
  <2>10. Unused'
    BY <1>p, <2>2, <2>3, <2>6, <2>7 DEF Unused
  <2> QED BY <2>8, <2>9, <2>10
<1> QED
  BY <1>1, <1>3, <1>4, <1>5, <1>6, <1>7, <1>8, <1>9, <1>10, <1>11
  DEF Next, Manager, User, Start, Fill, PrepareRaises, FillDone, Leave, Released,
      StopCall, StopLate, StopReturn

-----------------------------------------------------------------------------
(* Clean. *)

\* Every step keeps Quiet and Found.
LEMMA CleanStep ==
    ASSUME PoolAssumption, Core, Quiet, Found, Next
    PROVE  Quiet' /\ Found'
<1> USE DEF poolVars, releaseVars, userVars
<1>0. /\ TypeOK /\ Tasks
      /\ pool \in Seq(Activities) /\ Len(pool) \in Nat
  BY DEF Core, TypeOK
<1>1. Quiet'
  <2>1. CASE UNCHANGED <<loop, size, preparing, act, releasing, stops, fault>>
    <3>1. Starting' = Starting
      BY <2>1 DEF Starting
    <3> QED BY <2>1, <3>1 DEF Quiet
  <2>2. CASE Start \/ Fill \/ FillDone \/ StopLate \/ StopReturn
    <3>1. Starting' = Starting
      BY <2>2 DEF Start, Fill, FillDone, StopLate, StopReturn, Starting
    <3> QED BY <2>2, <3>1 DEF Start, Fill, FillDone, StopLate, StopReturn, Quiet
  <2>3. CASE fault'
    BY <2>3 DEF Quiet
  <2>4. ASSUME NEW a \in Activities, Created(a) \/ Started(a)
        PROVE  Quiet'
    <3>1. preparing > 0 \/ a \in Starting
      BY <2>4 DEF Created, Started, Starting
    <3>2. ~fault => loop = "prepare"
      BY <1>0, <3>1 DEF Quiet, Tasks, TypeOK, LoopStates
    <3>3. loop' = loop /\ fault' = fault
      BY <2>4 DEF Created, Started
    <3> QED BY <3>2, <3>3 DEF Quiet
  <2>5. CASE Leave
    <3>1. Starting' = Starting
      BY <2>5 DEF Leave, Starting
    <3> QED BY <2>5, <3>1 DEF Leave, Quiet, ToRelease
  <2>6. CASE ReleaseGet
    <3>1. Starting' = Starting
      BY <2>6 DEF ReleaseGet, Starting
    <3>2. ~fault => loop = "release"
      BY <1>0, <2>6 DEF ReleaseGet, Quiet, Tasks, TypeOK, LoopStates
    <3> QED BY <1>0, <2>6, <3>1, <3>2 DEF ReleaseGet, Quiet, TypeOK
  <2>7. CASE Released
    <3>1. Starting' = Starting
      BY <2>7 DEF Released, Starting
    <3> QED BY <2>7, <3>1 DEF Released, Quiet
  <2>8. CASE StopCall
    <3>1. Starting' = Starting
      BY <2>8 DEF StopCall, Starting
    <3> QED BY <1>0, <2>8, <3>1 DEF StopCall, Quiet, Tasks
  <2>9. CASE StopFilling
    <3>1. Starting' = {}
      BY <1>0, <2>9 DEF StopFilling, Starting, TypeOK
    <3> QED BY <2>9, <3>1 DEF StopFilling, Quiet
  <2>10. ASSUME NEW a \in Activities, Stopped(a)
         PROVE  Quiet'
    <3>1. ~fault => loop = "release"
      BY <1>0, <2>10 DEF Stopped, Quiet, Tasks, TypeOK, LoopStates
    <3>2. Starting' \subseteq Starting
      BY <1>0, <2>10 DEF Stopped, Starting, TypeOK
    <3> QED BY <2>10, <3>1, <3>2 DEF Stopped, Quiet
  <2> QED
    BY <2>1, <2>2, <2>3, <2>4, <2>5, <2>6, <2>7, <2>8, <2>9, <2>10
    DEF Next, Manager, User, PrepareRaises, StartRaises, Raise, StopRaises,
        StopReleasing, Begin, Take, Terminate, Finish, Cancel
<1>2. Found'
  <2> SUFFICES ASSUME lost' = 0, NEW a \in Activities, act'[a] = "ready"
               PROVE  (Pooled(a) \/ Held(a) \/ stops[a] > 0)'
    BY DEF Found
  <2>1. CASE UNCHANGED <<pool, user, holds, act, stops, lost>>
    BY <2>1 DEF Found, Pooled, Held, Working
  <2>2. ASSUME NEW b \in Activities, Created(b) \/ StartRaises(b) \/ Stopped(b) \/ StopRaises(b)
        PROVE  (Pooled(a) \/ Held(a) \/ stops[a] > 0)'
    <3>1. /\ UNCHANGED <<pool, user, holds, lost>>
          /\ act[a] = "ready"
          /\ a # b => stops'[a] = stops[a]
      BY <1>0, <2>2 DEF Created, StartRaises, Stopped, StopRaises, TypeOK
    <3>2. a = b => stops'[a] = stops[a]
      BY <1>0, <2>2 DEF Created, StartRaises, Stopped, StopRaises, TypeOK
    <3> QED BY <3>1, <3>2 DEF Found, Pooled, Held, Working
  <2>3. CASE StopFilling \/ StopReleasing
    <3>1. /\ UNCHANGED <<pool, user, holds, lost>>
          /\ act[a] = "ready"
          /\ stops[a] > 0 => stops'[a] > 0
      BY <1>0, <2>3 DEF StopFilling, StopReleasing, TypeOK
    <3> QED BY <3>1 DEF Found, Pooled, Held, Working
  <2>4. ASSUME NEW b \in Activities, Started(b)
        PROVE  (Pooled(a) \/ Held(a) \/ stops[a] > 0)'
    <3>1. \A c : Pooled(c)' <=> Pooled(c) \/ c = b
      BY <1>0, <2>4, PooledChanges DEF Started
    <3>2. a # b => act[a] = "ready"
      BY <1>0, <2>4 DEF Started, TypeOK
    <3> QED BY <2>4, <3>1, <3>2 DEF Started, Found, Held, Working
  <2>5. CASE ReleaseGet
    <3>1. PICK h \in Activities : h = Head(pool)
      BY <1>0, <2>5, HeadTailProperties DEF ReleaseGet
    <3>2. \A c : Pooled(c) => Pooled(c)' \/ c = h
      BY <1>0, <2>5, <3>1, PooledChanges DEF ReleaseGet, Taken
    <3>3. /\ stops'[h] > 0
          /\ stops[a] > 0 => stops'[a] > 0
          /\ UNCHANGED <<act, user, holds, lost>>
      BY <1>0, <2>5, <3>1 DEF ReleaseGet, TypeOK
    <3> QED BY <3>2, <3>3 DEF Found, Held, Working
  <2>6. ASSUME NEW u \in Users, Begin({u})
        PROVE  (Pooled(a) \/ Held(a) \/ stops[a] > 0)'
    <3>1. Working' = Working
      BY <1>0, <2>6 DEF Begin, Free, Working, TypeOK
    <3> QED BY <2>6, <3>1 DEF Begin, Free, Found, Pooled, Held
  <2>7. ASSUME NEW u \in Users, Cancel({u})
        PROVE  (Pooled(a) \/ Held(a) \/ stops[a] > 0)'
    <3>1. {u} \cap Working = {}
      <4>1. IsFiniteSet({u} \cap Working)
        BY FiniteSets, FS_Subset, {u} \cap Working \in SUBSET Working
      <4>2. lost' = lost + Cardinality({u} \cap Working)
        BY <2>7 DEF Cancel
      <4>3. Cardinality({u} \cap Working) = 0
        BY <1>0, <4>1, <4>2, FS_CardinalityType DEF TypeOK
      <4> QED BY <4>1, <4>3, FS_EmptySet
    <3>2. lost = 0
      <4>1. lost' = lost + Cardinality({u} \cap Working)
        BY <2>7 DEF Cancel
      <4>2. Cardinality({u} \cap Working) = 0
        BY <3>1, FS_EmptySet
      <4>3. lost' = lost
        BY <1>0, <4>1, <4>2 DEF TypeOK
      <4> QED BY <4>3
    <3>3. Working' = Working
      BY <1>0, <2>7, <3>1 DEF Cancel, Working, TypeOK
    <3> QED BY <2>7, <3>2, <3>3 DEF Cancel, Found, Pooled, Held
  <2>8. ASSUME NEW u \in Users, Take(u)
        PROVE  (Pooled(a) \/ Held(a) \/ stops[a] > 0)'
    <3>1. PICK h \in Activities : h = Head(pool)
      BY <1>0, <2>8, HeadTailProperties DEF Take
    <3>2. \A c : Pooled(c) => Pooled(c)' \/ c = h
      BY <1>0, <2>8, <3>1, PooledChanges DEF Take, Taken
    <3>3. /\ Working' = Working \cup {u} /\ u \notin Working
          /\ holds'[u] = h
          /\ \A v \in Working : holds'[v] = holds[v]
          /\ UNCHANGED <<act, stops, lost>>
      BY <1>0, <2>8, <3>1 DEF Take, Working, TypeOK, UserStates
    <3> QED BY <3>2, <3>3 DEF Found, Held
  <2>9. ASSUME NEW u \in Users, NEW result \in {"ok", "failed"},
               Terminate(u) \/ Finish(u, result)
        PROVE  (Pooled(a) \/ Held(a) \/ stops[a] > 0)'
    <3>1. u \in Working /\ holds[u] \in Activities
      BY <1>0, <2>9 DEF Terminate, Finish, Working, Tasks
    <3>2. PICK h \in Activities : h = holds[u]
      BY <3>1
    <3>3. \A c : Pooled(c)' <=> Pooled(c) \/ c = h
      BY <1>0, <2>9, <3>2, PooledChanges DEF Terminate, Finish, PutBack
    <3>4. /\ \A v \in Working : v = u \/ v \in Working'
          /\ UNCHANGED <<holds, act, stops, lost>>
      BY <1>0, <2>9 DEF Terminate, Finish, Working, TypeOK
    <3> QED BY <3>2, <3>3, <3>4 DEF Found, Held
  <2> QED
    BY <2>1, <2>2, <2>3, <2>4, <2>5, <2>6, <2>7, <2>8, <2>9
    DEF Next, Manager, User, Start, Fill, PrepareRaises, FillDone, Leave, Released,
        StopCall, StopLate, StopReturn
<1> QED BY <1>1, <1>2

-----------------------------------------------------------------------------
(* The invariant and the theorems. *)

Kept == Core /\ Places /\ Quiet /\ Found

\* Kept holds in every reachable state.
LEMMA Invariant == Spec => []Kept
<1>1. Init => Kept
  <2> SUFFICES ASSUME Init PROVE Kept
    OBVIOUS
  <2>1. Core
    BY InitCore, PoolAssumption
  <2>2. Starting = {} /\ Working = {} /\ Len(pool) = 0
    BY DEF Init, Starting, Working
  <2>3. Places
    BY <2>2 DEF Init, Places, Alone, Unready, Unused, Pooled, Held
  <2>4. Quiet /\ Found
    BY <2>2 DEF Init, Quiet, Found
  <2> QED BY <2>1, <2>3, <2>4 DEF Kept
<1>2. Kept /\ [Next]_vars => Kept'
  <2> SUFFICES ASSUME Kept, [Next]_vars PROVE Kept'
    OBVIOUS
  <2>1. Core'
    BY CoreStep, PoolAssumption DEF Kept
  <2>2. CASE Next
    BY <2>1, <2>2, PlacesStep, CleanStep, PoolAssumption DEF Kept
  <2>3. CASE UNCHANGED vars
    <3> USE DEF vars, poolVars, releaseVars, userVars
    <3>1. Starting' = Starting /\ Working' = Working
      BY <2>3 DEF Starting, Working
    <3>2. Places'
      BY <2>3, <3>1 DEF Kept, Places, Alone, Unready, Unused, Pooled, Held
    <3>3. Quiet' /\ Found'
      BY <2>3, <3>1 DEF Kept, Quiet, Found, Pooled, Held
    <3> QED BY <2>1, <3>2, <3>3 DEF Kept
  <2> QED BY <2>2, <2>3
<1> QED BY <1>1, <1>2, PTL DEF Spec

\* All variables keep their types: the size of the pool and the number of
\* waiting release tasks never go below zero.
THEOREM TypeCorrect == Spec => []TypeOK
<1>1. Kept => TypeOK
  BY DEF Kept, Core
<1> QED BY <1>1, Invariant, PTL

\* _pool_current_size is exact, up to cancelled works and terminate().
THEOREM AccountsCorrect == Spec => []SizeAccounts
<1>1. Kept => SizeAccounts
  BY DEF Kept, Core
<1> QED BY <1>1, Invariant, PTL

\* The loop never has more than its target, so that its branch for a pool
\* that is too large is never taken.
THEOREM TargetKept == Spec => []NeverOverfull
<1>1. Kept => NeverOverfull
  BY DEF Kept, Core
<1> QED BY <1>1, Invariant, PTL

\* Two works never run in one activity, unless a terminate() put it back.
THEOREM UseIsExclusive == Spec => []ExclusiveUse
<1>1. Kept => ExclusiveUse
  <2> SUFFICES ASSUME Kept, NEW u \in Working, NEW v \in Working,
                      u # v, holds[u] = holds[v]
               PROVE  extra > 0
    BY DEF ExclusiveUse
  <2>1. extra # 0
    BY DEF Kept, Places, Alone
  <2> QED BY <2>1 DEF Kept, Core, TypeOK
<1> QED BY <1>1, Invariant, PTL

\* No work holds or gets an activity that is being stopped or was destroyed.
THEOREM StoppedUnused == Spec => []StoppedIsUnused
<1>1. Kept => StoppedIsUnused
  BY DEF Kept, Places, Unused, StoppedIsUnused
<1> QED BY <1>1, Invariant, PTL

\* When nothing failed, stop() returns with all ready activities destroyed.
THEOREM StopIsClean == Spec => []StopReleasesAll
<1>1. ASSUME Kept PROVE StopReleasesAll
  <2> SUFFICES ASSUME loop = "ended", ~fault, extra = 0
               PROVE  /\ pool = <<>>
                      /\ \A a \in Activities :
                            act[a] \in {"new", "abandoned", "destroyed"}
    BY DEF StopReleasesAll
  <2>1. size = 0 /\ Starting = {} /\ \A a \in Activities : stops[a] = 0
    BY <1>1 DEF Kept, Quiet
  <2>2. /\ Len(pool) + Cardinality(Working) + lost = 0
        /\ Len(pool) \in Nat /\ Cardinality(Working) \in Nat /\ lost \in Nat
        /\ pool \in Seq(Activities)
    BY <1>1, <2>1, FiniteSets, PoolAssumption DEF Kept, Core, SizeAccounts, TypeOK
  <2>3. Len(pool) = 0 /\ Cardinality(Working) = 0 /\ lost = 0
    BY <2>2
  <2>4. Working = {}
    BY <1>1, <2>3, FiniteSets, PoolAssumption, FS_EmptySet
  <2>5. pool = <<>>
    BY <2>2, <2>3, EmptySeq
  <2>6. \A a \in Activities : act[a] # "ready" /\ act[a] # "starting"
    BY <1>1, <2>1, <2>3, <2>4 DEF Kept, Found, Pooled, Held, Starting
  <2>7. \A a \in Activities : act[a] \in ActivityStates
    BY <1>1 DEF Kept, Core, TypeOK
  <2> QED BY <2>5, <2>6, <2>7 DEF ActivityStates
<1>2. Kept => StopReleasesAll
  BY <1>1
<1> QED BY <1>2, Invariant, PTL

\* The size the pool reports and the exclusive use of its activities together.
THEOREM LendingIsExact == Spec => []LentExactly
BY AccountsCorrect, UseIsExclusive, PTL DEF LentExactly

-----------------------------------------------------------------------------
(* Lists of tasks and finite sets of places. *)

\* Removing the element at i shortens a list by one and moves every later
\* element one place down.
LEMMA RemoveAtProperties ==
    ASSUME NEW S, NEW s \in Seq(S), NEW i \in 1..Len(s)
    PROVE  /\ RemoveAt(s, i) \in Seq(S)
           /\ Len(RemoveAt(s, i)) = Len(s) - 1
           /\ \A j \in 1..(Len(s) - 1) :
                RemoveAt(s, i)[j] = IF j < i THEN s[j] ELSE s[j + 1]
<1> DEFINE a == SubSeq(s, 1, i - 1)
           b == SubSeq(s, i + 1, Len(s))
<1>0. /\ i \in Int /\ Len(s) \in Nat
      /\ \A j \in 1..(i - 1) : s[j] \in S
      /\ \A j \in (i + 1)..Len(s) : s[j] \in S
  BY ElementOfSeq, LenProperties
<1>1. /\ a \in Seq(S)
      /\ Len(a) = i - 1
      /\ \A j \in 1..(i - 1) : a[j] = s[j]
  BY <1>0, SubSeqProperties, 1 <= i
<1>2. /\ b \in Seq(S)
      /\ Len(b) = Len(s) - i
      /\ \A j \in 1..(Len(s) - i) : b[j] = s[i + j]
  BY <1>0, SubSeqProperties
<1> HIDE DEF a, b
<1>3. /\ a \o b \in Seq(S)
      /\ Len(a \o b) = Len(a) + Len(b)
      /\ \A j \in 1..(Len(a) + Len(b)) :
            (a \o b)[j] = IF j <= Len(a) THEN a[j] ELSE b[j - Len(a)]
  BY <1>1, <1>2, ConcatProperties
<1>4. ASSUME NEW j \in 1..(Len(s) - 1)
      PROVE  (a \o b)[j] = IF j < i THEN s[j] ELSE s[j + 1]
  <2>0. j \in 1..(Len(a) + Len(b)) /\ j \in Int
    BY <1>0, <1>1, <1>2
  <2>1. CASE j < i
    <3>1. j <= Len(a) /\ j \in 1..(i - 1)
      BY <1>0, <1>1, <2>0, <2>1
    <3> QED BY <1>1, <1>3, <2>0, <2>1, <3>1
  <2>2. CASE ~(j < i)
    <3>1. /\ ~(j <= Len(a))
          /\ j - Len(a) \in 1..(Len(s) - i)
          /\ i + (j - Len(a)) = j + 1
      BY <1>0, <1>1, <2>0, <2>2
    <3> QED BY <1>2, <1>3, <2>0, <2>2, <3>1
  <2> QED BY <2>1, <2>2
<1>5. Len(a) + Len(b) = Len(s) - 1
  BY <1>0, <1>1, <1>2
<1> QED BY <1>3, <1>4, <1>5 DEF RemoveAt, a, b

\* The smallest element of a finite set of numbers: the k for which the set has
\* the fewest elements up to k.
LEMMA Smallest ==
    ASSUME NEW n \in Nat, NEW S \in SUBSET (1..n), S # {}
    PROVE  \E m \in S : \A k \in S : m <= k
<1> DEFINE H == 1..n
           UpTo(k) == {i \in S : i <= k}
           T == {UpTo(k) : k \in S}
<1>1. IsFiniteSet(H) /\ FiniteSubsetsOf(H) = SUBSET H
  BY FS_Interval, FS_FiniteSubsetsOfFinite
<1>2. T \subseteq FiniteSubsetsOf(H) /\ T # {}
  <2>1. T \subseteq SUBSET H /\ T # {}
    OBVIOUS
  <2> HIDE DEF T, H
  <2> QED
    BY <1>1, <2>1
<1>3. PICK X \in T : \A Y \in T : ~(<<Y, X>> \in StrictSubsetOrdering(H))
  <2> HIDE DEF T, H
  <2> QED
    BY <1>2, FS_StrictSubsetOrderingWellFounded, WFMin
<1>4. PICK m \in S : X = UpTo(m)
  OBVIOUS
<1>5. ASSUME NEW k \in S, ~ (m <= k) PROVE FALSE
  <2>1. m \in Nat /\ k \in Nat /\ k < m
    BY <1>5
  <2>2. UpTo(k) \in T /\ UpTo(k) \in SUBSET H /\ X \in SUBSET H
    BY <1>4
  <2>3. UpTo(k) \subseteq X /\ UpTo(k) # X
    <3>1. \A i \in S : i \in Nat
      OBVIOUS
    <3>2. m \in X /\ m \notin UpTo(k)
      BY <1>4, <2>1
    <3>3. \A i \in S : i <= k => i <= m
      BY <2>1, <3>1
    <3> QED
      BY <1>4, <3>2, <3>3
  <2> QED
    BY <1>3, <2>2, <2>3 DEF StrictSubsetOrdering
<1> QED
  BY <1>5

\* Two sets with a function between them that is one-to-one and onto.
LEMMA SameSize ==
    ASSUME NEW S, NEW T, IsFiniteSet(S), NEW f \in [S -> T],
           \A x, y \in S : f[x] = f[y] => x = y,
           \A t \in T : \E x \in S : f[x] = t
    PROVE  IsFiniteSet(T) /\ Cardinality(T) = Cardinality(S)
<1>1. f \in Bijection(S, T)
  BY Fun_IsBij
<1>2. ExistsBijection(S, T)
  BY <1>1 DEF ExistsBijection
<1> QED
  BY <1>2, FS_Bijection

\* Indices of a list that is one longer.
LEMMA OneMore ==
    ASSUME NEW n \in Nat, NEW A \in SUBSET (1..n), NEW B \in SUBSET (1..(n + 1)),
           \A j \in 1..n : j \in A <=> j \in B
    PROVE  /\ Cardinality(A) \in Nat
           /\ Cardinality(B) = Cardinality(A) + IF n + 1 \in B THEN 1 ELSE 0
<1>0. \A j \in B : j \in 1..n \/ j = n + 1
  OBVIOUS
<1>1. IsFiniteSet(A) /\ Cardinality(A) \in Nat
  <2>1. IsFiniteSet(1..n)
    BY FS_Interval
  <2> QED
    BY <2>1, FS_Subset, FS_CardinalityType
<1>2. CASE n + 1 \in B
  <2>1. B = A \cup {n + 1}
    BY <1>0, <1>2
  <2>2. n + 1 \notin A
    OBVIOUS
  <2> QED
    BY <1>1, <1>2, <2>1, <2>2, FS_AddElement
<1>3. CASE n + 1 \notin B
  <2>1. B = A
    BY <1>0, <1>3
  <2> QED
    BY <1>1, <1>3, <2>1
<1> QED
  BY <1>1, <1>2, <1>3

\* What SelectInSeq finds, for a set of elements.
LEMMA Selected ==
    ASSUME NEW n \in Nat, NEW I \in SUBSET (1..n), I # {}
    PROVE  Min(I) \in I /\ Min(I) \in 1..n
<1>1. \E m \in I : \A k \in I : m <= k
  BY Smallest
<1> QED
  BY <1>1 DEF Min

-----------------------------------------------------------------------------
(* The lists of the tasks. *)

\* One, for a task that is the one that is counted.
Same(x, d) == IF x = d THEN 1 ELSE 0

\* What it counts.
LEMMA SameCounts ==
    ASSUME NEW x, NEW d
    PROVE  Same(x, d) \in Nat /\ (x = d => Same(x, d) = 1) /\ (x # d => Same(x, d) = 0)
BY DEF Same

\* A task at the end of a list.
LEMMA CopiesAppend ==
    ASSUME NEW S, NEW s \in Seq(S), NEW y \in S, NEW d
    PROVE  /\ Copies(s, d) \in Nat /\ Append(s, y) \in Seq(S)
           /\ Copies(Append(s, y), d) = Copies(s, d) + Same(y, d)
<1> DEFINE A == {i \in DOMAIN s : s[i] = d}
           B == {i \in DOMAIN Append(s, y) : Append(s, y)[i] = d}
<1>1. /\ Append(s, y) \in Seq(S) /\ Len(s) \in Nat /\ Len(Append(s, y)) = Len(s) + 1
      /\ DOMAIN s = 1..Len(s) /\ DOMAIN Append(s, y) = 1..(Len(s) + 1)
      /\ \A j \in 1..Len(s) : Append(s, y)[j] = s[j]
      /\ Append(s, y)[Len(s) + 1] = y
  BY AppendProperties, LenProperties
<1>2. A \in SUBSET (1..Len(s)) /\ B \in SUBSET (1..(Len(s) + 1))
  BY <1>1
<1>3. \A j \in 1..Len(s) : j \in A <=> j \in B
  BY <1>1
<1>4. Len(s) + 1 \in B <=> y = d
  BY <1>1
<1> HIDE DEF A, B
<1>5. Cardinality(A) \in Nat /\ Cardinality(B) = Cardinality(A) + Same(y, d)
  BY <1>1, <1>2, <1>3, <1>4, OneMore, SameCounts
<1> QED
  BY <1>1, <1>5 DEF A, B, Copies

\* A list without the task at k.
LEMMA CopiesShorter ==
    ASSUME NEW S, NEW s \in Seq(S), NEW t \in Seq(S), NEW k \in 1..Len(s), NEW d,
           Len(t) = Len(s) - 1,
           \A j \in 1..(Len(s) - 1) : t[j] = IF j < k THEN s[j] ELSE s[j + 1]
    PROVE  /\ Copies(t, d) \in Nat
           /\ Copies(s, d) = Copies(t, d) + Same(s[k], d)
<1> DEFINE A == {i \in DOMAIN s : s[i] = d}
           B == {i \in DOMAIN t : t[i] = d}
           f == [j \in B |-> IF j < k THEN j ELSE j + 1]
<1>1. /\ Len(s) \in Nat /\ DOMAIN s = 1..Len(s) /\ DOMAIN t = 1..(Len(s) - 1)
  BY LenProperties
<1>2. A \in SUBSET (1..Len(s)) /\ B \in SUBSET (1..(Len(s) - 1))
  BY <1>1
<1>3. IsFiniteSet(B) /\ Cardinality(B) \in Nat
  <2>1. IsFiniteSet(1..Len(s))
    BY <1>1, FS_Interval
  <2>2. B \in SUBSET (1..Len(s))
    BY <1>1, <1>2
  <2> QED
    BY <2>1, <2>2, FS_Subset, FS_CardinalityType
<1>4. f \in [B -> A \ {k}]
  <2> SUFFICES ASSUME NEW j \in B PROVE f[j] \in A \ {k}
    OBVIOUS
  <2>1. j \in 1..(Len(s) - 1) /\ t[j] = d
    BY <1>1
  <2>2. f[j] \in 1..Len(s) /\ s[f[j]] = d /\ f[j] # k
    BY <1>1, <2>1
  <2> QED
    BY <1>1, <2>2
<1>5. \A x, y \in B : f[x] = f[y] => x = y
  BY <1>1, <1>2
<1>6. ASSUME NEW m \in A \ {k} PROVE \E x \in B : f[x] = m
  <2>1. m \in 1..Len(s) /\ s[m] = d /\ m # k
    BY <1>1
  <2>2. CASE m < k
    <3>1. m \in 1..(Len(s) - 1) /\ t[m] = d
      BY <1>1, <2>1, <2>2
    <3>2. m \in B /\ f[m] = m
      BY <1>1, <2>2, <3>1
    <3> QED
      BY <3>2
  <2>3. CASE m > k
    <3>1. m - 1 \in 1..(Len(s) - 1) /\ t[m - 1] = d /\ ~ (m - 1 < k) /\ (m - 1) + 1 = m
      BY <1>1, <2>1, <2>3
    <3>2. m - 1 \in B /\ f[m - 1] = m
      BY <1>1, <3>1
    <3> QED
      BY <3>2
  <2> HIDE DEF A, B, f
  <2>4. m \in Int /\ k \in Int /\ m # k
    BY <1>1, <2>1
  <2>5. m < k \/ m > k
    BY <2>4
  <2> QED
    BY <2>2, <2>3, <2>5
<1>7. k \in A <=> s[k] = d
  BY <1>1
<1> HIDE DEF A, B, f
<1>8. IsFiniteSet(A \ {k}) /\ Cardinality(A \ {k}) = Cardinality(B)
  BY <1>3, <1>4, <1>5, <1>6, SameSize
<1>9. CASE k \in A
  <2>1. A = (A \ {k}) \cup {k} /\ k \notin A \ {k}
    BY <1>9
  <2>2. Cardinality(A) = Cardinality(B) + 1
    BY <1>8, <2>1, FS_AddElement
  <2> QED
    BY <1>3, <1>7, <1>9, <2>2, SameCounts DEF A, B, Copies
<1>10. CASE k \notin A
  <2>1. A \ {k} = A
    BY <1>10
  <2>2. Cardinality(A) = Cardinality(B)
    BY <1>8, <2>1
  <2> QED
    BY <1>3, <1>7, <1>10, <2>2, SameCounts DEF A, B, Copies
<1> QED
  BY <1>9, <1>10

\* A list without its first task.
LEMMA CopiesTail ==
    ASSUME NEW S, NEW s \in Seq(S), s # <<>>, NEW d
    PROVE  /\ Copies(Tail(s), d) \in Nat /\ Tail(s) \in Seq(S) /\ Head(s) \in S
           /\ Len(Tail(s)) = Len(s) - 1
           /\ Copies(s, d) = Copies(Tail(s), d) + Same(Head(s), d)
<1>1. /\ Tail(s) \in Seq(S) /\ Head(s) \in S /\ Head(s) = s[1] /\ Len(Tail(s)) = Len(s) - 1
      /\ \A j \in 1..(Len(s) - 1) : Tail(s)[j] = s[j + 1]
      /\ Len(s) \in Nat /\ 1 \in 1..Len(s)
  BY HeadTailProperties, EmptySeq, LenProperties
<1> DEFINE t == Tail(s)
<1>2. \A j \in 1..(Len(s) - 1) : t[j] = IF j < 1 THEN s[j] ELSE s[j + 1]
  BY <1>1
<1>3. t \in Seq(S) /\ Len(t) = Len(s) - 1
  BY <1>1
<1> HIDE DEF t
<1>4. Copies(t, d) \in Nat /\ Copies(s, d) = Copies(t, d) + Same(s[1], d)
  BY <1>1, <1>2, <1>3, CopiesShorter
<1> QED
  BY <1>1, <1>4 DEF t

\* A list without one of its tasks.
LEMMA CopiesRemoveAt ==
    ASSUME NEW S, NEW s \in Seq(S), NEW k \in 1..Len(s), NEW d
    PROVE  /\ Copies(RemoveAt(s, k), d) \in Nat /\ RemoveAt(s, k) \in Seq(S)
           /\ Copies(s, d) = Copies(RemoveAt(s, k), d) + Same(s[k], d)
BY RemoveAtProperties, CopiesShorter

\* No task is in the empty list.
LEMMA CopiesEmpty ==
    ASSUME NEW d PROVE Copies(<<>>, d) = 0
<1>1. {i \in DOMAIN <<>> : <<>>[i] = d} = {}
  OBVIOUS
<1> QED
  BY <1>1, FS_EmptySet DEF Copies

\* One more result.
LEMMA CountAppend ==
    ASSUME NEW S, NEW s \in Seq(S), NEW y \in S, NEW d
    PROVE  /\ Count(s, d) \in Nat /\ Append(s, y) \in Seq(S)
           /\ Count(Append(s, y), d) = Count(s, d) + Same(y.data, d)
<1> DEFINE A == {i \in DOMAIN s : s[i].data = d}
           B == {i \in DOMAIN Append(s, y) : Append(s, y)[i].data = d}
<1>1. /\ Append(s, y) \in Seq(S) /\ Len(s) \in Nat /\ Len(Append(s, y)) = Len(s) + 1
      /\ DOMAIN s = 1..Len(s) /\ DOMAIN Append(s, y) = 1..(Len(s) + 1)
      /\ \A j \in 1..Len(s) : Append(s, y)[j] = s[j]
      /\ Append(s, y)[Len(s) + 1] = y
  BY AppendProperties, LenProperties
<1>2. A \in SUBSET (1..Len(s)) /\ B \in SUBSET (1..(Len(s) + 1))
  BY <1>1
<1>3. \A j \in 1..Len(s) : j \in A <=> j \in B
  BY <1>1
<1>4. Len(s) + 1 \in B <=> y.data = d
  BY <1>1
<1> HIDE DEF A, B
<1>5. Cardinality(A) \in Nat /\ Cardinality(B) = Cardinality(A) + Same(y.data, d)
  BY <1>1, <1>2, <1>3, <1>4, OneMore, SameCounts
<1> QED
  BY <1>1, <1>5 DEF A, B, Count

-----------------------------------------------------------------------------
(***************************************************************************)
(* TaskApi.  That a task is counted once wherever it is follows from what  *)
(* each step does to one or two of the counts; the stream has so many      *)
(* tasks as are not loaded yet.  With a RedundanceManager, a provider has  *)
(* at most one vote on a task, because it is given the task once until its *)
(* attempt fails, and a failed attempt has not voted.                      *)
(***************************************************************************)
Data == Range(input)
Owners == {Owner[m] : m \in Machines}
WorkerStates == {"next", "get", "lock", "wait", "ready", "run", "close", "dead", "end"}

TaskTypes ==
    /\ input \in Seq(Data) /\ Nil \notin Data
    /\ rest \in Seq(Data) /\ queue \in Seq(Data)
    /\ taskCnt \in Nat /\ inStreamEmpty \in BOOLEAN
    /\ idle \in Seq(Machines)
    /\ worker \in [Workers -> WorkerStates]
    /\ doing \in [Workers -> Data \cup {Nil}]
    /\ machine \in [Workers -> Machines \cup {Nil}]
    /\ given \in [Owners -> SUBSET Data]
    /\ partial \in Seq([data : Data, result : Answers, by : Owners])
    /\ outcome \in Seq([data : Data, result : Answers])

\* A worker has a machine from get() to the end of its turn, and a task while it
\* runs; without a manager, from the time Zip took it until its turn ends.
WorkerRight ==
    \A w \in Workers :
        /\ worker[w] \in {"ready", "run", "close"} => machine[w] \in Machines
        /\ worker[w] = "run" => doing[w] \in Data
        /\ ~ redundant =>
               (doing[w] \in Data <=> worker[w] \in {"get", "lock", "wait", "ready", "run"})

\* Data that were loaded were counted.
StreamRight == taskCnt + Len(rest) = Len(input) /\ (inStreamEmpty => rest = <<>>)

Conserved == \A d \in Data :
    Copies(input, d) = Copies(rest, d) + Copies(queue, d) + InHand(d) + Count(outcome, d)

HasVoted(ballots, p, d) == \E i \in 1..Len(ballots) : ballots[i].data = d /\ ballots[i].by = p

\* A provider votes on what it was given, and once; it is given a task that it
\* works on, and has not voted on it; and it works on a task once at a time.
VotesRight ==
    /\ \A i, j \in 1..Len(partial) :
           partial[i].data = partial[j].data /\ partial[i].by = partial[j].by => i = j
    /\ \A i \in 1..Len(partial) : partial[i].data \in given[partial[i].by]
    /\ \A w \in Workers :
           worker[w] = "run" =>
               /\ doing[w] \in given[Owner[machine[w]]]
               /\ ~ HasVoted(partial, Owner[machine[w]], doing[w])
    /\ \A v, w \in Workers :
           /\ worker[v] = "run" /\ worker[w] = "run"
           /\ doing[v] = doing[w] /\ Owner[machine[v]] = Owner[machine[w]]
           => v = w

TaskInv ==
    /\ TaskTypes /\ WorkerRight /\ StreamRight /\ Conserved
    /\ redundant => VotesRight /\ ResultsBacked

\* The tasks, and the types that a step does not touch.
LEMMA TasksKept ==
    ASSUME UNCHANGED stream
    PROVE  Data' = Data /\ Owners' = Owners /\ (redundant' <=> redundant)
BY DEF stream, Data, Owners, redundant

\* ResultsBacked, of any ballots and results.
Backs(c, ballots, d, r) ==
    /\ Count(ballots, d) >= c
    /\ \A o \in Answers : Votes(ballots, d, o) <= Votes(ballots, d, r)
    /\ Votes(ballots, d, r) * MinSuccess[2] >= Count(ballots, d) * MinSuccess[1]
    /\ Cardinality(By(ballots, d)) = Count(ballots, d)
AllBacked(c, ballots, results) ==
    \A i \in DOMAIN results : \E n \in 0..Len(ballots) :
        Backs(c, SubSeq(ballots, 1, n), results[i].data, results[i].result)

\* ResultsBacked is AllBacked, before and after a step.
LEMMA BackedMeaning ==
    /\ ResultsBacked <=> (redundant => AllBacked(repeat, partial, outcome))
    /\ ResultsBacked' <=> (redundant' => AllBacked(repeat', partial', outcome'))
<1>1. ResultsBacked <=> (redundant => AllBacked(repeat, partial, outcome))
  BY DEF ResultsBacked, BackedBy, Agreed, AllBacked, Backs
<1>2. ResultsBacked' <=> (redundant' => AllBacked(repeat', partial', outcome'))
  BY DEF ResultsBacked, BackedBy, Agreed, AllBacked, Backs, redundant, Count, Votes, By
<1> QED
  BY <1>1, <1>2

\* The votes and the results are not touched.
LEMMA BackedKept ==
    ASSUME ResultsBacked, UNCHANGED <<repeat, partial, outcome>> PROVE ResultsBacked'
BY BackedMeaning DEF redundant

\* The steps of the pool and of a worker that gets an activity and gives it up.
LEMMA PoolSteps ==
    ASSUME TaskInv, UNCHANGED <<stream, queue, doing, given, partial, outcome>>,
           idle' \in Seq(Machines),
           worker' \in [Workers -> WorkerStates], machine' \in [Workers -> Machines \cup {Nil}],
           WorkerRight',
           redundant => \A w \in Workers :
               worker'[w] = "run" => worker[w] = "run" /\ machine'[w] = machine[w]
    PROVE  TaskInv'
<1>1. /\ Data' = Data /\ Owners' = Owners /\ (redundant' <=> redundant)
      /\ UNCHANGED <<input, repeat, rest, taskCnt, inStreamEmpty, given, partial, outcome>>
  BY TasksKept DEF stream
<1>2. TaskTypes'
  BY <1>1 DEF TaskInv, TaskTypes
<1>3. StreamRight'
  BY <1>1 DEF TaskInv, StreamRight
<1>4. Conserved'
  BY <1>1 DEF TaskInv, Conserved, Copies, InHand, Count
<1>5. ASSUME redundant PROVE VotesRight' /\ ResultsBacked'
  <2>1. ResultsBacked'
    BY <1>1, <1>5, BackedKept DEF TaskInv
  <2>2. VotesRight'
    BY <1>1, <1>5 DEF TaskInv, VotesRight, HasVoted
  <2> QED
    BY <2>1, <2>2
<1> QED
  BY <1>1, <1>2, <1>3, <1>4, <1>5 DEF TaskInv

\* The pool, the proposals on their way and the turns of a worker.
LEMMA PoolActions ==
    ASSUME TaskInv,
           \/ \E m \in Machines : Filter(m) \/ Put(m) \/ NoMoreActivity(m) \/ Cleanup(m)
           \/ \E w \in Workers :
                 \/ NextTurn(w) \/ Ask(w) \/ StreamEnds(w) \/ Get(w) \/ ExecuteTask(w) \/ CloseAll(w)
                 \/ \E m \in Machines : FromStream(w, m)
    PROVE  TaskInv'
<1> USE DEF WorkerStates
<1>0. /\ idle \in Seq(Machines)
      /\ worker \in [Workers -> WorkerStates]
      /\ doing \in [Workers -> Data \cup {Nil}] /\ Nil \notin Data
      /\ machine \in [Workers -> Machines \cup {Nil}]
      /\ WorkerRight
  BY DEF TaskInv, TaskTypes
<1>1. ASSUME NEW m \in Machines, Filter(m) \/ Put(m) \/ NoMoreActivity(m) \/ Cleanup(m)
      PROVE  TaskInv'
  <2>1. UNCHANGED <<stream, queue, doing, judged, worker, machine>> /\ idle' \in Seq(Machines)
    BY <1>0, <1>1, AppendProperties DEF Filter, Put, NoMoreActivity, Cleanup, activities
  <2>2. WorkerRight'
    BY <1>0, <2>1, TasksKept DEF WorkerRight
  <2> QED
    BY <1>0, <2>1, <2>2, PoolSteps DEF judged
<1>2. ASSUME NEW w \in Workers, NextTurn(w) \/ Ask(w) \/ StreamEnds(w) \/ ExecuteTask(w)
                                \/ \E m \in Machines : FromStream(w, m)
      PROVE  TaskInv'
  <2>1. /\ UNCHANGED <<stream, queue, doing, judged, idle, machine>>
        /\ \E l \in {"end", "get", "lock", "wait", "run"} : worker' = [worker EXCEPT ![w] = l]
    BY <1>2 DEF NextTurn, Ask, StreamEnds, ExecuteTask, FromStream, activities
  <2>2. worker' \in [Workers -> WorkerStates]
    BY <1>0, <2>1
  <2>3. WorkerRight'
    BY <1>0, <1>2, <2>1, TasksKept
       DEF WorkerRight, NextTurn, Ask, StreamEnds, ExecuteTask, FromStream
  <2>4. ASSUME redundant, NEW v \in Workers, worker'[v] = "run" PROVE worker[v] = "run"
    BY <1>0, <1>2, <2>4 DEF NextTurn, Ask, StreamEnds, ExecuteTask, FromStream
  <2> QED
    BY <1>0, <2>1, <2>2, <2>3, <2>4, PoolSteps DEF judged
<1>3. ASSUME NEW w \in Workers, Get(w) PROVE TaskInv'
  <2>1. Tail(idle) \in Seq(Machines) /\ Head(idle) \in Machines
    BY <1>0, <1>3, HeadTailProperties DEF Get
  <2>2. /\ UNCHANGED <<stream, queue, doing, judged>> /\ idle' \in Seq(Machines)
        /\ worker[w] = "wait"
        /\ \/ worker' = [worker EXCEPT ![w] = "get"] /\ machine' = machine
           \/ /\ worker' = [worker EXCEPT ![w] = "ready"]
              /\ machine' = [machine EXCEPT ![w] = Head(idle)]
    BY <1>3, <2>1 DEF Get
  <2>3. /\ worker' \in [Workers -> WorkerStates]
        /\ machine' \in [Workers -> Machines \cup {Nil}]
    BY <1>0, <2>1, <2>2
  <2>4. WorkerRight'
    BY <1>0, <2>1, <2>2, TasksKept DEF WorkerRight
  <2>5. ASSUME NEW v \in Workers, worker'[v] = "run"
        PROVE  worker[v] = "run" /\ machine'[v] = machine[v]
    BY <1>0, <2>2, <2>5
  <2> QED
    BY <2>2, <2>3, <2>4, <2>5, PoolSteps DEF judged
<1>4. ASSUME NEW w \in Workers, CloseAll(w) PROVE TaskInv'
  <2>1. /\ UNCHANGED <<stream, queue, doing, judged, idle>> /\ worker[w] = "close"
        /\ worker' = [worker EXCEPT ![w] = "next"] /\ machine' = [machine EXCEPT ![w] = Nil]
    BY <1>4 DEF CloseAll
  <2>2. /\ worker' \in [Workers -> WorkerStates]
        /\ machine' \in [Workers -> Machines \cup {Nil}]
    BY <1>0, <2>1
  <2>3. WorkerRight'
    BY <1>0, <2>1, TasksKept DEF WorkerRight
  <2>4. ASSUME NEW v \in Workers, worker'[v] = "run"
        PROVE  worker[v] = "run" /\ machine'[v] = machine[v]
    BY <1>0, <2>1, <2>4
  <2> QED
    BY <1>0, <2>1, <2>2, <2>3, <2>4, PoolSteps DEF judged
<1> QED
  BY <1>1, <1>2, <1>3, <1>4

-----------------------------------------------------------------------------
(* Workers that take, finish and repeat tasks. *)

\* How many workers have a task.
Hands(hand, d) == Cardinality({w \in Workers : hand[w] = d})

\* Only one worker has another task.
Handed(hand, next, x, y) == \E w \in Workers :
    hand[w] = x /\ next[w] = y /\ \A v \in Workers \ {w} : next[v] = hand[v]

\* How many have it when one worker has another one.
LEMMA HandChanges ==
    ASSUME NEW hand, NEW next, NEW x, NEW y, Handed(hand, next, x, y), NEW d
    PROVE  /\ Hands(hand, d) \in Nat /\ Hands(next, d) \in Nat
           /\ Hands(next, d) + Same(x, d) = Hands(hand, d) + Same(y, d)
<1>a. PICK w \in Workers :
          hand[w] = x /\ next[w] = y /\ \A v \in Workers \ {w} : next[v] = hand[v]
  BY DEF Handed
<1> DEFINE A == {v \in Workers : hand[v] = d}
           B == {v \in Workers : next[v] = d}
<1>0. IsFiniteSet(Workers)
  BY TaskApiAssumption
<1>1. A \in SUBSET Workers /\ B \in SUBSET Workers
  OBVIOUS
<1>2. IsFiniteSet(A) /\ Cardinality(A) \in Nat /\ IsFiniteSet(B) /\ Cardinality(B) \in Nat
  BY <1>0, <1>1, FS_Subset, FS_CardinalityType
<1>3. Hands(hand, d) = Cardinality(A) /\ Hands(next, d) = Cardinality(B)
  BY DEF Hands
<1>4. A \ {w} = B \ {w}
  BY <1>a
<1>5. (w \in A <=> hand[w] = d) /\ (w \in B <=> next[w] = d)
  BY <1>a
<1> HIDE DEF A, B
<1>6. /\ Cardinality(A \ {w}) = IF w \in A THEN Cardinality(A) - 1 ELSE Cardinality(A)
      /\ Cardinality(B \ {w}) = IF w \in B THEN Cardinality(B) - 1 ELSE Cardinality(B)
  BY <1>2, FS_RemoveElement
<1>7. /\ Cardinality(A) = Cardinality(A \ {w}) + Same(x, d)
      /\ Cardinality(B) = Cardinality(B \ {w}) + Same(y, d)
  BY <1>a, <1>2, <1>5, <1>6, SameCounts
<1>8. Same(x, d) \in Nat /\ Same(y, d) \in Nat
  BY SameCounts
<1>9. Cardinality(A \ {w}) \in Nat
  BY <1>2, FS_Subset, FS_CardinalityType
<1> QED
  BY <1>3, <1>4, <1>7, <1>8, <1>9

\* No result at the start.
LEMMA CountEmpty ==
    ASSUME NEW d PROVE Count(<<>>, d) = 0
<1>1. {i \in DOMAIN <<>> : <<>>[i].data = d} = {}
  OBVIOUS
<1> QED
  BY <1>1, FS_EmptySet DEF Count

\* The results of a task are finitely many.
LEMMA CountType ==
    ASSUME NEW S, NEW s \in Seq(S), NEW d PROVE Count(s, d) \in Nat
<1>1. DOMAIN s = 1..Len(s) /\ Len(s) \in Nat
  BY LenProperties
<1>2. IsFiniteSet(1..Len(s))
  BY <1>1, FS_Interval
<1>3. {i \in DOMAIN s : s[i].data = d} \in SUBSET (1..Len(s))
  BY <1>1
<1> QED
  BY <1>2, <1>3, FS_Subset, FS_CardinalityType DEF Count

\* The copies of a task are finitely many.
LEMMA CopiesType ==
    ASSUME NEW S, NEW s \in Seq(S), NEW d PROVE Copies(s, d) \in Nat
<1>1. DOMAIN s = 1..Len(s) /\ Len(s) \in Nat
  BY LenProperties
<1>2. IsFiniteSet(1..Len(s))
  BY <1>1, FS_Interval
<1>3. {i \in DOMAIN s : s[i] = d} \in SUBSET (1..Len(s))
  BY <1>1
<1> QED
  BY <1>2, <1>3, FS_Subset, FS_CardinalityType DEF Copies

\* Where a task is, with a list that is not loaded, a queue, h workers and results.
Total(r, q, h, o, d) == Copies(r, d) + Copies(q, d) + h + Count(o, d)

\* The first of a list, and what follows.
FirstOf(q, x, t) == q # <<>> /\ x = Head(q) /\ t = Tail(q)

\* A worker takes the first of the queue.
LEMMA TotalTaken ==
    ASSUME NEW S, NEW r \in Seq(S), NEW q \in Seq(S), NEW T, NEW o \in Seq(T), NEW d,
           NEW y, NEW t, FirstOf(q, y, t),
           NEW hand, NEW next, NEW x, Handed(hand, next, x, y), x # d
    PROVE  Total(r, t, Hands(next, d), o, d) = Total(r, q, Hands(hand, d), o, d)
<1>1. /\ Hands(hand, d) \in Nat /\ Hands(next, d) \in Nat
      /\ Hands(next, d) + Same(x, d) = Hands(hand, d) + Same(y, d)
  BY HandChanges
<1>2. /\ Copies(t, d) \in Nat
      /\ Copies(q, d) = Copies(t, d) + Same(y, d)
  BY CopiesTail DEF FirstOf
<1>3. Copies(r, d) \in Nat /\ Count(o, d) \in Nat /\ Same(y, d) \in Nat
  BY CopiesType, CountType, SameCounts
<1>4. Same(x, d) = 0
  BY SameCounts
<1> QED
  BY <1>1, <1>2, <1>3, <1>4 DEF Total

\* The first of the list is loaded into the empty queue.
LEMMA TotalLoaded ==
    ASSUME NEW S, NEW r \in Seq(S), r # <<>>, NEW h \in Nat, NEW T, NEW o \in Seq(T), NEW d
    PROVE  Total(Tail(r), Append(<<>>, Head(r)), h, o, d) = Total(r, <<>>, h, o, d)
<1>1. /\ Head(r) \in S /\ Copies(Tail(r), d) \in Nat
      /\ Copies(r, d) = Copies(Tail(r), d) + Same(Head(r), d)
  BY CopiesTail
<1>2. <<>> \in Seq(S)
  BY EmptySeq
<1>3. Copies(Append(<<>>, Head(r)), d) = Copies(<<>>, d) + Same(Head(r), d)
  BY <1>1, <1>2, CopiesAppend
<1>4. Copies(<<>>, d) = 0 /\ Count(o, d) \in Nat /\ Same(Head(r), d) \in Nat
  BY CopiesEmpty, CountType, SameCounts
<1> QED
  BY <1>1, <1>3, <1>4 DEF Total

\* A worker gives its task back to the queue.
LEMMA TotalRepeated ==
    ASSUME NEW S, NEW r \in Seq(S), NEW q \in Seq(S), NEW T, NEW o \in Seq(T), NEW d,
           NEW hand, NEW next, NEW x \in S, NEW y, Handed(hand, next, x, y), y # d
    PROVE  Total(r, Append(q, x), Hands(next, d), o, d) = Total(r, q, Hands(hand, d), o, d)
<1>1. /\ Hands(hand, d) \in Nat /\ Hands(next, d) \in Nat
      /\ Hands(next, d) + Same(x, d) = Hands(hand, d) + Same(y, d)
  BY HandChanges
<1>2. /\ Copies(q, d) \in Nat
      /\ Copies(Append(q, x), d) = Copies(q, d) + Same(x, d)
  BY CopiesAppend
<1>3. Copies(r, d) \in Nat /\ Count(o, d) \in Nat /\ Same(x, d) \in Nat
  BY CopiesType, CountType, SameCounts
<1>4. Same(y, d) = 0
  BY SameCounts
<1> QED
  BY <1>1, <1>2, <1>3, <1>4 DEF Total

\* A worker gives a result.
LEMMA TotalDone ==
    ASSUME NEW S, NEW r \in Seq(S), NEW q \in Seq(S), NEW T, NEW o \in Seq(T), NEW d,
           NEW hand, NEW next, NEW x, NEW y, Handed(hand, next, x, y), y # d,
           NEW z \in T, z.data = x
    PROVE  Total(r, q, Hands(next, d), Append(o, z), d) = Total(r, q, Hands(hand, d), o, d)
<1>1. /\ Hands(hand, d) \in Nat /\ Hands(next, d) \in Nat
      /\ Hands(next, d) + Same(x, d) = Hands(hand, d) + Same(y, d)
  BY HandChanges
<1>2. Count(Append(o, z), d) = Count(o, d) + Same(x, d)
  BY CountAppend
<1>3. /\ Copies(r, d) \in Nat /\ Copies(q, d) \in Nat /\ Count(o, d) \in Nat
      /\ Same(x, d) \in Nat
  BY CopiesType, CountType, SameCounts
<1>4. Same(y, d) = 0
  BY SameCounts
<1> QED
  BY <1>1, <1>2, <1>3, <1>4 DEF Total

\* An element of a list and its place.
ElementAt(q, k, x) == k \in 1..Len(q) /\ q[k] = x

\* A task leaves the queue with its result.
LEMMA TotalResult ==
    ASSUME NEW S, NEW r \in Seq(S), NEW q \in Seq(S), NEW k, NEW h \in Nat,
           NEW T, NEW o \in Seq(T), NEW d, NEW y \in T, ElementAt(q, k, y.data)
    PROVE  Total(r, RemoveAt(q, k), h, Append(o, y), d) = Total(r, q, h, o, d)
<1>1. /\ Copies(RemoveAt(q, k), d) \in Nat
      /\ Copies(q, d) = Copies(RemoveAt(q, k), d) + Same(y.data, d)
  <2>1. k \in 1..Len(q) /\ q[k] = y.data
    BY DEF ElementAt
  <2>2. /\ Copies(RemoveAt(q, k), d) \in Nat
        /\ Copies(q, d) = Copies(RemoveAt(q, k), d) + Same(q[k], d)
    BY <2>1, CopiesRemoveAt
  <2> QED
    BY <2>1, <2>2
<1>2. Count(Append(o, y), d) = Count(o, d) + Same(y.data, d)
  BY CountAppend
<1>3. Copies(r, d) \in Nat /\ Count(o, d) \in Nat /\ Same(y.data, d) \in Nat
  BY CopiesType, CountType, SameCounts
<1> QED
  BY <1>1, <1>2, <1>3 DEF Total

\* What is conserved.
LEMMA ConservedTotal ==
    /\ Conserved <=> \A d \in Data : Copies(input, d) = Total(rest, queue, InHand(d), outcome, d)
    /\ ~ redundant => \A d : InHand(d) = Hands(doing, d)
BY DEF Conserved, Total, InHand, Hands

\* Zip takes the first task of the queue, and the next one is loaded when none is
\* left there.
LEMMA TakeTaskStep ==
    ASSUME TaskInv, NEW w \in Workers, TakeTask(w) PROVE TaskInv'
<1>0. /\ ~ redundant /\ worker[w] = "next" /\ queue # <<>>
      /\ doing' = [doing EXCEPT ![w] = Head(queue)]
      /\ worker' = [worker EXCEPT ![w] = "get"]
      /\ UNCHANGED <<input, repeat, idle, machine, given, partial, outcome>>
  BY DEF TakeTask, activities, judged
<1>1. /\ Data' = Data /\ Owners' = Owners /\ ~ redundant'
  BY <1>0 DEF Data, Owners, redundant
<1>2. /\ TaskTypes /\ WorkerRight /\ StreamRight /\ Conserved
      /\ rest \in Seq(Data) /\ queue \in Seq(Data) /\ taskCnt \in Nat
      /\ doing \in [Workers -> Data \cup {Nil}] /\ Nil \notin Data
      /\ worker \in [Workers -> WorkerStates]
  BY DEF TaskInv, TaskTypes
<1>3. /\ Tail(queue) \in Seq(Data) /\ Head(queue) \in Data /\ Len(Tail(queue)) = Len(queue) - 1
  BY <1>0, <1>2, CopiesTail
<1>4. Len(queue) \in Nat /\ Len(rest) \in Nat /\ Len(Tail(queue)) \in Nat
  BY <1>2, <1>3, LenProperties
<1>5. \/ /\ queue' = Tail(queue) /\ rest' = rest /\ taskCnt' = taskCnt
         /\ inStreamEmpty' = inStreamEmpty \/ (inStreamEmpty' = TRUE /\ rest = <<>>)
      \/ /\ Tail(queue) = <<>> /\ rest # <<>> /\ inStreamEmpty' = inStreamEmpty
         /\ ~ inStreamEmpty
         /\ queue' = Append(<<>>, Head(rest)) /\ rest' = Tail(rest) /\ taskCnt' = taskCnt + 1
  <2>1. CASE Len(queue) > 1 \/ inStreamEmpty
    BY <2>1 DEF TakeTask
  <2>2. CASE ~ (Len(queue) > 1 \/ inStreamEmpty)
    <3>1. Len(Tail(queue)) = 0
      BY <1>3, <1>4, <2>2
    <3>2. Tail(queue) = <<>>
      BY <1>3, <3>1, EmptySeq
    <3>3. CASE rest = <<>>
      BY <2>2, <3>2, <3>3 DEF TakeTask
    <3>4. CASE rest # <<>>
      <4>1. /\ queue' = <<Head(rest)>> /\ rest' = Tail(rest) /\ taskCnt' = taskCnt + 1
            /\ inStreamEmpty' = inStreamEmpty
        BY <2>2, <3>4 DEF TakeTask
      <4>2. <<Head(rest)>> = Append(<<>>, Head(rest))
        OBVIOUS
      <4> QED
        BY <2>2, <3>2, <3>4, <4>1, <4>2
    <3> QED
      BY <3>3, <3>4
  <2> QED
    BY <2>1, <2>2
<1>6. /\ rest' \in Seq(Data) /\ queue' \in Seq(Data) /\ taskCnt' \in Nat
      /\ inStreamEmpty' \in BOOLEAN /\ taskCnt' + Len(rest') = taskCnt + Len(rest)
      /\ inStreamEmpty' => rest' = <<>>
  <2>1. CASE /\ queue' = Tail(queue) /\ rest' = rest /\ taskCnt' = taskCnt
             /\ inStreamEmpty' = inStreamEmpty \/ (inStreamEmpty' = TRUE /\ rest = <<>>)
    <3>1. inStreamEmpty \in BOOLEAN
      BY DEF TaskInv, TaskTypes
    <3>2. inStreamEmpty => rest = <<>>
      BY <1>2 DEF StreamRight
    <3>3. Len(rest') = Len(rest)
      BY <2>1
    <3>4. inStreamEmpty' \in BOOLEAN /\ (inStreamEmpty' => rest' = <<>>)
      <4>1. CASE inStreamEmpty' = inStreamEmpty
        BY <2>1, <3>1, <3>2, <4>1
      <4>2. CASE inStreamEmpty' = TRUE /\ rest = <<>>
        BY <2>1, <4>2
      <4> QED
        BY <2>1, <4>1, <4>2
    <3>5. rest' \in Seq(Data) /\ queue' \in Seq(Data) /\ taskCnt' \in Nat
      BY <1>2, <1>3, <2>1
    <3> QED
      BY <2>1, <3>3, <3>4, <3>5
  <2>2. CASE /\ Tail(queue) = <<>> /\ rest # <<>> /\ inStreamEmpty' = inStreamEmpty
             /\ ~ inStreamEmpty
             /\ queue' = Append(<<>>, Head(rest)) /\ rest' = Tail(rest) /\ taskCnt' = taskCnt + 1
    <3>1. Tail(rest) \in Seq(Data) /\ Head(rest) \in Data /\ Len(Tail(rest)) = Len(rest) - 1
      BY <1>2, <2>2, CopiesTail
    <3>2. <<>> \in Seq(Data) /\ Append(<<>>, Head(rest)) \in Seq(Data)
      BY <3>1, EmptySeq, AppendProperties
    <3>3. taskCnt' \in Nat /\ taskCnt' + Len(rest') = taskCnt + Len(rest)
      <4>1. PICK n \in Nat : n = taskCnt
        BY <1>2
      <4>2. PICK l \in Nat : l = Len(rest)
        BY <1>4
      <4>3. taskCnt' = n + 1 /\ Len(rest') = l - 1
        BY <2>2, <3>1, <4>1, <4>2
      <4> QED
        BY <4>1, <4>2, <4>3
    <3>4. rest' \in Seq(Data) /\ queue' \in Seq(Data)
      BY <2>2, <3>1, <3>2
    <3>5. inStreamEmpty' \in BOOLEAN /\ ~ inStreamEmpty'
      BY <2>2 DEF TaskInv, TaskTypes
    <3> QED
      BY <2>2, <3>3, <3>4, <3>5
  <2> QED
    BY <1>5, <2>1, <2>2
<1>7. ASSUME NEW d \in Data
      PROVE  Copies(input', d) = Total(rest', queue', Hands(doing', d), outcome', d)
  <2>1. Copies(input, d) = Total(rest, queue, Hands(doing, d), outcome, d)
    BY <1>0, <1>2, ConservedTotal
  <2>2. PICK T : outcome \in Seq(T)
    BY DEF TaskInv, TaskTypes
  <2>3. Handed(doing, doing', doing[w], Head(queue)) /\ doing[w] # d
    BY <1>0, <1>2 DEF WorkerRight, Handed
  <2>4. Total(rest, Tail(queue), Hands(doing', d), outcome, d)
          = Total(rest, queue, Hands(doing, d), outcome, d)
    <3>1. rest \in Seq(Data) /\ queue \in Seq(Data) /\ FirstOf(queue, Head(queue), Tail(queue))
      BY <1>0, <1>2 DEF FirstOf
    <3> QED
      BY <2>2, <2>3, <3>1, TotalTaken
  <2>5. Total(rest', queue', Hands(doing', d), outcome, d)
          = Total(rest, Tail(queue), Hands(doing', d), outcome, d)
    <3>1. CASE rest' = rest /\ queue' = Tail(queue)
      BY <3>1
    <3>2. CASE ~ (rest' = rest /\ queue' = Tail(queue))
      <4>1. /\ rest # <<>> /\ rest' = Tail(rest)
            /\ queue' = Append(<<>>, Head(rest)) /\ Tail(queue) = <<>>
        BY <1>5, <3>2
      <4>2. Hands(doing', d) \in Nat
        BY <2>3, HandChanges
      <4> QED
        BY <1>2, <2>2, <4>1, <4>2, TotalLoaded
    <3> QED
      BY <3>1, <3>2
  <2> QED
    BY <1>0, <2>1, <2>4, <2>5
<1>8. Conserved'
  BY <1>1, <1>7 DEF Conserved, Total, InHand, Hands
<1>9. StreamRight'
  BY <1>0, <1>2, <1>6 DEF StreamRight
<1>10. WorkerRight'
  BY <1>0, <1>1, <1>2, <1>3 DEF WorkerRight
<1>11. TaskTypes'
  <2>1. doing' \in [Workers -> Data \cup {Nil}] /\ worker' \in [Workers -> WorkerStates]
    BY <1>0, <1>2, <1>3 DEF WorkerStates
  <2> QED
    BY <1>0, <1>1, <1>2, <1>6, <2>1 DEF TaskTypes
<1> QED
  BY <1>1, <1>8, <1>9, <1>10, <1>11 DEF TaskInv

\* A worker is done with its task: it has given a result, or puts it back.
WorkOver(w) ==
    /\ worker[w] = "run" /\ UNCHANGED stream /\ UNCHANGED <<idle, given, partial>>
    /\ doing' = [doing EXCEPT ![w] = Nil]
    /\ \/ worker' = [worker EXCEPT ![w] = "next"] /\ machine' = [machine EXCEPT ![w] = Nil]
       \/ worker' = [worker EXCEPT ![w] = "close"] /\ machine' = machine
    /\ \/ /\ queue' = Append(queue, doing[w]) /\ outcome' = outcome
       \/ /\ queue' = queue
          /\ \E r \in Answers : outcome' = Append(outcome, [data |-> doing[w], result |-> r])

\* Nothing is lost when a worker is done.
LEMMA WorkEnds ==
    ASSUME TaskInv, NEW w \in Workers, ~ redundant, WorkOver(w)
    PROVE  TaskInv'
<1>1. /\ Data' = Data /\ Owners' = Owners /\ ~ redundant'
      /\ UNCHANGED <<input, repeat, rest, taskCnt, inStreamEmpty>>
  BY TasksKept DEF stream, WorkOver
<1>2. /\ TaskTypes /\ WorkerRight /\ StreamRight /\ Conserved
      /\ rest \in Seq(Data) /\ queue \in Seq(Data) /\ taskCnt \in Nat
      /\ outcome \in Seq([data : Data, result : Answers])
      /\ doing \in [Workers -> Data \cup {Nil}] /\ Nil \notin Data
      /\ worker \in [Workers -> WorkerStates] /\ machine \in [Workers -> Machines \cup {Nil}]
  BY DEF TaskInv, TaskTypes
<1>3. doing[w] \in Data
  BY <1>2 DEF WorkerRight, WorkOver
<1>4. queue' \in Seq(Data) /\ outcome' \in Seq([data : Data, result : Answers])
  <2>1. Append(queue, doing[w]) \in Seq(Data)
    BY <1>2, <1>3, AppendProperties
  <2>2. ASSUME NEW r \in Answers
        PROVE  Append(outcome, [data |-> doing[w], result |-> r])
                   \in Seq([data : Data, result : Answers])
    BY <1>2, <1>3, AppendProperties
  <2> QED
    BY <1>2, <2>1, <2>2 DEF WorkOver
<1>5. ASSUME NEW d \in Data
      PROVE  Copies(input', d) = Total(rest', queue', Hands(doing', d), outcome', d)
  <2>1. Copies(input, d) = Total(rest, queue, Hands(doing, d), outcome, d)
    BY <1>2, ConservedTotal
  <2>2. Handed(doing, doing', doing[w], Nil) /\ Nil # d
    BY <1>2 DEF Handed, WorkOver
  <2>3. PICK T : T = [data : Data, result : Answers]
    OBVIOUS
  <2>4. rest \in Seq(Data) /\ queue \in Seq(Data) /\ outcome \in Seq(T)
    BY <1>2, <2>3
  <2>5. CASE queue' = Append(queue, doing[w]) /\ outcome' = outcome
    <3>1. Total(rest, Append(queue, doing[w]), Hands(doing', d), outcome, d)
            = Total(rest, queue, Hands(doing, d), outcome, d)
      BY <1>3, <2>2, <2>4, TotalRepeated
    <3> QED
      BY <1>1, <2>1, <2>5, <3>1
  <2>6. CASE queue' = queue /\ \E r \in Answers :
                outcome' = Append(outcome, [data |-> doing[w], result |-> r])
    <3>1. PICK y \in T : y.data = doing[w] /\ outcome' = Append(outcome, y)
      BY <1>3, <2>3, <2>6
    <3>2. Total(rest, queue, Hands(doing', d), Append(outcome, y), d)
            = Total(rest, queue, Hands(doing, d), outcome, d)
      BY <2>2, <2>4, <3>1, TotalDone
    <3> QED
      BY <1>1, <2>1, <2>6, <3>1, <3>2
  <2> QED
    BY <2>5, <2>6 DEF WorkOver
<1>6. Conserved'
  BY <1>1, <1>5 DEF Conserved, Total, InHand, Hands
<1>7. StreamRight'
  BY <1>1, <1>2 DEF StreamRight
<1>8. WorkerRight'
  BY <1>1, <1>2 DEF WorkerRight, WorkOver
<1>9. TaskTypes'
  <2>1. /\ doing' \in [Workers -> Data \cup {Nil}] /\ worker' \in [Workers -> WorkerStates]
        /\ machine' \in [Workers -> Machines \cup {Nil}]
    BY <1>2 DEF WorkerStates, WorkOver
  <2>2. queue' \in Seq(Data) /\ outcome' \in Seq([data : Data, result : Answers])
    BY <1>3, <1>4
  <2> QED
    BY <1>1, <1>2, <2>1, <2>2 DEF TaskTypes, WorkOver
<1> QED
  BY <1>1, <1>6, <1>7, <1>8, <1>9 DEF TaskInv

\* A task is done or fails, without a manager.
LEMMA PlainSteps ==
    ASSUME TaskInv, NEW w \in Workers,
           TaskRaises(w) \/ (~ redundant /\ \E r \in Answers : TaskDone(w, r))
    PROVE  TaskInv'
<1>1. CASE TaskRaises(w)
  <2>1. /\ ~ redundant /\ worker[w] = "run" /\ UNCHANGED stream
        /\ UNCHANGED <<idle, given, partial, machine, outcome>>
        /\ doing' = [doing EXCEPT ![w] = Nil]
        /\ worker' = [worker EXCEPT ![w] = "close"]
        /\ queue' = Append(queue, doing[w])
    BY <1>1 DEF TaskRaises, Repeated
  <2> QED
    BY <2>1, WorkEnds DEF WorkOver
<1>2. ASSUME ~ redundant, NEW r \in Answers, TaskDone(w, r) PROVE TaskInv'
  <2>1. /\ worker[w] = "run" /\ UNCHANGED stream
        /\ UNCHANGED <<idle, given, partial, queue>>
        /\ machine' = [machine EXCEPT ![w] = Nil]
        /\ doing' = [doing EXCEPT ![w] = Nil]
        /\ worker' = [worker EXCEPT ![w] = "next"]
        /\ outcome' = Append(outcome, [data |-> doing[w], result |-> r])
    BY <1>2 DEF TaskDone
  <2> QED
    BY <1>2, <2>1, WorkEnds DEF WorkOver
<1> QED
  BY <1>1, <1>2

-----------------------------------------------------------------------------
(* Providers that vote. *)

\* _task_for_provider() gives a remaining task that the provider was not given.
LEMMA TaskForProviderFinds ==
    ASSUME NEW p, NEW S, NEW q \in Seq(S), Nil \notin S
    PROVE  \/ TaskForProvider(p, q) = Nil
           \/ TaskForProvider(p, q) \in S \ given[p]
<1> DEFINE I == {i \in 1..Len(q) : q[i] \notin given[p]}
           i == SelectInSeq(q, LAMBDA d : d \notin given[p])
<1>1. Len(q) \in Nat /\ \A j \in 1..Len(q) : q[j] \in S
  BY LenProperties, ElementOfSeq
<1>2. i = IF I # {} THEN Min(I) ELSE 0
  BY DEF SelectInSeq
<1>3. TaskForProvider(p, q) = IF i = 0 THEN Nil ELSE q[i]
  BY DEF TaskForProvider
<1>4. CASE I # {}
  <2>1. I \in SUBSET (1..Len(q))
    OBVIOUS
  <2> HIDE DEF I, i
  <2>2. Min(I) \in I /\ Min(I) \in 1..Len(q)
    BY <1>1, <1>4, <2>1, Selected
  <2>3. i # 0 /\ i \in 1..Len(q) /\ i \in I
    BY <1>1, <1>2, <1>4, <2>2
  <2>4. q[i] \in S /\ q[i] \notin given[p]
    BY <1>1, <2>3 DEF I
  <2> QED
    BY <1>3, <2>3, <2>4
<1>5. CASE I = {}
  BY <1>2, <1>3, <1>5
<1> QED
  BY <1>4, <1>5

\* A provider is given a task.
GivenTo(w, p, d) ==
    /\ worker[w] = "ready" /\ p = Owner[machine[w]] /\ d \in Data \ given[p]
    /\ given' = [given EXCEPT ![p] = @ \cup {d}]
    /\ doing' = [doing EXCEPT ![w] = d]
    /\ worker' = [worker EXCEPT ![w] = "run"]
    /\ UNCHANGED stream /\ UNCHANGED <<queue, idle, machine, partial, outcome>>

\* The parts of TaskInv that a step with a manager uses.
VotingTypes ==
    /\ TaskTypes /\ WorkerRight /\ StreamRight /\ Conserved /\ VotesRight /\ ResultsBacked
    /\ Nil \notin Data
    /\ rest \in Seq(Data) /\ queue \in Seq(Data)
    /\ outcome \in Seq([data : Data, result : Answers])
    /\ partial \in Seq([data : Data, result : Answers, by : Owners])
    /\ given \in [Owners -> SUBSET Data]
    /\ doing \in [Workers -> Data \cup {Nil}]
    /\ worker \in [Workers -> WorkerStates] /\ machine \in [Workers -> Machines \cup {Nil}]
    /\ \A m \in Machines : Owner[m] \in Owners
    /\ \A v \in Workers : worker[v] \in {"ready", "run"} => machine[v] \in Machines
    /\ Len(partial) \in Nat
    /\ \A i \in 1..Len(partial) :
           partial[i].data \in Data /\ partial[i].by \in Owners /\ partial[i].result \in Answers

\* What TaskInv says with a manager.
LEMMA Voting == ASSUME TaskInv, redundant PROVE VotingTypes
<1>1. /\ TaskTypes /\ WorkerRight /\ StreamRight /\ Conserved /\ VotesRight /\ ResultsBacked
  BY DEF TaskInv
<1>2. partial \in Seq([data : Data, result : Answers, by : Owners])
  BY <1>1 DEF TaskTypes
<1>3. \A i \in 1..Len(partial) : partial[i] \in [data : Data, result : Answers, by : Owners]
  BY <1>2, ElementOfSeq
<1>4. Len(partial) \in Nat
  BY <1>2, LenProperties
<1>5. \A m \in Machines : Owner[m] \in Owners
  BY DEF Owners
<1> QED
  BY <1>1, <1>2, <1>3, <1>4, <1>5 DEF VotingTypes, TaskTypes, WorkerRight

\* A step with a manager that leaves the queue and the results alone keeps the books.
LEMMA BooksKept ==
    ASSUME StreamRight, Conserved, redundant, redundant' <=> redundant, Data' = Data,
           UNCHANGED <<input, rest, taskCnt, inStreamEmpty, queue, outcome>>
    PROVE  StreamRight' /\ Conserved'
<1>1. StreamRight'
  BY DEF StreamRight
<1>2. ASSUME NEW d \in Data
      PROVE  /\ Copies(input, d)' = Copies(input, d) /\ Copies(rest, d)' = Copies(rest, d)
             /\ Copies(queue, d)' = Copies(queue, d) /\ Count(outcome, d)' = Count(outcome, d)
  BY DEF Copies, Count
<1>3. ASSUME NEW d \in Data PROVE InHand(d) = 0 /\ InHand(d)' = 0
  BY DEF InHand
<1>4. Conserved'
  BY <1>2, <1>3 DEF Conserved
<1> QED
  BY <1>1, <1>4

\* A provider that is given a task has not voted on it.
LEMMA GivenStep ==
    ASSUME TaskInv, redundant, NEW w \in Workers, NEW p, NEW d, GivenTo(w, p, d)
    PROVE  TaskInv'
<1>1. /\ Data' = Data /\ Owners' = Owners /\ (redundant' <=> redundant)
      /\ UNCHANGED <<input, repeat, rest, taskCnt, inStreamEmpty>>
  BY TasksKept DEF GivenTo, stream
<1>2. VotingTypes
  BY Voting
<1>3. /\ machine[w] \in Machines /\ p \in Owners /\ d \in Data /\ d \notin given[p]
      /\ given[p] \in SUBSET Data
  BY <1>2 DEF VotingTypes, GivenTo
<1>4. /\ given' \in [Owners -> SUBSET Data] /\ given'[p] = given[p] \cup {d}
      /\ \A q \in Owners : given[q] \subseteq given'[q]
  BY <1>2, <1>3 DEF VotingTypes, GivenTo
<1>5. /\ \A v \in Workers : v # w => doing'[v] = doing[v] /\ worker'[v] = worker[v]
      /\ doing'[w] = d /\ worker'[w] = "run" /\ machine' = machine /\ partial' = partial
  BY <1>2 DEF VotingTypes, GivenTo
<1>6. VotesRight'
  <2>1. ASSUME NEW i \in 1..Len(partial) PROVE partial[i].data \in given'[partial[i].by]
    BY <1>2, <1>4 DEF VotesRight, VotingTypes
  <2>2. ~ HasVoted(partial, p, d)
    BY <1>2, <1>3 DEF HasVoted, VotesRight, VotingTypes
  <2>4. ASSUME NEW v \in Workers, worker'[v] = "run"
        PROVE  /\ doing'[v] \in given'[Owner[machine[v]]]
               /\ ~ HasVoted(partial, Owner[machine[v]], doing'[v])
    <3>1. CASE v = w
      BY <1>4, <1>5, <2>2, <3>1 DEF GivenTo
    <3>2. CASE v # w
      <4>1. worker[v] = "run" /\ doing'[v] = doing[v]
        BY <1>5, <2>4, <3>2
      <4>2. Owner[machine[v]] \in Owners
        BY <1>2, <4>1 DEF VotingTypes
      <4> QED
        BY <1>2, <1>4, <4>1, <4>2 DEF VotesRight, VotingTypes
    <3> QED
      BY <3>1, <3>2
  <2>5. ASSUME NEW v \in Workers, worker[v] = "run", doing[v] = d PROVE Owner[machine[v]] # p
    BY <1>2, <1>3, <2>5 DEF VotesRight, VotingTypes
  <2>6. ASSUME NEW u \in Workers, NEW v \in Workers, worker'[u] = "run", worker'[v] = "run",
               doing'[u] = doing'[v], Owner[machine[u]] = Owner[machine[v]]
        PROVE  u = v
    <3>1. CASE u = w \/ v = w
      BY <1>5, <2>5, <2>6, <3>1 DEF GivenTo
    <3>2. CASE u # w /\ v # w
      BY <1>2, <1>5, <2>6, <3>2 DEF VotesRight, VotingTypes
    <3> QED
      BY <3>1, <3>2
  <2>7. \A i, j \in 1..Len(partial) :
            partial[i].data = partial[j].data /\ partial[i].by = partial[j].by => i = j
    BY <1>2 DEF VotesRight, VotingTypes
  <2> QED
    BY <1>5, <2>1, <2>4, <2>6, <2>7 DEF VotesRight
<1>7. ResultsBacked'
  <2>1. ResultsBacked /\ UNCHANGED <<repeat, partial, outcome>>
    BY <1>1, <1>2 DEF VotingTypes, GivenTo
  <2> QED
    BY <2>1, BackedKept
<1>8. WorkerRight'
  <2>1. WorkerRight
    BY <1>2 DEF VotingTypes
  <2> QED
    BY <1>1, <1>3, <1>5, <2>1 DEF WorkerRight
<1>9. StreamRight' /\ Conserved'
  <2>1. StreamRight /\ Conserved /\ UNCHANGED <<queue, outcome>>
    BY <1>2 DEF VotingTypes, GivenTo
  <2> QED
    BY <1>1, <2>1, BooksKept
<1>10. TaskTypes'
  <2>1. doing' \in [Workers -> Data \cup {Nil}] /\ worker' \in [Workers -> WorkerStates]
    BY <1>2, <1>3 DEF VotingTypes, GivenTo, WorkerStates
  <2> QED
    BY <1>1, <1>2, <1>4, <2>1 DEF TaskTypes, VotingTypes, GivenTo
<1> QED
  BY <1>1, <1>6, <1>7, <1>8, <1>9, <1>10 DEF TaskInv

\* The turn of a worker: it is given a task, or there is none for its provider.
LEMMA ExecuteRedundantStep ==
    ASSUME TaskInv, NEW w \in Workers, ExecuteRedundant(w) PROVE TaskInv'
<1>1. worker[w] = "ready" /\ redundant
  BY DEF ExecuteRedundant
<1>2. VotingTypes
  BY <1>1, Voting
<1> DEFINE p == Owner[machine[w]]
           d == TaskForProvider(p, queue)
<1>3. d = Nil \/ d \in Data \ given[p]
  BY <1>2, TaskForProviderFinds DEF VotingTypes
<1>4. CASE d # Nil
  <2>1. /\ given' = [given EXCEPT ![p] = @ \cup {d}]
        /\ doing' = [doing EXCEPT ![w] = d]
        /\ worker' = [worker EXCEPT ![w] = "run"]
        /\ UNCHANGED stream /\ UNCHANGED <<queue, idle, machine, partial, outcome>>
    BY <1>4 DEF ExecuteRedundant
  <2>2. GivenTo(w, p, d)
    BY <1>1, <1>3, <1>4, <2>1 DEF GivenTo
  <2> HIDE DEF p, d
  <2> QED
    BY <1>1, <2>2, GivenStep
<1>5. CASE d = Nil
  <2>1. /\ UNCHANGED <<stream, queue, doing, given, partial, outcome>>
        /\ UNCHANGED <<idle, machine>>
        /\ worker' = [worker EXCEPT ![w] = "close"]
    BY <1>5 DEF ExecuteRedundant
  <2> HIDE DEF p, d
  <2>2. /\ idle' \in Seq(Machines)
        /\ worker' \in [Workers -> WorkerStates] /\ machine' \in [Workers -> Machines \cup {Nil}]
    BY <1>2, <2>1 DEF VotingTypes, TaskTypes, WorkerStates
  <2>3. WorkerRight'
    BY <1>1, <1>2, <2>1, TasksKept DEF WorkerRight, VotingTypes
  <2>4. \A v \in Workers : worker'[v] = "run" => worker[v] = "run" /\ machine'[v] = machine[v]
    BY <1>2, <2>1 DEF VotingTypes
  <2> QED
    BY <2>1, <2>2, <2>3, <2>4, PoolSteps
<1> QED
  BY <1>4, <1>5

\* A task that failed may be given to its provider again: it has not voted on it.
LEMMA RedundantRaisesStep ==
    ASSUME TaskInv, NEW w \in Workers, RedundantRaises(w) PROVE TaskInv'
<1>0. /\ worker[w] = "run" /\ redundant
      /\ given' = [given EXCEPT ![Owner[machine[w]]] = @ \ {doing[w]}]
      /\ doing' = [doing EXCEPT ![w] = Nil] /\ machine' = [machine EXCEPT ![w] = Nil]
      /\ worker' = [worker EXCEPT ![w] = "dead"]
      /\ UNCHANGED stream /\ UNCHANGED <<queue, idle, partial, outcome>>
  BY DEF RedundantRaises
<1>1. /\ Data' = Data /\ Owners' = Owners /\ (redundant' <=> redundant)
      /\ UNCHANGED <<input, repeat, rest, taskCnt, inStreamEmpty>>
  BY <1>0, TasksKept DEF stream
<1>2. VotingTypes
  BY <1>0, Voting
<1> DEFINE p == Owner[machine[w]]
           d == doing[w]
<1>3. p \in Owners /\ given[p] \in SUBSET Data
  BY <1>0, <1>2 DEF VotingTypes
<1>4. /\ given' \in [Owners -> SUBSET Data]
      /\ \A q \in Owners : \A e : e \in given[q] /\ ~ (q = p /\ e = d) => e \in given'[q]
  BY <1>0, <1>2, <1>3 DEF VotingTypes
<1>5. \A v \in Workers : worker'[v] = "run" =>
          v # w /\ worker[v] = "run" /\ doing'[v] = doing[v] /\ machine'[v] = machine[v]
  BY <1>0, <1>2 DEF VotingTypes
<1>6. VotesRight'
  <2>1. ~ HasVoted(partial, p, d)
    BY <1>0, <1>2 DEF VotesRight, VotingTypes
  <2>2. ASSUME NEW i \in 1..Len(partial) PROVE partial[i].data \in given'[partial[i].by]
    <3>1. ~ (partial[i].by = p /\ partial[i].data = d)
      BY <2>1 DEF HasVoted
    <3> QED
      BY <1>2, <1>4, <3>1 DEF VotesRight, VotingTypes
  <2>3. ASSUME NEW v \in Workers, worker'[v] = "run"
        PROVE  /\ doing'[v] \in given'[Owner[machine'[v]]]
               /\ ~ HasVoted(partial, Owner[machine'[v]], doing'[v])
    <3>1. /\ v # w /\ worker[v] = "run" /\ doing'[v] = doing[v] /\ machine'[v] = machine[v]
      BY <1>5, <2>3
    <3>2. /\ ~ (Owner[machine[v]] = p /\ doing[v] = d) /\ Owner[machine[v]] \in Owners
          /\ doing[v] \in given[Owner[machine[v]]] /\ ~ HasVoted(partial, Owner[machine[v]], doing[v])
      BY <1>0, <1>2, <3>1 DEF VotesRight, VotingTypes
    <3>3. doing'[v] \in given'[Owner[machine'[v]]]
      BY <1>4, <3>1, <3>2
    <3>4. ~ HasVoted(partial, Owner[machine'[v]], doing'[v])
      BY <3>1, <3>2
    <3> QED
      BY <3>3, <3>4
  <2>4. ASSUME NEW u \in Workers, NEW v \in Workers, worker'[u] = "run", worker'[v] = "run",
               doing'[u] = doing'[v], Owner[machine'[u]] = Owner[machine'[v]]
        PROVE  u = v
    BY <1>2, <1>5, <2>4 DEF VotesRight, VotingTypes
  <2>5. \A i, j \in 1..Len(partial) :
            partial[i].data = partial[j].data /\ partial[i].by = partial[j].by => i = j
    BY <1>2 DEF VotesRight, VotingTypes
  <2>6. partial' = partial
    BY <1>0
  <2> QED
    BY <2>2, <2>3, <2>4, <2>5, <2>6 DEF VotesRight
<1>7. ResultsBacked'
  <2>1. ResultsBacked /\ UNCHANGED <<repeat, partial, outcome>>
    BY <1>0, <1>1, <1>2 DEF VotingTypes
  <2> QED
    BY <2>1, BackedKept
<1>8. WorkerRight'
  BY <1>0, <1>1, <1>2 DEF WorkerRight, VotingTypes
<1>9. StreamRight' /\ Conserved'
  <2>1. StreamRight /\ Conserved /\ redundant /\ UNCHANGED <<queue, outcome>>
    BY <1>0, <1>2 DEF VotingTypes
  <2> QED
    BY <1>1, <2>1, BooksKept
<1>10. TaskTypes'
  <2>1. /\ doing' \in [Workers -> Data \cup {Nil}] /\ worker' \in [Workers -> WorkerStates]
        /\ machine' \in [Workers -> Machines \cup {Nil}]
    BY <1>0, <1>2 DEF VotingTypes, WorkerStates
  <2> QED
    BY <1>0, <1>1, <1>2, <1>4, <2>1 DEF TaskTypes, VotingTypes
<1> QED
  BY <1>0, <1>1, <1>6, <1>7, <1>8, <1>9, <1>10 DEF TaskInv

\* A provider comes to a result for a task that still wants answers.
VoteCast(w, r) ==
    /\ worker[w] = "run"
    /\ partial' = Append(partial, [data |-> doing[w], result |-> r, by |-> Owner[machine[w]]])
    /\ worker' = [worker EXCEPT ![w] = "next"]
    /\ doing' = [doing EXCEPT ![w] = Nil] /\ machine' = [machine EXCEPT ![w] = Nil]
    /\ UNCHANGED stream /\ UNCHANGED <<idle, given>>

\* A vote keeps what came before it, and no provider votes on a task twice.
LEMMA VotesGrow ==
    ASSUME TaskInv, redundant, NEW w \in Workers, NEW r \in Answers, VoteCast(w, r)
    PROVE  /\ VotesRight'
           /\ partial' \in Seq([data : Data, result : Answers, by : Owners])
           /\ Len(partial') = Len(partial) + 1
           /\ \A i \in 1..Len(partial) : partial'[i] = partial[i]
           /\ partial'[Len(partial) + 1]
                = [data |-> doing[w], result |-> r, by |-> Owner[machine[w]]]
<1> DEFINE p == Owner[machine[w]]
           d == doing[w]
<1>1. VotingTypes
  BY Voting
<1>2. p \in Owners /\ d \in Data /\ d \in given[p] /\ ~ HasVoted(partial, p, d)
  BY <1>1 DEF VotingTypes, VotesRight, VoteCast, WorkerRight
<1>3. /\ partial' \in Seq([data : Data, result : Answers, by : Owners])
      /\ Len(partial') = Len(partial) + 1
      /\ \A i \in 1..Len(partial) : partial'[i] = partial[i]
      /\ partial'[Len(partial) + 1] = [data |-> d, result |-> r, by |-> p]
  BY <1>1, <1>2, AppendProperties DEF VotingTypes, VoteCast
<1>4. \A i \in 1..Len(partial') : i \in 1..Len(partial) \/ i = Len(partial) + 1
  BY <1>1, <1>3 DEF VotingTypes
<1>5. ASSUME NEW q, NEW e, HasVoted(partial', q, e)
      PROVE  HasVoted(partial, q, e) \/ (q = p /\ e = d)
  BY <1>3, <1>4, <1>5 DEF HasVoted
<1>6. \A v \in Workers : worker'[v] = "run" =>
          v # w /\ worker[v] = "run" /\ doing'[v] = doing[v] /\ machine'[v] = machine[v]
  BY <1>1 DEF VotingTypes, VoteCast
<1>7. given' = given
  BY DEF VoteCast
<1>8. ASSUME NEW i \in 1..Len(partial'), NEW j \in 1..Len(partial'),
             partial'[i].data = partial'[j].data, partial'[i].by = partial'[j].by
      PROVE  i = j
  <2>1. CASE i \in 1..Len(partial) /\ j \in 1..Len(partial)
    BY <1>1, <1>3, <1>8, <2>1 DEF VotesRight, VotingTypes
  <2>2. \A k \in 1..Len(partial) : ~ (partial[k].data = d /\ partial[k].by = p)
    BY <1>2 DEF HasVoted
  <2>3. CASE i \in 1..Len(partial) /\ j = Len(partial) + 1
    BY <1>3, <1>8, <2>2, <2>3
  <2>4. CASE j \in 1..Len(partial) /\ i = Len(partial) + 1
    BY <1>3, <1>8, <2>2, <2>4
  <2> QED
    BY <1>4, <2>1, <2>3, <2>4
<1>9. ASSUME NEW i \in 1..Len(partial') PROVE partial'[i].data \in given[partial'[i].by]
  <2>1. CASE i \in 1..Len(partial)
    BY <1>1, <1>3, <2>1 DEF VotesRight, VotingTypes
  <2>2. CASE i = Len(partial) + 1
    BY <1>2, <1>3, <2>2
  <2> QED
    BY <1>4, <2>1, <2>2
<1>10. ASSUME NEW v \in Workers, worker'[v] = "run"
       PROVE  /\ doing'[v] \in given[Owner[machine'[v]]]
              /\ ~ HasVoted(partial', Owner[machine'[v]], doing'[v])
  <2>1. /\ v # w /\ worker[v] = "run" /\ doing'[v] = doing[v] /\ machine'[v] = machine[v]
    BY <1>6, <1>10
  <2>2. /\ doing[v] \in given[Owner[machine[v]]]
        /\ ~ HasVoted(partial, Owner[machine[v]], doing[v])
        /\ ~ (Owner[machine[v]] = p /\ doing[v] = d)
    BY <1>1, <2>1 DEF VotesRight, VotingTypes, VoteCast
  <2> QED
    BY <1>5, <2>1, <2>2
<1>11. ASSUME NEW u \in Workers, NEW v \in Workers, worker'[u] = "run", worker'[v] = "run",
              doing'[u] = doing'[v], Owner[machine'[u]] = Owner[machine'[v]]
       PROVE  u = v
  BY <1>1, <1>6, <1>11 DEF VotesRight, VotingTypes
<1>12. VotesRight'
  BY <1>7, <1>8, <1>9, <1>10, <1>11 DEF VotesRight
<1> QED
  BY <1>3, <1>12

\* No provider votes on a task twice.
OneVote(ballots) == \A i, j \in 1..Len(ballots) :
    ballots[i].data = ballots[j].data /\ ballots[i].by = ballots[j].by => i = j

\* Of the votes on a task, as many providers as votes.
LEMMA VotersCounted ==
    ASSUME NEW S, NEW ballots \in Seq(S), OneVote(ballots), NEW d
    PROVE  Cardinality(By(ballots, d)) = Count(ballots, d)
<1> DEFINE I == {i \in DOMAIN ballots : ballots[i].data = d}
           T == By(ballots, d)
           f == [i \in I |-> ballots[i].by]
<1>1. DOMAIN ballots = 1..Len(ballots) /\ Len(ballots) \in Nat
  BY LenProperties
<1>2. IsFiniteSet(I)
  <2>1. IsFiniteSet(1..Len(ballots))
    BY <1>1, FS_Interval
  <2>2. I \in SUBSET (1..Len(ballots))
    BY <1>1
  <2> QED
    BY <2>1, <2>2, FS_Subset
<1>3. \A x, y \in I : f[x] = f[y] => x = y
  BY <1>1 DEF OneVote
<1>4. \A t \in T : \E x \in I : f[x] = t
  <2> SUFFICES ASSUME NEW t \in T PROVE \E x \in I : ballots[x].by = t
    OBVIOUS
  <2>1. PICK b \in Range(ballots) : b.data = d /\ b.by = t
    BY DEF By
  <2>2. PICK i \in DOMAIN ballots : ballots[i] = b
    BY <2>1 DEF Range
  <2> QED
    BY <2>1, <2>2
<1>5. f \in [I -> T]
  <2> SUFFICES ASSUME NEW i \in I PROVE ballots[i].by \in T
    OBVIOUS
  <2>1. ballots[i] \in Range(ballots) /\ ballots[i].data = d
    BY DEF Range
  <2> QED
    BY <2>1 DEF By
<1> HIDE DEF I, T, f
<1>6. Cardinality(T) = Cardinality(I)
  BY <1>2, <1>3, <1>4, <1>5, SameSize
<1> QED
  BY <1>6 DEF I, T, Count

\* One more at the end of a list.
Longer(p, q) == Len(q) = Len(p) + 1 /\ \A i \in 1..Len(p) : q[i] = p[i]

\* A result that enough providers agreed on stays so when another one votes.
LEMMA BackingStays ==
    ASSUME NEW S, NEW p \in Seq(S), NEW q \in Seq(S), Longer(p, q), NEW n \in 0..Len(p)
    PROVE  n \in 0..Len(q) /\ SubSeq(q, 1, n) = SubSeq(p, 1, n)
<1>1. Len(p) \in Nat /\ Len(q) \in Nat /\ Len(q) = Len(p) + 1
      /\ \A i \in 1..Len(p) : q[i] = p[i]
  BY LenProperties DEF Longer
<1>2. /\ \A i \in 1..n : p[i] \in S /\ i \in 1..Len(p)
      /\ \A i \in 1..n : q[i] \in S
  BY <1>1, ElementOfSeq
<1>3. /\ SubSeq(p, 1, n) \in Seq(S) /\ Len(SubSeq(p, 1, n)) = n
      /\ \A i \in 1..n : SubSeq(p, 1, n)[i] = p[i]
      /\ SubSeq(q, 1, n) \in Seq(S) /\ Len(SubSeq(q, 1, n)) = n
      /\ \A i \in 1..n : SubSeq(q, 1, n)[i] = q[i]
  BY <1>1, <1>2, SubSeqProperties
<1>4. SubSeq(q, 1, n) = SubSeq(p, 1, n)
  BY <1>1, <1>2, <1>3, SeqEqual
<1> QED
  BY <1>1, <1>4

\* The worker of a manager is done with its task.
VoterDone(w) ==
    /\ worker[w] = "run" /\ UNCHANGED stream /\ UNCHANGED <<idle, given>>
    /\ worker' = [worker EXCEPT ![w] = "next"]
    /\ doing' = [doing EXCEPT ![w] = Nil] /\ machine' = [machine EXCEPT ![w] = Nil]

\* The votes and the results were looked at, the rest follows.
LEMMA VoterDoneStep ==
    ASSUME TaskInv, redundant, NEW w \in Workers, VoterDone(w),
           queue' \in Seq(Data), outcome' \in Seq([data : Data, result : Answers]),
           partial' \in Seq([data : Data, result : Answers, by : Owners]),
           \A d \in Data : Total(rest, queue', 0, outcome', d) = Total(rest, queue, 0, outcome, d),
           VotesRight', ResultsBacked'
    PROVE  TaskInv'
<1>1. /\ Data' = Data /\ Owners' = Owners /\ (redundant' <=> redundant)
      /\ UNCHANGED <<input, repeat, rest, taskCnt, inStreamEmpty>>
  BY TasksKept DEF stream, VoterDone
<1>2. VotingTypes
  BY Voting
<1>3. StreamRight' /\ WorkerRight'
  BY <1>1, <1>2 DEF VotingTypes, StreamRight, WorkerRight, VoterDone
<1>4. Conserved'
  BY <1>1, <1>2 DEF VotingTypes, Conserved, InHand, Total
<1>5. TaskTypes'
  <2>1. /\ doing' \in [Workers -> Data \cup {Nil}] /\ worker' \in [Workers -> WorkerStates]
        /\ machine' \in [Workers -> Machines \cup {Nil}]
    BY <1>2 DEF VotingTypes, WorkerStates, VoterDone
  <2> QED
    BY <1>1, <1>2, <2>1 DEF TaskTypes, VotingTypes, VoterDone
<1> QED
  BY <1>1, <1>3, <1>4, <1>5 DEF TaskInv

\* A result comes too late.
LEMMA LateResult ==
    ASSUME TaskInv, redundant, NEW w \in Workers, VoterDone(w),
           UNCHANGED <<queue, partial, outcome>>
    PROVE  TaskInv'
<1>1. VotingTypes
  BY Voting
<1>2. \A v \in Workers : worker'[v] = "run" =>
          v # w /\ worker[v] = "run" /\ doing'[v] = doing[v] /\ machine'[v] = machine[v]
  BY <1>1 DEF VotingTypes, VoterDone
<1>3. VotesRight'
  <2>1. given' = given /\ partial' = partial
    BY DEF VoterDone
  <2> QED
    BY <1>1, <1>2, <2>1 DEF VotesRight, VotingTypes
<1>4. ResultsBacked'
  <2>1. repeat' = repeat /\ ResultsBacked
    BY <1>1 DEF VoterDone, stream, VotingTypes
  <2> QED
    BY <2>1, BackedKept
<1>5. \A d \in Data : Total(rest, queue', 0, outcome', d) = Total(rest, queue, 0, outcome, d)
  OBVIOUS
<1> QED
  BY <1>1, <1>3, <1>4, <1>5, VoterDoneStep DEF VotingTypes

\* The task may have its result with the new vote.
Resolved(w, ballots) ==
    LET first == SelectInSeq(ballots, LAMBDA b :
                     b.data = doing[w] /\ Agreed(ballots, doing[w], b.result)) IN
    \/ UNCHANGED <<queue, outcome>>
    \/ /\ first # 0 /\ doing[w] \in Range(queue)
       /\ queue' = RemoveAt(queue, SelectInSeq(queue, LAMBDA e : e = doing[w]))
       /\ outcome' = Append(outcome, [data |-> doing[w], result |-> ballots[first].result])

\* A provider votes.
LEMMA VoteStep ==
    ASSUME TaskInv, redundant, NEW w \in Workers, NEW r \in Answers, VoteCast(w, r),
           Resolved(w, partial')
    PROVE  TaskInv'
<1> DEFINE d == doing[w]
           I == {i \in 1..Len(partial') :
                   partial'[i].data = d /\ Agreed(partial', d, partial'[i].result)}
           J == {i \in 1..Len(queue) : queue[i] = d}
           first == SelectInSeq(partial', LAMBDA b :
                        b.data = d /\ Agreed(partial', d, b.result))
           k == SelectInSeq(queue, LAMBDA e : e = d)
<1>0. VotingTypes
  BY Voting
<1>1. /\ VotesRight'
      /\ partial' \in Seq([data : Data, result : Answers, by : Owners])
      /\ Len(partial') = Len(partial) + 1
      /\ \A i \in 1..Len(partial) : partial'[i] = partial[i]
  BY VotesGrow
<1>2. /\ repeat' = repeat /\ VoterDone(w) /\ d \in Data
      /\ (redundant' <=> redundant)
  BY <1>0 DEF VoteCast, VoterDone, stream, redundant, VotingTypes, WorkerRight
<1>3. ASSUME NEW i \in DOMAIN outcome
      PROVE  \E n \in 0..Len(partial') :
                 Backs(repeat, SubSeq(partial', 1, n), outcome[i].data, outcome[i].result)
  <2>1. AllBacked(repeat, partial, outcome)
    BY <1>0, BackedMeaning DEF VotingTypes
  <2>2. PICK n \in 0..Len(partial) :
            Backs(repeat, SubSeq(partial, 1, n), outcome[i].data, outcome[i].result)
    BY <2>1 DEF AllBacked
  <2>3. n \in 0..Len(partial') /\ SubSeq(partial', 1, n) = SubSeq(partial, 1, n)
    <3>1. PICK S : S = [data : Data, result : Answers, by : Owners]
      OBVIOUS
    <3>2. partial \in Seq(S) /\ partial' \in Seq(S) /\ Longer(partial, partial')
      BY <1>0, <1>1, <3>1 DEF VotingTypes, Longer
    <3> QED
      BY <3>2, BackingStays
  <2> QED
    BY <2>2, <2>3
<1>4. CASE UNCHANGED <<queue, outcome>>
  <2>1. ResultsBacked'
    BY <1>2, <1>3, <1>4, BackedMeaning DEF AllBacked
  <2>2. /\ queue' \in Seq(Data) /\ outcome' \in Seq([data : Data, result : Answers])
        /\ \A e \in Data : Total(rest, queue', 0, outcome', e) = Total(rest, queue, 0, outcome, e)
    BY <1>0, <1>4 DEF VotingTypes
  <2> QED
    BY <1>1, <1>2, <2>1, <2>2, VoterDoneStep
<1>5. CASE /\ first # 0 /\ d \in Range(queue)
           /\ queue' = RemoveAt(queue, k)
           /\ outcome' = Append(outcome, [data |-> d, result |-> partial'[first].result])
  <2>1. Len(partial') \in Nat /\ Len(queue) \in Nat /\ queue \in Seq(Data)
        /\ DOMAIN queue = 1..Len(queue)
    BY <1>0, <1>1, LenProperties DEF VotingTypes
  <2>2. /\ first = IF I # {} THEN Min(I) ELSE 0
        /\ k = IF J # {} THEN Min(J) ELSE 0
    BY DEF SelectInSeq
  <2>3. first \in I /\ first \in 1..Len(partial')
    <3>1. I # {} /\ I \in SUBSET (1..Len(partial'))
      BY <1>5, <2>2
    <3> HIDE DEF I, first
    <3> QED
      BY <2>1, <2>2, <3>1, Selected
  <2>4. k \in J /\ k \in 1..Len(queue)
    <3>1. PICK i \in DOMAIN queue : queue[i] = d
      BY <1>5 DEF Range
    <3>2. J # {} /\ J \in SUBSET (1..Len(queue))
      BY <2>1, <3>1
    <3> HIDE DEF J, k
    <3> QED
      BY <2>1, <2>2, <3>2, Selected
  <2>5. /\ partial'[first].data = d /\ Agreed(partial', d, partial'[first].result)
        /\ queue[k] = d
    BY <2>3, <2>4
  <2>6. partial'[first].result \in Answers
    <3> HIDE DEF first
    <3>1. partial'[first] \in [data : Data, result : Answers, by : Owners]
      BY <1>1, <2>3, ElementOfSeq
    <3> QED
      BY <3>1
  <2> HIDE DEF first, k, I, J
  <2>7. PICK y \in [data : Data, result : Answers] :
            y.data = d /\ y.result = partial'[first].result /\ outcome' = Append(outcome, y)
    BY <1>2, <1>5, <2>6
  <2>8. /\ outcome' \in Seq([data : Data, result : Answers])
        /\ Len(outcome') = Len(outcome) + 1 /\ Len(outcome) \in Nat
        /\ DOMAIN outcome' = 1..(Len(outcome) + 1) /\ DOMAIN outcome = 1..Len(outcome)
        /\ \A i \in 1..Len(outcome) : outcome'[i] = outcome[i]
        /\ outcome'[Len(outcome) + 1] = y
    BY <1>0, <2>7, AppendProperties, LenProperties DEF VotingTypes
  <2>9. queue' \in Seq(Data)
    BY <1>5, <2>1, <2>4, RemoveAtProperties
  <2>10. ASSUME NEW e \in Data
         PROVE  Total(rest, queue', 0, outcome', e) = Total(rest, queue, 0, outcome, e)
    <3>1. PICK T, h : T = [data : Data, result : Answers] /\ h = 0
      OBVIOUS
    <3>2. rest \in Seq(Data) /\ queue \in Seq(Data) /\ outcome \in Seq(T) /\ y \in T
          /\ ElementAt(queue, k, y.data) /\ h \in Nat
      BY <1>0, <2>4, <2>5, <2>7, <3>1 DEF VotingTypes, ElementAt
    <3>3. Total(rest, RemoveAt(queue, k), h, Append(outcome, y), e)
            = Total(rest, queue, h, outcome, e)
      BY <3>2, TotalResult
    <3> QED
      BY <1>5, <2>7, <3>1, <3>3
  <2>11. /\ Backs(repeat, SubSeq(partial', 1, Len(partial')), y.data, y.result)
         /\ Len(partial') \in 0..Len(partial')
    <3>1. PICK b, T : b = partial' /\ T = [data : Data, result : Answers, by : Owners]
      OBVIOUS
    <3>2. /\ b \in Seq(T) /\ Len(b) \in Nat
          /\ OneVote(b)
      BY <1>1, <2>1, <3>1 DEF VotesRight, OneVote
    <3>3. Cardinality(By(b, d)) = Count(b, d)
      BY <3>2, VotersCounted
    <3>4. SubSeq(b, 1, Len(b)) = b
      <4>2. \A i \in 1..Len(b) : b[i] \in T
        BY <3>2, ElementOfSeq
      <4>3. /\ SubSeq(b, 1, Len(b)) \in Seq(T)
            /\ Len(SubSeq(b, 1, Len(b))) = Len(b)
            /\ \A i \in 1..Len(b) : SubSeq(b, 1, Len(b))[i] = b[i]
        BY <3>2, <4>2, SubSeqProperties
      <4> QED
        BY <3>2, <4>3, SeqEqual
    <3>5. Backs(repeat, b, d, partial'[first].result)
      BY <2>5, <3>1, <3>3 DEF Agreed, Backs
    <3> QED
      <4>1. SubSeq(partial', 1, Len(partial')) = partial' /\ b = partial'
        BY <3>1, <3>4
      <4>2. Len(partial') \in 0..Len(partial')
        BY <2>1
      <4>3. y.data = d /\ y.result = partial'[first].result
        BY <2>7
      <4> QED
        BY <3>5, <4>1, <4>2, <4>3
  <2>12. ResultsBacked'
    <3>1. ASSUME NEW i \in DOMAIN outcome'
          PROVE  \E n \in 0..Len(partial') :
                     Backs(repeat, SubSeq(partial', 1, n), outcome'[i].data, outcome'[i].result)
      <4>1. CASE i \in 1..Len(outcome)
        BY <1>3, <2>8, <4>1
      <4>2. CASE i = Len(outcome) + 1
        BY <2>8, <2>11, <4>2
      <4> QED
        BY <2>8, <4>1, <4>2
    <3> QED
      BY <1>2, <3>1, BackedMeaning DEF AllBacked
  <2> QED
    BY <1>1, <1>2, <2>8, <2>9, <2>10, <2>12, VoterDoneStep
<1> QED
  BY <1>4, <1>5 DEF Resolved

\* A task is done with a manager: late, or as a vote.
LEMMA TaskDoneRedundant ==
    ASSUME TaskInv, redundant, NEW w \in Workers, NEW r \in Answers, TaskDone(w, r)
    PROVE  TaskInv'
<1> DEFINE d == doing[w]
           p == Owner[machine[w]]
           ballots == Append(partial, [data |-> d, result |-> r, by |-> p])
           first == SelectInSeq(ballots, LAMBDA b : b.data = d /\ Agreed(ballots, d, b.result))
<1>1. VoterDone(w) /\ Process(d, r, p)
  BY DEF TaskDone, VoterDone
<1>2. CASE d \notin Range(queue)
  <2>1. UNCHANGED <<queue, partial, outcome>>
    BY <1>1, <1>2 DEF Process
  <2> QED
    BY <1>1, <2>1, LateResult
<1>3. CASE d \in Range(queue)
  <2>1. /\ partial' = ballots
        /\ IF first = 0 THEN UNCHANGED <<queue, outcome>>
           ELSE /\ queue' = RemoveAt(queue, SelectInSeq(queue, LAMBDA e : e = d))
                /\ outcome' = Append(outcome, [data |-> d, result |-> ballots[first].result])
    BY <1>1, <1>3 DEF Process
  <2>2. VoteCast(w, r)
    BY <1>1, <2>1 DEF VoterDone, VoteCast
  <2>3. Resolved(w, ballots)
    BY <1>3, <2>1 DEF Resolved
  <2> HIDE DEF d, p, ballots, first
  <2>4. Resolved(w, partial')
    BY <2>1, <2>3
  <2> QED
    BY <2>2, <2>4, VoteStep
<1> QED
  BY <1>2, <1>3

\* Every step of the workers and of the pool.
LEMMA TaskStep == ASSUME TaskInv, [TaskNext]_taskVars PROVE TaskInv'
<1>1. CASE UNCHANGED taskVars
  <2>1. /\ UNCHANGED <<stream, queue, doing, given, partial, outcome>>
        /\ UNCHANGED <<idle, worker, machine>>
    BY <1>1 DEF taskVars, stream
  <2>2. /\ idle' \in Seq(Machines)
        /\ worker' \in [Workers -> WorkerStates] /\ machine' \in [Workers -> Machines \cup {Nil}]
    BY <2>1 DEF TaskInv, TaskTypes
  <2>3. WorkerRight'
    BY <2>1, TasksKept DEF TaskInv, WorkerRight
  <2> QED
    BY <2>1, <2>2, <2>3, PoolSteps
<1>2. ASSUME NEW m \in Machines, Filter(m) \/ Put(m) \/ NoMoreActivity(m) \/ Cleanup(m)
      PROVE  TaskInv'
  BY <1>2, PoolActions
<1>3. ASSUME NEW w \in Workers,
             \/ NextTurn(w) \/ Ask(w) \/ StreamEnds(w) \/ Get(w) \/ ExecuteTask(w) \/ CloseAll(w)
             \/ \E m \in Machines : FromStream(w, m)
      PROVE  TaskInv'
  BY <1>3, PoolActions
<1>4. ASSUME NEW w \in Workers, TakeTask(w) PROVE TaskInv'
  BY <1>4, TakeTaskStep
<1>5. ASSUME NEW w \in Workers, ExecuteRedundant(w) PROVE TaskInv'
  BY <1>5, ExecuteRedundantStep
<1>6. ASSUME NEW w \in Workers, TaskRaises(w) PROVE TaskInv'
  BY <1>6, PlainSteps
<1>7. ASSUME NEW w \in Workers, RedundantRaises(w) PROVE TaskInv'
  BY <1>7, RedundantRaisesStep
<1>8. ASSUME NEW w \in Workers, NEW r \in Answers, TaskDone(w, r) PROVE TaskInv'
  <2>1. CASE redundant
    BY <1>8, <2>1, TaskDoneRedundant
  <2>2. CASE ~ redundant
    BY <1>8, <2>2, PlainSteps
  <2> QED
    BY <2>1, <2>2
<1> QED
  BY <1>1, <1>2, <1>3, <1>4, <1>5, <1>6, <1>7, <1>8 DEF TaskNext

\* The stream has loaded its first task, or a manager all of them.
LEMMA TasksAtStart ==
    ASSUME TaskInit
    PROVE  /\ input \in Seq(Data) /\ Nil \notin Data
           /\ rest \in Seq(Data) /\ queue \in Seq(Data) /\ taskCnt \in Nat
           /\ inStreamEmpty \in BOOLEAN /\ StreamRight
           /\ \A d \in Data : Copies(input, d) = Total(rest, queue, 0, <<>>, d)
<1>1. /\ input \in Seq(Data) /\ Nil \notin Data
  BY TaskApiAssumption DEF TaskInit, Data
<1>2. /\ queue = IF redundant THEN input ELSE SubSeq(input, 1, Min2(1, Len(input)))
      /\ rest = IF redundant \/ input = <<>> THEN <<>> ELSE Tail(input)
      /\ taskCnt = Len(queue)
      /\ inStreamEmpty = (redundant \/ input = <<>>)
  BY DEF TaskInit
<1>3. <<>> \in Seq(Data) /\ Len(<<>>) = 0 /\ Len(input) \in Nat
  BY <1>1, EmptySeq, LenProperties
<1>4. \A d : Copies(<<>>, d) = 0 /\ Count(<<>>, d) = 0
  BY CopiesEmpty, CountEmpty
<1>5. CASE redundant \/ input = <<>>
  <2>1. rest = <<>> /\ queue = input /\ inStreamEmpty = TRUE
    <3>1. CASE redundant
      BY <1>2, <3>1
    <3>2. CASE ~ redundant /\ input = <<>>
      <4>1. Len(input) = 0 /\ Min2(1, Len(input)) = 0
        BY <1>3, <3>2 DEF Min2
      <4>2. queue = SubSeq(input, 1, 0)
        BY <1>2, <3>2, <4>1
      <4>3. SubSeq(input, 1, 0) \in Seq(Data) /\ Len(SubSeq(input, 1, 0)) = 0
        BY <1>1, SubSeqProperties
      <4>4. queue = <<>>
        BY <4>2, <4>3, EmptySeq
      <4> QED
        BY <1>2, <3>2, <4>4
    <3> QED
      BY <1>5, <3>1, <3>2
  <2>2. ASSUME NEW d \in Data PROVE Copies(input, d) = Total(rest, queue, 0, <<>>, d)
    <3>1. Copies(input, d) \in Nat
      BY <1>1, CopiesType
    <3> QED
      BY <1>4, <2>1, <3>1 DEF Total
  <2> QED
    <3>1. taskCnt = Len(input) /\ Len(rest) = 0
      BY <1>2, <1>3, <2>1
    <3>2. StreamRight
      BY <1>3, <2>1, <3>1 DEF StreamRight
    <3> QED
      BY <1>1, <1>3, <2>1, <2>2, <3>1, <3>2
<1>6. CASE ~ (redundant \/ input = <<>>)
  <2>1. /\ Tail(input) \in Seq(Data) /\ Head(input) \in Data /\ Head(input) = input[1]
        /\ Len(Tail(input)) = Len(input) - 1 /\ Len(input) >= 1
    BY <1>1, <1>3, <1>6, HeadTailProperties, EmptySeq
  <2>2. queue = Append(<<>>, Head(input)) /\ Len(queue) = 1 /\ queue \in Seq(Data)
    <3>1. Min2(1, Len(input)) = 1
      BY <1>3, <2>1 DEF Min2
    <3>2. queue = SubSeq(input, 1, 1)
      BY <1>2, <1>6, <3>1
    <3>3. /\ SubSeq(input, 1, 1) \in Seq(Data) /\ Len(SubSeq(input, 1, 1)) = 1
          /\ SubSeq(input, 1, 1)[1] = input[1]
      <4>1. \A i \in 1..1 : input[i] \in Data
        BY <2>1
      <4> QED
        BY <1>1, <4>1, SubSeqProperties
    <3>4. /\ Append(<<>>, Head(input)) \in Seq(Data) /\ Len(Append(<<>>, Head(input))) = 1
          /\ Append(<<>>, Head(input))[1] = Head(input)
      BY <1>3, <2>1, AppendProperties
    <3>5. SubSeq(input, 1, 1) = Append(<<>>, Head(input))
      <4>1. PICK s, t : s = SubSeq(input, 1, 1) /\ t = Append(<<>>, Head(input))
        OBVIOUS
      <4>2. s \in Seq(Data) /\ t \in Seq(Data) /\ Len(s) = 1 /\ Len(t) = 1 /\ s[1] = t[1]
        BY <2>1, <3>3, <3>4, <4>1
      <4>3. \A i \in 1..Len(s) : s[i] = t[i]
        BY <4>2
      <4>4. s = t
        BY <4>2, <4>3, SeqEqual
      <4> QED
        BY <4>1, <4>4
    <3> QED
      BY <3>2, <3>3, <3>5
  <2>3. ASSUME NEW d \in Data PROVE Copies(input, d) = Total(rest, queue, 0, <<>>, d)
    <3>1. /\ Copies(Tail(input), d) \in Nat
          /\ Copies(input, d) = Copies(Tail(input), d) + Same(Head(input), d)
      BY <1>1, <1>6, CopiesTail
    <3>2. Copies(Append(<<>>, Head(input)), d) = Copies(<<>>, d) + Same(Head(input), d)
      <4>1. PICK e, h : e = <<>> /\ h = Head(input)
        OBVIOUS
      <4>2. e \in Seq(Data) /\ h \in Data
        BY <1>3, <2>1, <4>1
      <4>3. Copies(Append(e, h), d) = Copies(e, d) + Same(h, d)
        BY <4>2, CopiesAppend
      <4> QED
        BY <4>1, <4>3
    <3>3. rest = Tail(input) /\ Same(Head(input), d) \in Nat
      BY <1>2, <1>6, SameCounts
    <3> QED
      BY <1>4, <2>2, <3>1, <3>2, <3>3 DEF Total
  <2>4. /\ rest = Tail(input) /\ inStreamEmpty = FALSE /\ taskCnt = 1
    BY <1>2, <1>6, <2>2
  <2> QED
    <3>1. taskCnt + Len(rest) = Len(input) /\ ~ inStreamEmpty
      BY <1>3, <2>1, <2>4
    <3>2. StreamRight
      BY <3>1 DEF StreamRight
    <3> QED
      BY <1>1, <2>1, <2>2, <2>3, <2>4, <3>2
<1> QED
  BY <1>5, <1>6

\* TaskInv holds at the start.
LEMMA TaskStart == ASSUME TaskInit PROVE TaskInv
<1>1. /\ input \in Seq(Data) /\ Nil \notin Data
      /\ rest \in Seq(Data) /\ queue \in Seq(Data) /\ taskCnt \in Nat
      /\ inStreamEmpty \in BOOLEAN /\ StreamRight
      /\ \A d \in Data : Copies(input, d) = Total(rest, queue, 0, <<>>, d)
  BY TasksAtStart
<1>2. /\ idle = <<>> /\ partial = <<>> /\ outcome = <<>>
      /\ worker = [w \in Workers |-> "next"]
      /\ doing = [w \in Workers |-> Nil] /\ machine = [w \in Workers |-> Nil]
      /\ given = [p \in Owners |-> {}]
  BY DEF TaskInit, PoolInit, ManagerInit, Owners
<1>3. TaskTypes
  <2>1. \A S : <<>> \in Seq(S)
    BY EmptySeq
  <2> QED
    BY <1>1, <1>2, <2>1 DEF TaskTypes, WorkerStates
<1>4. WorkerRight
  BY <1>1, <1>2 DEF WorkerRight
<1>5. Conserved
  <2> SUFFICES ASSUME NEW d \in Data
      PROVE  Copies(input, d) = Total(rest, queue, InHand(d), outcome, d)
    BY ConservedTotal
  <2>1. {w \in Workers : doing[w] = d} = {}
    BY <1>1, <1>2
  <2>2. InHand(d) = 0
    BY <2>1, FS_EmptySet DEF InHand
  <2> QED
    BY <1>1, <1>2, <2>2
<1>6. ASSUME redundant PROVE VotesRight /\ ResultsBacked
  <2>1. Len(<<>>) = 0 /\ DOMAIN <<>> = {}
    OBVIOUS
  <2>2. VotesRight
    BY <1>2, <2>1 DEF VotesRight
  <2>3. ResultsBacked
    BY <1>2, <2>1 DEF ResultsBacked
  <2> QED
    BY <2>2, <2>3
<1> QED
  BY <1>1, <1>3, <1>4, <1>5, <1>6 DEF TaskInv

\* What a reader is interested in.
LEMMA TasksRight == ASSUME TaskInv PROVE TasksConserved /\ ResultsBacked
<1>1. Conserved /\ StreamRight /\ input \in Seq(Data) /\ outcome \in Seq([data : Data, result : Answers])
  BY DEF TaskInv, TaskTypes
<1>2. Finished => Len(outcome) = Len(input)
  <2> SUFFICES ASSUME Finished PROVE Len(outcome) = Len(input)
    OBVIOUS
  <2>1. rest = <<>> /\ Len(rest) = 0 /\ Len(outcome) = taskCnt
    BY <1>1 DEF Finished, StreamRight
  <2>2. taskCnt \in Nat /\ taskCnt + Len(rest) = Len(input)
    BY <1>1 DEF StreamRight, TaskInv, TaskTypes
  <2> QED
    BY <2>1, <2>2
<1>3. TasksConserved
  BY <1>1, <1>2 DEF TasksConserved, Conserved, Data
<1>4. ResultsBacked
  BY DEF TaskInv, ResultsBacked
<1> QED
  BY <1>3, <1>4

(***************************************************************************)
(* TasksNeverLost: whatever the workers, the tasks, the activities and the *)
(* failures, a task of the stream is loaded, queued, in hand or done, in   *)
(* as many copies as came in, and execute_tasks() ends with as many        *)
(* results as tasks (task_data_stream.py __anext__, execute_tasks.py).     *)
(***************************************************************************)
THEOREM TasksNeverLost ==
    ASSUME TaskApiAssumption PROVE TaskSpec => []TasksConserved
<1>1. TaskInit => TaskInv
  BY TaskStart
<1>2. TaskInv /\ [TaskNext]_taskVars => TaskInv'
  BY TaskStep
<1>3. TaskInv => TasksConserved
  BY TasksRight
<1> QED
  BY <1>1, <1>2, <1>3, PTL DEF TaskSpec

(***************************************************************************)
(* EnoughProviders: with a RedundanceManager, for every min_repeat and     *)
(* min_success and any providers, a result was given when min_repeat       *)
(* different providers had worked on its task and enough of them agreed    *)
(* (redundance_manager.py _process_task_result, _task_for_provider).       *)
(***************************************************************************)
THEOREM EnoughProviders ==
    ASSUME TaskApiAssumption PROVE TaskSpec => []ResultsBacked
<1>1. TaskInit => TaskInv
  BY TaskStart
<1>2. TaskInv /\ [TaskNext]_taskVars => TaskInv'
  BY TaskStep
<1>3. TaskInv => ResultsBacked
  BY TasksRight
<1> QED
  BY <1>1, <1>2, <1>3, PTL DEF TaskSpec

-----------------------------------------------------------------------------
(* DemandBuilding.                                                         *)

\* What G says for a number depends on the values for smaller ones alone.
Local(G, D, V) ==
    \A d \in D, g, h \in [D -> V] :
        (\A c \in D : c < d => g[c] = h[c]) => G[<<d, g>>] = G[<<d, h>>]

\* The function on D that G defines.
Solves(f, G, D) == f = [d \in D |-> G[<<d, f>>]]

LEMMA Numbers ==
    ASSUME NEW N \in Nat, NEW D \in SUBSET (1..N)
    PROVE  \A d \in D : d \in Nat /\ d <= N
OBVIOUS

\* A function on numbers whose value for a number depends on those for smaller ones.
LEMMA Recursion ==
    ASSUME NEW N \in Nat, NEW D \in SUBSET (1..N), NEW V, V # {},
           NEW G \in [D \X [D -> V] -> V], Local(G, D, V)
    PROVE  \E f \in [D -> V] : Solves(f, G, D)
<1> DEFINE Upto(n, f) == \A d \in D : d <= n => f[d] = G[<<d, f>>]
           Bad == {n \in 1..N : ~ \E f \in [D -> V] : Upto(n, f)}
<1>1. \E f \in [D -> V] : Upto(0, f)
  <2>1. PICK v \in V : TRUE
    OBVIOUS
  <2>2. [d \in D |-> v] \in [D -> V] /\ Upto(0, [d \in D |-> v])
    OBVIOUS
  <2> QED
    BY <2>2
<1>2. Bad = {}
  <2>1. SUFFICES ASSUME Bad # {} PROVE FALSE
    OBVIOUS
  <2>2. PICK m \in Bad : \A k \in Bad : m <= k
    <3>1. Bad \in SUBSET (1..N)
      OBVIOUS
    <3> HIDE DEF Bad
    <3> QED
      BY <2>1, <3>1, Smallest
  <2>3. m \in 1..N /\ ~ \E f \in [D -> V] : Upto(m, f)
    OBVIOUS
  <2>4. \E f \in [D -> V] : Upto(m - 1, f)
    <3>1. CASE m = 1
      <4>1. m - 1 = 0
        BY <3>1
      <4> HIDE DEF Upto
      <4> QED
        BY <1>1, <4>1
    <3>2. CASE m # 1
      <4>1. m - 1 \in 1..N /\ ~ (m <= m - 1)
        BY <2>3, <3>2
      <4>2. m - 1 \notin Bad
        <5> HIDE DEF Bad
        <5> QED
          BY <2>2, <4>1
      <4> QED
        BY <4>1, <4>2
    <3> QED
      BY <3>1, <3>2
  <2>5. PICK f \in [D -> V] : Upto(m - 1, f)
    BY <2>4
  <2> DEFINE g == [d \in D |-> IF d < m THEN f[d] ELSE G[<<d, f>>]]
  <2>6. g \in [D -> V]
    OBVIOUS
  <2>7. ASSUME NEW d \in D, d <= m PROVE g[d] = G[<<d, g>>]
    <3>1. ASSUME NEW c \in D, c < d PROVE f[c] = g[c]
      <4>1. c \in Nat /\ d \in Nat /\ m \in Nat
        BY <2>3, Numbers
      <4>2. c < m
        BY <2>7, <3>1, <4>1
      <4> QED
        BY <4>2
    <3>2. G[<<d, f>>] = G[<<d, g>>]
      <4> HIDE DEF g
      <4> QED
        BY <2>6, <3>1 DEF Local
    <3>3. g[d] = G[<<d, f>>]
      <4>1. CASE d < m
        <5>1. d <= m - 1
          BY <2>3, <4>1
        <5> QED
          BY <2>5, <4>1, <5>1
      <4> QED
        BY <4>1
    <3> HIDE DEF g
    <3> QED
      BY <3>2, <3>3
  <2>8. Upto(m, g)
    <3> HIDE DEF g
    <3> QED
      BY <2>7
  <2> HIDE DEF Upto, g
  <2> QED
    BY <2>3, <2>6, <2>8
<1>3. \E f \in [D -> V] : Upto(N, f)
  <2>1. CASE N = 0
    BY <1>1, <2>1
  <2>2. CASE N # 0
    <3>1. N \in 1..N /\ N \notin Bad
      <4> HIDE DEF Bad
      <4> QED
        BY <1>2, <2>2
    <3> HIDE DEF Upto
    <3> QED
      BY <3>1
  <2> QED
    BY <2>1, <2>2
<1>4. PICK f \in [D -> V] : Upto(N, f)
  BY <1>3
<1>5. \A d \in D : f[d] = G[<<d, f>>]
  <2>1. \A d \in D : d <= N
    BY Numbers
  <2> QED
    BY <1>4, <2>1
<1>6. f = [d \in D |-> f[d]]
  OBVIOUS
<1>7. f = [d \in D |-> G[<<d, f>>]]
  BY <1>5, <1>6
<1> QED
  BY <1>7 DEF Solves

\* The items of a tree lie below their group.
Ordered(tree, N) ==
    /\ DOMAIN tree \subseteq 1..N
    /\ \A n \in DOMAIN tree : tree[n].kind = "group" =>
           tree[n].items \subseteq DOMAIN tree /\ \A i \in tree[n].items : i < n
    /\ \A n \in DOMAIN tree : tree[n].kind # "group" => tree[n].kind = "constraint"

\* What an element means depends on its items alone.
LEMMA MeetsItems ==
    ASSUME NEW e, NEW g, NEW h,
           e.kind # "constraint" => \A i \in e.items : g[i] = h[i]
    PROVE  Meets(e, g) = Meets(e, h)
<1>1. CASE e.kind = "constraint"
  BY <1>1 DEF Meets
<1>2. CASE e.kind # "constraint"
  BY <1>2 DEF Meets
<1> QED
  BY <1>1, <1>2

\* The meaning of a tree is what its definition says.
LEMMA MeaningOf ==
    ASSUME NEW N \in Nat, NEW tree, Ordered(tree, N)
    PROVE  Meaning(tree) = [n \in DOMAIN tree |-> Meets(tree[n], Meaning(tree))]
<1> DEFINE D == DOMAIN tree
           V == SUBSET Offers
           G == [x \in D \X [D -> V] |-> Meets(tree[x[1]], x[2])]
           F(f) == [n \in D |-> Meets(tree[n], f)]
<1>1. D \in SUBSET (1..N) /\ V # {}
  BY DEF Ordered
<1>2. G \in [D \X [D -> V] -> V]
  BY DEF Meets
<1>3. \A d \in D, f \in [D -> V] : G[<<d, f>>] = Meets(tree[d], f)
  OBVIOUS
<1>4. ASSUME NEW d \in D, NEW g \in [D -> V], NEW h \in [D -> V],
             \A c \in D : c < d => g[c] = h[c]
      PROVE  G[<<d, g>>] = G[<<d, h>>]
  <2>1. tree[d].kind # "constraint" => \A i \in tree[d].items : g[i] = h[i]
    BY <1>4 DEF Ordered
  <2>2. Meets(tree[d], g) = Meets(tree[d], h)
    BY <2>1, MeetsItems
  <2> HIDE DEF G
  <2> QED
    BY <1>3, <2>2
<1>5. \E f \in [D -> V] : Solves(f, G, D)
  <2> HIDE DEF D, V, G
  <2>1. Local(G, D, V)
    BY <1>4 DEF Local
  <2> QED
    BY <1>1, <1>2, <2>1, Recursion
<1>6. PICK f \in [D -> V] : f = [d \in D |-> G[<<d, f>>]]
  <2> HIDE DEF D, V, G
  <2> QED
    BY <1>5 DEF Solves
<1>7. [d \in D |-> G[<<d, f>>]] = F(f)
  <2> HIDE DEF G
  <2> QED
    BY <1>3
<1>8. \E g : g = F(g)
  <2> HIDE DEF G, F
  <2> QED
    BY <1>6, <1>7
<1>9. (CHOOSE g : g = F(g)) = F(CHOOSE g : g = F(g))
  <2> HIDE DEF F
  <2> QED
    BY <1>8
<1>10. Meaning(tree) = CHOOSE g : g = F(g)
  BY DEF Meaning
<1> HIDE DEF F
<1>11. Meaning(tree) = F(Meaning(tree))
  BY <1>9, <1>10
<1> QED
  BY <1>11 DEF F

-----------------------------------------------------------------------------
(* Elements and their text. *)

\* A group of constraints.
ListText(P) == ConstraintGroup("&", {}, P)

\* The fields of groups.
LEMMA GroupFields ==
    ASSUME NEW op, NEW I
    PROVE  /\ Group(op, I).kind = "group" /\ Group(op, I).op = op
           /\ Group(op, I).items = I /\ Group(op, I).parts = {}
BY DEF ConstraintGroup, Group

LEMMA ListFields ==
    ASSUME NEW P
    PROVE  /\ ListText(P).kind = "group" /\ ListText(P).op = "&"
           /\ ListText(P).items = {} /\ ListText(P).parts = P
BY DEF ConstraintGroup, ListText

LEMMA GroupItems ==
    ASSUME NEW op, NEW I, NEW J
    PROVE  [Group(op, I) EXCEPT !.items = J] = Group(op, J)
BY DEF Group, ConstraintGroup

\* An element is a group of earlier ones or a constraint.
LEMMA ElementKinds ==
    ASSUME BuilderAssumption, NEW n \in DOMAIN Elements
    PROVE  /\ n \in 1..Len(Elements)
           /\ Elements[n].kind = "group" =>
                /\ Elements[n].items \subseteq DOMAIN Elements /\ Elements[n].parts = {}
                /\ \A i \in Elements[n].items : i < n
                /\ Elements[n] = Group(Elements[n].op, Elements[n].items)
                /\ Valid(Elements[n])
                /\ Elements[n].op \in {"&", "|", "!"}
           /\ Elements[n].kind # "group" =>
                /\ Elements[n] = Constraint(Elements[n].name, Elements[n].op, Elements[n].list,
                                            Elements[n].values)
                /\ Elements[n].kind = "constraint" /\ Elements[n].list \in BOOLEAN
                /\ ~Elements[n].list => \E v \in Elements[n].values : Elements[n].values = {v}
<1>1. n \in 1..Len(Elements) /\ Len(Elements) \in Nat /\ DOMAIN Elements = 1..Len(Elements)
  BY DEF BuilderAssumption, ElementAssumption
<1>2. \/ /\ \E items \in SUBSET (1..(n - 1)) : Elements[n] = Group(Elements[n].op, items)
         /\ Elements[n].op \in {"&", "|", "!"} /\ Valid(Elements[n])
      \/ /\ Elements[n] = Constraint(Elements[n].name, Elements[n].op, Elements[n].list,
                                     Elements[n].values)
         /\ Elements[n].list \in BOOLEAN
         /\ ~Elements[n].list => \E v \in Elements[n].values : Elements[n].values = {v}
  BY DEF BuilderAssumption, ElementAssumption
<1>3. CASE \E items \in SUBSET (1..(n - 1)) : Elements[n] = Group(Elements[n].op, items)
  <2>1. PICK items \in SUBSET (1..(n - 1)) : Elements[n] = Group(Elements[n].op, items)
    BY <1>3
  <2>2. Elements[n].kind = "group" /\ Elements[n].items = items /\ Elements[n].parts = {}
    BY <2>1, GroupFields, ListFields
  <2>3. \A i \in items : i \in 1..Len(Elements) /\ i < n
    BY <1>1
  <2>4. Elements[n].op \in {"&", "|", "!"} /\ Valid(Elements[n])
    <3>1. ~ (Elements[n].kind = "constraint")
      BY <2>2
    <3> QED
      BY <1>2, <3>1 DEF Constraint
  <2> QED
    BY <1>1, <2>1, <2>2, <2>3, <2>4
<1>4. CASE /\ Elements[n] = Constraint(Elements[n].name, Elements[n].op, Elements[n].list,
                                     Elements[n].values)
           /\ Elements[n].list \in BOOLEAN
           /\ ~Elements[n].list => \E v \in Elements[n].values : Elements[n].values = {v}
  <2>1. Elements[n].kind = "constraint"
    BY <1>4 DEF Constraint
  <2> QED
    BY <1>1, <1>4, <2>1
<1> QED
  BY <1>2, <1>3, <1>4

\* The elements are a tree.
LEMMA ElementsOrdered ==
    ASSUME BuilderAssumption
    PROVE  Ordered(Elements, Len(Elements)) /\ Len(Elements) \in Nat
<1>1. DOMAIN Elements = 1..Len(Elements) /\ Len(Elements) \in Nat
  BY DEF BuilderAssumption, ElementAssumption
<1> QED
  BY <1>1, ElementKinds DEF Ordered

\* What zeros lie under an element is what the definition says.
LEMMA ZerosOf ==
    ASSUME BuilderAssumption
    PROVE  \A n \in DOMAIN Elements :
               Zeros[n] = IF Elements[n].kind = "group"
                          THEN UNION {Zeros[i] : i \in Elements[n].items}
                          ELSE IF Elements[n].values = {} \/ 0 \in Elements[n].values
                               THEN {n} ELSE {}
<1> DEFINE D == DOMAIN Elements
           V == SUBSET D
           At(n, f) == IF Elements[n].kind = "group"
                       THEN UNION {f[i] : i \in Elements[n].items}
                       ELSE IF Elements[n].values = {} \/ 0 \in Elements[n].values
                            THEN {n} ELSE {}
           G == [x \in D \X [D -> V] |-> At(x[1], x[2])]
           F(f) == [n \in D |-> At(n, f)]
<1>1. D \in SUBSET (1..Len(Elements)) /\ V # {} /\ Len(Elements) \in Nat
  BY ElementsOrdered DEF Ordered
<1>2. ASSUME NEW n \in D, NEW f \in [D -> V] PROVE At(n, f) \in V
  BY ElementKinds
<1>3. G \in [D \X [D -> V] -> V]
  <2> HIDE DEF At, V
  <2> QED
    BY <1>2
<1>4. \A d \in D, f \in [D -> V] : G[<<d, f>>] = At(d, f)
  <2> HIDE DEF At
  <2> QED
    OBVIOUS
<1>5. ASSUME NEW d \in D, NEW g \in [D -> V], NEW h \in [D -> V],
             \A c \in D : c < d => g[c] = h[c]
      PROVE  At(d, g) = At(d, h)
  <2>1. Elements[d].kind = "group" => \A i \in Elements[d].items : g[i] = h[i]
    BY <1>5, ElementKinds
  <2> QED
    BY <2>1
<1>6. \E f \in [D -> V] : Solves(f, G, D)
  <2>1. Local(G, D, V)
    <3> HIDE DEF At, G, V
    <3> QED
      BY <1>4, <1>5 DEF Local
  <2> HIDE DEF D, V, G
  <2> QED
    BY <1>1, <1>3, <2>1, Recursion
<1>7. PICK f \in [D -> V] : f = [d \in D |-> G[<<d, f>>]]
  <2> HIDE DEF D, V, G
  <2> QED
    BY <1>6 DEF Solves
<1>8. [d \in D |-> G[<<d, f>>]] = F(f)
  <2> HIDE DEF G, At
  <2> QED
    BY <1>4
<1>9. \E g : g = F(g)
  <2> HIDE DEF G, F
  <2> QED
    BY <1>7, <1>8
<1>10. (CHOOSE g : g = F(g)) = F(CHOOSE g : g = F(g))
  <2> HIDE DEF F
  <2> QED
    BY <1>9
<1>11. Zeros = CHOOSE g : g = F(g)
  BY DEF Zeros
<1> HIDE DEF F
<1>12. Zeros = F(Zeros)
  BY <1>10, <1>11
<1> QED
  BY <1>12 DEF F


\* The constraint for one value of a list, as it is written.
OneOf(e, v) == Constraint(e.name, e.op, FALSE, {v})

LEMMA OneOfFalsy ==
    ASSUME NEW e, NEW v
    PROVE  /\ Falsy(OneOf(e, v)) <=> v = 0
           /\ ParsedValue(OneOf(e, v)) = OneOf(e, v)
           /\ \A offer : Fits(OneOf(e, v), offer) <=> Compare(offer[e.name], e.op, v)
BY DEF Falsy, OneOf, Constraint, ParsedValue, Fits

\* The text of a group, of a list and of one value.
LEMMA TextOfGroup ==
    ASSUME NEW op, NEW items, NEW tree
    PROVE  Text(Group(op, items), tree) = Group(op, {i \in items : ~Falsy(tree[i])})
<1> DEFINE g == Group(op, items)
<1>1. g.kind = "group" /\ g.op = op /\ g.items = items /\ g.parts = {}
  BY GroupFields, ListFields
<1> HIDE DEF g
<1>2. Text(g, tree) = ConstraintGroup(op, {i \in items : ~Falsy(tree[i])}, {c \in {} : ~Falsy(c)})
  BY <1>1 DEF Text, GroupText
<1>3. {c \in {} : ~Falsy(c)} = {}
  OBVIOUS
<1> QED
  BY <1>2, <1>3 DEF Group, g

LEMMA TextOfList ==
    ASSUME NEW e, NEW tree, e.kind # "group", e.list
    PROVE  Text(e, tree) = ListText({OneOf(e, v) : v \in e.values \ {0}})
<1> DEFINE P == {OneOf(e, v) : v \in e.values}
           g == ListText(P)
<1>1. {c \in P : ~Falsy(c)} = {OneOf(e, v) : v \in e.values \ {0}}
  BY OneOfFalsy
<1>2. Text(e, tree) = GroupText(g, tree)
  BY DEF Text, OneOf, ListText
<1> HIDE DEF P
<1>3. g.op = "&" /\ g.items = {} /\ g.parts = P
  BY ListFields
<1> HIDE DEF g
<1>4. GroupText(g, tree) =
        ConstraintGroup("&", {i \in {} : ~Falsy(tree[i])}, {c \in P : ~Falsy(c)})
  BY <1>3 DEF GroupText
<1>5. {i \in {} : ~Falsy(tree[i])} = {}
  OBVIOUS
<1> QED
  BY <1>1, <1>2, <1>4, <1>5 DEF ListText

LEMMA TextOfOne ==
    ASSUME NEW e, NEW tree, e.kind # "group", ~e.list
    PROVE  Text(e, tree) = e
BY DEF Text

\* What is written, under which numbers.
LEMMA WrittenIs ==
    /\ DOMAIN Written = {n \in DOMAIN Elements : ~Falsy(Elements[n])}
    /\ \A n \in DOMAIN Written : Written[n] = Text(Elements[n], Elements)
BY DEF Written, Texts

\* What is written is a tree.
LEMMA WrittenKinds ==
    ASSUME BuilderAssumption, NEW n \in DOMAIN Written
    PROVE  /\ n \in DOMAIN Elements /\ ~Falsy(Elements[n])
           /\ Elements[n].kind = "group" =>
                 Written[n] = Group(Elements[n].op,
                                    {i \in Elements[n].items : ~Falsy(Elements[i])})
           /\ Elements[n].kind # "group" /\ Elements[n].list =>
                 Written[n] = ListText({OneOf(Elements[n], v) : v \in Elements[n].values \ {0}})
           /\ Elements[n].kind # "group" /\ ~Elements[n].list => Written[n] = Elements[n]
<1>1. n \in DOMAIN Elements /\ ~Falsy(Elements[n]) /\ Written[n] = Text(Elements[n], Elements)
  BY WrittenIs
<1>2. CASE Elements[n].kind = "group"
  <2>1. Elements[n] = Group(Elements[n].op, Elements[n].items)
    BY <1>1, <1>2, ElementKinds
  <2>2. Text(Group(Elements[n].op, Elements[n].items), Elements) =
            Group(Elements[n].op, {i \in Elements[n].items : ~Falsy(Elements[i])})
    BY TextOfGroup
  <2> QED
    BY <1>1, <1>2, <2>1, <2>2
<1>3. CASE Elements[n].kind # "group" /\ Elements[n].list
  BY <1>1, <1>3, TextOfList
<1>4. CASE Elements[n].kind # "group" /\ ~Elements[n].list
  BY <1>1, <1>4, TextOfOne
<1> QED
  BY <1>1, <1>2, <1>3, <1>4

LEMMA WrittenOrdered ==
    ASSUME BuilderAssumption
    PROVE  Ordered(Written, Len(Elements))
<1>1. DOMAIN Written \subseteq 1..Len(Elements)
  BY WrittenKinds, ElementsOrdered DEF Ordered
<1>2. ASSUME NEW n \in DOMAIN Written
      PROVE  /\ Written[n].kind = "group" =>
                   /\ Written[n].items \subseteq DOMAIN Written
                   /\ \A i \in Written[n].items : i < n
             /\ Written[n].kind # "group" => Written[n].kind = "constraint"
  <2>1. n \in DOMAIN Elements
    BY WrittenKinds
  <2>2. CASE Elements[n].kind = "group"
    <3>1. Written[n] = Group(Elements[n].op, {i \in Elements[n].items : ~Falsy(Elements[i])})
      BY <2>2, WrittenKinds
    <3>2. /\ Written[n].kind = "group"
          /\ Written[n].items = {i \in Elements[n].items : ~Falsy(Elements[i])}
      BY <3>1, GroupFields, ListFields
    <3>3. \A i \in Written[n].items : i \in DOMAIN Elements /\ ~Falsy(Elements[i]) /\ i < n
      BY <2>1, <2>2, <3>2, ElementKinds
    <3> QED
      BY <3>2, <3>3, WrittenIs
  <2>3. CASE Elements[n].kind # "group" /\ Elements[n].list
    <3>1. Written[n] = ListText({OneOf(Elements[n], v) : v \in Elements[n].values \ {0}})
      BY <2>3, WrittenKinds
    <3>2. Written[n].kind = "group" /\ Written[n].items = {}
      BY <3>1, GroupFields, ListFields
    <3> QED
      BY <3>2
  <2>4. CASE Elements[n].kind # "group" /\ ~Elements[n].list
    <3>1. Written[n] = Elements[n]
      BY <2>4, WrittenKinds
    <3>2. Elements[n].kind = "constraint"
      BY <2>1, <2>4, ElementKinds
    <3> QED
      BY <3>1, <3>2
  <2> QED
    BY <2>2, <2>3, <2>4
<1> QED
  BY <1>1, <1>2 DEF Ordered

\* An element without zeros leaves a text.
LEMMA PlainWritten ==
    ASSUME BuilderAssumption, NEW n \in DOMAIN Elements, Zeros[n] = {}
    PROVE  /\ n \in DOMAIN Written
           /\ Elements[n].kind = "group" => \A i \in Elements[n].items : Zeros[i] = {}
           /\ Elements[n].kind # "group" => Elements[n].values # {} /\ 0 \notin Elements[n].values
<1>1. CASE Elements[n].kind = "group"
  <2>1. Zeros[n] = UNION {Zeros[i] : i \in Elements[n].items}
    BY <1>1, ZerosOf
  <2>2. \A i \in Elements[n].items : Zeros[i] = {}
    BY <2>1
  <2>3. ~Falsy(Elements[n])
    BY <1>1 DEF Falsy
  <2> QED
    BY <1>1, <2>2, <2>3, WrittenIs
<1>2. CASE Elements[n].kind # "group"
  <2>1. Elements[n].values # {} /\ 0 \notin Elements[n].values
    BY <1>2, ZerosOf
  <2>2. ~Falsy(Elements[n])
    BY <2>1 DEF Falsy
  <2> QED
    BY <1>2, <2>1, <2>2, WrittenIs
<1> QED
  BY <1>1, <1>2

\* Without zeros, the market asks for what is meant: an element and its text, if this
\* is so for the items.
LEMMA SameMeets ==
    ASSUME BuilderAssumption, NEW n \in DOMAIN Elements, Zeros[n] = {}, NEW f, NEW g,
           Elements[n].kind = "group" => \A i \in Elements[n].items : f[i] = g[i]
    PROVE  Meets(Written[n], f) = Meets(Elements[n], g)
<1>1. n \in DOMAIN Written
  BY PlainWritten
<1>2. CASE Elements[n].kind = "group"
  <2>1. \A i \in Elements[n].items : i \in DOMAIN Elements /\ Zeros[i] = {}
    BY <1>2, PlainWritten, ElementKinds
  <2>2. \A i \in Elements[n].items : ~Falsy(Elements[i])
    BY <2>1, PlainWritten, WrittenIs
  <2>3. Written[n] = Group(Elements[n].op, {i \in Elements[n].items : ~Falsy(Elements[i])})
    BY <1>1, <1>2, WrittenKinds
  <2>4. {i \in Elements[n].items : ~Falsy(Elements[i])} = Elements[n].items
    BY <2>2
  <2>5. Written[n] = Elements[n]
    BY <1>2, <2>3, <2>4, ElementKinds
  <2> QED
    BY <1>2, <2>5, MeetsItems
<1>3. CASE Elements[n].kind # "group" /\ Elements[n].list
  <2> DEFINE P == {OneOf(Elements[n], v) : v \in Elements[n].values \ {0}}
  <2>1. Elements[n].values \ {0} = Elements[n].values
    BY <1>3, PlainWritten
  <2>2. Written[n] = ListText(P)
    BY <1>1, <1>3, WrittenKinds
  <2>3. /\ Written[n].kind = "group" /\ Written[n].op = "&" /\ Written[n].items = {}
        /\ Written[n].parts = P
    <3> HIDE DEF P
    <3> QED
      BY <2>2, GroupFields, ListFields
  <2>4. Meets(Written[n], f) = {offer \in Offers : \A c \in P : Fits(c, offer)}
    <3> HIDE DEF P
    <3> QED
      BY <2>3 DEF Meets
  <2>5. Meets(Elements[n], g) = {offer \in Offers : Fits(Elements[n], offer)}
    BY <1>3, ElementKinds DEF Meets
  <2>6. ASSUME NEW offer \in Offers
        PROVE  (\A c \in P : Fits(c, offer)) <=> Fits(Elements[n], offer)
    BY <2>1, OneOfFalsy DEF Fits
  <2> HIDE DEF P
  <2> QED
    BY <2>4, <2>5, <2>6
<1>4. CASE Elements[n].kind # "group" /\ ~Elements[n].list
  <2>1. Written[n] = Elements[n] /\ Elements[n].kind = "constraint"
    BY <1>1, <1>4, WrittenKinds, ElementKinds
  <2> QED
    BY <2>1 DEF Meets
<1> QED
  BY <1>2, <1>3, <1>4

LEMMA AskedIsMeant ==
    ASSUME BuilderAssumption, NEW n \in DOMAIN Elements, Zeros[n] = {}
    PROVE  Asked[n] = Meant[n]
<1> DEFINE Bad == {m \in DOMAIN Elements : Zeros[m] = {} /\ Asked[m] # Meant[m]}
<1>1. SUFFICES ASSUME Bad # {} PROVE FALSE
  OBVIOUS
<1>2. Len(Elements) \in Nat /\ DOMAIN Elements = 1..Len(Elements)
  BY DEF BuilderAssumption, ElementAssumption
<1>3. PICK m \in Bad : \A k \in Bad : m <= k
  <2>1. Bad \in SUBSET (1..Len(Elements))
    BY <1>2
  <2> HIDE DEF Bad
  <2> QED
    BY <1>1, <1>2, <2>1, Smallest
<1>4. m \in DOMAIN Elements /\ Zeros[m] = {} /\ Asked[m] # Meant[m]
  OBVIOUS
<1>5. ASSUME Elements[m].kind = "group", NEW i \in Elements[m].items PROVE Asked[i] = Meant[i]
  <2>1. i \in DOMAIN Elements /\ i < m /\ Zeros[i] = {}
    BY <1>4, <1>5, ElementKinds, PlainWritten
  <2>2. i \in Nat /\ m \in Nat /\ ~ (m <= i)
    BY <1>2, <1>4, <2>1
  <2>3. i \notin Bad
    <3> HIDE DEF Bad
    <3> QED
      BY <1>3, <2>2
  <2> QED
    BY <2>1, <2>3
<1>6. Meets(Written[m], Asked) = Meets(Elements[m], Meant)
  BY <1>4, <1>5, SameMeets
<1>7. Meant[m] = Meets(Elements[m], Meant)
  BY <1>4, ElementsOrdered, MeaningOf DEF Meant
<1>8. Asked[m] = Meets(Written[m], Asked)
  <2>1. m \in DOMAIN Written
    BY <1>4, PlainWritten
  <2> QED
    BY <1>2, <2>1, WrittenOrdered, MeaningOf DEF Asked
<1> QED
  BY <1>4, <1>6, <1>7, <1>8

-----------------------------------------------------------------------------
(* What the parser reads is written like it was. *)

LEMMA ReadParts ==
    ASSUME NEW t, NEW P, t = ListText(P), \A c \in P : ParsedValue(c) = c /\ ~Falsy(c)
    PROVE  /\ Parsed(t) = t
           /\ \A tree : Text(t, tree) = t
<1>1. t.kind = "group" /\ t.op = "&" /\ t.items = {} /\ t.parts = P
  BY GroupFields, ListFields
<1>2. {ParsedValue(c) : c \in P} = P /\ {c \in P : ~Falsy(c)} = P
  OBVIOUS
<1>3. ConstraintGroup("&", {}, P) = t
  BY DEF ListText
<1>4. Parsed(t) = t
  BY <1>1, <1>2, <1>3 DEF Parsed
<1>5. ASSUME NEW tree PROVE Text(t, tree) = t
  <2>1. Text(t, tree) =
          ConstraintGroup("&", {i \in {} : ~Falsy(tree[i])}, {c \in P : ~Falsy(c)})
    BY <1>1 DEF Text, GroupText
  <2>2. {i \in {} : ~Falsy(tree[i])} = {}
    OBVIOUS
  <2> QED
    BY <1>2, <1>3, <2>1, <2>2
<1> QED
  BY <1>4, <1>5

LEMMA ReadGroup ==
    ASSUME NEW op, NEW items
    PROVE  Parsed(Group(op, items)) = Group(op, items)
<1> DEFINE g == Group(op, items)
<1>1. g.kind = "group" /\ g.op = op /\ g.items = items /\ g.parts = {}
  BY GroupFields, ListFields
<1> HIDE DEF g
<1>2. {ParsedValue(c) : c \in {}} = {}
  OBVIOUS
<1>3. Parsed(g) = ConstraintGroup(op, items, {})
  BY <1>1, <1>2 DEF Parsed
<1> QED
  BY <1>3 DEF Group, g

\* A text is read as what it says.
LEMMA ReadIs ==
    ASSUME BuilderAssumption, NEW n \in DOMAIN Written
    PROVE  Parsed(Written[n]) = Written[n] /\ ~Falsy(Written[n])
<1>0. n \in DOMAIN Elements /\ ~Falsy(Elements[n])
  BY WrittenKinds
<1>1. CASE Elements[n].kind = "group"
  <2>1. Written[n] = Group(Elements[n].op, {i \in Elements[n].items : ~Falsy(Elements[i])})
    BY <1>1, WrittenKinds
  <2>2. Written[n].kind = "group"
    BY <2>1, GroupFields, ListFields
  <2> QED
    BY <2>1, <2>2, ReadGroup DEF Falsy
<1>2. CASE Elements[n].kind # "group" /\ Elements[n].list
  <2> DEFINE P == {OneOf(Elements[n], v) : v \in Elements[n].values \ {0}}
  <2>1. Written[n] = ListText(P)
    BY <1>2, WrittenKinds
  <2>2. \A c \in P : ParsedValue(c) = c /\ ~Falsy(c)
    BY OneOfFalsy
  <2> HIDE DEF P
  <2>3. Written[n].kind = "group"
    BY <2>1, GroupFields, ListFields
  <2> QED
    BY <2>1, <2>2, <2>3, ReadParts DEF Falsy
<1>3. CASE Elements[n].kind # "group" /\ ~Elements[n].list
  <2>1. /\ Written[n] = Elements[n] /\ Elements[n].kind = "constraint"
        /\ Elements[n] = Constraint(Elements[n].name, Elements[n].op, Elements[n].list,
                                    Elements[n].values)
        /\ Elements[n].list = FALSE
    BY <1>0, <1>3, WrittenKinds, ElementKinds
  <2>2. ParsedValue(Elements[n]) = Elements[n]
    BY <2>1 DEF ParsedValue
  <2>3. Parsed(Elements[n]) = ParsedValue(Elements[n])
    BY <1>3 DEF Parsed
  <2> QED
    BY <1>0, <2>1, <2>2, <2>3
<1> QED
  BY <1>1, <1>2, <1>3

LEMMA ReadAgainIs ==
    ASSUME BuilderAssumption
    PROVE  /\ DOMAIN ReadAgain = DOMAIN Written
           /\ \A n \in DOMAIN Written : ReadAgain[n] = Written[n] /\ ~Falsy(ReadAgain[n])
BY ReadIs DEF ReadAgain

\* A text read again leaves the same text.
LEMMA TextAgain ==
    ASSUME BuilderAssumption, NEW n \in DOMAIN Written
    PROVE  Text(Written[n], ReadAgain) = Written[n]
<1>0. n \in DOMAIN Elements /\ ~Falsy(Elements[n])
  BY WrittenKinds
<1>1. CASE Elements[n].kind = "group"
  <2> DEFINE I == {i \in Elements[n].items : ~Falsy(Elements[i])}
  <2>1. Written[n] = Group(Elements[n].op, I)
    BY <1>1, WrittenKinds
  <2>2. \A i \in I : ~Falsy(ReadAgain[i])
    BY <1>0, <1>1, ElementKinds, WrittenIs, ReadAgainIs
  <2>3. {i \in I : ~Falsy(ReadAgain[i])} = I
    BY <2>2
  <2> HIDE DEF I
  <2> QED
    BY <2>1, <2>3, TextOfGroup
<1>2. CASE Elements[n].kind # "group" /\ Elements[n].list
  <2> DEFINE P == {OneOf(Elements[n], v) : v \in Elements[n].values \ {0}}
  <2>1. Written[n] = ListText(P)
    BY <1>2, WrittenKinds
  <2>2. \A c \in P : ParsedValue(c) = c /\ ~Falsy(c)
    BY OneOfFalsy
  <2> HIDE DEF P
  <2> QED
    BY <2>1, <2>2, ReadParts
<1>3. CASE Elements[n].kind # "group" /\ ~Elements[n].list
  BY <1>3, WrittenKinds, TextOfOne
<1> QED
  BY <1>1, <1>2, <1>3

LEMMA WrittenValid ==
    ASSUME BuilderAssumption, NEW n \in DOMAIN Written, Written[n].kind = "group"
    PROVE  Valid(Written[n])
<1>0. n \in DOMAIN Elements
  BY WrittenKinds
<1>1. CASE Elements[n].kind = "group"
  <2> DEFINE I == {i \in Elements[n].items : ~Falsy(Elements[i])}
  <2>1. Written[n] = Group(Elements[n].op, I)
    BY <1>1, WrittenKinds
  <2>2. Written[n].op = Elements[n].op /\ Written[n].items = I /\ Written[n].parts = {}
    BY <2>1, GroupFields, ListFields
  <2>3. CASE Elements[n].op = "!"
    <3>1. Cardinality(Elements[n].items) <= 1 /\ Elements[n].items \subseteq 1..Len(Elements)
          /\ Len(Elements) \in Nat
      <4>1. /\ Elements[n].parts = {} /\ Valid(Elements[n])
            /\ Elements[n].items \subseteq DOMAIN Elements
        BY <1>0, <1>1, ElementKinds
      <4>2. Elements[n].items \cup Elements[n].parts = Elements[n].items
        BY <4>1
      <4> QED
        BY <2>3, <4>1, <4>2 DEF Valid, BuilderAssumption, ElementAssumption
    <3> HIDE DEF I
    <3>2. IsFiniteSet(Elements[n].items)
      <4>1. IsFiniteSet(1..Len(Elements))
        <5>1. 1 \in Int /\ Len(Elements) \in Int
          BY <3>1
        <5> HIDE DEF I
        <5> QED
          BY <5>1, FS_Interval
      <4> QED
        BY <3>1, <4>1, FS_Subset
    <3>3. I \subseteq Elements[n].items
      BY DEF I
    <3>4. /\ Cardinality(I) <= Cardinality(Elements[n].items)
          /\ Cardinality(I) \in Nat /\ Cardinality(Elements[n].items) \in Nat
      <4> QED
        BY <3>2, <3>3, FS_Subset, FS_CardinalityType
    <3>5. I \cup {} = I
      OBVIOUS
    <3> QED
      BY <2>2, <3>1, <3>4, <3>5 DEF Valid
  <2>4. CASE Elements[n].op # "!"
    BY <2>2, <2>4 DEF Valid
  <2> QED
    BY <2>3, <2>4
<1>2. CASE Elements[n].kind # "group" /\ Elements[n].list
  <2> DEFINE P == {OneOf(Elements[n], v) : v \in Elements[n].values \ {0}}
  <2>0. Written[n] = ListText(P)
    BY <1>2, WrittenKinds
  <2> HIDE DEF P
  <2>1. Written[n].op = "&"
    BY <2>0, GroupFields, ListFields
  <2> QED
    BY <2>1 DEF Valid
<1>3. CASE Elements[n].kind # "group" /\ ~Elements[n].list
  BY <1>3, WrittenKinds
<1> QED
  BY <1>1, <1>2, <1>3

LEMMA AllAlike ==
    ASSUME BuilderAssumption
    PROVE  ElementsAlike
<1>1. {m \in DOMAIN ReadAgain : ~Falsy(ReadAgain[m])} = DOMAIN Written
  BY ReadAgainIs
<1>2. \A n \in DOMAIN Written : Text(ReadAgain[n], ReadAgain) = Written[n]
  BY ReadAgainIs, TextAgain
<1>3. Texts(ReadAgain) = [n \in DOMAIN Written |-> Text(ReadAgain[n], ReadAgain)]
  BY <1>1 DEF Texts
<1>4. Written = [n \in DOMAIN Written |-> Written[n]]
  BY DEF Written, Texts
<1>5. Texts(ReadAgain) = Written
  BY <1>2, <1>3, <1>4
<1> QED
  BY <1>5, WrittenValid DEF ElementsAlike

-----------------------------------------------------------------------------
(* The builder. *)

\* The items that a builder with this operator takes over from a payload.
TakenOver(op, a) == IF Flattened(op, Elements[a.cons]) THEN Elements[a.cons].items ELSE {a.cons}
\* What a payload is when it is added.
Addable == {[cons |-> p.cons, props |-> BuiltProps(p)] : p \in Payloads}

\* What has been collected: the items of the groups with the operator of the builder, the
\* other groups, and the last value of each key.
BuildInv ==
    /\ constraints = Group(constraints.op, constraints.items)
    /\ constraints.op \in {"&", "|"}
    /\ added \in Seq(Addable)
    /\ constraints.items = UNION {TakenOver(constraints.op, added[i]) : i \in DOMAIN added}
    /\ DOMAIN properties = UNION {DOMAIN added[i].props : i \in DOMAIN added}
    /\ \A i \in DOMAIN added : \A k \in DOMAIN added[i].props :
           Newest(i, k) => properties[k] = added[i].props[k]

LEMMA BuildInvInit ==
    ASSUME BuilderAssumption, BuildInit
    PROVE  BuildInv
<1>1. PICK op \in Operators : constraints = Group(op, {})
  BY DEF BuildInit
<1>2. constraints.op = op /\ constraints.items = {} /\ op \in {"&", "|"}
  BY <1>1, GroupFields, ListFields DEF BuilderAssumption
<1>3. added = <<>> /\ added \in Seq(Addable) /\ DOMAIN added = {}
  BY DEF BuildInit
<1>4. properties = <<>> /\ DOMAIN properties = {}
  BY DEF BuildInit
<1> QED
  BY <1>1, <1>2, <1>3, <1>4 DEF BuildInv

\* The union over a list that is one longer.
LEMMA UnionAppend ==
    ASSUME NEW S, NEW s \in Seq(S), NEW x \in S, NEW f
    PROVE  /\ DOMAIN Append(s, x) = DOMAIN s \cup {Len(s) + 1}
           /\ \A i \in DOMAIN s : Append(s, x)[i] = s[i] /\ i # Len(s) + 1 /\ i < Len(s) + 1
           /\ Append(s, x)[Len(s) + 1] = x
           /\ Append(s, x) \in Seq(S) /\ Len(Append(s, x)) = Len(s) + 1 /\ Len(s) \in Nat
           /\ DOMAIN s = 1..Len(s)
<1>1. /\ DOMAIN s = 1..Len(s) /\ Len(s) \in Nat /\ Append(s, x) \in Seq(S)
      /\ DOMAIN Append(s, x) = 1..(Len(s) + 1) /\ Len(Append(s, x)) = Len(s) + 1
  OBVIOUS
<1>2. 1..(Len(s) + 1) = 1..Len(s) \cup {Len(s) + 1}
  BY <1>1
<1>3. \A i \in 1..Len(s) : Append(s, x)[i] = s[i] /\ i # Len(s) + 1 /\ i < Len(s) + 1
  OBVIOUS
<1> QED
  BY <1>1, <1>2, <1>3

LEMMA AddKeeps ==
    ASSUME BuilderAssumption, BuildInv, NEW p \in Payloads, Add(p)
    PROVE  BuildInv'
<1> DEFINE a == [cons |-> p.cons, props |-> BuiltProps(p)]
           n == Len(added) + 1
<1>1. a \in Addable /\ added \in Seq(Addable) /\ added' = Append(added, a)
  BY DEF Addable, BuildInv, Add
<1> HIDE DEF a
<1>2. /\ DOMAIN added' = DOMAIN added \cup {n}
      /\ \A i \in DOMAIN added : added'[i] = added[i] /\ i # n /\ i < n /\ i \in 1..Len(added)
      /\ added'[n] = a /\ added' \in Seq(Addable) /\ Len(added') = n /\ Len(added) \in Nat
      /\ DOMAIN added = 1..Len(added)
  BY <1>1, UnionAppend
<1>3. a.cons = p.cons /\ a.props = BuiltProps(p)
  BY DEF a
<1>4. constraints' = Group(constraints.op, constraints.items \cup TakenOver(constraints.op, a))
  <2> DEFINE o == constraints.op
             I == constraints.items
             J == constraints.items \cup TakenOver(constraints.op, a)
  <2>1. constraints' = [constraints EXCEPT !.items = J]
    BY <1>3 DEF Add, TakenOver
  <2>2. constraints = Group(o, I)
    BY DEF BuildInv
  <2> HIDE DEF o, I, J
  <2>3. constraints' = Group(o, J)
    BY <2>1, <2>2, GroupItems
  <2> QED
    BY <2>3 DEF o, J
<1>5. constraints'.op = constraints.op
      /\ constraints'.items = constraints.items \cup TakenOver(constraints.op, a)
  BY <1>4, GroupFields, ListFields
<1>6. constraints'.items = UNION {TakenOver(constraints.op, added'[i]) : i \in DOMAIN added'}
  <2>1. constraints.items = UNION {TakenOver(constraints.op, added[i]) : i \in DOMAIN added}
    BY DEF BuildInv
  <2>2. {TakenOver(constraints.op, added'[i]) : i \in DOMAIN added'} =
            {TakenOver(constraints.op, added[i]) : i \in DOMAIN added} \cup {TakenOver(constraints.op, a)}
    BY <1>2
  <2> QED
    BY <1>5, <2>1, <2>2
<1>7. /\ DOMAIN properties' = DOMAIN a.props \cup DOMAIN properties
      /\ \A k \in DOMAIN a.props : properties'[k] = a.props[k]
      /\ \A k \in DOMAIN properties \ DOMAIN a.props : properties'[k] = properties[k]
  <2>1. properties' = Updated(properties, a.props)
    BY <1>3 DEF Add
  <2> QED
    BY <2>1 DEF Updated
<1>8. DOMAIN properties' = UNION {DOMAIN added'[i].props : i \in DOMAIN added'}
  <2>1. {DOMAIN added'[i].props : i \in DOMAIN added'} =
            {DOMAIN added[i].props : i \in DOMAIN added} \cup {DOMAIN a.props}
    BY <1>2
  <2> QED
    BY <1>7, <2>1 DEF BuildInv
<1>9. ASSUME NEW i \in DOMAIN added', NEW k \in DOMAIN added'[i].props, Newest(i, k)'
      PROVE  properties'[k] = added'[i].props[k]
  <2>1. CASE i = n
    BY <1>2, <1>7, <2>1
  <2>2. CASE i \in DOMAIN added
    <3>1. added'[i] = added[i] /\ k \in DOMAIN added[i].props
      BY <1>2, <2>2
    <3>2. \A j \in (i + 1)..Len(added') : k \notin DOMAIN added'[j].props
      BY <1>9 DEF Newest
    <3>3. i \in Nat /\ n \in (i + 1)..Len(added')
      BY <1>2, <2>2
    <3>4. k \notin DOMAIN a.props
      BY <1>2, <3>2, <3>3
    <3>5. ASSUME NEW j \in (i + 1)..Len(added) PROVE k \notin DOMAIN added[j].props
      <4>1. j \in (i + 1)..Len(added') /\ j \in DOMAIN added
        BY <1>2, <3>3
      <4> QED
        BY <1>2, <3>2, <4>1
    <3>6. Newest(i, k)
      BY <3>5 DEF Newest
    <3>7. properties[k] = added[i].props[k] /\ k \in DOMAIN properties
      BY <2>2, <3>1, <3>6 DEF BuildInv
    <3> QED
      BY <1>7, <3>1, <3>4, <3>7
  <2> QED
    BY <1>2, <2>1, <2>2
<1>10. constraints' = Group(constraints'.op, constraints'.items) /\ constraints'.op \in {"&", "|"}
  BY <1>4, <1>5 DEF BuildInv
<1> QED
  BY <1>2, <1>5, <1>6, <1>8, <1>9, <1>10 DEF BuildInv

LEMMA BuildKeeps ==
    ASSUME BuilderAssumption, BuildInv, [BuildNext]_buildVars
    PROVE  BuildInv'
<1>1. CASE \E p \in Payloads : Add(p)
  BY <1>1, AddKeeps
<1>2. CASE constraints' = constraints /\ properties' = properties /\ added' = added
  <2>1. \A i, k : Newest(i, k)' <=> Newest(i, k)
    BY <1>2 DEF Newest
  <2>2. UNION {TakenOver(constraints.op, added[i]) : i \in DOMAIN added}'
          = UNION {TakenOver(constraints.op, added[i]) : i \in DOMAIN added}
    BY <1>2 DEF TakenOver
  <2>3. UNION {DOMAIN added[i].props : i \in DOMAIN added}'
          = UNION {DOMAIN added[i].props : i \in DOMAIN added}
    BY <1>2
  <2> QED
    BY <1>2, <2>1, <2>2, <2>3 DEF BuildInv
<1> QED
  BY <1>1, <1>2 DEF BuildNext, AddRaises, buildVars

-----------------------------------------------------------------------------
(* What is asked for, and what is read. *)

LEMMA AddableGroup ==
    ASSUME BuilderAssumption, NEW a \in Addable
    PROVE  a.cons \in DOMAIN Elements /\ Elements[a.cons].kind = "group"
<1>1. PICK p \in Payloads : a = [cons |-> p.cons, props |-> BuiltProps(p)]
  BY DEF Addable
<1> QED
  BY <1>1 DEF BuilderAssumption

\* Every payload added is a group, and what is meant by it is what is taken over.
LEMMA TakenMeans ==
    ASSUME BuilderAssumption, NEW a \in Addable, NEW op \in {"&", "|"}, NEW offer \in Offers
    PROVE  /\ op = "&" => ((\A i \in TakenOver(op, a) : offer \in Meant[i])
                               <=> offer \in Meant[a.cons])
           /\ op = "|" => ((\E i \in TakenOver(op, a) : offer \in Meant[i])
                               <=> offer \in Meant[a.cons])
           /\ TakenOver(op, a) \subseteq DOMAIN Elements
<1>2. a.cons \in DOMAIN Elements /\ Elements[a.cons].kind = "group"
  BY AddableGroup
<1> DEFINE e == Elements[a.cons]
<1>3. e.items \subseteq DOMAIN Elements /\ e.parts = {} /\ e.kind = "group"
  BY <1>2, ElementKinds
<1>4. CASE e.op = op
  <2>1. TakenOver(op, a) = e.items
    BY <1>4 DEF TakenOver, Flattened
  <2>2. Meant[a.cons] = Meets(e, Meant)
    BY <1>2, ElementsOrdered, MeaningOf DEF Meant
  <2> HIDE DEF e
  <2>3. op = "&" => (offer \in Meets(e, Meant) <=> \A i \in e.items : offer \in Meant[i])
    BY <1>3, <1>4 DEF Meets
  <2>4. op = "|" => (offer \in Meets(e, Meant) <=> \E i \in e.items : offer \in Meant[i])
    BY <1>3, <1>4 DEF Meets
  <2> QED
    BY <1>3, <2>1, <2>2, <2>3, <2>4
<1>5. CASE e.op # op
  <2>1. TakenOver(op, a) = {a.cons}
    BY <1>5 DEF TakenOver, Flattened
  <2> QED
    BY <1>2, <2>1
<1> QED
  BY <1>4, <1>5

LEMMA Collected ==
    ASSUME BuilderAssumption, BuildInv
    PROVE  TextMeans(Text(constraints, Elements))
<1> DEFINE op == constraints.op
           items == constraints.items
           t == Text(constraints, Elements)
<1>1. SUFFICES ASSUME \A i \in items : Zeros[i] = {}, NEW offer \in Offers
               PROVE  offer \in Meets(t, Asked) <=> Holds(offer)
  BY DEF TextMeans
<1>2. op \in {"&", "|"} /\ added \in Seq(Addable)
  BY DEF BuildInv
<1>3. \A i \in DOMAIN added : added[i] \in Addable
  BY <1>2
<1>4. items = UNION {TakenOver(op, added[i]) : i \in DOMAIN added}
  BY DEF BuildInv
<1>5. ASSUME NEW i \in items
      PROVE  i \in DOMAIN Elements /\ ~Falsy(Elements[i]) /\ Asked[i] = Meant[i]
  <2>1. PICK j \in DOMAIN added : i \in TakenOver(op, added[j])
    <3> HIDE DEF items, op
    <3> QED
      BY <1>4
  <2>2. i \in DOMAIN Elements
    BY <1>2, <1>3, <2>1, TakenMeans, <1>1
  <2>3. Zeros[i] = {}
    BY <1>1
  <2> QED
    BY <2>2, <2>3, PlainWritten, WrittenIs, AskedIsMeant
<1>6. t = Group(op, items)
  <2>1. constraints = Group(op, items)
    BY DEF BuildInv
  <2> HIDE DEF op, items
  <2>2. t = Group(op, {i \in items : ~Falsy(Elements[i])})
    BY <2>1, TextOfGroup
  <2>3. {i \in items : ~Falsy(Elements[i])} = items
    BY <1>5
  <2> QED
    BY <2>2, <2>3
<1> HIDE DEF t, op, items
<1>7. t.kind = "group" /\ t.op = op /\ t.items = items /\ t.parts = {}
  BY <1>6, GroupFields
<1>8. CASE op = "&"
  <2>1. offer \in Meets(t, Asked) <=> \A i \in items : offer \in Asked[i]
    BY <1>7, <1>8 DEF Meets
  <2>2. (\A i \in items : offer \in Asked[i]) <=> (\A i \in items : offer \in Meant[i])
    BY <1>5
  <2>3. (\A i \in items : offer \in Meant[i]) <=>
            (\A j \in DOMAIN added : \A i \in TakenOver(op, added[j]) : offer \in Meant[i])
    BY <1>4
  <2>4. \A j \in DOMAIN added :
            (\A i \in TakenOver(op, added[j]) : offer \in Meant[i]) <=> offer \in Meant[added[j].cons]
    BY <1>1, <1>2, <1>3, <1>8, TakenMeans
  <2>5. Holds(offer) <=> \A j \in DOMAIN added : offer \in Meant[added[j].cons]
    BY <1>8 DEF Holds, op
  <2> QED
    BY <2>1, <2>2, <2>3, <2>4, <2>5
<1>9. CASE op = "|"
  <2>1. offer \in Meets(t, Asked) <=> \E i \in items : offer \in Asked[i]
    BY <1>7, <1>9 DEF Meets
  <2>2. (\E i \in items : offer \in Asked[i]) <=> (\E i \in items : offer \in Meant[i])
    BY <1>5
  <2>3. (\E i \in items : offer \in Meant[i]) <=>
            (\E j \in DOMAIN added : \E i \in TakenOver(op, added[j]) : offer \in Meant[i])
    BY <1>4
  <2>4. \A j \in DOMAIN added :
            (\E i \in TakenOver(op, added[j]) : offer \in Meant[i]) <=> offer \in Meant[added[j].cons]
    BY <1>1, <1>2, <1>3, <1>9, TakenMeans
  <2>5. Holds(offer) <=> \E j \in DOMAIN added : offer \in Meant[added[j].cons]
    BY <1>9 DEF Holds, op
  <2> QED
    BY <2>1, <2>2, <2>3, <2>4, <2>5
<1> QED
  BY <1>2, <1>8, <1>9

LEMMA DemandAlike ==
    ASSUME BuilderAssumption, BuildInv
    PROVE  WrittenAlike(Text(constraints, Elements))
<1> DEFINE op == constraints.op
           items == constraints.items
           t == Text(constraints, Elements)
           I == {i \in items : ~Falsy(Elements[i])}
<1>1. op \in {"&", "|"} /\ constraints = Group(op, items) /\ added \in Seq(Addable)
      /\ items = UNION {TakenOver(op, added[i]) : i \in DOMAIN added}
  BY DEF BuildInv
<1>2. t = Group(op, I)
  <2> HIDE DEF op, items
  <2> QED
    BY <1>1, TextOfGroup
<1>3. ASSUME NEW i \in I PROVE i \in DOMAIN Written
  <2>1. i \in items /\ ~Falsy(Elements[i])
    OBVIOUS
  <2>2. PICK j \in DOMAIN added : i \in TakenOver(op, added[j])
    <3> HIDE DEF items, op
    <3> QED
      BY <1>1, <2>1
  <2>3. added[j] \in Addable
    BY <1>1
  <2>4. i \in DOMAIN Elements
    <3>1. added[j].cons \in DOMAIN Elements /\ Elements[added[j].cons].kind = "group"
      BY <2>3, AddableGroup
    <3> QED
      BY <2>2, <3>1, ElementKinds DEF TakenOver
  <2> QED
    BY <2>1, <2>4, WrittenIs
<1> HIDE DEF t, I, op, items
<1>4. {i \in I : ~Falsy(ReadAgain[i])} = I
  BY <1>3, ReadAgainIs
<1>5. Parsed(t) = t
  BY <1>2, ReadGroup
<1>6. Text(t, ReadAgain) = t
  BY <1>2, <1>4, TextOfGroup
<1>7. Valid(t)
  <2>1. t.op = op
    BY <1>2, GroupFields
  <2> QED
    BY <1>1, <2>1 DEF Valid
<1> QED
  BY <1>5, <1>6, <1>7, AllAlike DEF WrittenAlike, t

\* The times of a payload.
LEMMA AddableTimes ==
    ASSUME BuilderAssumption, NEW a \in Addable, NEW k \in DOMAIN a.props, k \in TimeKeys
    PROVE  a.props[k] = Unset \/ a.props[k].clock \in Int
<1>1. PICK p \in Payloads : a = [cons |-> p.cons, props |-> BuiltProps(p)]
  BY DEF Addable
<1>2. a.props = BuiltProps(p)
  BY <1>1
<1>3. k # Package /\ p.props = [j \in DOMAIN p.props |-> p.props[j]]
  BY DEF BuilderAssumption
<1>4. DOMAIN BuiltProps(p) = DOMAIN p.props /\ BuiltProps(p)[k] = p.props[k]
  <2>1. CASE Package \notin DOMAIN p.props \/ p.props[Package] # Unset
    BY <2>1 DEF BuiltProps
  <2>2. CASE ~(Package \notin DOMAIN p.props \/ p.props[Package] # Unset)
    <3>1. BuiltProps(p) = [p.props EXCEPT ![Package] = PackageUrl(p)]
      BY <2>2 DEF BuiltProps
    <3>2. DOMAIN BuiltProps(p) = DOMAIN p.props /\ k \in DOMAIN p.props
      BY <1>2, <3>1
    <3> QED
      BY <1>3, <3>1, <3>2
  <2> QED
    BY <2>1, <2>2
<1>5. k \in DOMAIN p.props \cap TimeKeys
  BY <1>2, <1>4
<1> QED
  BY <1>2, <1>4, <1>5 DEF BuilderAssumption

LEMMA WholeSeconds ==
    ASSUME NEW c \in Int
    PROVE  c - (c \div 1000) * 1000 \in 0..999
OBVIOUS

\* A property that is set is read as what is sent.
LEMMA ReadValue ==
    ASSUME NEW k \in DOMAIN properties
    PROVE  /\ properties[k] = Unset => k \notin DOMAIN Read
           /\ properties[k] # Unset =>
                /\ k \in DOMAIN Read
                /\ Read[k] = DeserializeValue(k, SerializeValue(k, properties[k]))
BY DEF Read, FromProperties, Serialized

LEMMA LastRead ==
    ASSUME BuilderAssumption, BuildInv
    PROVE  PropertiesRead
<1>1. SUFFICES ASSUME NEW i \in DOMAIN added, NEW k \in DOMAIN added[i].props, Newest(i, k)
               PROVE  ReadBack(k, added[i].props[k])
  BY DEF PropertiesRead
<1> DEFINE v == added[i].props[k]
<1>2. properties[k] = v /\ k \in DOMAIN properties
  BY <1>1 DEF BuildInv
<1>3. k \in TimeKeys => v = Unset \/ v.clock \in Int
  <2>1. added[i] \in Addable
    BY DEF BuildInv
  <2> QED
    BY <2>1, AddableTimes
<1> HIDE DEF v
<1>4. CASE v = Unset
  <2>1. k \notin DOMAIN Read
    BY <1>2, <1>4, ReadValue
  <2>2. ReadBack(k, v)
    BY <1>4, <2>1 DEF ReadBack
  <2> QED
    BY <2>2 DEF v
<1>5. CASE v # Unset
  <2>1. k \in DOMAIN Read /\ Read[k] = DeserializeValue(k, SerializeValue(k, v))
    BY <1>2, <1>5, ReadValue
  <2>2. k \notin TimeKeys => Read[k] = v
    BY <2>1 DEF DeserializeValue, SerializeValue
  <2>3. k \in TimeKeys => v.clock - Read[k].clock \in 0..999
    <3>1. SUFFICES ASSUME k \in TimeKeys PROVE v.clock - Read[k].clock \in 0..999
      OBVIOUS
    <3>2. Read[k].clock = (v.clock \div 1000) * 1000
      BY <2>1, <3>1 DEF DeserializeValue, SerializeValue
    <3>3. v.clock \in Int
      BY <1>3, <1>5, <3>1
    <3>4. PICK c \in Int : c = v.clock
      BY <3>3
    <3>5. c - (c \div 1000) * 1000 \in 0..999
      BY WholeSeconds
    <3>6. Read[k].clock = (c \div 1000) * 1000
      BY <3>2, <3>4
    <3> QED
      BY <3>4, <3>5, <3>6
  <2>4. ReadBack(k, v)
    BY <1>5, <2>1, <2>2, <2>3 DEF ReadBack
  <2> QED
    BY <2>4 DEF v
<1> QED
  BY <1>4, <1>5 DEF v

(***************************************************************************)
(* DemandMeansPayloads: whatever payloads are added to a builder in        *)
(* whatever order, the text of the demand is met by exactly the offers     *)
(* that meet them, unless a value like 0 leaves no text; it is valid, is   *)
(* written again like it was read; and the last value of each property is  *)
(* read back (demand_builder.py add, constraints.py serialize, parser.py). *)
(***************************************************************************)
THEOREM DemandMeansPayloads ==
    ASSUME BuilderAssumption
    PROVE  BuildSpec => []MeaningKept
<1>1. BuildInit => BuildInv
  BY BuildInvInit
<1>2. BuildInv /\ [BuildNext]_buildVars => BuildInv'
  BY BuildKeeps
<1>3. BuildInv => MeaningKept
  BY Collected, DemandAlike, LastRead DEF MeaningKept
<1> QED
  BY <1>1, <1>2, <1>3, PTL DEF BuildSpec
=============================================================================
