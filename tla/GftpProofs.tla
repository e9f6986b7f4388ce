------------------------------ MODULE GftpProofs ------------------------------
(***************************************************************************)
(* That the count of a URL is that of its sources, and that what somebody  *)
(* has is served and the rest given back, for every set of tasks, files    *)
(* and URLs; and that the commands of a batch keep their files (Commands). *)
(*                                                                         *)
(* The lock carries it: a task that has it and is not done is the only one *)
(* that changes an entry, and one that closes a URL has already lowered    *)
(* its count to 0 (provider.py __release).                                 *)
(***************************************************************************)
EXTENDS Gftp, Commands, FiniteSetTheorems, TLAPS

Jobs == [kind : Kinds, path : Paths \cup {None}, temp : BOOLEAN,
         server : Clients \cup {Main, None}]
Places == {"idle", "process", "starting", "lock", "publish", "close", "receive"}

Shape ==
    /\ published \in [Urls -> Entry \cup {None}]
    /\ server \in Clients \cup {Main, None}
    /\ lock \in Clients \cup {None}
    /\ pc \in [Clients -> Places]
    /\ job \in [Clients -> Jobs]
    /\ held \in [Clients -> SUBSET Paths]

\* A task that closes a URL has the lock and has lowered its count to 0.
LastReleased(c) ==
    /\ lock = c
    /\ published[JobUrl(c)] # None
    /\ published[JobUrl(c)].count = 0

\* What holds of the call a task is in.
Within(c) == pc[c] # "idle" =>
    /\ job[c].kind # "receive" => job[c].path \in Paths
    /\ job[c].temp => job[c].path \in Temps
    /\ job[c].kind = "upload" => job[c].path \notin held[c]
    /\ pc[c] = "publish" => lock = c /\ job[c].kind = "upload"
    /\ pc[c] = "close" => job[c].kind = "release"
    /\ job[c].kind = "release" /\ pc[c] \in {"process", "starting", "close"} =>
            LastReleased(c)

GftpInv == Shape /\ (\A c \in Clients : Within(c)) /\ CountExact

-----------------------------------------------------------------------------

LEMMA CountedFinite ==
    ASSUME GftpAssumption, NEW u
    PROVE  /\ IsFiniteSet(Outstanding(u)) /\ Cardinality(Outstanding(u)) \in Nat
           /\ IsFiniteSet(Releasing(u)) /\ Cardinality(Releasing(u)) \in Nat
<1>1. IsFiniteSet(Clients \X Paths)
  BY FS_Product DEF GftpAssumption
<1>2. Outstanding(u) \subseteq Clients \X Paths /\ Releasing(u) \subseteq Clients
  BY DEF Outstanding, Releasing
<1>3. IsFiniteSet(Outstanding(u)) /\ IsFiniteSet(Releasing(u))
  BY <1>1, <1>2, FS_Subset DEF GftpAssumption
<1> QED
  BY <1>3, FS_CardinalityType

\* A step of another task leaves what holds of a call as it is, unless this one
\* has the lock.
LEMMA OthersWithin ==
    ASSUME GftpAssumption, NEW c \in Clients, NEW d \in Clients \ {c}, Within(d),
           pc'[d] = pc[d], job'[d] = job[d], held'[d] = held[d],
           UNCHANGED <<lock, published>> \/ lock = None \/ lock = c
    PROVE  Within(d)'
<1>1. d # None /\ d # c
  BY DEF GftpAssumption
<1>2. JobUrl(d)' = JobUrl(d)
  BY DEF JobUrl
<1>3. CASE UNCHANGED <<lock, published>>
  BY <1>2, <1>3 DEF Within, LastReleased
<1>4. CASE lock = None \/ lock = c
  BY <1>1, <1>4 DEF Within, LastReleased
<1> QED
  BY <1>3, <1>4

\* Entries, sources and pending releases stay as they are.
LEMMA SameCount ==
    ASSUME GftpInv, UNCHANGED <<published, held>>,
           \A d \in Clients : (pc'[d] = "lock" /\ job'[d].kind = "release") =
                              (pc[d] = "lock" /\ job[d].kind = "release"),
           \A d \in Clients : pc[d] = "lock" /\ job[d].kind = "release" => job'[d] = job[d]
    PROVE  CountExact'
<1>1. ASSUME NEW u \in Urls
      PROVE  Outstanding(u)' = Outstanding(u) /\ Releasing(u)' = Releasing(u)
  BY DEF Outstanding, Releasing, JobUrl
<1> QED
  BY <1>1 DEF GftpInv, CountExact

LEMMA InitGftp == ASSUME GftpAssumption, Init PROVE GftpInv
<1>1. Shape
  BY DEF Init, Shape, Jobs, NoJob, Kinds, Places
<1>2. \A c \in Clients : Within(c)
  BY DEF Init, Within
<1>3. ASSUME NEW u \in Urls PROVE Outstanding(u) = {} /\ Releasing(u) = {}
  BY DEF Init, Outstanding, Releasing
<1>4. CountExact
  BY <1>3, FS_EmptySet DEF Init, CountExact
<1> QED
  BY <1>1, <1>2, <1>4 DEF GftpInv

-----------------------------------------------------------------------------
(* Steps of a task that leave the entries and the sources alone.           *)

\* A new call: an upload or a download.
LEMMA CallInv ==
    ASSUME GftpAssumption, GftpInv, NEW c \in Clients, NEW k \in {"upload", "receive"},
           NEW p \in Paths \cup {None}, NEW t \in BOOLEAN,
           Call(c, k, p, t, "process"), UNCHANGED <<published, held, lock, server>>,
           k = "upload" => p \in Paths /\ p \notin held[c],
           t => p \in Temps
    PROVE  GftpInv'
<1> DEFINE J == [kind |-> k, path |-> p, temp |-> t, server |-> None]
<1>1. /\ pc[c] = "idle" /\ pc' = [pc EXCEPT ![c] = "process"]
      /\ job' = [job EXCEPT ![c] = J]
  BY DEF Call, Goto
<1>2. J \in Jobs
  BY DEF Jobs, Kinds
<1>3. Shape'
  <2> HIDE DEF J
  <2> QED
    BY <1>1, <1>2 DEF GftpInv, Shape, Places
<1>4. /\ pc'[c] = "process" /\ job'[c] = J
      /\ \A d \in Clients \ {c} : pc'[d] = pc[d] /\ job'[d] = job[d]
  <2> HIDE DEF J
  <2> QED
    BY <1>1 DEF GftpInv, Shape
<1>5. Within(c)'
  BY <1>4 DEF Within
<1>6. \A d \in Clients : Within(d)'
  BY <1>4, <1>5, OthersWithin DEF GftpInv
<1>7. CountExact'
  BY <1>1, <1>4, SameCount
<1> QED
  BY <1>3, <1>6, <1>7 DEF GftpInv

\* The server that the task waited for is there.
LEMMA ServerInv ==
    ASSUME GftpAssumption, GftpInv, NEW c \in Clients, GetProcess(c) \/ Started(c)
    PROVE  GftpInv'
<1>1. /\ UNCHANGED <<published, held, lock>>
      /\ pc[c] \in {"process", "starting"}
      /\ \/ pc' = [pc EXCEPT ![c] = "starting"]
         \/ pc' = [pc EXCEPT ![c] = AfterProcess(job[c].kind)]
      /\ \/ job' = job
         \/ \E s \in Clients \cup {Main, None} : job' = [job EXCEPT ![c].server = s]
      /\ server' \in Clients \cup {Main, None}
  BY DEF GetProcess, Started, Goto, GftpInv, Shape
<1>2. job[c].kind \in Kinds /\ job[c] \in Jobs
  BY DEF GftpInv, Shape, Jobs
<1>3. /\ AfterProcess(job[c].kind) \in {"lock", "close", "receive"}
      /\ AfterProcess(job[c].kind) = "close" <=> job[c].kind = "release"
      /\ AfterProcess(job[c].kind) = "lock" <=> job[c].kind = "upload"
  BY <1>2 DEF AfterProcess, Kinds
<1>4. /\ pc' \in [Clients -> Places] /\ pc'[c] \in {"starting", AfterProcess(job[c].kind)}
      /\ \A d \in Clients \ {c} : pc'[d] = pc[d]
  BY <1>1, <1>3 DEF GftpInv, Shape, Places
<1>5. /\ job' \in [Clients -> Jobs]
      /\ \A d \in Clients \ {c} : job'[d] = job[d]
      /\ job'[c].kind = job[c].kind /\ job'[c].path = job[c].path
      /\ job'[c].temp = job[c].temp
  BY <1>1, <1>2 DEF GftpInv, Shape, Jobs
<1>6. Shape'
  BY <1>1, <1>4, <1>5 DEF GftpInv, Shape
<1>7. Within(c)'
  <2>1. JobUrl(c)' = JobUrl(c)
    BY <1>5 DEF JobUrl
  <2> QED
    BY <1>1, <1>3, <1>4, <1>5, <2>1 DEF GftpInv, Within, LastReleased
<1>8. \A d \in Clients : Within(d)'
  BY <1>1, <1>4, <1>5, <1>7, OthersWithin DEF GftpInv
<1>9. CountExact'
  BY <1>1, <1>3, <1>4, <1>5, SameCount
<1> QED
  BY <1>6, <1>8, <1>9 DEF GftpInv

LEMMA AcquireInv ==
    ASSUME GftpAssumption, GftpInv, NEW c \in Clients, Acquire(c)
    PROVE  GftpInv'
<1>1. /\ UNCHANGED <<published, held, job, server>> /\ lock = None /\ lock' = c
      /\ pc[c] = "lock" /\ job[c].kind = "upload" /\ pc' = [pc EXCEPT ![c] = "publish"]
  BY DEF Acquire, Goto
<1>2. pc'[c] = "publish" /\ \A d \in Clients \ {c} : pc'[d] = pc[d]
  BY <1>1 DEF GftpInv, Shape
<1>3. Shape'
  BY <1>1 DEF GftpInv, Shape, Places
<1>4. Within(c)'
  BY <1>1, <1>2 DEF GftpInv, Within
<1>5. \A d \in Clients : Within(d)'
  BY <1>1, <1>2, <1>4, OthersWithin DEF GftpInv
<1>6. CountExact'
  BY <1>1, <1>2, SameCount
<1> QED
  BY <1>3, <1>5, <1>6 DEF GftpInv

\* The end of a call: what is left to show is the count.
LEMMA FinishInv ==
    ASSUME GftpAssumption, GftpInv, NEW c \in Clients,
           pc' = [pc EXCEPT ![c] = "idle"], job' = [job EXCEPT ![c] = NoJob],
           lock' = None, lock = None \/ lock = c, server' = server,
           published' \in [Urls -> Entry \cup {None}],
           held' \in [Clients -> SUBSET Paths],
           \A d \in Clients \ {c} : held'[d] = held[d]
    PROVE  /\ Shape' /\ \A d \in Clients : Within(d)'
           /\ pc'[c] = "idle" /\ job'[c] = NoJob
           /\ \A d \in Clients \ {c} : pc'[d] = pc[d] /\ job'[d] = job[d]
<1>1. NoJob \in Jobs
  BY DEF NoJob, Jobs, Kinds
<1>2. /\ pc'[c] = "idle" /\ job'[c] = NoJob
      /\ \A d \in Clients \ {c} : pc'[d] = pc[d] /\ job'[d] = job[d]
  BY DEF GftpInv, Shape
<1>3. Shape'
  BY <1>1 DEF GftpInv, Shape, Places
<1>4. Within(c)'
  BY <1>2 DEF Within
<1>5. \A d \in Clients : Within(d)'
  BY <1>2, <1>4, OthersWithin DEF GftpInv
<1> QED
  BY <1>2, <1>3, <1>5

LEMMA RaisesInv ==
    ASSUME GftpAssumption, GftpInv, NEW c \in Clients, PublishRaises(c) \/ CloseRaises(c)
    PROVE  GftpInv'
<1>1. /\ UNCHANGED <<published, held, server>> /\ lock' = None
      /\ pc' = [pc EXCEPT ![c] = "idle"] /\ job' = [job EXCEPT ![c] = NoJob]
      /\ pc[c] \in {"publish", "close"}
  BY DEF PublishRaises, CloseRaises, Finish, Goto
<1>2. lock = c
  BY <1>1 DEF GftpInv, Within, LastReleased
<1>3. published' \in [Urls -> Entry \cup {None}] /\ held' \in [Clients -> SUBSET Paths]
  BY <1>1 DEF GftpInv, Shape
<1>4. /\ Shape' /\ \A d \in Clients : Within(d)'
      /\ pc'[c] = "idle" /\ \A d \in Clients \ {c} : pc'[d] = pc[d] /\ job'[d] = job[d]
  BY <1>1, <1>2, <1>3, FinishInv
<1>5. CountExact'
  BY <1>1, <1>4, SameCount
<1> QED
  BY <1>4, <1>5 DEF GftpInv

LEMMA ReceiveInv ==
    ASSUME GftpAssumption, GftpInv, NEW c \in Clients, Receive(c)
    PROVE  GftpInv'
<1>1. /\ UNCHANGED <<published, held, server, lock>>
      /\ pc' = [pc EXCEPT ![c] = "idle"] /\ job' = [job EXCEPT ![c] = NoJob]
      /\ pc[c] = "receive"
  BY DEF Receive, Goto
<1>2. /\ pc'[c] = "idle" /\ job'[c] = NoJob
      /\ \A d \in Clients \ {c} : pc'[d] = pc[d] /\ job'[d] = job[d]
  BY <1>1 DEF GftpInv, Shape
<1>3. Shape'
  BY <1>1 DEF GftpInv, Shape, Places, NoJob, Jobs, Kinds
<1>4. Within(c)'
  BY <1>2 DEF Within
<1>5. \A d \in Clients : Within(d)'
  BY <1>1, <1>2, <1>4, OthersWithin DEF GftpInv
<1>6. CountExact'
  BY <1>1, <1>2, SameCount
<1> QED
  BY <1>3, <1>5, <1>6 DEF GftpInv

-----------------------------------------------------------------------------
(* Steps that change an entry or a source.                                 *)

LEMMA PublishInv ==
    ASSUME GftpAssumption, GftpInv, NEW c \in Clients, Publish(c)
    PROVE  GftpInv'
<1> PICK p : p = job[c].path
  OBVIOUS
<1> PICK u : u = Url[p]
  OBVIOUS
<1> DEFINE e == Counted(published[u], p, job[c].temp)
<1>1. /\ pc[c] = "publish" /\ lock' = None /\ server' = server
      /\ pc' = [pc EXCEPT ![c] = "idle"] /\ job' = [job EXCEPT ![c] = NoJob]
  BY DEF Publish, Finish, Goto
<1>2. /\ lock = c /\ p \in Paths /\ p \notin held[c] /\ job[c].kind = "upload"
      /\ job[c].temp => p \in Temps
  BY <1>1 DEF GftpInv, Within
<1>3. u \in Urls /\ job[c].temp \in BOOLEAN /\ published[u] \in Entry \cup {None}
  BY <1>2 DEF GftpInv, Shape, Jobs, GftpAssumption
<1>4. CASE UNCHANGED <<published, held>>
  <2>1. published' \in [Urls -> Entry \cup {None}] /\ held' \in [Clients -> SUBSET Paths]
    BY <1>4 DEF GftpInv, Shape
  <2>2. /\ Shape' /\ \A d \in Clients : Within(d)'
        /\ pc'[c] = "idle" /\ \A d \in Clients \ {c} : pc'[d] = pc[d] /\ job'[d] = job[d]
    BY <1>1, <1>2, <1>4, <2>1, FinishInv
  <2>3. CountExact'
    BY <1>1, <1>4, <2>2, SameCount
  <2> QED
    BY <2>2, <2>3 DEF GftpInv
<1>5. CASE /\ published' = [published EXCEPT ![u] = e]
           /\ held' = [held EXCEPT ![c] = @ \cup {p}]
  <2>1. e \in Entry /\ e # None
    <3>1. e \in Entry
      BY <1>2, <1>3 DEF Counted, Entry
    <3> QED
      BY <3>1 DEF GftpAssumption
  <2>2. e.count = (IF published[u] = None THEN 0 ELSE published[u].count) + 1
    BY <1>3 DEF Counted, Entry
  <2> HIDE DEF e
  <2>3. /\ published' \in [Urls -> Entry \cup {None}] /\ held' \in [Clients -> SUBSET Paths]
        /\ published'[u] = e /\ \A v \in Urls \ {u} : published'[v] = published[v]
        /\ held'[c] = held[c] \cup {p} /\ \A d \in Clients \ {c} : held'[d] = held[d]
    BY <1>2, <1>3, <1>5, <2>1 DEF GftpInv, Shape
  <2>4. /\ Shape' /\ \A d \in Clients : Within(d)'
        /\ pc'[c] = "idle" /\ \A d \in Clients \ {c} : pc'[d] = pc[d] /\ job'[d] = job[d]
    BY <1>1, <1>2, <2>3, FinishInv
  <2>5. \A v \in Urls : Releasing(v)' = Releasing(v)
    BY <1>1, <2>4 DEF Releasing, JobUrl
  <2>6. \A v \in Urls \ {u} : Outstanding(v)' = Outstanding(v)
    BY <2>3 DEF Outstanding
  <2>7. Outstanding(u)' = Outstanding(u) \cup {<<c, p>>} /\ <<c, p>> \notin Outstanding(u)
    BY <1>2, <2>3 DEF Outstanding
  <2>8. Cardinality(Outstanding(u)') = Cardinality(Outstanding(u)) + 1
    <3>1. IsFiniteSet(Outstanding(u))
      BY CountedFinite
    <3>2. Cardinality(Outstanding(u) \cup {<<c, p>>}) =
            IF <<c, p>> \in Outstanding(u) THEN Cardinality(Outstanding(u))
                                           ELSE Cardinality(Outstanding(u)) + 1
      BY <3>1, FS_AddElement
    <3> QED
      BY <2>7, <3>2
  <2>9. /\ Cardinality(Outstanding(u)) \in Nat /\ Cardinality(Releasing(u)) \in Nat
    BY CountedFinite
  <2>10. (IF published[u] = None THEN 0 ELSE published[u].count)
            = Cardinality(Outstanding(u)) + Cardinality(Releasing(u))
    BY <1>3 DEF GftpInv, CountExact
  <2>11. e.count = Cardinality(Outstanding(u)') + Cardinality(Releasing(u)')
    BY <1>3, <2>2, <2>5, <2>8, <2>9, <2>10
  <2>12. ASSUME NEW v \in Urls
         PROVE  (IF published'[v] = None THEN 0 ELSE published'[v].count)
                   = Cardinality(Outstanding(v)') + Cardinality(Releasing(v)')
    <3>1. CASE v = u
      BY <2>1, <2>3, <2>11, <3>1
    <3>2. CASE v # u
      BY <2>3, <2>5, <2>6, <3>2 DEF GftpInv, CountExact
    <3> QED
      BY <3>1, <3>2
  <2>13. CountExact'
    BY <2>12 DEF CountExact
  <2> QED
    BY <2>4, <2>13 DEF GftpInv
<1> QED
  BY <1>4, <1>5 DEF Publish

\* A source that is given back counts until the lock is free.
LEMMA ReleaseInv ==
    ASSUME GftpAssumption, GftpInv, NEW c \in Clients, NEW p \in Paths, Release(c, p)
    PROVE  GftpInv'
<1> DEFINE J == [kind |-> "release", path |-> p, temp |-> FALSE, server |-> None]
           u == Url[p]
<1>1. /\ pc[c] = "idle" /\ pc' = [pc EXCEPT ![c] = "lock"] /\ p \in held[c]
      /\ job' = [job EXCEPT ![c] = J] /\ held' = [held EXCEPT ![c] = @ \ {p}]
      /\ UNCHANGED <<published, lock, server>>
  BY DEF Release, Call, Goto
<1>2. J \in Jobs /\ u \in Urls
  BY DEF Jobs, Kinds, GftpAssumption
<1>3. /\ J.path = p /\ J.kind = "release" /\ ~J.temp
  OBVIOUS
<1> HIDE DEF J
<1>4. Shape'
  BY <1>1, <1>2 DEF GftpInv, Shape, Places
<1>5. /\ pc'[c] = "lock" /\ job'[c] = J /\ held'[c] = held[c] \ {p}
      /\ \A d \in Clients \ {c} :
            pc'[d] = pc[d] /\ job'[d] = job[d] /\ held'[d] = held[d]
  BY <1>1 DEF GftpInv, Shape
<1>6. Within(c)'
  BY <1>3, <1>5 DEF Within
<1>7. \A d \in Clients : Within(d)'
  BY <1>1, <1>5, <1>6, OthersWithin DEF GftpInv
<1>8. \A v \in Urls \ {u} : Outstanding(v)' = Outstanding(v) /\ Releasing(v)' = Releasing(v)
  <2>1. \A v \in Urls \ {u} : Outstanding(v)' = Outstanding(v)
    BY <1>5 DEF Outstanding
  <2>2. \A v \in Urls \ {u} : Releasing(v)' = Releasing(v)
    BY <1>1, <1>3, <1>5 DEF Releasing, JobUrl
  <2> QED
    BY <2>1, <2>2
<1>9. Outstanding(u)' = Outstanding(u) \ {<<c, p>>} /\ <<c, p>> \in Outstanding(u)
  BY <1>1, <1>5 DEF Outstanding
<1>10. Releasing(u)' = Releasing(u) \cup {c} /\ c \notin Releasing(u)
  BY <1>1, <1>3, <1>5 DEF Releasing, JobUrl
<1>11. /\ Cardinality(Outstanding(u)') = Cardinality(Outstanding(u)) - 1
       /\ Cardinality(Releasing(u)') = Cardinality(Releasing(u)) + 1
  <2>1. IsFiniteSet(Outstanding(u)) /\ IsFiniteSet(Releasing(u))
    BY CountedFinite
  <2>2. Cardinality(Outstanding(u)') = Cardinality(Outstanding(u)) - 1
    BY <1>9, <2>1, FS_RemoveElement
  <2>3. Cardinality(Releasing(u)') = Cardinality(Releasing(u)) + 1
    BY <1>10, <2>1, FS_AddElement
  <2> QED
    BY <2>2, <2>3
<1>12. Cardinality(Outstanding(u)) \in Nat /\ Cardinality(Releasing(u)) \in Nat
  BY CountedFinite
<1>13. Cardinality(Outstanding(u)') + Cardinality(Releasing(u)')
          = Cardinality(Outstanding(u)) + Cardinality(Releasing(u))
  BY <1>11, <1>12
<1>14. CountExact'
  BY <1>1, <1>8, <1>13 DEF GftpInv, CountExact
<1> QED
  BY <1>4, <1>7, <1>14 DEF GftpInv

LEMMA ReleaseLockedInv ==
    ASSUME GftpAssumption, GftpInv, NEW c \in Clients, ReleaseLocked(c)
    PROVE  GftpInv'
<1> PICK u : u = JobUrl(c)
  OBVIOUS
<1> DEFINE n == published[u].count
           Goes(l) == pc' = [pc EXCEPT ![c] = l]
<1>1. /\ pc[c] = "lock" /\ job[c].kind = "release" /\ lock = None
      /\ UNCHANGED <<held, server>>
  BY DEF ReleaseLocked
<1>2. job[c].path \in Paths /\ u \in Urls
  BY <1>1 DEF GftpInv, Within, JobUrl, GftpAssumption
<1>3. c \in Releasing(u)
  BY <1>1 DEF Releasing
<1>4. /\ Cardinality(Releasing(u) \ {c}) = Cardinality(Releasing(u)) - 1
      /\ Cardinality(Releasing(u) \ {c}) \in Nat
      /\ Cardinality(Outstanding(u)) \in Nat /\ Cardinality(Releasing(u)) \in Nat
  <2>1. IsFiniteSet(Releasing(u)) /\ Cardinality(Releasing(u)) \in Nat
        /\ Cardinality(Outstanding(u)) \in Nat
    BY CountedFinite
  <2>2. IsFiniteSet(Releasing(u) \ {c})
        /\ Cardinality(Releasing(u) \ {c}) = Cardinality(Releasing(u)) - 1
    BY <1>3, <2>1, FS_RemoveElement
  <2> QED
    BY <2>1, <2>2, FS_CardinalityType
<1>5. (IF published[u] = None THEN 0 ELSE n)
         = Cardinality(Outstanding(u)) + Cardinality(Releasing(u))
  BY <1>2 DEF GftpInv, CountExact
<1>6. published[u] # None /\ n \in Nat /\ n >= 1
  BY <1>4, <1>5
<1>7. published[u] \in Entry
  BY <1>2, <1>6 DEF GftpInv, Shape
<1>8. Lower(u) = n - 1 /\ n - 1 \in Nat
  BY <1>6 DEF Lower
<1>9. /\ \/ published' = [published EXCEPT ![u].count = n - 1]
         \/ Lower(u) = 0 /\ published' = [published EXCEPT ![u] = None]
      /\ \/ Goes("idle") /\ job' = [job EXCEPT ![c] = NoJob] /\ lock' = None
         \/ /\ Goes("process") /\ job' = job /\ lock' = c
            /\ published' = [published EXCEPT ![u].count = 0] /\ Lower(u) = 0
  BY <1>6, <1>8 DEF ReleaseLocked, Finish, Goto, Unpublish
<1>10. /\ published' \in [Urls -> Entry \cup {None}]
       /\ (IF published'[u] = None THEN 0 ELSE published'[u].count) = n - 1
       /\ \A v \in Urls \ {u} : published'[v] = published[v]
  <2>1. CASE published' = [published EXCEPT ![u].count = n - 1]
    <3> DEFINE e == [published[u] EXCEPT !.count = n - 1]
    <3>1. e \in Entry /\ e.count = n - 1 /\ e # None
      BY <1>7, <1>8 DEF Entry, GftpAssumption
    <3>2. published' = [published EXCEPT ![u] = e]
      BY <2>1
    <3> HIDE DEF e
    <3> QED
      BY <1>2, <3>1, <3>2 DEF GftpInv, Shape
  <2>2. CASE Lower(u) = 0 /\ published' = [published EXCEPT ![u] = None]
    BY <1>2, <1>8, <2>2 DEF GftpInv, Shape
  <2> QED
    BY <1>9, <2>1, <2>2
<1>11. /\ Shape' /\ (\A d \in Clients : Within(d)')
       /\ pc'[c] # "lock" /\ \A d \in Clients \ {c} : pc'[d] = pc[d] /\ job'[d] = job[d]
  <2>1. held' \in [Clients -> SUBSET Paths] /\ \A d \in Clients : held'[d] = held[d]
    BY <1>1 DEF GftpInv, Shape
  <2>2. CASE Goes("idle") /\ job' = [job EXCEPT ![c] = NoJob] /\ lock' = None
    BY <1>1, <1>10, <2>1, <2>2, FinishInv
  <2>3. CASE /\ Goes("process") /\ job' = job /\ lock' = c
             /\ published' = [published EXCEPT ![u].count = 0] /\ Lower(u) = 0
    <3>1. pc'[c] = "process" /\ \A d \in Clients \ {c} : pc'[d] = pc[d]
      BY <2>3 DEF GftpInv, Shape
    <3>2. Shape'
      BY <1>1, <1>10, <2>1, <2>3 DEF GftpInv, Shape, Places
    <3>3. published'[u] # None /\ published'[u].count = 0 /\ JobUrl(c)' = u
      <4>1. JobUrl(c)' = u
        BY <2>3 DEF JobUrl
      <4> DEFINE e == [published[u] EXCEPT !.count = 0]
      <4>2. e \in Entry /\ e.count = 0 /\ e # None
        BY <1>7 DEF Entry, GftpAssumption
      <4>3. published' = [published EXCEPT ![u] = e]
        BY <2>3
      <4> HIDE DEF e
      <4> QED
        BY <1>2, <4>1, <4>2, <4>3 DEF GftpInv, Shape
    <3>4. Within(c)'
      BY <1>1, <2>1, <2>3, <3>1, <3>3 DEF GftpInv, Within, LastReleased
    <3>5. \A d \in Clients : Within(d)'
      BY <1>1, <2>1, <2>3, <3>1, <3>4, OthersWithin DEF GftpInv
    <3> QED
      BY <2>3, <3>1, <3>2, <3>5
  <2> QED
    BY <1>9, <2>2, <2>3
<1>12. \A v \in Urls : Outstanding(v)' = Outstanding(v)
  BY <1>1 DEF Outstanding
<1>13. /\ Releasing(u)' = Releasing(u) \ {c}
       /\ \A v \in Urls \ {u} : Releasing(v)' = Releasing(v)
  BY <1>11 DEF Releasing, JobUrl
<1>14. ASSUME NEW v \in Urls
       PROVE  (IF published'[v] = None THEN 0 ELSE published'[v].count)
                 = Cardinality(Outstanding(v)') + Cardinality(Releasing(v)')
  <2>1. CASE v = u
    <3>1. Cardinality(Outstanding(u)') + Cardinality(Releasing(u)') = n - 1
      BY <1>2, <1>4, <1>5, <1>6, <1>12, <1>13
    <3> QED
      BY <1>10, <2>1, <3>1
  <2>2. CASE v # u
    BY <1>10, <1>12, <1>13, <2>2 DEF GftpInv, CountExact
  <2> QED
    BY <2>1, <2>2
<1>15. CountExact'
  BY <1>14 DEF CountExact
<1> QED
  BY <1>11, <1>15 DEF GftpInv

LEMMA CloseInv ==
    ASSUME GftpAssumption, GftpInv, NEW c \in Clients, Close(c)
    PROVE  GftpInv'
<1> DEFINE u == JobUrl(c)
<1>1. /\ pc[c] = "close" /\ lock' = None /\ UNCHANGED <<held, server>>
      /\ pc' = [pc EXCEPT ![c] = "idle"] /\ job' = [job EXCEPT ![c] = NoJob]
      /\ published' = [published EXCEPT ![u] = None]
  BY DEF Close, Finish, Goto, Unpublish
<1>2. /\ job[c].kind = "release" /\ lock = c
      /\ published[u] # None /\ published[u].count = 0 /\ job[c].path \in Paths
  BY <1>1 DEF GftpInv, Within, LastReleased
<1>3. u \in Urls
  BY <1>2 DEF JobUrl, GftpAssumption
<1>4. /\ published' \in [Urls -> Entry \cup {None}] /\ published'[u] = None
      /\ \A v \in Urls \ {u} : published'[v] = published[v]
      /\ held' \in [Clients -> SUBSET Paths]
  BY <1>1, <1>3 DEF GftpInv, Shape
<1>5. /\ Shape' /\ \A d \in Clients : Within(d)'
      /\ pc'[c] = "idle" /\ \A d \in Clients \ {c} : pc'[d] = pc[d] /\ job'[d] = job[d]
  BY <1>1, <1>2, <1>4, FinishInv
<1>6. ASSUME NEW v \in Urls
      PROVE  Outstanding(v)' = Outstanding(v) /\ Releasing(v)' = Releasing(v)
  BY <1>1, <1>5 DEF Outstanding, Releasing, JobUrl
<1>7. ASSUME NEW v \in Urls
      PROVE  (IF published'[v] = None THEN 0 ELSE published'[v].count)
                = (IF published[v] = None THEN 0 ELSE published[v].count)
  BY <1>2, <1>4
<1>8. CountExact'
  BY <1>6, <1>7 DEF GftpInv, CountExact
<1> QED
  BY <1>5, <1>8 DEF GftpInv

-----------------------------------------------------------------------------

\* Entering, leaving, and streams that raise.
LEMMA RestInv ==
    ASSUME GftpAssumption, GftpInv,
           Enter \/ Exit \/ ExitEnd \/ UNCHANGED vars
             \/ \E c \in Clients, t \in Temps : StreamRaises(c, t)
    PROVE  GftpInv'
<1>1. UNCHANGED <<published, held, lock, pc, job>>
      /\ server' \in Clients \cup {Main, None}
  BY DEF Enter, Exit, ExitEnd, StreamRaises, vars, GftpInv, Shape
<1>2. Shape' /\ \A c \in Clients : Within(c)'
  BY <1>1 DEF GftpInv, Shape, Within, LastReleased, JobUrl
<1>3. CountExact'
  BY <1>1, SameCount
<1> QED
  BY <1>2, <1>3 DEF GftpInv

LEMMA UploadsInv ==
    ASSUME GftpAssumption, GftpInv, NEW c \in Clients,
           \/ \E p \in Paths : UploadFile(c, p)
           \/ \E t \in Temps : UploadStream(c, t)
           \/ \E p \in Temps \cup {None} : NewDestination(c, p)
    PROVE  GftpInv'
<1>1. ASSUME NEW p \in Paths, UploadFile(c, p) PROVE GftpInv'
  <2>1. /\ Call(c, "upload", p, FALSE, "process") /\ p \notin held[c]
        /\ UNCHANGED <<published, held, lock, server>>
    BY <1>1 DEF UploadFile
  <2> QED
    BY <2>1, CallInv
<1>2. ASSUME NEW t \in Temps, UploadStream(c, t) PROVE GftpInv'
  <2>1. /\ Call(c, "upload", t, TRUE, "process") /\ t \notin held[c]
        /\ UNCHANGED <<published, held, lock, server>>
    BY <1>2 DEF UploadStream, FreshTemp
  <2>2. t \in Paths
    BY DEF Paths
  <2> QED
    BY <2>1, <2>2, CallInv
<1>3. ASSUME NEW p \in Temps \cup {None}, NewDestination(c, p) PROVE GftpInv'
  <2>1. /\ Call(c, "receive", p, FALSE, "process")
        /\ UNCHANGED <<published, held, lock, server>>
    BY <1>3 DEF NewDestination
  <2>2. p \in Paths \cup {None}
    BY DEF Paths
  <2> QED
    BY <2>1, <2>2, CallInv
<1> QED
  BY <1>1, <1>2, <1>3

LEMMA GftpStepInv == ASSUME GftpAssumption, GftpInv, [Next]_vars PROVE GftpInv'
<1>1. ASSUME NEW c \in Clients, Step(c) PROVE GftpInv'
  BY <1>1, ServerInv, AcquireInv, PublishInv, RaisesInv, ReleaseLockedInv, CloseInv,
     ReceiveInv DEF Step
<1>2. ASSUME NEW c \in Clients, NEW p \in Paths, Release(c, p) PROVE GftpInv'
  BY <1>2, ReleaseInv
<1> QED
  BY <1>1, <1>2, UploadsInv, RestInv DEF Next

\* The count of a URL is that of the sources that are out, whatever raises and
\* however the calls of tasks interleave (provider.py __release, upload_file).
THEOREM CountIsExact ==
    ASSUME GftpAssumption
    PROVE  Spec => []CountExact
<1>1. Init => GftpInv
  BY InitGftp
<1>2. GftpInv /\ [Next]_vars => GftpInv'
  BY GftpStepInv
<1>3. GftpInv => CountExact
  BY DEF GftpInv
<1> QED
  BY <1>1, <1>2, <1>3, PTL DEF Spec

-----------------------------------------------------------------------------
(***************************************************************************)
(* That what somebody has is served, and what nobody has is given back.    *)
(*                                                                         *)
(* CountExact tells when a URL may go: with a count of 0 nobody has a      *)
(* source of it, and the task that closes it holds the lock, so that none  *)
(* is added before it is gone.  The rest is bookkeeping of who owes what:  *)
(* a URL to its entry, a temporary file to its entry or its upload, both   *)
(* to the server the call was given, which `async with` makes the only one.*)
(***************************************************************************)

\* What the calls in flight know of their server and of their file.
CallRight(c) ==
    /\ \/ pc[c] \in {"publish", "close"}
       \/ pc[c] = "lock" /\ job[c].kind = "upload"
       => job[c].server # None
    /\ job[c].temp => pc[c] # "idle" /\ job[c].kind = "upload"
    /\ pc[c] = "receive" => job[c].kind = "receive"

OneServer == entered =>
    /\ phase = "new" => exposed = {} /\ \A c \in Clients : pc[c] = "idle"
    /\ phase # "new" => server = Main
    /\ \A c \in Clients : pc[c] # "starting" /\ job[c].server \in {Main, None}
    /\ \A x \in exposed : x[1] = Main

EntryTemps ==
    \A u \in Urls : published[u] # None => \A t \in published[u].temps : Url[t] = u

HeldExposed == phase # "closed" =>
    \A c \in Clients : \A p \in held[c] :
        \E s \in Clients \cup {Main} : <<s, Url[p]>> \in exposed

HeldOnDisk == phase \in {"new", "open"} =>
    \A c \in Clients : \A p \in held[c] : p \in Temps => p \in disk

ExposedKnown == entered /\ closeUrls = TRUE =>
    \A x \in exposed : published[x[2]] # None \/ x[2] \in spilled

DiskKnown == \A t \in disk :
    \/ t \in spilled
    \/ \E u \in Urls : published[u] # None /\ t \in published[u].temps
    \/ \E c \in Clients : job[c].temp /\ job[c].path = t

NothingOpen ==
    /\ phase = "closing" => disk = {}
    /\ phase = "closed" => disk = {} /\ exposed = {}

ServedInv ==
    /\ exposed \subseteq (Clients \cup {Main}) \X Urls
    /\ \A c \in Clients : CallRight(c)
    /\ OneServer /\ EntryTemps
    /\ HeldExposed /\ HeldOnDisk /\ ExposedKnown /\ DiskKnown /\ NothingOpen

\* A provider that was just made serves nothing and owes nothing.
LEMMA InitServed == ASSUME GftpAssumption, Init PROVE ServedInv
  BY DEF Init, ServedInv, CallRight, OneServer, EntryTemps, HeldExposed, HeldOnDisk,
         ExposedKnown, DiskKnown, NothingOpen, NoJob

\* A URL whose count is 0, or 1 for the source that is being released.
LEMMA NobodyHas ==
    ASSUME GftpAssumption, GftpInv, NEW u \in Urls, published[u] # None,
           \/ published[u].count = 0
           \/ published[u].count = 1 /\ \E c \in Clients : c \in Releasing(u)
    PROVE  \A c \in Clients : \A p \in held[c] : Url[p] # u
<1>1. /\ IsFiniteSet(Outstanding(u)) /\ Cardinality(Outstanding(u)) \in Nat
      /\ IsFiniteSet(Releasing(u)) /\ Cardinality(Releasing(u)) \in Nat
  BY CountedFinite
<1>2. published[u].count = Cardinality(Outstanding(u)) + Cardinality(Releasing(u))
  BY DEF GftpInv, CountExact
<1>3. (\E c \in Clients : c \in Releasing(u)) => Cardinality(Releasing(u)) # 0
  BY <1>1, FS_EmptySet
<1>4. Cardinality(Outstanding(u)) = 0
  BY <1>1, <1>2, <1>3
<1>5. Outstanding(u) = {}
  BY <1>1, <1>4, FS_EmptySet
<1>6. ASSUME NEW c \in Clients, NEW p \in held[c], Url[p] = u
      PROVE  <<c, p>> \in Outstanding(u)
  BY <1>6 DEF Outstanding, GftpInv, Shape
<1> QED
  BY <1>5, <1>6

\* A new call: nobody's file is touched, the new one is of the call or spilled.
LEMMA CallServed ==
    ASSUME GftpAssumption, GftpInv, ServedInv, NEW c \in Clients,
           NEW k \in {"upload", "receive"}, NEW p \in Paths \cup {None}, NEW t \in BOOLEAN,
           Call(c, k, p, t, "process"), t => k = "upload",
           UNCHANGED <<entered, phase, closeUrls, server, exposed, published, held>>,
           disk \subseteq disk', spilled \subseteq spilled',
           \A q \in disk' \ disk : q \in spilled' \/ (t /\ q = p)
    PROVE  ServedInv'
<1> DEFINE J == [kind |-> k, path |-> p, temp |-> t, server |-> None]
<1>1. /\ phase = "open" /\ pc[c] = "idle" /\ pc' = [pc EXCEPT ![c] = "process"]
      /\ job' = [job EXCEPT ![c] = J]
  BY DEF Call, Goto
<1>2. J.kind = k /\ J.path = p /\ J.temp = t /\ J.server = None
  OBVIOUS
<1> HIDE DEF J
<1>3. /\ pc'[c] = "process" /\ job'[c] = J
      /\ \A d \in Clients \ {c} : pc'[d] = pc[d] /\ job'[d] = job[d]
  BY <1>1 DEF GftpInv, Shape
<1>4. \A d \in Clients : CallRight(d)'
  BY <1>2, <1>3 DEF ServedInv, CallRight
<1>5. OneServer'
  BY <1>1, <1>2, <1>3 DEF ServedInv, OneServer
<1>6. EntryTemps' /\ HeldExposed' /\ HeldOnDisk' /\ ExposedKnown'
  BY DEF ServedInv, EntryTemps, HeldExposed, HeldOnDisk, ExposedKnown
<1>7. DiskKnown'
  <2>1. ~ job[c].temp
    BY <1>1 DEF ServedInv, CallRight
  <2>2. ASSUME NEW q \in disk
        PROVE  \/ q \in spilled'
               \/ \E u \in Urls : published'[u] # None /\ q \in published'[u].temps
               \/ \E d \in Clients : job'[d].temp /\ job'[d].path = q
    BY <1>3, <2>1 DEF ServedInv, DiskKnown
  <2> QED
    BY <1>2, <1>3, <2>2 DEF DiskKnown
<1>8. NothingOpen'
  BY <1>1 DEF NothingOpen
<1> QED
  BY <1>4, <1>5, <1>6, <1>7, <1>8 DEF ServedInv

\* The server a call is given is the only one, if there was `async with`.
LEMMA ServerServed ==
    ASSUME GftpAssumption, GftpInv, ServedInv, NEW c \in Clients, GetProcess(c) \/ Started(c)
    PROVE  ServedInv'
<1>1. /\ UNCHANGED <<entered, phase, closeUrls, exposed, published, disk, held, spilled>>
      /\ pc[c] \in {"process", "starting"} /\ job[c].kind \in Kinds
      /\ c \in Clients \cup {Main}
      /\ \/ /\ server = None /\ pc[c] = "process" /\ pc' = [pc EXCEPT ![c] = "starting"]
            /\ job' = job /\ server' = server
         \/ \E s \in Clients \cup {Main} :
              /\ pc' = [pc EXCEPT ![c] = AfterProcess(job[c].kind)]
              /\ job' = [job EXCEPT ![c].server = s]
              /\ (s = server /\ server' = server) \/ pc[c] = "starting"
  BY DEF GetProcess, Started, Goto, GftpInv, Shape, Jobs
<1>2. entered => server = Main /\ server' = server /\ pc[c] # "starting"
  <2>1. entered => server = Main /\ pc[c] # "starting"
    BY <1>1 DEF ServedInv, OneServer
  <2>2. Main # None
    BY DEF GftpAssumption
  <2> QED
    BY <1>1, <2>1, <2>2
<1>3. /\ AfterProcess("upload") = "lock" /\ AfterProcess("release") = "close"
      /\ AfterProcess("receive") = "receive"
  BY DEF AfterProcess
<1>4. /\ job'[c].kind = job[c].kind /\ job'[c].temp = job[c].temp /\ job'[c].path = job[c].path
      /\ \A d \in Clients \ {c} : pc'[d] = pc[d] /\ job'[d] = job[d]
      /\ \/ pc'[c] = "starting" /\ job'[c] = job[c] /\ server = None
         \/ /\ pc'[c] = AfterProcess(job[c].kind) /\ job'[c].server \in Clients \cup {Main}
            /\ entered => job'[c].server = Main
  <2>1. job[c] \in Jobs
    BY DEF GftpInv, Shape
  <2> QED
    BY <1>1, <1>2, <2>1 DEF GftpInv, Shape, Jobs
<1>5. CallRight(c)'
  <2>1. None \notin Clients \cup {Main}
    BY DEF GftpAssumption
  <2> QED
    BY <1>1, <1>3, <1>4, <2>1 DEF ServedInv, CallRight, Kinds
<1>6. \A d \in Clients : CallRight(d)'
  BY <1>4, <1>5 DEF ServedInv, CallRight
<1>7. OneServer'
  <2>1. Main # None
    BY DEF GftpAssumption
  <2>2. pc[c] # "idle" /\ (entered => phase # "new")
    BY <1>1 DEF ServedInv, OneServer
  <2>3. AfterProcess(job[c].kind) # "starting"
    BY <1>1, <1>3 DEF Kinds
  <2> QED
    BY <1>1, <1>2, <1>4, <2>1, <2>2, <2>3 DEF ServedInv, OneServer
<1>8. EntryTemps' /\ HeldExposed' /\ HeldOnDisk' /\ ExposedKnown' /\ NothingOpen'
  BY <1>1 DEF ServedInv, EntryTemps, HeldExposed, HeldOnDisk, ExposedKnown, NothingOpen
<1>9. DiskKnown'
  <2>1. \A d \in Clients : job'[d].temp = job[d].temp /\ job'[d].path = job[d].path
    BY <1>4
  <2> QED
    BY <1>1, <2>1 DEF ServedInv, DiskKnown
<1> QED
  BY <1>1, <1>6, <1>7, <1>8, <1>9 DEF ServedInv

\* The task that gets the lock has its server already.
LEMMA AcquireServed ==
    ASSUME GftpAssumption, GftpInv, ServedInv, NEW c \in Clients, Acquire(c)
    PROVE  ServedInv'
<1>1. /\ UNCHANGED <<entered, phase, closeUrls, server, exposed, published, disk, job,
                     held, spilled>>
      /\ pc[c] = "lock" /\ job[c].kind = "upload" /\ pc' = [pc EXCEPT ![c] = "publish"]
  BY DEF Acquire, Goto
<1>2. pc'[c] = "publish" /\ \A d \in Clients \ {c} : pc'[d] = pc[d]
  BY <1>1 DEF GftpInv, Shape
<1>3. \A d \in Clients : CallRight(d)'
  BY <1>1, <1>2 DEF ServedInv, CallRight
<1>4. OneServer'
  BY <1>1, <1>2 DEF ServedInv, OneServer
<1>5. EntryTemps' /\ HeldExposed' /\ HeldOnDisk' /\ ExposedKnown' /\ DiskKnown' /\ NothingOpen'
  BY <1>1 DEF ServedInv, EntryTemps, HeldExposed, HeldOnDisk, ExposedKnown, DiskKnown, NothingOpen
<1> QED
  BY <1>1, <1>3, <1>4, <1>5 DEF ServedInv

\* What the end of a call changes for the calls and the server.
LEMMA EndServed ==
    ASSUME GftpAssumption, GftpInv, ServedInv, NEW c \in Clients,
           pc[c] # "idle",
           pc' = [pc EXCEPT ![c] = "idle"], job' = [job EXCEPT ![c] = NoJob],
           UNCHANGED <<entered, phase, server>>,
           \A x \in exposed' :
               x \in exposed \/ (x[1] = job[c].server /\ job[c].server # None)
    PROVE  /\ \A d \in Clients : CallRight(d)'
           /\ OneServer'
           /\ job'[c] = NoJob /\ \A d \in Clients \ {c} : job'[d] = job[d]
<1>1. /\ pc'[c] = "idle" /\ job'[c] = NoJob
      /\ \A d \in Clients \ {c} : pc'[d] = pc[d] /\ job'[d] = job[d]
  BY DEF GftpInv, Shape
<1>2. \A d \in Clients : CallRight(d)'
  BY <1>1 DEF ServedInv, CallRight, NoJob
<1>3. entered => phase # "new"
  BY DEF ServedInv, OneServer
<1>4. OneServer'
  BY <1>1, <1>3 DEF ServedInv, OneServer, NoJob
<1> QED
  BY <1>1, <1>2, <1>4

\* A download has no temporary file of its own.
LEMMA ReceiveServed ==
    ASSUME GftpAssumption, GftpInv, ServedInv, NEW c \in Clients, Receive(c)
    PROVE  ServedInv'
<1>1. /\ UNCHANGED <<entered, phase, closeUrls, server, exposed, published, disk,
                     held, spilled>>
      /\ pc' = [pc EXCEPT ![c] = "idle"] /\ job' = [job EXCEPT ![c] = NoJob]
      /\ pc[c] = "receive"
  BY DEF Receive, Goto
<1>2. /\ \A d \in Clients : CallRight(d)'
      /\ OneServer' /\ job'[c] = NoJob /\ \A d \in Clients \ {c} : job'[d] = job[d]
  <2>1. pc[c] # "idle" /\ \A x \in exposed' : x \in exposed
    BY <1>1
  <2> QED
    BY <1>1, <2>1, EndServed
<1>3. ~ job[c].temp
  BY <1>1 DEF ServedInv, CallRight
<1>4. DiskKnown'
  BY <1>1, <1>2, <1>3 DEF ServedInv, DiskKnown
<1>5. EntryTemps' /\ HeldExposed' /\ HeldOnDisk' /\ ExposedKnown' /\ NothingOpen'
  BY <1>1 DEF ServedInv, EntryTemps, HeldExposed, HeldOnDisk, ExposedKnown, NothingOpen
<1> QED
  BY <1>1, <1>2, <1>4, <1>5 DEF ServedInv

\* A failed call: what it leaves behind is spilled, what others have stays.
LEMMA RaisesServed ==
    ASSUME GftpAssumption, GftpInv, ServedInv, NEW c \in Clients,
           PublishRaises(c) \/ CloseRaises(c)
    PROVE  ServedInv'
<1> DEFINE u == JobUrl(c)
           x == <<job[c].server, u>>
<1>1. /\ UNCHANGED <<entered, phase, closeUrls, server, published, disk, held>>
      /\ pc' = [pc EXCEPT ![c] = "idle"] /\ job' = [job EXCEPT ![c] = NoJob]
      /\ pc[c] \in {"publish", "close"} /\ spilled \subseteq spilled' /\ u \in spilled'
      /\ pc[c] = "publish" => {job[c].path} \cap Temps \subseteq spilled'
  BY DEF PublishRaises, CloseRaises, Finish, Goto
<1>2. /\ job[c].server \in Clients \cup {Main} /\ job[c].path \in Paths
      /\ pc[c] = "close" => job[c].kind = "release" /\ LastReleased(c)
      /\ job[c].temp => job[c].path \in Temps
  <2>1. job[c].server # None /\ job[c] \in Jobs /\ job[c].kind \in {"upload", "release"}
    BY <1>1 DEF ServedInv, CallRight, GftpInv, Shape, Within
  <2> QED
    BY <1>1, <2>1 DEF GftpInv, Within, Jobs
<1>3. u \in Urls
  BY <1>2 DEF JobUrl, GftpAssumption
<1>4. /\ exposed' \subseteq exposed \cup {x}
      /\ exposed' # exposed /\ exposed' # exposed \ {x} => phase = "open"
      /\ pc[c] = "publish" => exposed \subseteq exposed'
      /\ exposed \ {x} \subseteq exposed'
  BY <1>1 DEF PublishRaises, CloseRaises, Answers
<1>5. exposed' \subseteq (Clients \cup {Main}) \X Urls
  BY <1>2, <1>3, <1>4 DEF ServedInv
<1>6. \A y \in exposed' : y \in exposed \/ (y[1] = job[c].server /\ job[c].server # None)
  BY <1>2, <1>4 DEF GftpAssumption
<1>7. /\ \A d \in Clients : CallRight(d)'
      /\ OneServer' /\ job'[c] = NoJob /\ \A d \in Clients \ {c} : job'[d] = job[d]
  BY <1>1, <1>6, EndServed
<1>8. EntryTemps' /\ HeldOnDisk'
  BY <1>1 DEF ServedInv, EntryTemps, HeldOnDisk
<1>9. HeldExposed'
  <2>1. CASE pc[c] = "publish"
    BY <1>1, <1>4, <2>1 DEF ServedInv, HeldExposed
  <2>2. CASE pc[c] = "close"
    <3>1. \A d \in Clients : \A p \in held[d] : Url[p] # u
      BY <1>2, <1>3, <2>2, NobodyHas DEF LastReleased
    <3>2. \A d \in Clients, p \in Paths, s \in Clients \cup {Main} :
              p \in held[d] /\ <<s, Url[p]>> \in exposed => <<s, Url[p]>> \in exposed'
      BY <1>4, <3>1
    <3> QED
      BY <1>1, <3>2 DEF ServedInv, HeldExposed, GftpInv, Shape
  <2> QED
    BY <1>1, <2>1, <2>2
<1>10. ExposedKnown'
  BY <1>1, <1>4 DEF ServedInv, ExposedKnown
<1>11. DiskKnown'
  <2>1. job[c].temp => job[c].path \in spilled'
    <3>1. job[c].temp => pc[c] = "publish"
      BY <1>1, <1>2 DEF ServedInv, CallRight
    <3> QED
      BY <1>1, <1>2, <3>1
  <2> QED
    BY <1>1, <1>7, <2>1 DEF ServedInv, DiskKnown
<1>12. NothingOpen'
  BY <1>1, <1>4 DEF ServedInv, NothingOpen
<1> QED
  BY <1>5, <1>7, <1>8, <1>9, <1>10, <1>11, <1>12 DEF ServedInv

-----------------------------------------------------------------------------
(* Steps that change an entry or a source.                                 *)

\* A URL is exposed and its file is on the disk when the source is handed out.
LEMMA PublishServed ==
    ASSUME GftpAssumption, GftpInv, ServedInv, NEW c \in Clients, Publish(c)
    PROVE  ServedInv'
<1> DEFINE p == job[c].path
           u == Url[p]
           e == Counted(published[u], p, job[c].temp)
<1>1. /\ UNCHANGED <<entered, phase, closeUrls, server, disk, spilled>>
      /\ phase = "open" /\ pc[c] = "publish" /\ p \in Files \cup disk
      /\ pc' = [pc EXCEPT ![c] = "idle"] /\ job' = [job EXCEPT ![c] = NoJob]
      /\ exposed' = exposed \cup {<<job[c].server, u>>}
  BY DEF Publish, Finish, Goto, Answers
<1>2. /\ job[c].server \in Clients \cup {Main} /\ p \in Paths /\ u \in Urls
      /\ job[c].server # None
  <2>1. job[c].server # None /\ job[c] \in Jobs /\ job[c].kind = "upload"
    BY <1>1 DEF ServedInv, CallRight, GftpInv, Shape, Within
  <2> QED
    BY <1>1, <2>1 DEF GftpInv, Within, Jobs, GftpAssumption
<1>3. \/ /\ UNCHANGED <<published, held>>
         /\ published[u] # None /\ p \in published[u].temps
      \/ /\ published' = [published EXCEPT ![u] = e]
         /\ held' = [held EXCEPT ![c] = @ \cup {p}]
  BY DEF Publish, AlreadyTemporary
<1>4. /\ e # None
      /\ e.temps = (IF published[u] = None THEN {} ELSE published[u].temps)
                     \cup (IF job[c].temp THEN {p} ELSE {})
  <2>1. published[u] \in Entry \cup {None} /\ job[c].temp \in BOOLEAN
        /\ (job[c].temp => p \in Temps)
    BY <1>1, <1>2 DEF GftpInv, Shape, Jobs, Within
  <2>2. e \in Entry
    BY <2>1 DEF Counted, Entry
  <2> QED
    BY <2>1, <2>2 DEF Counted, Entry, GftpAssumption
<1> HIDE DEF e
<1>5. \/ /\ UNCHANGED <<published, held>>
         /\ published[u] # None /\ p \in published[u].temps
      \/ /\ published'[u] = e /\ \A v \in Urls \ {u} : published'[v] = published[v]
         /\ held'[c] = held[c] \cup {p} /\ \A d \in Clients \ {c} : held'[d] = held[d]
  BY <1>2, <1>3 DEF GftpInv, Shape
<1>6. /\ \A d \in Clients : CallRight(d)'
      /\ OneServer' /\ job'[c] = NoJob /\ \A d \in Clients \ {c} : job'[d] = job[d]
  <2>1. \A x \in exposed' : x \in exposed \/ (x[1] = job[c].server /\ job[c].server # None)
    BY <1>1, <1>2
  <2> QED
    BY <1>1, <2>1, EndServed
<1>7. exposed' \subseteq (Clients \cup {Main}) \X Urls
  BY <1>1, <1>2 DEF ServedInv
<1>8. /\ published'[u] # None
      /\ \A v \in Urls : published[v] # None =>
            /\ published'[v] # None
            /\ \A t \in published[v].temps : t \in published'[v].temps
      /\ job[c].temp => p \in published'[u].temps
      /\ \A v \in Urls : published'[v] # None => \A t \in published'[v].temps :
            (published[v] # None /\ t \in published[v].temps) \/ (t = p /\ v = u)
  BY <1>2, <1>4, <1>5
<1>9. EntryTemps'
  BY <1>8 DEF ServedInv, EntryTemps
<1>10. HeldExposed'
  <2>1. ASSUME NEW d \in Clients, NEW q \in held'[d]
        PROVE  \E s \in Clients \cup {Main} : <<s, Url[q]>> \in exposed'
    <3>1. q \in held[d] \/ q = p
      BY <1>5
    <3> QED
      BY <1>1, <1>2, <3>1 DEF ServedInv, HeldExposed
  <2> QED
    BY <2>1 DEF HeldExposed
<1>11. HeldOnDisk'
  <2>1. p \in Temps => p \in disk
    BY <1>1 DEF GftpAssumption
  <2> QED
    BY <1>1, <1>5, <2>1 DEF ServedInv, HeldOnDisk
<1>12. ExposedKnown'
  <2>1. ASSUME NEW x \in exposed', entered, closeUrls = TRUE
        PROVE  published'[x[2]] # None \/ x[2] \in spilled
    <3>1. CASE x \in exposed
      <4>1. x[2] \in Urls
        BY <3>1 DEF ServedInv
      <4>2. published[x[2]] # None \/ x[2] \in spilled
        BY <2>1, <3>1 DEF ServedInv, ExposedKnown
      <4> QED
        BY <1>8, <4>1, <4>2
    <3>2. CASE x = <<job[c].server, u>>
      BY <1>8, <3>2
    <3> QED
      BY <1>1, <3>1, <3>2
  <2> QED
    BY <1>1, <2>1 DEF ExposedKnown
<1>13. DiskKnown'
  <2>1. ASSUME NEW t \in disk
        PROVE  \/ t \in spilled
               \/ \E v \in Urls : published'[v] # None /\ t \in published'[v].temps
               \/ \E d \in Clients : job'[d].temp /\ job'[d].path = t
    <3>1. CASE \E v \in Urls : published[v] # None /\ t \in published[v].temps
      BY <1>8, <3>1
    <3>2. CASE \E d \in Clients : job[d].temp /\ job[d].path = t
      <4>1. PICK d \in Clients : job[d].temp /\ job[d].path = t
        BY <3>2
      <4> QED
        BY <1>2, <1>6, <1>8, <4>1
    <3> QED
      BY <3>1, <3>2 DEF ServedInv, DiskKnown
  <2> QED
    BY <1>1, <2>1 DEF DiskKnown
<1>14. NothingOpen'
  BY <1>1 DEF NothingOpen
<1> QED
  BY <1>6, <1>7, <1>9, <1>10, <1>11, <1>12, <1>13, <1>14 DEF ServedInv

\* A source that is given back is no longer owed anything.
LEMMA ReleaseServed ==
    ASSUME GftpAssumption, GftpInv, ServedInv, NEW c \in Clients, NEW p \in Paths,
           Release(c, p)
    PROVE  ServedInv'
<1> DEFINE J == [kind |-> "release", path |-> p, temp |-> FALSE, server |-> None]
<1>1. /\ pc[c] = "idle" /\ pc' = [pc EXCEPT ![c] = "lock"] /\ phase = "open"
      /\ job' = [job EXCEPT ![c] = J] /\ held' = [held EXCEPT ![c] = @ \ {p}]
      /\ UNCHANGED <<entered, phase, closeUrls, server, exposed, published, disk, spilled>>
  BY DEF Release, Call, Goto
<1>2. J.kind = "release" /\ ~ J.temp /\ J.server = None
  OBVIOUS
<1> HIDE DEF J
<1>3. /\ pc'[c] = "lock" /\ job'[c] = J
      /\ \A d \in Clients \ {c} : pc'[d] = pc[d] /\ job'[d] = job[d]
      /\ \A d \in Clients : held'[d] \subseteq held[d]
  BY <1>1 DEF GftpInv, Shape
<1>4. \A d \in Clients : CallRight(d)'
  BY <1>2, <1>3 DEF ServedInv, CallRight
<1>5. OneServer'
  BY <1>1, <1>2, <1>3 DEF ServedInv, OneServer
<1>6. HeldExposed' /\ HeldOnDisk'
  BY <1>1, <1>3 DEF ServedInv, HeldExposed, HeldOnDisk
<1>7. EntryTemps' /\ ExposedKnown' /\ NothingOpen'
  BY <1>1 DEF ServedInv, EntryTemps, ExposedKnown, NothingOpen
<1>8. DiskKnown'
  <2>1. ~ job[c].temp
    BY <1>1 DEF ServedInv, CallRight
  <2> QED
    BY <1>1, <1>3, <2>1 DEF ServedInv, DiskKnown
<1> QED
  BY <1>1, <1>4, <1>5, <1>6, <1>7, <1>8 DEF ServedInv

\* The entry of a URL nobody has goes, with its files, maybe with the URL.
LEMMA UnpublishServed ==
    ASSUME GftpAssumption, GftpInv, ServedInv, NEW u \in Urls, published[u] # None,
           \A c \in Clients : \A p \in held[c] : Url[p] # u,
           Unpublish(u), UNCHANGED <<phase, held, spilled>>,
           exposed' \subseteq exposed,
           \A x \in exposed : x[2] # u => x \in exposed',
           \A d \in Clients : job[d].temp => job'[d].temp /\ job'[d].path = job[d].path
    PROVE  EntryTemps' /\ HeldExposed' /\ HeldOnDisk' /\ DiskKnown'
<1>1. /\ disk' = disk \ published[u].temps /\ published'[u] = None
      /\ \A v \in Urls \ {u} : published'[v] = published[v]
  BY DEF Unpublish, GftpInv, Shape
<1>2. EntryTemps'
  BY <1>1 DEF ServedInv, EntryTemps
<1>3. HeldExposed'
  <2>1. ASSUME phase # "closed", NEW c \in Clients, NEW p \in held[c]
        PROVE  \E s \in Clients \cup {Main} : <<s, Url[p]>> \in exposed'
    <3>1. PICK s \in Clients \cup {Main} : <<s, Url[p]>> \in exposed
      BY <2>1 DEF ServedInv, HeldExposed
    <3>2. <<s, Url[p]>>[2] # u
      OBVIOUS
    <3> QED
      BY <3>1, <3>2
  <2> QED
    BY <2>1 DEF HeldExposed
<1>4. HeldOnDisk'
  BY <1>1 DEF ServedInv, HeldOnDisk, EntryTemps
<1>5. DiskKnown'
  BY <1>1 DEF ServedInv, DiskKnown
<1> QED
  BY <1>2, <1>3, <1>4, <1>5

\* The URL goes with its entry, as the server that exposed it closes it.
LEMMA CloseServed ==
    ASSUME GftpAssumption, GftpInv, ServedInv, NEW c \in Clients, Close(c)
    PROVE  ServedInv'
<1> DEFINE u == JobUrl(c)
<1>1. /\ pc[c] = "close" /\ phase = "open" /\ Unpublish(u)
      /\ pc' = [pc EXCEPT ![c] = "idle"] /\ job' = [job EXCEPT ![c] = NoJob]
      /\ exposed' = exposed \ {<<job[c].server, u>>}
      /\ UNCHANGED <<entered, phase, closeUrls, server, held, spilled>>
  BY DEF Close, Finish, Goto, Answers
<1>2. /\ job[c].kind = "release" /\ job[c].path \in Paths /\ job[c].server # None
      /\ published[u] # None /\ published[u].count = 0 /\ ~ job[c].temp
  BY <1>1 DEF GftpInv, Within, LastReleased, ServedInv, CallRight
<1>3. u \in Urls
  BY <1>2 DEF JobUrl, GftpAssumption
<1>4. \A d \in Clients : \A p \in held[d] : Url[p] # u
  BY <1>2, <1>3, NobodyHas
<1>5. /\ \A d \in Clients : CallRight(d)'
      /\ OneServer' /\ job'[c] = NoJob /\ \A d \in Clients \ {c} : job'[d] = job[d]
  <2>1. pc[c] # "idle" /\ \A x \in exposed' : x \in exposed
    BY <1>1
  <2> QED
    BY <1>1, <2>1, EndServed
<1>6. EntryTemps' /\ HeldExposed' /\ HeldOnDisk' /\ DiskKnown'
  <2>1. exposed' \subseteq exposed /\ \A x \in exposed : x[2] # u => x \in exposed'
    BY <1>1
  <2>2. \A d \in Clients : job[d].temp => job'[d].temp /\ job'[d].path = job[d].path
    BY <1>2, <1>5
  <2> QED
    BY <1>1, <1>2, <1>3, <1>4, <2>1, <2>2, UnpublishServed
<1>7. ExposedKnown'
  <2>1. ASSUME entered, closeUrls = TRUE, NEW x \in exposed'
        PROVE  published'[x[2]] # None \/ x[2] \in spilled
    <3>1. x[1] = Main /\ job[c].server = Main /\ x = <<x[1], x[2]>> /\ x[2] \in Urls
      BY <1>1, <1>2, <2>1 DEF ServedInv, OneServer
    <3>2. x[2] # u
      BY <1>1, <3>1
    <3>3. published'[x[2]] = published[x[2]]
      BY <1>1, <3>1, <3>2 DEF Unpublish, GftpInv, Shape
    <3> QED
      BY <1>1, <2>1, <3>3 DEF ServedInv, ExposedKnown
  <2> QED
    BY <1>1, <2>1 DEF ExposedKnown
<1>8. NothingOpen' /\ exposed' \subseteq (Clients \cup {Main}) \X Urls
  BY <1>1 DEF ServedInv, NothingOpen
<1> QED
  BY <1>5, <1>6, <1>7, <1>8 DEF ServedInv

\* The count goes down; without _close_urls the last source takes the entry.
LEMMA ReleaseLockedServed ==
    ASSUME GftpAssumption, GftpInv, ServedInv, NEW c \in Clients, ReleaseLocked(c)
    PROVE  ServedInv'
<1> DEFINE u == JobUrl(c)
           Ends == pc' = [pc EXCEPT ![c] = "idle"] /\ job' = [job EXCEPT ![c] = NoJob]
<1>1. /\ pc[c] = "lock" /\ job[c].kind = "release" /\ c \in Releasing(u)
      /\ UNCHANGED <<entered, phase, closeUrls, server, exposed, held, spilled>>
  BY DEF ReleaseLocked, Releasing
<1>2. job[c].path \in Paths /\ u \in Urls /\ ~ job[c].temp
  BY <1>1 DEF GftpInv, Within, JobUrl, GftpAssumption, ServedInv, CallRight
<1>3. \/ Ends /\ UNCHANGED <<published, disk>>
      \/ /\ published[u] # None /\ Lower(u) = 0 /\ closeUrls # TRUE /\ Unpublish(u) /\ Ends
      \/ /\ published[u] # None
         /\ \E n \in Nat : published' = [published EXCEPT ![u].count = n]
         /\ UNCHANGED disk
         /\ Ends \/ (pc' = [pc EXCEPT ![c] = "process"] /\ job' = job)
  <2>1. published[u] \in Entry \cup {None}
    BY <1>2 DEF GftpInv, Shape
  <2>2. published[u] # None => published[u].count \in Nat
    BY <2>1 DEF Entry
  <2>3. published[u] # None /\ published[u].count # 0 => Lower(u) \in Nat
    BY <2>2 DEF Lower
  <2>4. published[u] # None => published[u].count # 0
    <3>1. /\ Cardinality(Outstanding(u)) \in Nat /\ IsFiniteSet(Releasing(u))
          /\ Cardinality(Releasing(u)) \in Nat
      BY CountedFinite
    <3>2. Cardinality(Releasing(u)) # 0
      BY <1>1, <3>1, FS_EmptySet
    <3> QED
      BY <1>2, <3>1, <3>2 DEF GftpInv, CountExact
  <2> QED
    BY <2>3, <2>4 DEF ReleaseLocked, Finish, Goto
<1>4. /\ \A d \in Clients : CallRight(d)'
      /\ OneServer'
      /\ \A d \in Clients : job[d].temp => job'[d].temp /\ job'[d].path = job[d].path
  <2>1. CASE Ends
    <3>1. pc[c] # "idle" /\ \A x \in exposed' : x \in exposed
      BY <1>1
    <3>2. /\ \A d \in Clients : CallRight(d)'
          /\ OneServer' /\ \A d \in Clients \ {c} : job'[d] = job[d]
      BY <1>1, <2>1, <3>1, EndServed
    <3> QED
      BY <1>2, <3>2
  <2>2. CASE pc' = [pc EXCEPT ![c] = "process"] /\ job' = job
    <3>1. pc'[c] = "process" /\ \A d \in Clients \ {c} : pc'[d] = pc[d]
      BY <2>2 DEF GftpInv, Shape
    <3>2. \A d \in Clients : CallRight(d)'
      BY <1>2, <2>2, <3>1 DEF ServedInv, CallRight
    <3>3. OneServer'
      BY <1>1, <2>2, <3>1 DEF ServedInv, OneServer
    <3> QED
      BY <2>2, <3>2, <3>3
  <2> QED
    BY <1>3, <2>1, <2>2
<1>5. NothingOpen' /\ exposed' \subseteq (Clients \cup {Main}) \X Urls
  <2>1. disk' \subseteq disk
    BY <1>3 DEF Unpublish
  <2> QED
    BY <1>1, <2>1 DEF ServedInv, NothingOpen
<1>6. CASE UNCHANGED <<published, disk>>
  BY <1>1, <1>4, <1>5, <1>6
     DEF ServedInv, EntryTemps, HeldExposed, HeldOnDisk, ExposedKnown, DiskKnown
<1>7. CASE published[u] # None /\ Lower(u) = 0 /\ closeUrls # TRUE /\ Unpublish(u)
  <2>1. published[u].count = 1
    <3>1. published[u].count \in Nat
      BY <1>2, <1>7 DEF GftpInv, Shape, Entry
    <3> QED
      BY <1>7, <3>1 DEF Lower
  <2>2. \A d \in Clients : \A p \in held[d] : Url[p] # u
    BY <1>1, <1>2, <1>7, <2>1, NobodyHas
  <2>3. EntryTemps' /\ HeldExposed' /\ HeldOnDisk' /\ DiskKnown'
    <3>1. exposed' \subseteq exposed /\ \A x \in exposed : x[2] # u => x \in exposed'
      BY <1>1
    <3> QED
      BY <1>1, <1>2, <1>4, <1>7, <2>2, <3>1, UnpublishServed
  <2>4. ExposedKnown'
    BY <1>1, <1>7 DEF ExposedKnown
  <2> QED
    BY <1>1, <1>4, <1>5, <2>3, <2>4 DEF ServedInv
<1>8. CASE /\ published[u] # None /\ UNCHANGED disk
           /\ \E n \in Nat : published' = [published EXCEPT ![u].count = n]
  <2>1. PICK n \in Nat : published' = [published EXCEPT ![u].count = n]
    BY <1>8
  <2>2. published[u] \in Entry
    BY <1>2, <1>8 DEF GftpInv, Shape
  <2> DEFINE f == [published[u] EXCEPT !.count = n]
  <2>3. f \in Entry /\ f.temps = published[u].temps /\ published' = [published EXCEPT ![u] = f]
    BY <2>1, <2>2 DEF Entry
  <2>4. f # None
    BY <2>3 DEF GftpAssumption
  <2> HIDE DEF f
  <2>5. \A v \in Urls : /\ (published'[v] # None) = (published[v] # None)
                        /\ published[v] # None => published'[v].temps = published[v].temps
    BY <1>2, <1>8, <2>3, <2>4 DEF GftpInv, Shape
  <2>6. EntryTemps' /\ HeldExposed' /\ HeldOnDisk'
    BY <1>1, <1>8, <2>5 DEF ServedInv, EntryTemps, HeldExposed, HeldOnDisk
  <2>7. ExposedKnown'
    <3>1. \A x \in exposed : x[2] \in Urls
      BY DEF ServedInv
    <3> QED
      BY <1>1, <2>5, <3>1 DEF ServedInv, ExposedKnown
  <2>8. DiskKnown'
    BY <1>1, <1>4, <1>8, <2>5 DEF ServedInv, DiskKnown
  <2> QED
    BY <1>1, <1>4, <1>5, <2>6, <2>7, <2>8 DEF ServedInv
<1> QED
  BY <1>3, <1>6, <1>7, <1>8

-----------------------------------------------------------------------------

\* Entering and leaving, and streams that raise.
LEMMA RestServed ==
    ASSUME GftpAssumption, GftpInv, ServedInv,
           Enter \/ Exit \/ ExitEnd \/ UNCHANGED vars
             \/ \E c \in Clients, t \in Temps : StreamRaises(c, t)
    PROVE  ServedInv'
<1>1. UNCHANGED <<entered, published, held, pc, job>>
  BY DEF Enter, Exit, ExitEnd, StreamRaises, vars
<1>2. (\A c \in Clients : CallRight(c)') /\ EntryTemps'
  BY <1>1 DEF ServedInv, CallRight, EntryTemps
<1>3. CASE Enter
  BY <1>1, <1>2, <1>3
     DEF Enter, ServedInv, OneServer, HeldExposed, HeldOnDisk, ExposedKnown, DiskKnown,
         NothingOpen
<1>4. CASE Exit
  BY <1>1, <1>2, <1>4
     DEF Exit, ServedInv, OneServer, HeldExposed, HeldOnDisk, ExposedKnown, DiskKnown,
         NothingOpen
<1>5. CASE ExitEnd
  BY <1>1, <1>2, <1>5
     DEF ExitEnd, ServedInv, OneServer, HeldExposed, HeldOnDisk, ExposedKnown, DiskKnown,
         NothingOpen
<1>6. CASE \E c \in Clients, t \in Temps : StreamRaises(c, t)
  BY <1>1, <1>2, <1>6
     DEF StreamRaises, ServedInv, OneServer, HeldExposed, HeldOnDisk, ExposedKnown,
         DiskKnown, NothingOpen
<1>7. CASE UNCHANGED vars
  BY <1>1, <1>2, <1>7
     DEF vars, ServedInv, OneServer, HeldExposed, HeldOnDisk, ExposedKnown, DiskKnown,
         NothingOpen
<1> QED
  BY <1>3, <1>4, <1>5, <1>6, <1>7

\* The three ways to begin a call.
LEMMA UploadsServed ==
    ASSUME GftpAssumption, GftpInv, ServedInv, NEW c \in Clients,
           \/ \E p \in Paths : UploadFile(c, p)
           \/ \E t \in Temps : UploadStream(c, t)
           \/ \E p \in Temps \cup {None} : NewDestination(c, p)
    PROVE  ServedInv'
<1>1. ASSUME NEW p \in Paths, UploadFile(c, p) PROVE ServedInv'
  <2>1. /\ Call(c, "upload", p, FALSE, "process")
        /\ UNCHANGED <<entered, phase, closeUrls, server, exposed, published, held>>
        /\ disk' = disk /\ spilled' = spilled
    BY <1>1 DEF UploadFile
  <2> QED
    BY <2>1, CallServed
<1>2. ASSUME NEW t \in Temps, UploadStream(c, t) PROVE ServedInv'
  <2>1. /\ Call(c, "upload", t, TRUE, "process")
        /\ UNCHANGED <<entered, phase, closeUrls, server, exposed, published, held>>
        /\ disk' = disk \cup {t} /\ spilled' = spilled
    BY <1>2 DEF UploadStream
  <2>2. t \in Paths
    BY DEF Paths
  <2> QED
    BY <2>1, <2>2, CallServed
<1>3. ASSUME NEW p \in Temps \cup {None}, NewDestination(c, p) PROVE ServedInv'
  <2>1. /\ Call(c, "receive", p, FALSE, "process")
        /\ UNCHANGED <<entered, phase, closeUrls, server, exposed, published, held>>
        /\ disk \subseteq disk' /\ spilled \subseteq spilled'
        /\ \A q \in disk' \ disk : q \in spilled'
    BY <1>3 DEF NewDestination
  <2>2. p \in Paths \cup {None}
    BY DEF Paths
  <2> QED
    BY <2>1, <2>2, CallServed
<1> QED
  BY <1>1, <1>2, <1>3

\* Every step keeps both invariants.
LEMMA ServedStepInv ==
    ASSUME GftpAssumption, GftpInv, ServedInv, [Next]_vars PROVE ServedInv'
<1>1. ASSUME NEW c \in Clients, Step(c) PROVE ServedInv'
  BY <1>1, ServerServed, AcquireServed, PublishServed, RaisesServed, ReleaseLockedServed,
     CloseServed, ReceiveServed DEF Step
<1>2. ASSUME NEW c \in Clients, NEW p \in Paths, Release(c, p) PROVE ServedInv'
  BY <1>2, ReleaseServed
<1> QED
  BY <1>1, <1>2, UploadsServed, RestServed DEF Next

(***************************************************************************)
(* What somebody has is exposed, with the temporary file it was made from; *)
(* what nobody has is given back, but for what a failed call left behind;  *)
(* a closed provider leaves nothing (provider.py upload_file, __release,   *)
(* __aexit__).                                                             *)
(***************************************************************************)
THEOREM ServedAndGivenBack ==
    ASSUME GftpAssumption
    PROVE  Spec => []ServedExactly
<1>1. Init => GftpInv /\ ServedInv
  BY InitGftp, InitServed
<1>2. GftpInv /\ ServedInv /\ [Next]_vars => GftpInv' /\ ServedInv'
  BY GftpStepInv, ServedStepInv
<1>3. GftpInv /\ ServedInv => ServedExactly
  BY DEF ServedInv, HeldExposed, HeldOnDisk, ExposedKnown, DiskKnown, NothingOpen, ServedExactly
<1> QED
  BY <1>1, <1>2, <1>3, PTL DEF Spec

-----------------------------------------------------------------------------
(***************************************************************************)
(* Commands: the files that are shared, at each stage of a batch.          *)
(***************************************************************************)

\* While nobody has raised: what before() has shared, and what after() has not
\* yet released or copied.  After the stage "after" nobody is left in after().
SharedRight ==
    /\ stage \in {"before", "execute", "batch"} => shared = Transfers \ before /\ got = {}
    /\ stage \in {"execute", "batch", "after", "done"} => before = {}
    /\ stage # "after" => after = {}
    /\ stage \in {"after", "done"} /\ ~ lost =>
           shared = Downloads \cup (Sends \cap after) /\ got = Downloads \ after

CmdInv ==
    /\ before \subseteq Cmds /\ after \subseteq Cmds
    /\ stage \in {"before", "execute", "batch", "after", "done", "raised"}
    /\ SharedRight

(***************************************************************************)
(* A file is shared while the batch that transfers it runs, and released   *)
(* or copied when the commands are done, unless an after() raised          *)
(* (activity.py execute_commands).                                         *)
(***************************************************************************)
THEOREM FilesAreHeld ==
    ASSUME CommandsAssumption
    PROVE  CmdSpec => []FilesHeld
<1> USE DEF CommandsAssumption, Transfers, CmdInv, SharedRight
<1>1. CmdInit => CmdInv
  BY DEF CmdInit
<1>2. CmdInv /\ [CmdNext]_cmdVars => CmdInv'
  <2> SUFFICES ASSUME CmdInv, [CmdNext]_cmdVars PROVE CmdInv'
    OBVIOUS
  <2>1. ASSUME NEW c \in Cmds, Before(c) PROVE CmdInv'
    BY <2>1 DEF Before
  <2>2. ASSUME NEW c \in Cmds, BeforeRaises(c) PROVE CmdInv'
    BY <2>2 DEF BeforeRaises
  <2>3. ASSUME NEW c \in Cmds, After(c) PROVE CmdInv'
    BY <2>3 DEF After
  <2>4. ASSUME NEW c \in Cmds, AfterRaises(c) PROVE CmdInv'
    BY <2>4 DEF AfterRaises
  <2>5. CASE Execute \/ ExecuteRaises
    BY <2>5 DEF Execute, ExecuteRaises
  <2>6. ASSUME NEW failed \in BOOLEAN, BatchEnds(failed) PROVE CmdInv'
    BY <2>6 DEF BatchEnds, Awaited
  <2>7. CASE UNCHANGED cmdVars
    BY <2>7 DEF cmdVars
  <2> QED
    BY <2>1, <2>2, <2>3, <2>4, <2>5, <2>6, <2>7 DEF CmdNext
<1>3. CmdInv => FilesHeld
  BY DEF FilesHeld
<1> QED
  BY <1>1, <1>2, <1>3, PTL DEF CmdSpec

=============================================================================
