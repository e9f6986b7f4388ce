----------------------------- MODULE MarketProofs -----------------------------
(***************************************************************************)
(* Proofs about the agreements and the proposals that lead to them: what   *)
(* the agreement and the payment manager do when they are stopped          *)
(* (AgreementPayment), what the demand managers leave at yagna and do with *)
(* the proposals on their way (DemandManagers), and what becomes of the    *)
(* debit notes and the invoices (Payments).                                *)
(***************************************************************************)
EXTENDS AgreementPayment, DemandManagers, Payments, FiniteSetTheorems, SequenceTheorems, TLAPS

-----------------------------------------------------------------------------
(* The agreement and the payment manager.                                  *)

Invoice(g) == <<"invoice", g>>

LookedAt(g) == doc[Invoice(g)] \in {"refused", "accepted"}

\* A task works on an agreement until it is through with it.
GotKnown ==
    \A u \in Getters : getter[u] \in {"made", "wait", "has", "uses"} => got[u] \in Agreements

\* A handler that runs is that of the event at the head of the queue, and the
\* bus closes no agreement but the one of this event.
HandlerAtHead ==
    /\ handler # "idle" => queue # <<>>
    /\ handler \in {"data", "accept"} => Head(queue) \in Documents
    /\ \A g \in Agreements :
        closing["bus"][g] \in {"terminate", "destroy"} =>
            handler = "close" /\ queue # <<>> /\ Head(queue) = <<"ActivityClosed", g>>

InQueue(e) == \E i \in 1..Len(queue) : queue[i] = e

\* A document waits in the queue once, with nothing decided about it.
DocsQueued ==
    /\ \A d \in Documents : InQueue(d) => doc[d] = "queued"
    /\ \A i, j \in 1..Len(queue) :
           queue[i] \in Documents /\ queue[i] = queue[j] => i = j

\* There is an invoice only after the end of the agreement, so the
\* NewAgreement is not behind it.
AfterEnd == \A g \in Agreements : doc[Invoice(g)] # "none" => yagna[g] = "terminated"

InvoiceLast ==
    /\ AfterEnd
    /\ \A g \in Agreements, i, j \in 1..Len(queue) :
           queue[i] = <<"NewAgreement", g>> /\ queue[j] = Invoice(g) => i < j

\* Until the invoice of an agreement is looked at, the agreement is known to
\* the payment manager, or its NewAgreement is in the queue.
ToldFirst ==
    Subscribed => \A g \in Agreements :
        yagna[g] # "none" /\ doc[Invoice(g)] \in {"none", "queued"} =>
            g \in known \/ InQueue(<<"NewAgreement", g>>)

\* The flag tells whether there are agreements.
FlagRight ==
    /\ noneFlag => known = {}
    /\ Subscribed => (known = {} => noneFlag)

NoneIgnored == Subscribed => \A g \in Agreements : doc[Invoice(g)] # "ignored"

\* An agreement the payment manager saved is still there, or its invoice has
\* been looked at.
SavedFollowed ==
    /\ pm \in {"run", "wait", "over"} => \A g \in saved : g \in known \/ LookedAt(g)
    /\ pm \notin {"run", "wait"} /\ ~ timedOut => \A g \in saved : LookedAt(g)

EndedOr(g) == Ended(g) \/ g \in gaveUp

\* What the stop() of the payment manager has done so far.
SavedClosed ==
    /\ pm = "close" => \A g \in saved : EndedOr(g) \/ closing["pm"][g] = "terminate"
    /\ pm \in {"release", "stopped", "unreleased"} => \A g \in saved : EndedOr(g)

ByBus(g) == closing["bus"][g] = "terminate"

\* Where an agreement that get_agreement() returned is: in the list, closed by
\* the handler of ActivityClosed, or closed by stop(), which nobody is in
\* get_agreement() for.
HandedClosed ==
    /\ am = "run" => \A g \in handed : g \in list \/ EndedOr(g) \/ ByBus(g)
    /\ am = "close" =>
           \A g \in handed : EndedOr(g) \/ ByBus(g) \/ closing["am"][g] = "terminate"
    /\ am = "stopped" => \A g \in handed : EndedOr(g) \/ ByBus(g)
    /\ am # "run" => Settled

AgreementInv ==
    /\ TypeOK /\ GotKnown /\ HandlerAtHead /\ DocsQueued /\ InvoiceLast
    /\ ToldFirst /\ FlagRight /\ NoneIgnored
    /\ SavedFollowed /\ SavedClosed /\ HandedClosed

Events == ({"NewAgreement", "ActivityClosed"} \cup Kinds) \X Agreements

\* What the queue holds when an event leaves or enters it.
LEMMA QueueFacts ==
    ASSUME TypeOK
    PROVE  /\ queue \in Seq(Events) /\ Len(queue) \in Nat
           /\ \A i \in 1..Len(queue) : queue[i] \in Events
           /\ queue # <<>> => /\ Tail(queue) \in Seq(Events)
                             /\ Head(queue) = queue[1] /\ Head(queue) \in Events
                             /\ Len(queue) > 0 /\ Len(Tail(queue)) = Len(queue) - 1
                             /\ \A i \in 1..(Len(queue) - 1) : Tail(queue)[i] = queue[i + 1]
           /\ \A e \in Events : /\ Append(queue, e) \in Seq(Events)
                               /\ Len(Append(queue, e)) = Len(queue) + 1
                               /\ \A i \in 1..Len(queue) : Append(queue, e)[i] = queue[i]
                               /\ Append(queue, e)[Len(queue) + 1] = e
                               /\ Append(queue, e) # <<>>
                               /\ queue # <<>> => Head(Append(queue, e)) = Head(queue)
<1>1. queue \in Seq(Events)
  BY DEF TypeOK, Events
<1>2. ASSUME queue # <<>>
      PROVE  /\ Tail(queue) \in Seq(Events) /\ Head(queue) = queue[1] /\ Head(queue) \in Events
             /\ Len(queue) > 0 /\ Len(Tail(queue)) = Len(queue) - 1
             /\ \A i \in 1..(Len(queue) - 1) : Tail(queue)[i] = queue[i + 1]
  BY <1>1, <1>2, HeadTailProperties
<1>3. ASSUME NEW e \in Events
      PROVE  /\ Append(queue, e) \in Seq(Events) /\ Len(Append(queue, e)) = Len(queue) + 1
             /\ \A i \in 1..Len(queue) : Append(queue, e)[i] = queue[i]
             /\ Append(queue, e)[Len(queue) + 1] = e
             /\ Append(queue, e) # <<>>
             /\ queue # <<>> => Head(Append(queue, e)) = Head(queue)
  BY <1>1, AppendProperties
<1> QED
  BY <1>1, <1>2, <1>3

\* An event of a manager is no document.
LEMMA OtherEvents ==
    \A g \in Agreements : /\ <<"NewAgreement", g>> \in Events \ Documents
                         /\ <<"ActivityClosed", g>> \in Events \ Documents
BY AgreementAssumption DEF AgreementAssumption, Events, Documents

\* How a step may change the queue, and what it then does to the documents.
Enters(e) == queue' = Append(queue, e)
Leaves == queue # <<>> /\ queue' = Tail(queue)

QueueStep ==
    \/ queue' = queue /\ doc' = doc
    \/ /\ Leaves /\ doc' = doc
       /\ \E g \in Agreements : \/ Head(queue) = <<"ActivityClosed", g>>
                                \/ /\ Head(queue) = <<"NewAgreement", g>>
                                   /\ Subscribed => g \in known'
    \/ /\ Leaves /\ Head(queue) \in Documents
       /\ \E end \in {"dropped", "ignored", "failed", "refused", "accepted"} :
              doc' = [doc EXCEPT ![Head(queue)] = end]
    \/ \E g \in Agreements :
           Enters(<<"NewAgreement", g>>) /\ doc' = doc /\ yagna[g] = "none"
    \/ \E g \in Agreements : Enters(<<"ActivityClosed", g>>) /\ doc' = doc
    \/ \E d \in Documents :
           Enters(d) /\ doc[d] = "none" /\ doc' = [doc EXCEPT ![d] = "queued"]

\* Every step changes the queue in one of these ways.
LEMMA QueueSteps ==
    ASSUME TypeOK, GotKnown, HandlerAtHead, [Next]_vars
    PROVE  QueueStep
<1> USE OtherEvents DEF HandlerAtHead, GotKnown, QueueStep, Enters, Leaves, Documents,
         remote, getters, bus, managers, TypeOK, Closers
<1>1. ASSUME NEW u \in Getters, Get(u)
      PROVE  QueueStep
  BY <1>1 DEF Get, Approved, NotApproved, Create, Emit, Confirm, GetRaises,
              GetCancelled, HandOut, Registered, Tracked, CreateActivity,
              Abandon, DestroyActivity
<1>2. ASSUME NEW g \in Agreements,
             NEW state \in {"approved", "rejected", "terminated"}, Answer(g, state)
      PROVE  QueueStep
  BY <1>2 DEF Answer
<1>3. ASSUME NEW d \in Documents, Collected(d)
      PROVE  QueueStep
  BY <1>3 DEF Collected, Emit
<1>4. ASSUME NEW g \in Agreements, Handle(g)
      PROVE  QueueStep
  BY <1>4 DEF Handle, NewAgreement, Arrives, FlagCleared, ActivityClosed,
              ActivityClosedDone
<1>5. ASSUME NEW d \in Documents, Document(d)
      PROVE  QueueStep
  <2>1. Head(queue) = d
    BY <1>5 DEF Document, Arrives
  <2> QED
    BY <1>5, <2>1 DEF Document, Arrives
<1>6. ASSUME NEW d \in Documents, DataRaises(d)
      PROVE  QueueStep
  BY <1>6 DEF DataRaises, Handled
<1>7. ASSUME NEW d \in Documents, Data(d)
      PROVE  QueueStep
  BY <1>7 DEF Data, Handled
<1>8. ASSUME NEW d \in Documents, AcceptRaises(d)
      PROVE  QueueStep
  BY <1>8 DEF AcceptRaises, Handled
<1>9. ASSUME NEW d \in Documents, NEW end \in {"accepted", "refused"}, Accept(d, end)
      PROVE  QueueStep
  BY <1>9 DEF Accept, Handled, Counts
<1>10. ASSUME NEW c \in Closers, NEW g \in Agreements, Close(c, g)
       PROVE  QueueStep
  BY <1>10 DEF Close, TerminateOk, TerminateGivesUp, CloseRaises, DestroyAll,
               Emit
<1>11. ASSUME Stop
       PROVE  QueueStep
  BY <1>11 DEF Stop, AmStopEmpty, AmStop, CloseSet, AmStopped, PmStop,
               PmWaited, WaitOver, PmClose, ToClose, PmRelease, Cleared,
               PmStopped, PmRaises
<1>12. ASSUME UNCHANGED vars
       PROVE  QueueStep
  BY <1>12 DEF vars
<1> HIDE DEF HandlerAtHead, GotKnown, QueueStep, Enters, Leaves, Documents,
         remote, getters, bus, managers, TypeOK, Closers
<1> QED
  BY <1>1, <1>2, <1>3, <1>4, <1>5, <1>6, <1>7, <1>8, <1>9, <1>10, <1>11, <1>12
     DEF Next, Get, Approved, NotApproved, HandleDocument, Close, Stop, Handle

\* The events that are in the queue after a step.
LEMMA InQueueSteps ==
    ASSUME TypeOK
    PROVE  /\ Leaves => \A e \in Events :
                  /\ InQueue(e) => e = Head(queue) \/ InQueue(e)'
                  /\ InQueue(e)' => InQueue(e)
           /\ \A n \in Events : Enters(n) => \A e \in Events :
                  InQueue(e)' <=> InQueue(e) \/ e = n
<1> USE QueueFacts DEF InQueue, Leaves, Enters
<1>1. ASSUME Leaves, NEW e \in Events, NEW i \in 1..Len(queue), queue[i] = e, e # Head(queue)
      PROVE  InQueue(e)'
  <2>1. i - 1 \in 1..Len(queue') /\ queue'[i - 1] = e
    BY <1>1
  <2> QED
    BY <2>1
<1>2. ASSUME Leaves, NEW e \in Events, NEW i \in 1..Len(queue'), queue'[i] = e
      PROVE  InQueue(e)
  <2>1. i + 1 \in 1..Len(queue) /\ queue[i + 1] = e
    BY <1>2
  <2> QED
    BY <2>1
<1>3. ASSUME NEW n \in Events, Enters(n), NEW e \in Events, NEW i \in 1..Len(queue'),
             queue'[i] = e
      PROVE  InQueue(e) \/ e = n
  <2>1. i \in 1..Len(queue) \/ i = Len(queue) + 1
    BY <1>3
  <2> QED
    BY <1>3, <2>1
<1>4. ASSUME NEW n \in Events, Enters(n), NEW e \in Events, InQueue(e) \/ e = n
      PROVE  InQueue(e)'
  BY <1>4
<1> QED
  BY <1>1, <1>2, <1>3, <1>4

\* The positions of the queue after an event has entered it.
LEMMA EnteredAt ==
    ASSUME TypeOK, NEW e \in Events, Enters(e)
    PROVE  /\ Len(queue) \in Nat /\ Len(queue') = Len(queue) + 1
           /\ \A k \in 1..Len(queue') :
                  \/ k \in 1..Len(queue) /\ queue'[k] = queue[k]
                  \/ k = Len(queue) + 1 /\ queue'[k] = e
<1>1. Len(queue) \in Nat /\ Len(queue') = Len(queue) + 1 /\ queue'[Len(queue) + 1] = e
  BY QueueFacts DEF Enters
<1>2. \A i \in 1..Len(queue) : queue'[i] = queue[i]
  BY QueueFacts DEF Enters
<1>3. \A k \in 1..Len(queue') : k \in 1..Len(queue) \/ k = Len(queue) + 1
  BY <1>1
<1> QED
  BY <1>1, <1>2, <1>3

\* A document that waits does so once, whatever happens to the queue.
LEMMA DocumentsStayQueued ==
    ASSUME TypeOK, DocsQueued, QueueStep
    PROVE  DocsQueued'
<1> USE DEF DocsQueued, Documents, Events
<1>1. CASE queue' = queue /\ doc' = doc
  BY <1>1 DEF InQueue
<1>2. ASSUME NEW e \in Events, Enters(e),
             \/ e \notin Documents /\ doc' = doc
             \/ e \in Documents /\ doc[e] = "none" /\ doc' = [doc EXCEPT ![e] = "queued"]
      PROVE  DocsQueued'
  <2>1. \A d \in Documents : InQueue(d)' => doc'[d] = "queued"
    BY <1>2, InQueueSteps DEF TypeOK
  <2>2. ASSUME NEW i \in 1..Len(queue'), NEW j \in 1..Len(queue'),
               queue'[i] \in Documents, queue'[i] = queue'[j]
        PROVE  i = j
    <3>1. \A k \in 1..Len(queue') :
             \/ k \in 1..Len(queue) /\ queue'[k] = queue[k]
             \/ k = Len(queue) + 1 /\ queue'[k] = e
      BY <1>2, EnteredAt
    <3>2. \A k \in 1..Len(queue) : queue[k] # e \/ e \notin Documents
      BY <1>2 DEF InQueue
    <3> QED
      BY <2>2, <3>1, <3>2
  <2> QED
    BY <2>1, <2>2
<1>3. ASSUME Leaves,
             \/ Head(queue) \notin Documents /\ doc' = doc
             \/ Head(queue) \in Documents /\ \E end : doc' = [doc EXCEPT ![Head(queue)] = end]
      PROVE  DocsQueued'
  <2>1. \A k \in 1..Len(queue') : k + 1 \in 1..Len(queue) /\ queue'[k] = queue[k + 1]
    BY <1>3, QueueFacts DEF Leaves
  <2>2. \A i, j \in 1..Len(queue') : queue'[i] \in Documents /\ queue'[i] = queue'[j] => i = j
    BY <2>1, QueueFacts
  <2>3. \A d \in Documents : InQueue(d)' => InQueue(d) /\ d # Head(queue)
    BY <1>3, <2>1, QueueFacts DEF InQueue, Leaves
  <2>4. \A d \in Documents : d # Head(queue) => doc'[d] = doc[d]
    BY <1>3 DEF TypeOK
  <2> QED
    BY <2>2, <2>3, <2>4
<1> QED
  BY <1>1, <1>2, <1>3, OtherEvents DEF QueueStep

\* NewAgreement keeps its place before the invoice.
LEMMA InvoiceStaysLast ==
    ASSUME TypeOK, DocsQueued, InvoiceLast, QueueStep, AfterEnd'
    PROVE  InvoiceLast'
<1> USE AgreementAssumption DEF InvoiceLast, AfterEnd, Documents, Events, Invoice
<1>1. CASE queue' = queue
  BY <1>1
<1>2. ASSUME NEW e \in Events, Enters(e),
             \A g \in Agreements : e = <<"NewAgreement", g>> => yagna[g] = "none",
             NEW g \in Agreements, NEW i \in 1..Len(queue'), NEW j \in 1..Len(queue'),
             queue'[i] = <<"NewAgreement", g>>, queue'[j] = Invoice(g)
      PROVE  i < j
  <2>1. \A k \in 1..Len(queue') :
             \/ k \in 1..Len(queue) /\ queue'[k] = queue[k]
             \/ k = Len(queue) + 1 /\ queue'[k] = e
    BY <1>2, EnteredAt
  <2>2. CASE i \in 1..Len(queue) /\ j \in 1..Len(queue)
    BY <1>2, <2>1, <2>2, QueueFacts
  <2>3. CASE i \in 1..Len(queue) /\ j = Len(queue) + 1
    BY <2>3, QueueFacts
  <2>4. CASE i = Len(queue) + 1
    <3>1. e = <<"NewAgreement", g>> /\ yagna[g] = "none"
      BY <1>2, <2>1, <2>4, QueueFacts
    <3>2. doc[Invoice(g)] = "none"
      BY <3>1
    <3>3. j \in 1..Len(queue) /\ queue[j] = Invoice(g)
      BY <1>2, <2>1, <3>1
    <3> QED
      BY <3>2, <3>3 DEF DocsQueued, InQueue
  <2> QED
    BY <2>1, <2>2, <2>3, <2>4
<1>3. ASSUME Leaves, NEW g \in Agreements, NEW i \in 1..Len(queue'), NEW j \in 1..Len(queue'),
             queue'[i] = <<"NewAgreement", g>>, queue'[j] = Invoice(g)
      PROVE  i < j
  <2>1. \A k \in 1..Len(queue') : k + 1 \in 1..Len(queue) /\ queue'[k] = queue[k + 1]
    BY <1>3, QueueFacts DEF Leaves
  <2>a. /\ i + 1 \in 1..Len(queue) /\ j + 1 \in 1..Len(queue)
        /\ queue[i + 1] = <<"NewAgreement", g>> /\ queue[j + 1] = Invoice(g)
    BY <1>3, <2>1
  <2>2. i + 1 < j + 1
    BY <2>a
  <2> QED
    BY <2>2, QueueFacts, <1>3
<1>4. ASSUME NEW e \in Events, Enters(e),
             \A g \in Agreements : e = <<"NewAgreement", g>> => yagna[g] = "none"
      PROVE  InvoiceLast'
  BY <1>2, <1>4
<1>5. CASE Leaves
  BY <1>3, <1>5
<1>6. ASSUME NEW g \in Agreements, Enters(<<"NewAgreement", g>>), yagna[g] = "none"
      PROVE  InvoiceLast'
  BY <1>4, <1>6
<1>7. ASSUME NEW g \in Agreements, Enters(<<"ActivityClosed", g>>)
      PROVE  InvoiceLast'
  BY <1>4, <1>7
<1>8. ASSUME NEW d \in Documents, Enters(d)
      PROVE  InvoiceLast'
  <2>1. d \in Events /\ \A g \in Agreements : d # <<"NewAgreement", g>>
    BY OtherEvents
  <2> QED
    BY <1>4, <1>8, <2>1
<1> QED
  BY <1>1, <1>5, <1>6, <1>7, <1>8 DEF QueueStep

\* Every step keeps the types, and a task has an agreement as long as it needs it.
LEMMA AgreementTypes ==
    ASSUME TypeOK, GotKnown, HandlerAtHead, [Next]_vars
    PROVE  TypeOK' /\ GotKnown'
<1> USE AgreementAssumption DEF TypeOK, GotKnown, HandlerAtHead, Documents, Closers, remote,
         getters, bus, managers
<1>1. ASSUME NEW u \in Getters, NEW g \in Agreements, Create(u, g)
      PROVE  TypeOK' /\ GotKnown'
  BY <1>1, QueueFacts DEF Create, Emit, Events
<1>2. ASSUME NEW u \in Getters, Confirm(u)
      PROVE  TypeOK' /\ GotKnown'
  BY <1>2, QueueFacts DEF Confirm
<1>3. ASSUME NEW u \in Getters, GetRaises(u)
      PROVE  TypeOK' /\ GotKnown'
  BY <1>3, QueueFacts DEF GetRaises
<1>4. ASSUME NEW u \in Getters, GetCancelled(u)
      PROVE  TypeOK' /\ GotKnown'
  BY <1>4, QueueFacts DEF GetCancelled
<1>5. ASSUME NEW u \in Getters, NEW ok \in BOOLEAN, getter[u] = "wait", HandOut(u, ok)
      PROVE  TypeOK' /\ GotKnown'
  BY <1>5, QueueFacts DEF HandOut, Registered, Tracked
<1>6. ASSUME NEW u \in Getters, CreateActivity(u)
      PROVE  TypeOK' /\ GotKnown'
  BY <1>6, QueueFacts DEF CreateActivity
<1>7. ASSUME NEW u \in Getters, Abandon(u)
      PROVE  TypeOK' /\ GotKnown'
  BY <1>7, QueueFacts DEF Abandon
<1>8. ASSUME NEW u \in Getters, DestroyActivity(u)
      PROVE  TypeOK' /\ GotKnown'
  BY <1>8, QueueFacts DEF DestroyActivity, Emit
<1>9. ASSUME NEW g \in Agreements,
             NEW state \in {"approved", "rejected", "terminated"}, Answer(g, state)
      PROVE  TypeOK' /\ GotKnown'
  BY <1>9, QueueFacts DEF Answer
<1>10. ASSUME NEW d \in Documents, Collected(d)
       PROVE  TypeOK' /\ GotKnown'
  BY <1>10, QueueFacts DEF Collected, Emit
<1>11. ASSUME NEW g \in Agreements, NewAgreement(g)
       PROVE  TypeOK' /\ GotKnown'
  <2>1. queue' \in Seq(Events)
    BY <1>11, QueueFacts DEF NewAgreement, Arrives, FlagCleared, Events
  <2>2. queue' \in Seq(({"NewAgreement", "ActivityClosed"} \cup Kinds) \X Agreements)
    BY <2>1 DEF Events
  <2>3. known' \subseteq Agreements /\ saved' \subseteq Agreements
    BY <1>11 DEF NewAgreement, Arrives, FlagCleared
  <2>4. noneFlag' \in BOOLEAN
    BY <1>11 DEF NewAgreement, Arrives, FlagCleared
  <2> QED
    BY <1>11, <2>2, <2>3, <2>4 DEF NewAgreement, Arrives, FlagCleared
<1>12. ASSUME NEW g \in Agreements, ActivityClosed(g)
       PROVE  TypeOK' /\ GotKnown'
  <2>1. queue' \in Seq(Events)
    BY <1>12, QueueFacts DEF ActivityClosed, Arrives, Events
  <2>2. queue' \in Seq(({"NewAgreement", "ActivityClosed"} \cup Kinds) \X Agreements)
    BY <2>1 DEF Events
  <2>3. /\ list' \subseteq Agreements
        /\ closing' \in [Closers -> [Agreements -> {"no", "terminate", "destroy", "done"}]]
    BY <1>12 DEF ActivityClosed, Arrives
  <2> QED
    BY <1>12, <2>2, <2>3 DEF ActivityClosed, Arrives
<1>13. ASSUME NEW g \in Agreements, ActivityClosedDone(g)
       PROVE  TypeOK' /\ GotKnown'
  BY <1>13, QueueFacts DEF ActivityClosedDone
<1>14. ASSUME NEW d \in Documents, Document(d)
       PROVE  TypeOK' /\ GotKnown'
  <2>1. queue' \in Seq(Events)
    BY <1>14, QueueFacts DEF Document, Arrives, Events
  <2>2. queue' \in Seq(({"NewAgreement", "ActivityClosed"} \cup Kinds) \X Agreements)
    BY <2>1 DEF Events
  <2> QED
    BY <1>14, <2>2 DEF Document, Arrives
<1>15. ASSUME NEW d \in Documents, DataRaises(d)
       PROVE  TypeOK' /\ GotKnown'
  BY <1>15, QueueFacts DEF DataRaises, Handled
<1>16. ASSUME NEW d \in Documents, Data(d)
       PROVE  TypeOK' /\ GotKnown'
  <2>1. queue' \in Seq(Events)
    BY <1>16, QueueFacts DEF Data, Handled, Events
  <2>2. queue' \in Seq(({"NewAgreement", "ActivityClosed"} \cup Kinds) \X Agreements)
    BY <2>1 DEF Events
  <2> QED
    BY <1>16, <2>2 DEF Data, Handled
<1>17. ASSUME NEW d \in Documents, AcceptRaises(d)
       PROVE  TypeOK' /\ GotKnown'
  BY <1>17, QueueFacts DEF AcceptRaises, Handled
<1>18. ASSUME NEW d \in Documents, NEW end \in {"accepted", "refused"}, Accept(d, end)
       PROVE  TypeOK' /\ GotKnown'
  <2>1. queue' \in Seq(Events)
    BY <1>18, QueueFacts DEF Accept, Handled, Counts, Events
  <2>2. queue' \in Seq(({"NewAgreement", "ActivityClosed"} \cup Kinds) \X Agreements)
    BY <2>1 DEF Events
  <2>3. known' \subseteq Agreements /\ noneFlag' \in BOOLEAN
    BY <1>18 DEF Accept, Handled, Counts
  <2> QED
    BY <1>18, <2>2, <2>3 DEF Accept, Handled, Counts
<1>19. ASSUME NEW c \in Closers, NEW g \in Agreements, TerminateOk(c, g)
       PROVE  TypeOK' /\ GotKnown'
  BY <1>19, QueueFacts DEF TerminateOk
<1>20. ASSUME NEW c \in Closers, NEW g \in Agreements, TerminateGivesUp(c, g)
       PROVE  TypeOK' /\ GotKnown'
  BY <1>20, QueueFacts DEF TerminateGivesUp
<1>21. ASSUME NEW c \in Closers, NEW g \in Agreements, CloseRaises(c, g)
       PROVE  TypeOK' /\ GotKnown'
  <2>1. queue' \in Seq(Events)
    BY <1>21, QueueFacts DEF CloseRaises, Events
  <2>2. queue' \in Seq(({"NewAgreement", "ActivityClosed"} \cup Kinds) \X Agreements)
    BY <2>1 DEF Events
  <2> QED
    BY <1>21, <2>2 DEF CloseRaises
<1>22. ASSUME NEW c \in Closers, NEW g \in Agreements,
             NEW ok \in BOOLEAN, DestroyAll(c, g, ok)
       PROVE  TypeOK' /\ GotKnown'
  <2>1. <<"ActivityClosed", g>> \in Events
    BY DEF Events
  <2>2. queue' = queue \/ queue' = Append(queue, <<"ActivityClosed", g>>)
    BY <1>22 DEF DestroyAll, Emit
  <2>3. Append(queue, <<"ActivityClosed", g>>) \in Seq(Events) /\ queue \in Seq(Events)
    BY <2>1, QueueFacts
  <2>4. queue' \in Seq(({"NewAgreement", "ActivityClosed"} \cup Kinds) \X Agreements)
    BY <2>2, <2>3 DEF Events
  <2>5. closing' \in [Closers -> [Agreements -> {"no", "terminate", "destroy", "done"}]]
    BY <1>22 DEF DestroyAll
  <2>6. activity' \in [Agreements -> {"none", "live", "destroyed"}]
    BY <1>22 DEF DestroyAll
  <2>7. GotKnown'
    BY <1>22 DEF DestroyAll
  <2>8. UNCHANGED <<yagna, approved, doc, getters, handler, managers, gaveUp>>
    BY <1>22 DEF DestroyAll
  <2> QED
    BY <2>4, <2>5, <2>6, <2>7, <2>8
<1>23. ASSUME Stop
       PROVE  TypeOK' /\ GotKnown'
  BY <1>23, QueueFacts DEF Stop, AmStopEmpty, AmStop, CloseSet, AmStopped,
                           PmStop, PmWaited, WaitOver, PmClose, ToClose,
                           PmRelease, Cleared, PmStopped, PmRaises
<1>24. ASSUME UNCHANGED vars
       PROVE  TypeOK' /\ GotKnown'
  BY <1>24 DEF vars
<1> HIDE DEF TypeOK, GotKnown, HandlerAtHead, Documents, Closers, remote,
         getters, bus, managers
<1> QED
  BY <1>1, <1>2, <1>3, <1>4, <1>5, <1>6, <1>7, <1>8, <1>9, <1>10, <1>11, <1>12,
     <1>13, <1>14, <1>15, <1>16, <1>17, <1>18, <1>19, <1>20, <1>21, <1>22,
     <1>23, <1>24
     DEF Next, Get, Approved, NotApproved, HandleDocument, Close, Stop, Handle

\* A document arrives when it is at the head of the queue.
LEMMA DocumentAtHead ==
    ASSUME NEW d \in Documents, Document(d)
    PROVE  Head(queue) = d /\ queue # <<>>
BY DEF Document, Arrives, Documents

\* The head of the queue while an event enters it.
LEMMA HeadStays ==
    ASSUME TypeOK, NEW e \in Events, queue # <<>>, queue' = Append(queue, e)
    PROVE  queue' # <<>> /\ Head(queue') = Head(queue)
BY QueueFacts

\* No event leaves the queue while another one's handler runs.
LEMMA HandlerStaysAtHead ==
    ASSUME TypeOK, GotKnown, HandlerAtHead, [Next]_vars
    PROVE  HandlerAtHead'
<1> USE AgreementAssumption, QueueFacts DEF HandlerAtHead, Documents, remote, getters, bus,
         managers, Closers, TypeOK, GotKnown
<1>1. ASSUME NEW u \in Getters, NEW g \in Agreements, Create(u, g)
      PROVE  HandlerAtHead'
  BY <1>1 DEF Create, Emit
<1>2. ASSUME NEW u \in Getters, Confirm(u)
      PROVE  HandlerAtHead'
  BY <1>2 DEF Confirm
<1>3. ASSUME NEW u \in Getters, GetRaises(u)
      PROVE  HandlerAtHead'
  BY <1>3 DEF GetRaises
<1>4. ASSUME NEW u \in Getters, GetCancelled(u)
      PROVE  HandlerAtHead'
  BY <1>4 DEF GetCancelled
<1>5. ASSUME NEW u \in Getters, NEW ok \in BOOLEAN, getter[u] = "wait", HandOut(u, ok)
      PROVE  HandlerAtHead'
  BY <1>5 DEF HandOut, Registered, Tracked
<1>6. ASSUME NEW u \in Getters, CreateActivity(u)
      PROVE  HandlerAtHead'
  BY <1>6 DEF CreateActivity
<1>7. ASSUME NEW u \in Getters, Abandon(u)
      PROVE  HandlerAtHead'
  BY <1>7 DEF Abandon
<1>8. ASSUME NEW u \in Getters, DestroyActivity(u)
      PROVE  HandlerAtHead'
  BY <1>8 DEF DestroyActivity, Emit
<1>9. ASSUME NEW g \in Agreements,
             NEW state \in {"approved", "rejected", "terminated"}, Answer(g, state)
      PROVE  HandlerAtHead'
  BY <1>9 DEF Answer
<1>10. ASSUME NEW d \in Documents, Collected(d)
       PROVE  HandlerAtHead'
  <2>1. d \in Events
    BY DEF Events
  <2>2. queue # <<>> => queue' # <<>> /\ Head(queue') = Head(queue)
    BY <1>10, <2>1, HeadStays DEF Collected, Emit
  <2> QED
    BY <1>10, <2>2 DEF Collected, Emit
<1>11. ASSUME NEW g \in Agreements, Handle(g)
       PROVE  HandlerAtHead'
  BY <1>11 DEF Handle, NewAgreement, Arrives, FlagCleared, ActivityClosed,
               ActivityClosedDone
<1>12. ASSUME NEW d \in Documents, HandleDocument(d)
       PROVE  HandlerAtHead'
  BY <1>12 DEF HandleDocument, Document, Arrives, DataRaises, Handled, Data,
               AcceptRaises, Accept, Counts
<1>13. ASSUME NEW c \in Closers, NEW g \in Agreements, TerminateOk(c, g)
       PROVE  HandlerAtHead'
  BY <1>13 DEF TerminateOk
<1>14. ASSUME NEW c \in Closers, NEW g \in Agreements, TerminateGivesUp(c, g)
       PROVE  HandlerAtHead'
  BY <1>14 DEF TerminateGivesUp
<1>15. ASSUME NEW c \in Closers, NEW g \in Agreements, CloseRaises(c, g)
       PROVE  HandlerAtHead'
  BY <1>15 DEF CloseRaises
<1>16. ASSUME NEW c \in Closers, NEW g \in Agreements,
             NEW ok \in BOOLEAN, DestroyAll(c, g, ok)
       PROVE  HandlerAtHead'
  <2>1. queue' = queue \/ queue' = Append(queue, <<"ActivityClosed", g>>)
    BY <1>16 DEF DestroyAll, Emit
  <2>2. queue # <<>> => queue' # <<>> /\ Head(queue') = Head(queue)
    BY <2>1, HeadStays, OtherEvents
  <2> QED
    BY <1>16, <2>2 DEF DestroyAll, Emit
<1>17. ASSUME Stop
       PROVE  HandlerAtHead'
  BY <1>17 DEF Stop, AmStopEmpty, AmStop, CloseSet, AmStopped, PmStop,
               PmWaited, WaitOver, PmClose, ToClose, PmRelease, Cleared,
               PmStopped, PmRaises
<1>18. ASSUME UNCHANGED vars
       PROVE  HandlerAtHead'
  BY <1>18 DEF vars
<1> HIDE DEF HandlerAtHead, Documents, remote, getters, bus,
         managers, Closers, TypeOK, GotKnown
<1> QED
  BY <1>1, <1>2, <1>3, <1>4, <1>5, <1>6, <1>7, <1>8, <1>9, <1>10, <1>11, <1>12,
     <1>13, <1>14, <1>15, <1>16, <1>17, <1>18
     DEF Next, Get, Approved, NotApproved, HandleDocument, Close, Stop, Handle

\* How the agreements are followed in a step.
KnownStep ==
    /\ Subscribed' => Subscribed
    /\ \A g \in Agreements :
        /\ yagna'[g] # "none" => yagna[g] # "none" \/ Enters(<<"NewAgreement", g>>)
        /\ g \in known => g \in known' \/ LookedAt(g)' \/ ~ Subscribed'

\* An agreement is forgotten only when its invoice has been looked at.
LEMMA KnownSteps ==
    ASSUME TypeOK, HandlerAtHead, [Next]_vars
    PROVE  KnownStep
<1> USE AgreementAssumption DEF AgreementAssumption, KnownStep, LookedAt, Enters, HandlerAtHead,
         Documents, Invoice, Subscribed, remote, getters, bus, managers, Closers, TypeOK
<1>1. ASSUME NEW u \in Getters, Get(u)
      PROVE  KnownStep
  BY <1>1 DEF Get, Approved, NotApproved, Create, Emit, Confirm, GetRaises,
              GetCancelled, HandOut, Registered, Tracked, CreateActivity,
              Abandon, DestroyActivity
<1>2. ASSUME NEW g \in Agreements,
             NEW state \in {"approved", "rejected", "terminated"}, Answer(g, state)
      PROVE  KnownStep
  BY <1>2 DEF Answer
<1>3. ASSUME NEW d \in Documents, Collected(d)
      PROVE  KnownStep
  BY <1>3 DEF Collected, Emit
<1>4. ASSUME NEW g \in Agreements, Handle(g)
      PROVE  KnownStep
  BY <1>4 DEF Handle, NewAgreement, Arrives, FlagCleared, ActivityClosed,
              ActivityClosedDone
<1>5. ASSUME NEW d \in Documents, Document(d)
      PROVE  KnownStep
  BY <1>5 DEF Document, Arrives
<1>6. ASSUME NEW d \in Documents, DataRaises(d)
      PROVE  KnownStep
  BY <1>6 DEF DataRaises, Handled
<1>7. ASSUME NEW d \in Documents, Data(d)
      PROVE  KnownStep
  BY <1>7 DEF Data, Handled
<1>8. ASSUME NEW d \in Documents, AcceptRaises(d)
      PROVE  KnownStep
  BY <1>8 DEF AcceptRaises, Handled
<1>9. ASSUME NEW d \in Documents, NEW end \in {"accepted", "refused"}, Accept(d, end)
      PROVE  KnownStep
  BY <1>9 DEF Accept, Handled, Counts
<1>10. ASSUME NEW c \in Closers, NEW g \in Agreements, Close(c, g)
       PROVE  KnownStep
  BY <1>10 DEF Close, TerminateOk, TerminateGivesUp, CloseRaises, DestroyAll,
               Emit
<1>11. ASSUME Stop
       PROVE  KnownStep
  BY <1>11 DEF Stop, AmStopEmpty, AmStop, CloseSet, AmStopped, PmStop,
               PmWaited, WaitOver, PmClose, ToClose, PmRelease, Cleared,
               PmStopped, PmRaises
<1>12. ASSUME UNCHANGED vars
       PROVE  KnownStep
  BY <1>12 DEF vars
<1> HIDE DEF AgreementAssumption, KnownStep, LookedAt, Enters, HandlerAtHead,
         Documents, Invoice, Subscribed, remote, getters, bus, managers, Closers, TypeOK
<1> QED
  BY <1>1, <1>2, <1>3, <1>4, <1>5, <1>6, <1>7, <1>8, <1>9, <1>10, <1>11, <1>12
     DEF Next, Get, Approved, NotApproved, HandleDocument, Close, Stop, Handle

\* NewAgreement makes its agreement known when it leaves the queue.
LEMMA ToldStaysFirst ==
    ASSUME TypeOK, ToldFirst, QueueStep, KnownStep
    PROVE  ToldFirst'
<1> USE DEF ToldFirst, KnownStep
<1>1. ASSUME NEW g \in Agreements, InQueue(<<"NewAgreement", g>>), Subscribed
      PROVE  InQueue(<<"NewAgreement", g>>)' \/ g \in known'
  <2>1. CASE queue' = queue
    BY <1>1, <2>1 DEF InQueue
  <2>2. ASSUME NEW e \in Events, Enters(e)
        PROVE  InQueue(<<"NewAgreement", g>>)'
    BY <1>1, <2>2, InQueueSteps, OtherEvents
  <2>3. CASE Leaves /\ Head(queue) # <<"NewAgreement", g>>
    BY <1>1, <2>3, InQueueSteps, OtherEvents
  <2>5. Documents \subseteq Events
    BY DEF Documents, Events
  <2>6. CASE Leaves /\ Head(queue) \in Documents
    BY <2>3, <2>6, OtherEvents
  <2>7. ASSUME Leaves, NEW h \in Agreements,
               \/ Head(queue) = <<"ActivityClosed", h>>
               \/ Head(queue) = <<"NewAgreement", h>> /\ (Subscribed => h \in known')
        PROVE  InQueue(<<"NewAgreement", g>>)' \/ g \in known'
    BY <1>1, <2>3, <2>7
  <2>8. ASSUME NEW h \in Agreements,
               Enters(<<"NewAgreement", h>>) \/ Enters(<<"ActivityClosed", h>>)
        PROVE  InQueue(<<"NewAgreement", g>>)'
    BY <2>2, <2>8, OtherEvents
  <2>9. ASSUME NEW d \in Documents, Enters(d)
        PROVE  InQueue(<<"NewAgreement", g>>)'
    BY <2>2, <2>5, <2>9
  <2> QED
    BY <2>1, <2>6, <2>7, <2>8, <2>9 DEF QueueStep
<1>2. ASSUME NEW g \in Agreements, doc'[Invoice(g)] \in {"none", "queued"}
      PROVE  doc[Invoice(g)] \in {"none", "queued"}
  <2>1. doc \in [Documents -> {"none", "queued", "dropped", "ignored", "failed", "refused",
                             "accepted"}]
    BY DEF TypeOK
  <2>2. Invoice(g) \in Documents
    BY AgreementAssumption DEF AgreementAssumption, Documents, Invoice
  <2> QED
    BY <1>2, <2>1, <2>2 DEF QueueStep
<1>3. ASSUME NEW g \in Agreements, Enters(<<"NewAgreement", g>>)
      PROVE  InQueue(<<"NewAgreement", g>>)'
  BY <1>3, InQueueSteps, OtherEvents
<1> QED
  BY <1>1, <1>2, <1>3 DEF LookedAt

\* What is known of a document that is handled.
LEMMA HeadQueued ==
    ASSUME TypeOK, DocsQueued, queue # <<>>, Head(queue) \in Documents
    PROVE  doc[Head(queue)] = "queued"
BY QueueFacts DEF DocsQueued, InQueue

\* So the invoice at the head of the queue is of a known agreement.
LEMMA InvoiceOfKnown ==
    ASSUME TypeOK, DocsQueued, InvoiceLast, ToldFirst, Subscribed, queue # <<>>,
           NEW g \in Agreements, Head(queue) = Invoice(g)
    PROVE  g \in known
<1>1. Invoice(g) \in Documents
  BY AgreementAssumption DEF AgreementAssumption, Documents, Invoice
<1>2. doc[Invoice(g)] = "queued" /\ yagna[g] = "terminated"
  BY <1>1, HeadQueued DEF InvoiceLast, AfterEnd
<1>3. ASSUME NEW i \in 1..Len(queue), queue[i] = <<"NewAgreement", g>>
      PROVE  FALSE
  <2>1. 1 \in 1..Len(queue) /\ queue[1] = Invoice(g)
    BY QueueFacts
  <2> QED
    BY <1>3, <2>1, QueueFacts DEF InvoiceLast, AfterEnd
<1> QED
  BY <1>2, <1>3 DEF ToldFirst, InQueue

\* Agreements do not come back to life.
LEMMA InvoiceStaysAfterEnd ==
    ASSUME TypeOK, HandlerAtHead, DocsQueued, InvoiceLast, [Next]_vars
    PROVE  AfterEnd'
<1> USE AgreementAssumption DEF InvoiceLast, AfterEnd, HandlerAtHead, Documents, Invoice,
         remote, getters, bus, managers, Closers, TypeOK
<1>1. ASSUME NEW u \in Getters, Get(u)
      PROVE  AfterEnd'
  BY <1>1 DEF Get, Approved, NotApproved, Create, Emit, Confirm, GetRaises,
              GetCancelled, HandOut, Registered, Tracked, CreateActivity,
              Abandon, DestroyActivity
<1>2. ASSUME NEW g \in Agreements,
             NEW state \in {"approved", "rejected", "terminated"}, Answer(g, state)
      PROVE  AfterEnd'
  BY <1>2 DEF Answer
<1>3. ASSUME NEW d \in Documents, Collected(d)
      PROVE  AfterEnd'
  BY <1>3 DEF Collected, Emit
<1>4. ASSUME NEW g \in Agreements, Handle(g)
      PROVE  AfterEnd'
  BY <1>4 DEF Handle, NewAgreement, Arrives, FlagCleared, ActivityClosed,
              ActivityClosedDone
<1>5. ASSUME NEW d \in Documents, Document(d)
      PROVE  AfterEnd'
  <2>1. Head(queue) = d /\ queue # <<>>
    BY <1>5, DocumentAtHead
  <2>2. doc[d] = "queued"
    BY <1>5, <2>1, HeadQueued DEF Document, Arrives
  <2> QED
    BY <1>5, <2>2 DEF Document, Arrives
<1>6. ASSUME NEW d \in Documents, DataRaises(d)
      PROVE  AfterEnd'
  <2>1. doc[d] = "queued"
    BY <1>6, HeadQueued DEF DataRaises, Handled
  <2> QED
    BY <1>6, <2>1 DEF DataRaises, Handled
<1>7. ASSUME NEW d \in Documents, Data(d)
      PROVE  AfterEnd'
  <2>1. doc[d] = "queued"
    BY <1>7, HeadQueued DEF Data, Handled
  <2> QED
    BY <1>7, <2>1 DEF Data, Handled
<1>8. ASSUME NEW d \in Documents, AcceptRaises(d)
      PROVE  AfterEnd'
  <2>1. doc[d] = "queued"
    BY <1>8, HeadQueued DEF AcceptRaises, Handled
  <2> QED
    BY <1>8, <2>1 DEF AcceptRaises, Handled
<1>9. ASSUME NEW d \in Documents, NEW end \in {"accepted", "refused"}, Accept(d, end)
      PROVE  AfterEnd'
  <2>1. doc[d] = "queued"
    BY <1>9, HeadQueued DEF Accept, Handled, Counts
  <2> QED
    BY <1>9, <2>1 DEF Accept, Handled, Counts
<1>10. ASSUME NEW c \in Closers, NEW g \in Agreements, Close(c, g)
       PROVE  AfterEnd'
  BY <1>10 DEF Close, TerminateOk, TerminateGivesUp, CloseRaises, DestroyAll,
               Emit
<1>11. ASSUME Stop
       PROVE  AfterEnd'
  BY <1>11 DEF Stop, AmStopEmpty, AmStop, CloseSet, AmStopped, PmStop,
               PmWaited, WaitOver, PmClose, ToClose, PmRelease, Cleared,
               PmStopped, PmRaises
<1>12. ASSUME UNCHANGED vars
       PROVE  AfterEnd'
  BY <1>12 DEF vars
<1> HIDE DEF InvoiceLast, AfterEnd, HandlerAtHead, Documents, Invoice,
         remote, getters, bus, managers, Closers, TypeOK
<1> QED
  BY <1>1, <1>2, <1>3, <1>4, <1>5, <1>6, <1>7, <1>8, <1>9, <1>10, <1>11, <1>12
     DEF Next, Get, Approved, NotApproved, HandleDocument, Close, Stop, Handle

\* What adds or removes agreements keeps the flag in line.
LEMMA FlagStaysRight ==
    ASSUME TypeOK, FlagRight, [Next]_vars
    PROVE  FlagRight'
<1> USE AgreementAssumption DEF FlagRight, Subscribed, remote, getters, bus, managers, TypeOK
<1>1. ASSUME NEW u \in Getters, Get(u)
      PROVE  FlagRight'
  BY <1>1 DEF Get, Approved, NotApproved, Create, Emit, Confirm, GetRaises,
              GetCancelled, HandOut, Registered, Tracked, CreateActivity,
              Abandon, DestroyActivity
<1>2. ASSUME NEW g \in Agreements,
             NEW state \in {"approved", "rejected", "terminated"}, Answer(g, state)
      PROVE  FlagRight'
  BY <1>2 DEF Answer
<1>3. ASSUME NEW d \in Documents, Collected(d)
      PROVE  FlagRight'
  BY <1>3 DEF Collected, Emit
<1>4. ASSUME NEW g \in Agreements, NewAgreement(g)
      PROVE  FlagRight'
  BY <1>4 DEF NewAgreement, Arrives, FlagCleared
<1>5. ASSUME NEW g \in Agreements, ActivityClosed(g)
      PROVE  FlagRight'
  BY <1>5 DEF ActivityClosed, Arrives
<1>6. ASSUME NEW g \in Agreements, ActivityClosedDone(g)
      PROVE  FlagRight'
  BY <1>6 DEF ActivityClosedDone
<1>7. ASSUME NEW d \in Documents, Document(d)
      PROVE  FlagRight'
  BY <1>7 DEF Document, Arrives
<1>8. ASSUME NEW d \in Documents, DataRaises(d)
      PROVE  FlagRight'
  BY <1>8 DEF DataRaises, Handled
<1>9. ASSUME NEW d \in Documents, Data(d)
      PROVE  FlagRight'
  BY <1>9 DEF Data, Handled
<1>10. ASSUME NEW d \in Documents, AcceptRaises(d)
       PROVE  FlagRight'
  BY <1>10 DEF AcceptRaises, Handled
<1>11. ASSUME NEW d \in Documents, NEW end \in {"accepted", "refused"}, Accept(d, end)
       PROVE  FlagRight'
  <2>1. noneFlag' => noneFlag \/ (d[1] = "invoice" /\ known = {d[2]})
    BY <1>11 DEF Accept, Handled, Counts
  <2>2. (noneFlag \/ (d[1] = "invoice" /\ known = {d[2]})) => noneFlag'
    BY <1>11 DEF Accept, Handled, Counts
  <2>3. known' = IF d[1] = "invoice" THEN known \ {d[2]} ELSE known
    BY <1>11 DEF Accept, Handled, Counts
  <2>4. noneFlag' => known' = {}
    BY <2>1, <2>3
  <2>5. Subscribed' => (known' = {} => noneFlag')
    BY <1>11, <2>2, <2>3 DEF Accept
  <2> QED
    BY <2>4, <2>5
<1>12. ASSUME NEW c \in Closers, NEW g \in Agreements, Close(c, g)
       PROVE  FlagRight'
  BY <1>12 DEF Close, TerminateOk, TerminateGivesUp, CloseRaises, DestroyAll,
               Emit
<1>13. ASSUME Stop
       PROVE  FlagRight'
  BY <1>13 DEF Stop, AmStopEmpty, AmStop, CloseSet, AmStopped, PmStop,
               PmWaited, WaitOver, PmClose, ToClose, PmRelease, Cleared,
               PmStopped, PmRaises
<1>14. ASSUME UNCHANGED vars
       PROVE  FlagRight'
  BY <1>14 DEF vars
<1> HIDE DEF FlagRight, Subscribed, remote, getters, bus, managers, TypeOK
<1> QED
  BY <1>1, <1>2, <1>3, <1>4, <1>5, <1>6, <1>7, <1>8, <1>9, <1>10, <1>11, <1>12,
     <1>13, <1>14
     DEF Next, Get, Approved, NotApproved, HandleDocument, Close, Stop, Handle

\* No invoice is ignored.
LEMMA NoneStaysIgnored ==
    ASSUME TypeOK, HandlerAtHead, DocsQueued, InvoiceLast, ToldFirst, NoneIgnored, [Next]_vars
    PROVE  NoneIgnored'
<1> USE AgreementAssumption DEF NoneIgnored, HandlerAtHead, Documents,
         Invoice, Subscribed, remote, getters, bus, managers, TypeOK
<1>1. ASSUME NEW u \in Getters, Get(u)
      PROVE  NoneIgnored'
  BY <1>1 DEF Get, Approved, NotApproved, Create, Emit, Confirm, GetRaises,
              GetCancelled, HandOut, Registered, Tracked, CreateActivity,
              Abandon, DestroyActivity
<1>2. ASSUME NEW g \in Agreements,
             NEW state \in {"approved", "rejected", "terminated"}, Answer(g, state)
      PROVE  NoneIgnored'
  BY <1>2 DEF Answer
<1>3. ASSUME NEW d \in Documents, Collected(d)
      PROVE  NoneIgnored'
  BY <1>3 DEF Collected, Emit
<1>4. ASSUME NEW g \in Agreements, Handle(g)
      PROVE  NoneIgnored'
  BY <1>4 DEF Handle, NewAgreement, Arrives, FlagCleared, ActivityClosed,
              ActivityClosedDone
<1>5. ASSUME NEW d \in Documents, Document(d)
      PROVE  NoneIgnored'
  BY <1>5 DEF Document, Arrives
<1>6. ASSUME NEW d \in Documents, DataRaises(d)
      PROVE  NoneIgnored'
  BY <1>6 DEF DataRaises, Handled
<1>7. ASSUME NEW d \in Documents, Data(d)
      PROVE  NoneIgnored'
  <2>1. \A g \in Agreements : Subscribed /\ d = Invoice(g) => g \in known
    BY <1>7, InvoiceOfKnown DEF Data
  <2>2. CASE d[2] \in known
    BY <1>7, <2>2 DEF Data, Handled
  <2>3. CASE d[2] \notin known
    <3>1. doc' = [doc EXCEPT ![d] = "ignored"] /\ pm' = pm
      BY <1>7, <2>3 DEF Data, Handled
    <3>2. \A g \in Agreements : Subscribed => d # Invoice(g)
      BY <2>1, <2>3
    <3> QED
      BY <3>1, <3>2
  <2> QED
    BY <2>2, <2>3
<1>8. ASSUME NEW d \in Documents, AcceptRaises(d)
      PROVE  NoneIgnored'
  BY <1>8 DEF AcceptRaises, Handled
<1>9. ASSUME NEW d \in Documents, NEW end \in {"accepted", "refused"}, Accept(d, end)
      PROVE  NoneIgnored'
  BY <1>9 DEF Accept, Handled, Counts
<1>10. ASSUME NEW c \in Closers, NEW g \in Agreements, Close(c, g)
       PROVE  NoneIgnored'
  BY <1>10 DEF Close, TerminateOk, TerminateGivesUp, CloseRaises, DestroyAll,
               Emit
<1>11. ASSUME Stop
       PROVE  NoneIgnored'
  BY <1>11 DEF Stop, AmStopEmpty, AmStop, CloseSet, AmStopped, PmStop,
               PmWaited, WaitOver, PmClose, ToClose, PmRelease, Cleared,
               PmStopped, PmRaises
<1>12. ASSUME UNCHANGED vars
       PROVE  NoneIgnored'
  BY <1>12 DEF vars
<1> HIDE DEF NoneIgnored, HandlerAtHead, Documents,
         Invoice, Subscribed, remote, getters, bus, managers, TypeOK
<1> QED
  BY <1>1, <1>2, <1>3, <1>4, <1>5, <1>6, <1>7, <1>8, <1>9, <1>10, <1>11, <1>12
     DEF Next, Get, Approved, NotApproved, HandleDocument, Close, Stop, Handle

\* The wait of stop() is over early only when nothing is known any more.
LEMMA SavedStayFollowed ==
    ASSUME TypeOK, HandlerAtHead, DocsQueued, FlagRight, SavedFollowed, [Next]_vars
    PROVE  SavedFollowed'
<1> USE AgreementAssumption DEF SavedFollowed, LookedAt, FlagRight, HandlerAtHead,
         Documents, Invoice, Subscribed, remote, getters, bus, managers, TypeOK
<1>1. ASSUME NEW u \in Getters, Get(u)
      PROVE  SavedFollowed'
  BY <1>1 DEF Get, Approved, NotApproved, Create, Emit, Confirm, GetRaises,
              GetCancelled, HandOut, Registered, Tracked, CreateActivity,
              Abandon, DestroyActivity
<1>2. ASSUME NEW g \in Agreements,
             NEW state \in {"approved", "rejected", "terminated"}, Answer(g, state)
      PROVE  SavedFollowed'
  BY <1>2 DEF Answer
<1>3. ASSUME NEW d \in Documents, Collected(d)
      PROVE  SavedFollowed'
  BY <1>3 DEF Collected, Emit
<1>4. ASSUME NEW g \in Agreements, Handle(g)
      PROVE  SavedFollowed'
  BY <1>4 DEF Handle, NewAgreement, Arrives, FlagCleared, ActivityClosed,
              ActivityClosedDone
<1>5. ASSUME NEW d \in Documents, Document(d)
      PROVE  SavedFollowed'
  <2>1. Head(queue) = d /\ queue # <<>>
    BY <1>5, DocumentAtHead
  <2>2. doc[d] = "queued"
    BY <1>5, <2>1, HeadQueued DEF Document, Arrives
  <2> QED
    BY <1>5, <2>2 DEF Document, Arrives
<1>6. ASSUME NEW d \in Documents, DataRaises(d)
      PROVE  SavedFollowed'
  <2>1. doc[d] = "queued"
    BY <1>6, HeadQueued DEF DataRaises, Handled
  <2> QED
    BY <1>6, <2>1 DEF DataRaises, Handled
<1>7. ASSUME NEW d \in Documents, Data(d)
      PROVE  SavedFollowed'
  <2>1. doc[d] = "queued"
    BY <1>7, HeadQueued DEF Data, Handled
  <2>2. CASE d[2] \in known
    BY <1>7, <2>2 DEF Data, Handled
  <2>3. CASE d[2] \notin known
    <3>1. doc' = [doc EXCEPT ![d] = "ignored"]
      BY <1>7, <2>3 DEF Data, Handled
    <3>2. \A g \in Agreements : LookedAt(g) => LookedAt(g)'
      BY <2>1, <3>1
    <3> QED
      BY <1>7, <2>3, <3>2 DEF Data, Handled
  <2> QED
    BY <2>2, <2>3
<1>8. ASSUME NEW d \in Documents, AcceptRaises(d)
      PROVE  SavedFollowed'
  <2>1. doc[d] = "queued"
    BY <1>8, HeadQueued DEF AcceptRaises, Handled
  <2> QED
    BY <1>8, <2>1 DEF AcceptRaises, Handled
<1>9. ASSUME NEW d \in Documents, NEW end \in {"accepted", "refused"}, Accept(d, end)
      PROVE  SavedFollowed'
  <2>1. doc[d] = "queued"
    BY <1>9, HeadQueued DEF Accept, Handled, Counts
  <2> QED
    BY <1>9, <2>1 DEF Accept, Handled, Counts
<1>10. ASSUME NEW c \in Closers, NEW g \in Agreements, Close(c, g)
       PROVE  SavedFollowed'
  BY <1>10 DEF Close, TerminateOk, TerminateGivesUp, CloseRaises, DestroyAll,
               Emit
<1>11. ASSUME Stop
       PROVE  SavedFollowed'
  BY <1>11 DEF Stop, AmStopEmpty, AmStop, CloseSet, AmStopped, PmStop,
               PmWaited, WaitOver, PmClose, ToClose, PmRelease, Cleared,
               PmStopped, PmRaises
<1>12. ASSUME UNCHANGED vars
       PROVE  SavedFollowed'
  BY <1>12 DEF vars
<1> HIDE DEF SavedFollowed, LookedAt, FlagRight, HandlerAtHead,
         Documents, Invoice, Subscribed, remote, getters, bus, managers, TypeOK
<1> QED
  BY <1>1, <1>2, <1>3, <1>4, <1>5, <1>6, <1>7, <1>8, <1>9, <1>10, <1>11, <1>12
     DEF Next, Get, Approved, NotApproved, HandleDocument, Close, Stop, Handle

\* stop() of the payment manager is through with what it closes.
LEMMA SavedStayClosed ==
    ASSUME TypeOK, InvoiceLast, FlagRight, SavedFollowed, SavedClosed, [Next]_vars
    PROVE  SavedClosed'
<1> USE AgreementAssumption DEF SavedClosed, EndedOr, Ended, SavedFollowed, LookedAt, InvoiceLast,
         AfterEnd, Documents, Invoice, remote, getters, bus, managers, Closers, Closed, TypeOK
<1>1. ASSUME NEW u \in Getters, NEW g \in Agreements, Create(u, g)
      PROVE  SavedClosed'
  BY <1>1 DEF Create, Emit
<1>2. ASSUME NEW u \in Getters, Confirm(u)
      PROVE  SavedClosed'
  BY <1>2 DEF Confirm
<1>3. ASSUME NEW u \in Getters, GetRaises(u)
      PROVE  SavedClosed'
  BY <1>3 DEF GetRaises
<1>4. ASSUME NEW u \in Getters, GetCancelled(u)
      PROVE  SavedClosed'
  BY <1>4 DEF GetCancelled
<1>5. ASSUME NEW u \in Getters, NEW ok \in BOOLEAN, getter[u] = "wait", HandOut(u, ok)
      PROVE  SavedClosed'
  BY <1>5 DEF HandOut, Registered, Tracked
<1>6. ASSUME NEW u \in Getters, CreateActivity(u)
      PROVE  SavedClosed'
  BY <1>6 DEF CreateActivity
<1>7. ASSUME NEW u \in Getters, Abandon(u)
      PROVE  SavedClosed'
  BY <1>7 DEF Abandon
<1>8. ASSUME NEW u \in Getters, DestroyActivity(u)
      PROVE  SavedClosed'
  BY <1>8 DEF DestroyActivity, Emit
<1>9. ASSUME NEW g \in Agreements,
             NEW state \in {"approved", "rejected", "terminated"}, Answer(g, state)
      PROVE  SavedClosed'
  BY <1>9 DEF Answer
<1>10. ASSUME NEW d \in Documents, Collected(d)
       PROVE  SavedClosed'
  BY <1>10 DEF Collected, Emit
<1>11. ASSUME NEW g \in Agreements, NewAgreement(g)
       PROVE  SavedClosed'
  BY <1>11 DEF NewAgreement, Arrives, FlagCleared
<1>12. ASSUME NEW g \in Agreements, ActivityClosed(g)
       PROVE  SavedClosed'
  <2>1. closing'["pm"] = closing["pm"]
    BY <1>12 DEF ActivityClosed, Arrives
  <2> QED
    BY <1>12, <2>1 DEF ActivityClosed, Arrives
<1>13. ASSUME NEW g \in Agreements, ActivityClosedDone(g)
       PROVE  SavedClosed'
  BY <1>13 DEF ActivityClosedDone
<1>14. ASSUME NEW d \in Documents, HandleDocument(d)
       PROVE  SavedClosed'
  BY <1>14 DEF HandleDocument, Document, Arrives, DataRaises, Handled, Data,
               AcceptRaises, Accept, Counts
<1>15. ASSUME NEW c \in Closers, NEW g \in Agreements, Close(c, g)
       PROVE  SavedClosed'
  <2>1. CASE TerminateOk(c, g)
    BY <2>1 DEF TerminateOk
  <2>2. CASE TerminateGivesUp(c, g)
    BY <2>2 DEF TerminateGivesUp
  <2>3. CASE CloseRaises(c, g)
    BY <2>3 DEF CloseRaises
  <2>4. ASSUME NEW ok \in BOOLEAN, DestroyAll(c, g, ok)
        PROVE  SavedClosed'
    BY <2>4 DEF DestroyAll, Emit
  <2> QED
    BY <1>15, <2>1, <2>2, <2>3, <2>4 DEF Close
<1>16. ASSUME AmStopEmpty
       PROVE  SavedClosed'
  BY <1>16 DEF AmStopEmpty
<1>17. ASSUME AmStop
       PROVE  SavedClosed'
  BY <1>17 DEF AmStop, CloseSet
<1>18. ASSUME AmStopped
       PROVE  SavedClosed'
  BY <1>18 DEF AmStopped
<1>19. ASSUME PmStop
       PROVE  SavedClosed'
  BY <1>19 DEF PmStop
<1>20. ASSUME NEW timeout \in BOOLEAN, PmWaited(timeout)
       PROVE  SavedClosed'
  BY <1>20 DEF PmWaited, WaitOver
<1>21. ASSUME PmClose
       PROVE  SavedClosed'
  BY <1>21 DEF PmClose, CloseSet, ToClose
<1>22. ASSUME PmRelease
       PROVE  SavedClosed'
  <2>1. ASSUME NEW g \in saved
        PROVE  EndedOr(g)
    <3>1. CASE pm = "over"
      BY <1>22, <3>1 DEF PmRelease, ToClose
    <3>2. CASE pm = "close"
      BY <1>22, <3>2 DEF PmRelease
    <3> QED
      BY <1>22, <3>1, <3>2 DEF PmRelease
  <2> QED
    BY <1>22, <2>1 DEF PmRelease, Cleared
<1>23. ASSUME PmStopped
       PROVE  SavedClosed'
  BY <1>23 DEF PmStopped
<1>24. ASSUME PmRaises
       PROVE  SavedClosed'
  BY <1>24 DEF PmRaises
<1>25. ASSUME UNCHANGED vars
       PROVE  SavedClosed'
  BY <1>25 DEF vars
<1> HIDE DEF SavedClosed, EndedOr, Ended, SavedFollowed, LookedAt, InvoiceLast,
         AfterEnd, Documents, Invoice, remote, getters, bus, managers, Closers, Closed, TypeOK
<1> QED
  BY <1>1, <1>2, <1>3, <1>4, <1>5, <1>6, <1>7, <1>8, <1>9, <1>10, <1>11, <1>12,
     <1>13, <1>14, <1>15, <1>16, <1>17, <1>18, <1>19, <1>20, <1>21, <1>22,
     <1>23, <1>24, <1>25
     DEF Next, Get, Approved, NotApproved, HandleDocument, Close, Stop, Handle

\* So is that of the agreement manager.
LEMMA HandedStayClosed ==
    ASSUME TypeOK, GotKnown, HandedClosed, [Next]_vars
    PROVE  HandedClosed'
<1> USE AgreementAssumption DEF HandedClosed, Settled, ByBus, EndedOr, Ended, GotKnown, remote,
         getters, bus, managers, Closers, Closed, TypeOK
<1>1. ASSUME NEW u \in Getters, Get(u)
      PROVE  HandedClosed'
  BY <1>1 DEF Get, Approved, NotApproved, Create, Emit, Confirm, GetRaises,
              GetCancelled, HandOut, Registered, Tracked, CreateActivity,
              Abandon, DestroyActivity
<1>2. ASSUME NEW g \in Agreements,
             NEW state \in {"approved", "rejected", "terminated"}, Answer(g, state)
      PROVE  HandedClosed'
  BY <1>2 DEF Answer
<1>3. ASSUME NEW d \in Documents, Collected(d)
      PROVE  HandedClosed'
  BY <1>3 DEF Collected, Emit
<1>4. ASSUME NEW g \in Agreements, Handle(g)
      PROVE  HandedClosed'
  BY <1>4 DEF Handle, NewAgreement, Arrives, FlagCleared, ActivityClosed,
              ActivityClosedDone
<1>5. ASSUME NEW d \in Documents, HandleDocument(d)
      PROVE  HandedClosed'
  BY <1>5 DEF HandleDocument, Document, Arrives, DataRaises, Handled, Data,
              AcceptRaises, Accept, Counts
<1>6. ASSUME NEW c \in Closers, NEW g \in Agreements, Close(c, g)
      PROVE  HandedClosed'
  BY <1>6 DEF Close, TerminateOk, TerminateGivesUp, CloseRaises, DestroyAll,
              Emit
<1>7. ASSUME AmStopEmpty
      PROVE  HandedClosed'
  BY <1>7 DEF AmStopEmpty
<1>8. ASSUME AmStop
      PROVE  HandedClosed'
  BY <1>8 DEF AmStop, CloseSet
<1>9. ASSUME AmStopped
      PROVE  HandedClosed'
  BY <1>9 DEF AmStopped
<1>10. ASSUME PmStop
       PROVE  HandedClosed'
  BY <1>10 DEF PmStop
<1>11. ASSUME NEW timeout \in BOOLEAN, PmWaited(timeout)
       PROVE  HandedClosed'
  BY <1>11 DEF PmWaited, WaitOver
<1>12. ASSUME PmClose
       PROVE  HandedClosed'
  BY <1>12 DEF PmClose, CloseSet, ToClose
<1>13. ASSUME PmRelease
       PROVE  HandedClosed'
  BY <1>13 DEF PmRelease, Cleared
<1>14. ASSUME PmStopped
       PROVE  HandedClosed'
  BY <1>14 DEF PmStopped
<1>15. ASSUME PmRaises
       PROVE  HandedClosed'
  BY <1>15 DEF PmRaises
<1>16. ASSUME UNCHANGED vars
       PROVE  HandedClosed'
  BY <1>16 DEF vars
<1> HIDE DEF HandedClosed, Settled, ByBus, EndedOr, Ended, GotKnown, remote,
         getters, bus, managers, Closers, Closed, TypeOK
<1> QED
  BY <1>1, <1>2, <1>3, <1>4, <1>5, <1>6, <1>7, <1>8, <1>9, <1>10, <1>11, <1>12,
     <1>13, <1>14, <1>15, <1>16
     DEF Next, Get, Approved, NotApproved, HandleDocument, Close, Stop, Handle

\* The parts together are an inductive invariant.
LEMMA AgreementInvInductive ==
    /\ Init => AgreementInv
    /\ AgreementInv /\ [Next]_vars => AgreementInv'
<1>1. ASSUME Init
      PROVE  AgreementInv
  <2> USE <1>1 DEF Init, Closers
  <2>1. TypeOK
    <3>1. queue \in Seq(({"NewAgreement", "ActivityClosed"} \cup Kinds) \X Agreements)
      BY EmptySeq
    <3>2. \A S \in {list, once, known, handed, saved, gaveUp} : S \subseteq Agreements
      OBVIOUS
    <3> QED
      BY <3>1, <3>2 DEF TypeOK, Documents
  <2>2. GotKnown /\ HandlerAtHead /\ SavedClosed /\ HandedClosed /\ FlagRight
    BY DEF GotKnown, HandlerAtHead, SavedClosed, HandedClosed, FlagRight, Subscribed
  <2>3. \A g \in Agreements : Invoice(g) \in Documents /\ doc[Invoice(g)] = "none"
    BY AgreementAssumption DEF AgreementAssumption, Documents, Invoice
  <2>4. InvoiceLast /\ ToldFirst /\ NoneIgnored /\ SavedFollowed
    BY <2>3 DEF InvoiceLast, AfterEnd, ToldFirst, NoneIgnored, SavedFollowed
  <2>5. DocsQueued
    BY DEF DocsQueued, InQueue
  <2> QED
    BY <2>1, <2>2, <2>4, <2>5 DEF AgreementInv
<1>2. ASSUME AgreementInv, [Next]_vars
      PROVE  AgreementInv'
  <2> USE <1>2 DEF AgreementInv
  <2>1. TypeOK' /\ GotKnown'
    BY AgreementTypes
  <2>2. HandlerAtHead'
    BY HandlerStaysAtHead
  <2>3. QueueStep /\ KnownStep
    BY QueueSteps, KnownSteps
  <2>4. DocsQueued'
    BY <2>3, DocumentsStayQueued
  <2>5. InvoiceLast'
    BY <2>3, InvoiceStaysAfterEnd, InvoiceStaysLast
  <2>6. ToldFirst'
    BY <2>3, ToldStaysFirst
  <2>7. FlagRight' /\ NoneIgnored'
    BY FlagStaysRight, NoneStaysIgnored
  <2>8. SavedFollowed'
    BY SavedStayFollowed
  <2>9. SavedClosed'
    BY SavedStayClosed
  <2>10. HandedClosed'
    BY HandedStayClosed
  <2> QED
    BY <2>1, <2>2, <2>4, <2>5, <2>6, <2>7, <2>8, <2>9, <2>10
<1> QED
  BY <1>1, <1>2

(***************************************************************************)
(* The flag of the payment manager tells whether it follows agreements, no *)
(* invoice is taken for one of an unknown agreement, and stop() goes on    *)
(* early only when the invoices of all the agreements it was told of have  *)
(* been looked at (managers/payment/default.py).                           *)
(***************************************************************************)
THEOREM InvoicesAreFollowed == Spec => []InvoicesFollowed
<1>1. AgreementInv => InvoicesFollowed
  BY DEF AgreementInv, FlagRight, NoneIgnored, SavedFollowed, LookedAt, Invoice, InvoicesFollowed
<1> QED
  BY <1>1, AgreementInvInductive, PTL DEF Spec

(***************************************************************************)
(* When a stop() is through, the agreements its manager followed have      *)
(* ended, are being ended by the handler of a closed activity, or could    *)
(* not be ended (managers/agreement/default.py, managers/payment/default.py*)
(* stop, resources/agreement/agreement.py close_all).                      *)
(***************************************************************************)
THEOREM AgreementsEnd == Spec => []StopEndsAgreements
<1>1. AgreementInv => StopEndsAgreements
  BY DEF AgreementInv, SavedClosed, HandedClosed, EndedOr, ByBus, StopEndsAgreements
<1> QED
  BY <1>1, AgreementInvInductive, PTL DEF Spec

-----------------------------------------------------------------------------
(* The demand managers.                                                    *)

\* What a loop has in its local variable, and that a single use manager keeps
\* no list.
CursorRight ==
    \A m \in Managers :
        /\ loop[m] \in {"off", "create", "wait"} => cur[m] = None
        /\ loop[m] = "data" => cur[m] \in Demands
        /\ m \in SingleUse => listed[m] = <<>> /\ loop[m] \notin {"data", "wait"}

\* A demand yagna knows and nobody gave up is where the finally block of a
\* loop that still runs will find it.
DemandsKept ==
    \A d \in subscribed \ abandoned :
        /\ loop[d[1]] # "off"
        /\ d \in Listed(d[1]) \/ d = cur[d[1]]

NoneTwice(s) == \A i, j \in DOMAIN s : s[i] = s[j] => i = j

\* No queue holds a proposal twice.
QueuesDistinct ==
    /\ \A d \in Demands : NoneTwice(backlog[d])
    /\ \A m \in Managers : NoneTwice(initialProposals[m])
    /\ NoneTwice(buffer)

WithDemand(p, d) == p \in ToSet(backlog[d])
InQueueOf(p, m) == p \in ToSet(initialProposals[m])
Saved(p) == p \in ToSet(buffer)

\* Underway: not yet with the aggregator.
Underway(p) ==
    \/ \E d \in Demands : WithDemand(p, d)
    \/ \E m \in Managers : InQueueOf(p, m)
    \/ \E t \in FeedTasks : hand[t] = p

\* No two places hold the same proposal.
PlacesApart ==
    \A p \in Proposals :
        /\ \A d, e \in Demands : WithDemand(p, d) /\ WithDemand(p, e) => d = e
        /\ \A m, n \in Managers : InQueueOf(p, m) /\ InQueueOf(p, n) => m = n
        /\ \A t, r \in FeedTasks : hand[t] = p /\ hand[r] = p => t = r
        /\ \A m \in Managers, t \in FeedTasks : ~ (InQueueOf(p, m) /\ hand[t] = p)
        /\ \A d \in Demands, m \in Managers : WithDemand(p, d) => ~ InQueueOf(p, m)
        /\ \A d \in Demands, t \in FeedTasks : WithDemand(p, d) => hand[t] # p
        /\ Saved(p) \/ p \in returned \cup lost => ~ Underway(p)
        /\ ~ (Saved(p) /\ p \in returned \cup lost)
        /\ p \notin returned \cap lost

HandFull == \A t \in FeedTasks : feed[t] = "have" => hand[t] \in Proposals

\* Who drops a proposal raises an error, or was cancelled by a stop().
LossesKnown ==
    /\ \A t \in FeedTasks : feed[t] = "raising" => error[t[1]]
    /\ \A t \in FeedTasks : feed[t] = "orphan" => stops > 0
    /\ lost # {} => stops > 0 \/ \E m \in Managers : error[m]

DemandInv ==
    /\ DemandTypeOK /\ IsFiniteSet(made)
    /\ CursorRight /\ DemandsKept /\ HandFull /\ LossesKnown /\ QueuesDistinct /\ PlacesApart

\* The next demand of a manager.
LEMMA NextDemandProperties ==
    ASSUME DemandTypeOK, IsFiniteSet(made), Cardinality(made) < MaxDemands,
           NEW m \in Managers
    PROVE  /\ NextDemand(m) \in Demands /\ NextDemand(m)[1] = m
           /\ IsFiniteSet(made \cup {NextDemand(m)})
<1> DEFINE Own == {d \in made : d[1] = m}
<1>1. IsFiniteSet(Own) /\ Cardinality(Own) <= Cardinality(made)
  BY FS_Subset
<1>2. Cardinality(Own) \in Nat /\ Cardinality(made) \in Nat
  BY <1>1, FS_CardinalityType
<1>3. 1 + Cardinality(Own) \in 1..MaxDemands
  BY <1>1, <1>2, DemandAssumption DEF DemandAssumption
<1>4. IsFiniteSet(made \cup {NextDemand(m)})
  BY FS_AddElement
<1> QED
  BY <1>3, <1>4 DEF NextDemand, Demands

\* The members of a queue that an item enters or leaves.
LEMMA ToSetAppend ==
    ASSUME NEW S, NEW s \in Seq(S), NEW e \in S
    PROVE  ToSet(Append(s, e)) = ToSet(s) \cup {e}
<1>1. /\ Append(s, e) \in Seq(S) /\ Len(s) \in Nat /\ Len(Append(s, e)) = Len(s) + 1
      /\ DOMAIN s = 1..Len(s) /\ DOMAIN Append(s, e) = 1..(Len(s) + 1)
      /\ \A i \in 1..Len(s) : Append(s, e)[i] = s[i]
      /\ Append(s, e)[Len(s) + 1] = e
  BY AppendProperties
<1> QED
  BY <1>1 DEF ToSet

\* What the condition of the buffer does to those who wait.
LEMMA WakeTypes ==
    ASSUME DemandTypeOK, Wake
    PROVE  waiters' \in Seq(Users) /\ user' \in [Users -> {"idle", "wait", "woken"}]
<1>1. CASE waiters = <<>>
  BY <1>1 DEF Wake, DemandTypeOK
<1>2. CASE waiters # <<>>
  <2>1. Tail(waiters) \in Seq(Users) /\ Head(waiters) \in Users
    BY <1>2, HeadTailProperties DEF DemandTypeOK
  <2> QED
    BY <1>2, <2>1 DEF Wake, DemandTypeOK
<1> QED
  BY <1>1, <1>2

\* What a caller takes out of the buffer.
LEMMA TakeTypes ==
    ASSUME DemandTypeOK, NEW u \in Users, TakeOrWait(u)
    PROVE  /\ returned' \subseteq Proposals /\ buffer' \in Seq(Proposals)
           /\ waiters' \in Seq(Users) /\ user' \in [Users -> {"idle", "wait", "woken"}]
<1>1. CASE buffer # <<>>
  <2>1. Tail(buffer) \in Seq(Proposals) /\ Head(buffer) \in Proposals
    BY <1>1, HeadTailProperties DEF DemandTypeOK
  <2> QED
    BY <1>1, <2>1 DEF TakeOrWait, SavedAny, DemandTypeOK
<1>2. CASE buffer = <<>>
  <2>1. Append(waiters, u) \in Seq(Users)
    BY AppendProperties DEF DemandTypeOK
  <2> QED
    BY <1>2, <2>1 DEF TakeOrWait, SavedAny, DemandTypeOK
<1> QED
  BY <1>1, <1>2

\* A function without a feed task.
LEMMA EntryTypes ==
    ASSUME DemandTypeOK, NEW m
    PROVE  [taskMap EXCEPT ![m] = 0] \in [Managers -> 0..MaxFeeds]
<1>1. taskMap \in [Managers -> 0..MaxFeeds] /\ 0 \in 0..MaxFeeds
  BY DemandAssumption DEF DemandTypeOK, DemandAssumption
<1> QED
  BY <1>1

\* What an inner task takes out of its queue.
LEMMA TakeFeedTypes ==
    ASSUME DemandTypeOK, NEW t \in FeedTasks, FeedTakes(t) \/ FeedDrops(t)
    PROVE  /\ initialProposals' \in [Managers -> Seq(Proposals)]
           /\ hand' \in [FeedTasks -> Proposals \cup {None}]
           /\ lost' \subseteq Proposals
           /\ feed' \in [FeedTasks -> {"none", "get", "have", "raising", "raises", "cancelled",
                                      "orphan"}]
<1>1. PICK m \in Managers : m = t[1]
  BY DEF FeedTasks
<1>2. initialProposals[m] \in Seq(Proposals) /\ initialProposals[m] # <<>>
  BY <1>1 DEF FeedTakes, FeedDrops, Takes, DemandTypeOK
<1>3. PICK p \in Proposals : p = Head(initialProposals[m])
  BY <1>2, HeadTailProperties
<1>4. PICK s \in Seq(Proposals) : s = Tail(initialProposals[m])
  BY <1>2, HeadTailProperties
<1>5. initialProposals' = [initialProposals EXCEPT ![m] = s]
  BY <1>1, <1>4 DEF FeedTakes, FeedDrops, Takes, Left
<1>6. /\ hand' = hand \/ hand' = [hand EXCEPT ![t] = p]
      /\ lost' = lost \/ lost' = lost \cup {p}
  BY <1>1, <1>3 DEF FeedTakes, FeedDrops
<1>7. feed' \in [FeedTasks -> {"none", "get", "have", "raising", "raises", "cancelled",
                               "orphan"}]
  BY DEF FeedTakes, FeedDrops, DemandTypeOK
<1> QED
  BY <1>5, <1>6, <1>7 DEF DemandTypeOK

\* Every step keeps the types.
LEMMA DemandTypes ==
    ASSUME DemandTypeOK, IsFiniteSet(made), CursorRight, HandFull, [DemandNext]_demandVars
    PROVE  DemandTypeOK' /\ IsFiniteSet(made)'
<1> USE DemandAssumption DEF DemandAssumption, DemandTypeOK, CursorRight, HandFull, Managers,
         Goto, Listed, managerVars, aggregatorVars
<1>1. ASSUME NEW m \in Managers, Start(m)
      PROVE  DemandTypeOK' /\ IsFiniteSet(made)'
  BY <1>1 DEF Start
<1>2. ASSUME NEW m \in Managers, StopManager(m)
      PROVE  DemandTypeOK' /\ IsFiniteSet(made)'
  <2>1. Cardinality(made) < MaxDemands =>
          /\ NextDemand(m) \in Demands /\ NextDemand(m)[1] = m
          /\ IsFiniteSet(made \cup {NextDemand(m)})
    BY NextDemandProperties
  <2> QED
    BY <1>2, <2>1 DEF StopManager, Creates
<1>3. ASSUME NEW m \in Managers, Clean(m)
      PROVE  DemandTypeOK' /\ IsFiniteSet(made)'
  BY <1>3 DEF Clean
<1>4. ASSUME NEW m \in Managers, Subscribe(m)
      PROVE  DemandTypeOK' /\ IsFiniteSet(made)'
  <2>1. Cardinality(made) < MaxDemands =>
          /\ NextDemand(m) \in Demands /\ NextDemand(m)[1] = m
          /\ IsFiniteSet(made \cup {NextDemand(m)})
    BY NextDemandProperties
  <2> QED
    BY <1>4, <2>1 DEF Subscribe, Creates
<1>5. ASSUME NEW m \in Managers, SubscribeSingle(m)
      PROVE  DemandTypeOK' /\ IsFiniteSet(made)'
  <2>1. Cardinality(made) < MaxDemands =>
          /\ NextDemand(m) \in Demands /\ NextDemand(m)[1] = m
          /\ IsFiniteSet(made \cup {NextDemand(m)})
    BY NextDemandProperties
  <2> QED
    BY <1>5, <2>1 DEF SubscribeSingle, Creates
<1>6. ASSUME NEW m \in Managers, GotData(m)
      PROVE  DemandTypeOK' /\ IsFiniteSet(made)'
  BY <1>6 DEF GotData
<1>7. ASSUME NEW m \in Managers, Expire(m)
      PROVE  DemandTypeOK' /\ IsFiniteSet(made)'
  BY <1>7 DEF Expire
<1>8. ASSUME NEW m \in Managers, LoopRaises(m)
      PROVE  DemandTypeOK' /\ IsFiniteSet(made)'
  <2>1. Cardinality(made) < MaxDemands =>
          /\ NextDemand(m) \in Demands /\ NextDemand(m)[1] = m
          /\ IsFiniteSet(made \cup {NextDemand(m)})
    BY NextDemandProperties
  <2> QED
    BY <1>8, <2>1 DEF LoopRaises, Creates
<1>9. ASSUME NEW t \in FeedTasks, FeedTakes(t) \/ FeedDrops(t)
      PROVE  DemandTypeOK' /\ IsFiniteSet(made)'
  BY <1>9, TakeFeedTypes DEF FeedTakes, FeedDrops, Takes
<1>10. ASSUME NEW t \in FeedTasks, FeedReturns(t)
       PROVE  DemandTypeOK' /\ IsFiniteSet(made)'
  <2>1. Append(buffer, hand[t]) \in Seq(Proposals)
    BY <1>10, AppendProperties DEF FeedReturns
  <2>2. waiters' \in Seq(Users) /\ user' \in [Users -> {"idle", "wait", "woken"}]
    BY <1>10, WakeTypes DEF FeedReturns, FeedEnds
  <2> QED
    <3>1. taskMap' \in [Managers -> 0..MaxFeeds]
      BY <1>10, EntryTypes DEF FeedReturns, FeedEnds
    <3> QED
      BY <1>10, <2>1, <2>2, <3>1 DEF FeedReturns, FeedEnds
<1>11. ASSUME NEW t \in FeedTasks, FeedFails(t) \/ FeedRaises(t)
       PROVE  DemandTypeOK' /\ IsFiniteSet(made)'
  <2>1. CASE FeedFails(t)
    BY <2>1 DEF FeedFails
  <2>2. CASE FeedRaises(t)
    <3>1. waiters' \in Seq(Users) /\ user' \in [Users -> {"idle", "wait", "woken"}]
      BY <2>2, WakeTypes DEF FeedRaises, FeedEnds
    <3> QED
      <4>1. taskMap' \in [Managers -> 0..MaxFeeds]
        BY <2>2, EntryTypes DEF FeedRaises, FeedEnds
      <4> QED
        BY <2>2, <3>1, <4>1 DEF FeedRaises, FeedEnds
  <2> QED
    BY <1>11, <2>1, <2>2
<1>12. ASSUME NEW d \in Demands, Consume(d)
       PROVE  DemandTypeOK' /\ IsFiniteSet(made)'
  <2>1. d[1] \in Managers
    BY DEF Demands
  <2>2. Head(backlog[d]) \in Proposals /\ Tail(backlog[d]) \in Seq(Proposals)
    BY <1>12, HeadTailProperties DEF Consume
  <2>3. Append(initialProposals[d[1]], Head(backlog[d])) \in Seq(Proposals)
    BY <2>1, <2>2, AppendProperties
  <2> QED
    BY <1>12, <2>1, <2>2, <2>3 DEF Consume
<1>13. ASSUME NEW d \in Demands, ChildrenEnd(d)
       PROVE  DemandTypeOK' /\ IsFiniteSet(made)'
  <2>1. d[1] \in Managers
    BY DEF Demands
  <2> QED
    BY <1>13, <2>1 DEF ChildrenEnd
<1>14. ASSUME NEW d \in Demands, NEW p \in Proposals, Match(d, p)
       PROVE  DemandTypeOK' /\ IsFiniteSet(made)'
  BY <1>14 DEF Match
<1>15. ASSUME NEW u \in Users, GetInitialProposal(u)
       PROVE  DemandTypeOK' /\ IsFiniteSet(made)'
  <2>1. /\ returned' \subseteq Proposals /\ buffer' \in Seq(Proposals)
        /\ waiters' \in Seq(Users) /\ user' \in [Users -> {"idle", "wait", "woken"}]
    BY <1>15, TakeTypes DEF GetInitialProposal
  <2>2. \A m \in ToRun : NewFeed(m) \in 0..MaxFeeds
    BY <1>15 DEF GetInitialProposal, NewFeed, FreeFeeds
  <2> QED
    BY <1>15, <2>1, <2>2 DEF GetInitialProposal
<1>16. ASSUME NEW u \in Users, Woken(u)
       PROVE  DemandTypeOK' /\ IsFiniteSet(made)'
  <2>1. /\ returned' \subseteq Proposals /\ buffer' \in Seq(Proposals)
        /\ waiters' \in Seq(Users) /\ user' \in [Users -> {"idle", "wait", "woken"}]
    BY <1>16, TakeTypes DEF Woken
  <2> QED
    BY <1>16, <2>1 DEF Woken
<1>17. ASSUME StopAggregator
       PROVE  DemandTypeOK' /\ IsFiniteSet(made)'
  BY <1>17 DEF StopAggregator, Cancelled, Mapped
<1>18. ASSUME StopEnds
       PROVE  DemandTypeOK' /\ IsFiniteSet(made)'
  BY <1>18 DEF StopEnds
<1>19. ASSUME UNCHANGED demandVars
       PROVE  DemandTypeOK' /\ IsFiniteSet(made)'
  BY <1>19 DEF demandVars, managerVars, aggregatorVars
<1> HIDE DEF DemandAssumption, DemandTypeOK, CursorRight, HandFull, Managers,
         Goto, Listed, managerVars, aggregatorVars
<1> QED
  BY <1>1, <1>2, <1>3, <1>4, <1>5, <1>6, <1>7, <1>8, <1>9, <1>10, <1>11, <1>12,
     <1>13, <1>14, <1>15, <1>16, <1>17, <1>18, <1>19
     DEF DemandNext

\* A loop forgets its demand only when it has listed or given it up.
LEMMA CursorStaysRight ==
    ASSUME DemandTypeOK, IsFiniteSet(made), CursorRight, [DemandNext]_demandVars
    PROVE  CursorRight'
<1> USE DemandAssumption DEF DemandAssumption, DemandTypeOK, CursorRight, Managers,
         Goto, Listed, managerVars, aggregatorVars
<1>1. ASSUME NEW m \in Managers, Start(m)
      PROVE  CursorRight'
  BY <1>1 DEF Start
<1>2. ASSUME NEW m \in Managers, StopManager(m)
      PROVE  CursorRight'
  <2>1. Cardinality(made) < MaxDemands =>
          /\ NextDemand(m) \in Demands /\ NextDemand(m)[1] = m
          /\ IsFiniteSet(made \cup {NextDemand(m)})
    BY NextDemandProperties
  <2> QED
    BY <1>2, <2>1 DEF StopManager, Creates
<1>3. ASSUME NEW m \in Managers, Clean(m)
      PROVE  CursorRight'
  BY <1>3 DEF Clean
<1>4. ASSUME NEW m \in Managers, Subscribe(m)
      PROVE  CursorRight'
  <2>1. Cardinality(made) < MaxDemands =>
          /\ NextDemand(m) \in Demands /\ NextDemand(m)[1] = m
          /\ IsFiniteSet(made \cup {NextDemand(m)})
    BY NextDemandProperties
  <2> QED
    BY <1>4, <2>1 DEF Subscribe, Creates
<1>5. ASSUME NEW m \in Managers, SubscribeSingle(m)
      PROVE  CursorRight'
  <2>1. Cardinality(made) < MaxDemands =>
          /\ NextDemand(m) \in Demands /\ NextDemand(m)[1] = m
          /\ IsFiniteSet(made \cup {NextDemand(m)})
    BY NextDemandProperties
  <2> QED
    BY <1>5, <2>1 DEF SubscribeSingle, Creates
<1>6. ASSUME NEW m \in Managers, GotData(m)
      PROVE  CursorRight'
  BY <1>6 DEF GotData
<1>7. ASSUME NEW m \in Managers, Expire(m)
      PROVE  CursorRight'
  BY <1>7 DEF Expire
<1>8. ASSUME NEW m \in Managers, LoopRaises(m)
      PROVE  CursorRight'
  <2>1. Cardinality(made) < MaxDemands =>
          /\ NextDemand(m) \in Demands /\ NextDemand(m)[1] = m
          /\ IsFiniteSet(made \cup {NextDemand(m)})
    BY NextDemandProperties
  <2> QED
    BY <1>8, <2>1 DEF LoopRaises, Creates
<1>9. ASSUME NEW d \in Demands, Consume(d)
      PROVE  CursorRight'
  BY <1>9 DEF Consume
<1>10. ASSUME NEW d \in Demands, ChildrenEnd(d)
       PROVE  CursorRight'
  BY <1>10 DEF ChildrenEnd
<1>11. ASSUME NEW d \in Demands, NEW p \in Proposals, Match(d, p)
       PROVE  CursorRight'
  BY <1>11 DEF Match
<1>12. ASSUME NEW u \in Users, GetInitialProposal(u)
       PROVE  CursorRight'
  BY <1>12 DEF GetInitialProposal, TakeOrWait, SavedAny
<1>13. ASSUME NEW u \in Users, Woken(u)
       PROVE  CursorRight'
  BY <1>13 DEF Woken, TakeOrWait, SavedAny
<1>14. ASSUME StopAggregator
       PROVE  CursorRight'
  BY <1>14 DEF StopAggregator, Cancelled
<1>15. ASSUME StopEnds
       PROVE  CursorRight'
  BY <1>15 DEF StopEnds
<1>16. ASSUME NEW t \in FeedTasks,
              FeedTakes(t) \/ FeedFails(t) \/ FeedDrops(t) \/ FeedReturns(t) \/ FeedRaises(t)
       PROVE  CursorRight'
  <2>1. UNCHANGED managerVars
    BY <1>16 DEF FeedTakes, Takes, FeedFails, FeedDrops, FeedReturns, FeedRaises, FeedEnds
  <2> QED
    BY <2>1
<1>17. ASSUME UNCHANGED demandVars
       PROVE  CursorRight'
  BY <1>17 DEF demandVars, managerVars, aggregatorVars
<1> HIDE DEF DemandAssumption, DemandTypeOK, CursorRight, Managers,
         Goto, Listed, managerVars, aggregatorVars
<1> QED
  BY <1>1, <1>2, <1>3, <1>4, <1>5, <1>6, <1>7, <1>8, <1>9, <1>10, <1>11, <1>12,
     <1>13, <1>14, <1>15, <1>16, <1>17
     DEF DemandNext

\* A loop ends only after its finally block.
LEMMA DemandsStayKept ==
    ASSUME DemandTypeOK, IsFiniteSet(made), CursorRight, DemandsKept, [DemandNext]_demandVars
    PROVE  DemandsKept'
<1> USE DemandAssumption DEF DemandAssumption, DemandTypeOK, CursorRight, DemandsKept, Managers,
         Goto, Listed, ToUnsubscribe, managerVars, aggregatorVars
<1>1. ASSUME NEW m \in Managers, Start(m)
      PROVE  DemandsKept'
  BY <1>1 DEF Start
<1>2. ASSUME NEW m \in Managers, StopManager(m)
      PROVE  DemandsKept'
  <2>1. Cardinality(made) < MaxDemands => NextDemand(m)[1] = m
    BY NextDemandProperties
  <2>2. subscribed' \ abandoned' \subseteq subscribed \ abandoned
    BY <1>2 DEF StopManager, Creates
  <2>3. ASSUME NEW d \in subscribed' \ abandoned'
        PROVE  loop'[d[1]] # "off" /\ (d \in ToSet(listed'[d[1]]) \/ d = cur'[d[1]])
    <3>1. CASE d[1] # m
      BY <1>2, <2>2, <2>3, <3>1 DEF StopManager
    <3>2. CASE d[1] = m
      <4>1. d \in Demands /\ loop[m] # "off" /\ (d \in ToSet(listed[m]) \/ d = cur[m])
        BY <2>2, <2>3, <3>2
      <4>2. d = cur[m] => loop[m] = "run"
        BY <1>2, <2>3, <4>1 DEF StopManager
      <4>3. m \in SingleUse => d = cur[m]
        BY <4>1 DEF ToSet
      <4>4. loop' = [loop EXCEPT ![m] = "clean"]
        BY <1>2, <4>2, <4>3 DEF StopManager
      <4>5. loop[m] = "run" => cur' = cur
        BY <1>2 DEF StopManager
      <4> QED
        BY <1>2, <3>2, <4>1, <4>2, <4>4, <4>5 DEF StopManager
    <3> QED
      BY <3>1, <3>2
  <2> QED
    BY <2>3
<1>3. ASSUME NEW m \in Managers, Clean(m)
      PROVE  DemandsKept'
  BY <1>3 DEF Clean
<1>4. ASSUME NEW m \in Managers, Subscribe(m)
      PROVE  DemandsKept'
  <2>1. Cardinality(made) < MaxDemands =>
          /\ NextDemand(m) \in Demands /\ NextDemand(m)[1] = m
          /\ IsFiniteSet(made \cup {NextDemand(m)})
    BY NextDemandProperties
  <2> QED
    BY <1>4, <2>1 DEF Subscribe, Creates
<1>5. ASSUME NEW m \in Managers, SubscribeSingle(m)
      PROVE  DemandsKept'
  <2>1. Cardinality(made) < MaxDemands =>
          /\ NextDemand(m) \in Demands /\ NextDemand(m)[1] = m
          /\ IsFiniteSet(made \cup {NextDemand(m)})
    BY NextDemandProperties
  <2> QED
    BY <1>5, <2>1 DEF SubscribeSingle, Creates
<1>6. ASSUME NEW m \in Managers, GotData(m)
      PROVE  DemandsKept'
  <2>1. ToSet(Append(listed[m], cur[m])) = ToSet(listed[m]) \cup {cur[m]}
    BY <1>6, ToSetAppend DEF GotData
  <2> QED
    BY <1>6, <2>1 DEF GotData
<1>7. ASSUME NEW m \in Managers, Expire(m)
      PROVE  DemandsKept'
  BY <1>7 DEF Expire
<1>8. ASSUME NEW m \in Managers, LoopRaises(m)
      PROVE  DemandsKept'
  <2>1. Cardinality(made) < MaxDemands => NextDemand(m)[1] = m
    BY NextDemandProperties
  <2>2. subscribed' \ abandoned' \subseteq subscribed \ abandoned
    BY <1>8 DEF LoopRaises, Creates
  <2>3. ASSUME NEW d \in subscribed' \ abandoned'
        PROVE  loop'[d[1]] # "off" /\ (d \in ToSet(listed'[d[1]]) \/ d = cur'[d[1]])
    <3>1. CASE d[1] # m
      BY <1>8, <2>2, <2>3, <3>1 DEF LoopRaises
    <3>2. CASE d[1] = m
      <4>1. d \in Demands /\ loop[m] # "off" /\ (d \in ToSet(listed[m]) \/ d = cur[m])
        BY <2>2, <2>3, <3>2
      <4>2. d = cur[m] => FALSE
        BY <1>8, <2>3, <4>1 DEF LoopRaises
      <4>3. m \in SingleUse => d = cur[m]
        BY <4>1 DEF ToSet
      <4>4. loop' = [loop EXCEPT ![m] = "clean"]
        BY <1>8, <4>2, <4>3 DEF LoopRaises
      <4> QED
        BY <1>8, <3>2, <4>1, <4>2, <4>4 DEF LoopRaises
    <3> QED
      BY <3>1, <3>2
  <2> QED
    BY <2>3
<1>9. ASSUME NEW d \in Demands, Consume(d)
      PROVE  DemandsKept'
  BY <1>9 DEF Consume
<1>10. ASSUME NEW d \in Demands, ChildrenEnd(d)
       PROVE  DemandsKept'
  <2>1. d[1] \in Managers
    BY DEF Demands
  <2>2. loop' = loop \/ loop' = [loop EXCEPT ![d[1]] = "clean"]
    BY <1>10 DEF ChildrenEnd
  <2>3. UNCHANGED <<subscribed, abandoned, listed, cur>>
    BY <1>10 DEF ChildrenEnd
  <2>4. \A e \in subscribed : e[1] \in Managers
    BY DEF Demands
  <2> QED
    BY <2>1, <2>2, <2>3, <2>4
<1>11. ASSUME NEW d \in Demands, NEW p \in Proposals, Match(d, p)
       PROVE  DemandsKept'
  BY <1>11 DEF Match
<1>12. ASSUME NEW u \in Users, GetInitialProposal(u)
       PROVE  DemandsKept'
  BY <1>12 DEF GetInitialProposal, TakeOrWait, SavedAny
<1>13. ASSUME NEW u \in Users, Woken(u)
       PROVE  DemandsKept'
  BY <1>13 DEF Woken, TakeOrWait, SavedAny
<1>14. ASSUME StopAggregator
       PROVE  DemandsKept'
  BY <1>14 DEF StopAggregator, Cancelled
<1>15. ASSUME StopEnds
       PROVE  DemandsKept'
  BY <1>15 DEF StopEnds
<1>16. ASSUME NEW t \in FeedTasks,
              FeedTakes(t) \/ FeedFails(t) \/ FeedDrops(t) \/ FeedReturns(t) \/ FeedRaises(t)
       PROVE  DemandsKept'
  <2>1. UNCHANGED managerVars
    BY <1>16 DEF FeedTakes, Takes, FeedFails, FeedDrops, FeedReturns, FeedRaises, FeedEnds
  <2> QED
    BY <2>1
<1>17. ASSUME UNCHANGED demandVars
       PROVE  DemandsKept'
  BY <1>17 DEF demandVars, managerVars, aggregatorVars
<1> HIDE DEF DemandAssumption, DemandTypeOK, CursorRight, DemandsKept, Managers,
         Goto, Listed, ToUnsubscribe, managerVars, aggregatorVars
<1> QED
  BY <1>1, <1>2, <1>3, <1>4, <1>5, <1>6, <1>7, <1>8, <1>9, <1>10, <1>11, <1>12,
     <1>13, <1>14, <1>15, <1>16, <1>17
     DEF DemandNext

\* A feed task that has an item has a proposal.
LEMMA HandStaysFull ==
    ASSUME DemandTypeOK, HandFull, [DemandNext]_demandVars
    PROVE  HandFull'
<1> USE DEF DemandTypeOK, HandFull, managerVars, aggregatorVars
<1>1. ASSUME NEW t \in FeedTasks, FeedTakes(t)
      PROVE  HandFull'
  <2>1. Head(initialProposals[t[1]]) \in Proposals
    BY <1>1, HeadTailProperties DEF FeedTakes, Takes, FeedTasks
  <2> QED
    BY <1>1, <2>1 DEF FeedTakes
<1>2. ASSUME NEW t \in FeedTasks, FeedReturns(t) \/ FeedRaises(t)
      PROVE  HandFull'
  BY <1>2 DEF FeedReturns, FeedRaises, FeedEnds
<1>3. ASSUME NEW t \in FeedTasks, FeedFails(t) \/ FeedDrops(t)
      PROVE  HandFull'
  BY <1>3 DEF FeedFails, FeedDrops
<1>4. ASSUME NEW u \in Users, GetInitialProposal(u)
      PROVE  HandFull'
  BY <1>4 DEF GetInitialProposal
<1>5. ASSUME StopAggregator \/ StopEnds
      PROVE  HandFull'
  <2>1. ASSUME NEW t \in FeedTasks, feed'[t] = "have"
        PROVE  feed[t] = "have" /\ hand'[t] = hand[t]
    <3>1. CASE StopAggregator
      BY <2>1, <3>1 DEF StopAggregator, Cancelled
    <3>2. CASE StopEnds
      BY <2>1, <3>2 DEF StopEnds
    <3> QED
      BY <1>5, <3>1, <3>2
  <2> QED
    BY <2>1
<1>6. ASSUME UNCHANGED <<feed, hand>>
      PROVE  HandFull'
  BY <1>6
<1>7. ASSUME NEW m \in Managers,
             \/ Start(m) \/ StopManager(m) \/ Clean(m) \/ Subscribe(m) \/ SubscribeSingle(m)
             \/ GotData(m) \/ Expire(m) \/ LoopRaises(m)
      PROVE  UNCHANGED <<feed, hand>>
  BY <1>7 DEF Start, StopManager, Clean, Subscribe, SubscribeSingle, GotData, Expire, LoopRaises
<1>8. ASSUME NEW d \in Demands, Consume(d) \/ ChildrenEnd(d) \/ \E p \in Proposals : Match(d, p)
      PROVE  UNCHANGED <<feed, hand>>
  BY <1>8 DEF Consume, ChildrenEnd, Match
<1>9. ASSUME NEW u \in Users, Woken(u)
      PROVE  UNCHANGED <<feed, hand>>
  BY <1>9 DEF Woken
<1>10. ASSUME UNCHANGED demandVars
       PROVE  UNCHANGED <<feed, hand>>
  BY <1>10 DEF demandVars
<1> HIDE DEF DemandTypeOK, HandFull, managerVars, aggregatorVars
<1> QED
  BY <1>1, <1>2, <1>3, <1>4, <1>5, <1>6, <1>7, <1>8, <1>9, <1>10 DEF DemandNext

\* A step that loses nothing and lets no task become one that does.
LEMMA NothingLost ==
    ASSUME LossesKnown, DemandTypeOK, lost' = lost, stops' \in Nat, stops' >= stops,
           error' \in [Managers -> BOOLEAN], \A m \in Managers : error[m] => error'[m],
           \A t \in FeedTasks : feed'[t] \in {"raising", "orphan"} => feed'[t] = feed[t]
    PROVE  LossesKnown'
<1>1. \A t \in FeedTasks : t[1] \in Managers
  BY DEF FeedTasks
<1>2. stops \in Nat
  BY DEF DemandTypeOK
<1> QED
  BY <1>1, <1>2 DEF LossesKnown

\* An error of a queue, and the count of stops, never goes away.
LEMMA LossesStayKnown ==
    ASSUME DemandTypeOK, HandFull, LossesKnown, [DemandNext]_demandVars
    PROVE  LossesKnown'
<1> USE DEF managerVars, aggregatorVars
<1>0. stops \in Nat /\ error \in [Managers -> BOOLEAN]
  BY DemandAssumption DEF DemandTypeOK, DemandAssumption
<1>1. ASSUME NEW t \in FeedTasks, FeedFails(t)
      PROVE  LossesKnown'
  BY <1>1 DEF FeedFails, LossesKnown, DemandTypeOK
<1>2. ASSUME NEW t \in FeedTasks, FeedDrops(t)
      PROVE  LossesKnown'
  <2>1. UNCHANGED <<error, stops>> /\ t[1] \in Managers
    BY <1>2 DEF FeedDrops, Takes, FeedTasks
  <2>2. feed[t] \in {"raising", "orphan"}
        /\ \A r \in FeedTasks : feed'[r] \in {"raising", "orphan"} => feed'[r] = feed[r]
    BY <1>2 DEF FeedDrops, DemandTypeOK
  <2> QED
    BY <2>1, <2>2 DEF LossesKnown
<1>3. ASSUME StopAggregator
      PROVE  LossesKnown'
  <2>1. stops' = stops + 1 /\ error' = error
    BY <1>3 DEF StopAggregator
  <2>2. stops' > 0
    BY <1>0, <2>1
  <2>3. \A t \in FeedTasks : feed'[t] = "raising" => feed[t] = "raising"
    BY <1>3 DEF StopAggregator, Cancelled, DemandTypeOK
  <2> QED
    BY <2>1, <2>2, <2>3 DEF LossesKnown
<1>4. ASSUME NEW t \in FeedTasks, FeedTakes(t) \/ FeedReturns(t) \/ FeedRaises(t)
      PROVE  LossesKnown'
  <2>1. /\ UNCHANGED <<error, stops, lost>>
        /\ \A r \in FeedTasks : feed'[r] \in {"raising", "orphan"} => feed'[r] = feed[r]
    BY <1>4 DEF FeedTakes, Takes, FeedReturns, FeedRaises, FeedEnds, DemandTypeOK
  <2> QED
    BY <1>0, <2>1, NothingLost
<1>5. ASSUME NEW u \in Users, GetInitialProposal(u) \/ Woken(u)
      PROVE  LossesKnown'
  <2>1. /\ UNCHANGED <<error, stops, lost>>
        /\ \A r \in FeedTasks : feed'[r] \in {"raising", "orphan"} => feed'[r] = feed[r]
    BY <1>5 DEF GetInitialProposal, Woken
  <2> QED
    BY <1>0, <2>1, NothingLost
<1>6. ASSUME StopEnds
      PROVE  LossesKnown'
  <2>1. /\ UNCHANGED <<error, stops, lost>>
        /\ \A r \in FeedTasks : feed'[r] \in {"raising", "orphan"} => feed'[r] = feed[r]
    BY <1>6 DEF StopEnds
  <2> QED
    BY <1>0, <2>1, NothingLost
<1>7. ASSUME NEW m \in Managers,
             \/ Start(m) \/ StopManager(m) \/ Clean(m) \/ Subscribe(m) \/ SubscribeSingle(m)
             \/ GotData(m) \/ Expire(m) \/ LoopRaises(m)
      PROVE  LossesKnown'
  <2>1. UNCHANGED <<stops, lost, feed>>
    BY <1>7 DEF Start, StopManager, Clean, Subscribe, SubscribeSingle, GotData, Expire, LoopRaises
  <2>2. error' \in [Managers -> BOOLEAN] /\ \A n \in Managers : error[n] => error'[n]
    <3>1. error' = error \/ error' = [error EXCEPT ![m] = @ \/ m \in Refreshing]
      BY <1>7 DEF Start, StopManager, Clean, Subscribe, SubscribeSingle, GotData, Expire, LoopRaises
    <3> QED
      BY <1>0, <3>1
  <2> QED
    BY <1>0, <2>1, <2>2, NothingLost
<1>8. ASSUME NEW d \in Demands, Consume(d) \/ ChildrenEnd(d) \/ \E p \in Proposals : Match(d, p)
      PROVE  LossesKnown'
  <2>1. UNCHANGED <<stops, lost, feed>>
    BY <1>8 DEF Consume, ChildrenEnd, Match
  <2>2. error' \in [Managers -> BOOLEAN] /\ \A n \in Managers : error[n] => error'[n]
    <3>1. error' = error \/ error' = [error EXCEPT ![d[1]] = @ \/ d \notin heard]
      BY <1>8 DEF Consume, ChildrenEnd, Match
    <3> QED
      BY <1>0, <3>1
  <2> QED
    BY <1>0, <2>1, <2>2, NothingLost
<1>9. ASSUME UNCHANGED demandVars
      PROVE  LossesKnown'
  BY <1>9 DEF demandVars, LossesKnown
<1> HIDE DEF managerVars, aggregatorVars
<1> QED
  BY <1>1, <1>2, <1>3, <1>4, <1>5, <1>6, <1>7, <1>8, <1>9 DEF DemandNext

\* A queue without duplicates that an item leaves or enters.
LEMMA DistinctTail ==
    ASSUME NEW S, NEW s \in Seq(S), s # <<>>, NoneTwice(s)
    PROVE  /\ NoneTwice(Tail(s)) /\ Head(s) \in S /\ Head(s) \in ToSet(s)
           /\ ToSet(Tail(s)) = ToSet(s) \ {Head(s)}
<1>1. /\ Tail(s) \in Seq(S) /\ Head(s) = s[1] /\ Head(s) \in S
      /\ Len(s) \in Nat \ {0} /\ Len(Tail(s)) = Len(s) - 1
      /\ \A i \in 1..(Len(s) - 1) : Tail(s)[i] = s[i + 1]
  BY HeadTailProperties
<1>2. DOMAIN s = 1..Len(s) /\ DOMAIN Tail(s) = 1..(Len(s) - 1)
  BY <1>1
<1>3. NoneTwice(Tail(s))
  BY <1>1, <1>2 DEF NoneTwice
<1>4. ASSUME NEW x \in ToSet(Tail(s))
      PROVE  x \in ToSet(s) \ {Head(s)}
  <2>1. PICK i \in 1..(Len(s) - 1) : x = Tail(s)[i]
    BY <1>2 DEF ToSet
  <2>2. x = s[i + 1] /\ i + 1 \in 1..Len(s) /\ i + 1 # 1 /\ 1 \in 1..Len(s)
    BY <1>1, <2>1
  <2> QED
    BY <1>1, <1>2, <2>2 DEF ToSet, NoneTwice
<1>5. ASSUME NEW x \in ToSet(s), x # Head(s)
      PROVE  x \in ToSet(Tail(s))
  <2>1. PICK i \in 1..Len(s) : x = s[i]
    BY <1>2 DEF ToSet
  <2>2. i - 1 \in 1..(Len(s) - 1) /\ Tail(s)[i - 1] = x
    BY <1>1, <1>5, <2>1
  <2> QED
    BY <1>2, <2>2 DEF ToSet
<1>6. Head(s) \in ToSet(s)
  BY <1>1, <1>2 DEF ToSet
<1> QED
  BY <1>1, <1>3, <1>4, <1>5, <1>6

\* An item that is not in a queue may enter it.
LEMMA DistinctAppend ==
    ASSUME NEW S, NEW s \in Seq(S), NEW e \in S, e \notin ToSet(s), NoneTwice(s)
    PROVE  NoneTwice(Append(s, e))
<1>1. /\ Append(s, e) \in Seq(S) /\ Len(s) \in Nat /\ Len(Append(s, e)) = Len(s) + 1
      /\ DOMAIN s = 1..Len(s) /\ DOMAIN Append(s, e) = 1..(Len(s) + 1)
      /\ \A i \in 1..Len(s) : Append(s, e)[i] = s[i]
      /\ Append(s, e)[Len(s) + 1] = e
  BY AppendProperties
<1>2. \A i \in 1..Len(s) : s[i] # e
  BY <1>1 DEF ToSet
<1> QED
  BY <1>1, <1>2 DEF NoneTwice

\* The places of all the proposals, seen one by one.
LEMMA PlacedAre ==
    ASSUME NEW p
    PROVE  p \in Placed <=> Underway(p) \/ Saved(p) \/ p \in returned \cup lost
<1> DEFINE Demanded == UNION {ToSet(backlog[d]) : d \in Demands}
           Queued == UNION {ToSet(initialProposals[m]) : m \in Managers}
           InHand == {hand[t] : t \in FeedTasks}
<1>1. p \in Demanded <=> \E d \in Demands : WithDemand(p, d)
  BY DEF WithDemand
<1>2. p \in Queued <=> \E m \in Managers : InQueueOf(p, m)
  BY DEF InQueueOf
<1>3. p \in InHand <=> \E t \in FeedTasks : hand[t] = p
  OBVIOUS
<1>4. p \in Placed <=> p \in Demanded \/ p \in Queued \/ p \in InHand \/ p \in ToSet(buffer)
                       \/ p \in returned \/ p \in lost
  BY Zenon DEF Placed
<1> HIDE DEF Demanded, Queued, InHand
<1> QED
  BY <1>1, <1>2, <1>3, <1>4 DEF Underway, Saved

\* A caller takes a proposal out of the buffer.
LEMMA TakeStaysApart ==
    ASSUME DemandTypeOK, QueuesDistinct, PlacesApart, NEW u \in Users, TakeOrWait(u),
           UNCHANGED <<backlog, initialProposals, hand, lost>>
    PROVE  QueuesDistinct' /\ PlacesApart'
<1>1. CASE buffer = <<>>
  <2>1. UNCHANGED <<buffer, returned>>
    BY <1>1 DEF TakeOrWait, SavedAny
  <2> QED
    BY <2>1 DEF QueuesDistinct, PlacesApart, Underway, WithDemand, InQueueOf, Saved
<1>2. CASE buffer # <<>>
  <2> DEFINE p == Head(buffer)
  <2>1. /\ p \in Proposals /\ p \in ToSet(buffer) /\ NoneTwice(Tail(buffer))
        /\ ToSet(Tail(buffer)) = ToSet(buffer) \ {p}
    BY <1>2, DistinctTail DEF QueuesDistinct, DemandTypeOK
  <2>2. buffer' = Tail(buffer) /\ returned' = returned \cup {p}
    BY <1>2 DEF TakeOrWait, SavedAny
  <2>3. QueuesDistinct'
    BY <2>1, <2>2 DEF QueuesDistinct
  <2>4. /\ Saved(p)
        /\ \A q \in Proposals : Saved(q)' <=> Saved(q) /\ q # p
    BY <2>1, <2>2 DEF Saved
  <2> HIDE DEF p
  <2>5. PlacesApart'
    BY <2>1, <2>2, <2>4 DEF PlacesApart, Underway, WithDemand, InQueueOf
  <2> QED
    BY <2>3, <2>5
<1> QED
  BY <1>1, <1>2

\* A step that moves a proposal removes it where it was.
LEMMA PlacesStayApart ==
    ASSUME DemandTypeOK, HandFull, QueuesDistinct, PlacesApart, [DemandNext]_demandVars
    PROVE  QueuesDistinct' /\ PlacesApart'
<1> USE DEF DemandTypeOK, managerVars, aggregatorVars
<1>1. ASSUME NEW t \in FeedTasks, FeedTakes(t) \/ FeedDrops(t)
      PROVE  QueuesDistinct' /\ PlacesApart'
  <2>0. PICK m \in Managers : m = t[1]
    BY DEF FeedTasks
  <2>9. PICK p : p = Head(initialProposals[m])
    OBVIOUS
  <2>1. /\ p \in Proposals /\ p \in ToSet(initialProposals[m])
        /\ NoneTwice(Tail(initialProposals[m]))
        /\ ToSet(Tail(initialProposals[m])) = ToSet(initialProposals[m]) \ {p}
    BY <1>1, <2>0, <2>9, DistinctTail DEF QueuesDistinct, FeedTakes, FeedDrops, Takes
  <2>2. /\ initialProposals' = [initialProposals EXCEPT ![m] = Tail(initialProposals[m])]
        /\ UNCHANGED <<backlog, buffer, returned>>
        /\ \/ hand' = [hand EXCEPT ![t] = p] /\ lost' = lost
           \/ hand' = hand /\ lost' = lost \cup {p}
    BY <1>1, <2>0, <2>9 DEF FeedTakes, FeedDrops, Takes, Left
  <2>3. QueuesDistinct'
    BY <2>1, <2>2 DEF QueuesDistinct
  <2>4. \A q \in Proposals, n \in Managers :
          InQueueOf(q, n)' <=> InQueueOf(q, n) /\ ~ (q = p /\ n = m)
    BY <2>1, <2>2 DEF InQueueOf
  <2>5. InQueueOf(p, m)
    BY <2>1 DEF InQueueOf
  <2>6. CASE hand' = [hand EXCEPT ![t] = p] /\ lost' = lost
    <3>1. \A q \in Proposals, r \in FeedTasks : hand'[r] = q => hand[r] = q \/ (q = p /\ r = t)
      BY <2>6
    <3> QED
      BY <2>1, <2>2, <2>3, <2>4, <2>5, <2>6, <3>1 DEF PlacesApart, Underway, Saved, WithDemand
  <2>7. CASE hand' = hand /\ lost' = lost \cup {p}
    <3>0. \A n \in Managers : InQueueOf(p, n) => n = m
      BY <2>1, <2>5 DEF PlacesApart
    <3>1. \A n \in Managers : ~ InQueueOf(p, n)'
      BY <2>1, <2>4, <3>0
    <3>2. /\ \A r \in FeedTasks : hand[r] # p
          /\ \A d \in Demands : ~ WithDemand(p, d)
          /\ ~ Saved(p) /\ p \notin returned \cup lost
      BY <2>1, <2>5 DEF PlacesApart, Underway
    <3> QED
      BY <2>1, <2>2, <2>3, <2>4, <2>5, <2>7, <3>1, <3>2 DEF PlacesApart, Underway, Saved, WithDemand
  <2> QED
    BY <2>2, <2>6, <2>7
<1>2. ASSUME NEW t \in FeedTasks, FeedReturns(t)
      PROVE  QueuesDistinct' /\ PlacesApart'
  <2> DEFINE p == hand[t]
  <2>1. p \in Proposals /\ ~ Saved(p) /\ p \notin returned \cup lost
    BY <1>2 DEF FeedReturns, HandFull, PlacesApart, Underway
  <2>2. NoneTwice(Append(buffer, p)) /\ ToSet(Append(buffer, p)) = ToSet(buffer) \cup {p}
    BY <2>1, DistinctAppend, ToSetAppend DEF QueuesDistinct, Saved
  <2>3. /\ hand' = [hand EXCEPT ![t] = None] /\ buffer' = Append(buffer, p)
        /\ UNCHANGED <<backlog, initialProposals, returned, lost>>
    BY <1>2 DEF FeedReturns, FeedEnds
  <2>4. QueuesDistinct'
    BY <2>2, <2>3 DEF QueuesDistinct
  <2>5. \A q \in Proposals :
          /\ \A r \in FeedTasks : hand'[r] = q <=> hand[r] = q /\ r # t
          /\ Saved(q)' <=> Saved(q) \/ q = p
    BY <2>2, <2>3, DemandAssumption DEF Saved, DemandAssumption
  <2>6. \A r \in FeedTasks : hand[r] = p => r = t
    BY <2>1 DEF PlacesApart
  <2>7. \A n \in Managers : ~ InQueueOf(p, n)
    BY <2>1 DEF PlacesApart
  <2>8. \A e \in Demands : ~ WithDemand(p, e)
    BY <2>1 DEF PlacesApart
  <2> HIDE DEF p
  <2>9. PlacesApart'
    BY <2>1, <2>3, <2>5, <2>6, <2>7, <2>8 DEF PlacesApart, Underway, WithDemand, InQueueOf
  <2> QED
    BY <2>4, <2>9
<1>3. ASSUME NEW d \in Demands, Consume(d)
      PROVE  QueuesDistinct' /\ PlacesApart'
  <2> DEFINE p == Head(backlog[d])
             m == d[1]
  <2>1. m \in Managers /\ backlog[d] # <<>>
    BY <1>3 DEF Consume, Demands
  <2>2. /\ p \in Proposals /\ p \in ToSet(backlog[d]) /\ NoneTwice(Tail(backlog[d]))
        /\ ToSet(Tail(backlog[d])) = ToSet(backlog[d]) \ {p}
    BY <2>1, DistinctTail DEF QueuesDistinct
  <2>3. WithDemand(p, d) /\ ~ InQueueOf(p, m)
    BY <2>1, <2>2 DEF PlacesApart, WithDemand
  <2>4. /\ NoneTwice(Append(initialProposals[m], p))
        /\ ToSet(Append(initialProposals[m], p)) = ToSet(initialProposals[m]) \cup {p}
    BY <2>1, <2>2, <2>3, DistinctAppend, ToSetAppend DEF QueuesDistinct, InQueueOf
  <2>5. /\ initialProposals' = [initialProposals EXCEPT ![m] = Append(@, p)]
        /\ backlog' = [backlog EXCEPT ![d] = Tail(@)]
        /\ UNCHANGED <<hand, buffer, returned, lost>>
    BY <1>3 DEF Consume
  <2>6. QueuesDistinct'
    BY <2>1, <2>2, <2>4, <2>5 DEF QueuesDistinct
  <2>7. \A q \in Proposals :
          /\ \A e \in Demands : WithDemand(q, e)' <=> WithDemand(q, e) /\ ~ (q = p /\ e = d)
          /\ \A n \in Managers : InQueueOf(q, n)' <=> InQueueOf(q, n) \/ (q = p /\ n = m)
    BY <2>1, <2>2, <2>4, <2>5 DEF WithDemand, InQueueOf
  <2> HIDE DEF p, m
  <2>8. PlacesApart'
    BY <2>1, <2>2, <2>3, <2>5, <2>7 DEF PlacesApart, Underway, Saved
  <2> QED
    BY <2>6, <2>8
<1>4. ASSUME NEW d \in Demands, ChildrenEnd(d)
      PROVE  QueuesDistinct' /\ PlacesApart'
  <2>1. UNCHANGED <<backlog, initialProposals, hand, buffer, returned, lost>>
    BY <1>4 DEF ChildrenEnd, managerVars, aggregatorVars
  <2> QED
    BY <2>1 DEF QueuesDistinct, PlacesApart, Underway, WithDemand, InQueueOf, Saved
<1>5. ASSUME NEW d \in Demands, NEW p \in Proposals, Match(d, p)
      PROVE  QueuesDistinct' /\ PlacesApart'
  <2>1. p \notin ToSet(backlog[d])
    BY <1>5 DEF Match, Placed
  <2>2. NoneTwice(Append(backlog[d], p)) /\ ToSet(Append(backlog[d], p)) = ToSet(backlog[d]) \cup {p}
    BY <2>1, DistinctAppend, ToSetAppend DEF QueuesDistinct
  <2>3. backlog' = [backlog EXCEPT ![d] = Append(@, p)]
    BY <1>5 DEF Match
  <2>4. UNCHANGED <<initialProposals, hand, buffer, returned, lost>>
    BY <1>5 DEF Match
  <2>5. QueuesDistinct'
    BY <2>2, <2>3, <2>4 DEF QueuesDistinct
  <2>6. \A q \in Proposals, e \in Demands :
          WithDemand(q, e)' <=> WithDemand(q, e) \/ (q = p /\ e = d)
    BY <2>2, <2>3 DEF WithDemand
  <2>7. ~ Underway(p) /\ ~ Saved(p) /\ p \notin returned \cup lost
    BY <1>5, PlacedAre DEF Match
  <2>8. PlacesApart'
    BY <2>4, <2>6, <2>7 DEF PlacesApart, Underway, InQueueOf, Saved
  <2> QED
    BY <2>5, <2>8
<1>6. ASSUME NEW u \in Users, GetInitialProposal(u)
      PROVE  QueuesDistinct' /\ PlacesApart'
  BY <1>6, TakeStaysApart DEF GetInitialProposal
<1>7. ASSUME NEW u \in Users, Woken(u)
      PROVE  QueuesDistinct' /\ PlacesApart'
  BY <1>7, TakeStaysApart DEF Woken
<1>8. ASSUME StopAggregator
      PROVE  QueuesDistinct' /\ PlacesApart'
  <2>1. /\ lost' = lost \cup ({hand[t] : t \in Mapped} \ {None})
        /\ hand' = [t \in FeedTasks |-> IF t \in Mapped THEN None ELSE hand[t]]
        /\ UNCHANGED <<backlog, initialProposals, buffer, returned>>
    BY <1>8 DEF StopAggregator
  <2>2. Mapped \subseteq FeedTasks
    BY DEF Mapped
  <2>3. \A q \in Proposals :
          /\ q \in lost' <=> q \in lost \/ \E t \in Mapped : hand[t] = q
          /\ \A t \in FeedTasks : hand'[t] = q <=> hand[t] = q /\ t \notin Mapped
    BY <2>1, <2>2, DemandAssumption DEF DemandAssumption
  <2>4. PlacesApart'
    BY <2>1, <2>2, <2>3 DEF PlacesApart, Underway, WithDemand, InQueueOf, Saved
  <2> QED
    BY <2>1, <2>4 DEF QueuesDistinct
<1>9. ASSUME StopEnds
      PROVE  QueuesDistinct' /\ PlacesApart'
  <2>1. UNCHANGED <<backlog, initialProposals, hand, buffer, returned, lost>>
    BY <1>9 DEF StopEnds, managerVars, aggregatorVars
  <2> QED
    BY <2>1 DEF QueuesDistinct, PlacesApart, Underway, WithDemand, InQueueOf, Saved
<1>10. ASSUME NEW m \in Managers,
             \/ Start(m) \/ StopManager(m) \/ Clean(m) \/ Subscribe(m) \/ SubscribeSingle(m)
             \/ GotData(m) \/ Expire(m) \/ LoopRaises(m)
       PROVE  QueuesDistinct' /\ PlacesApart'
  <2>1. UNCHANGED <<backlog, initialProposals, hand, buffer, returned, lost>>
    BY <1>10 DEF Start, StopManager, Creates, Clean, Subscribe,
          SubscribeSingle, GotData, Expire, LoopRaises
  <2> QED
    BY <2>1 DEF QueuesDistinct, PlacesApart, Underway, WithDemand, InQueueOf, Saved
<1>12. ASSUME NEW t \in FeedTasks, FeedFails(t)
       PROVE  QueuesDistinct' /\ PlacesApart'
  <2>1. UNCHANGED <<backlog, initialProposals, hand, buffer, returned, lost>>
    BY <1>12 DEF FeedFails
  <2> QED
    BY <2>1 DEF QueuesDistinct, PlacesApart, Underway, WithDemand, InQueueOf, Saved
<1>13. ASSUME NEW t \in FeedTasks, FeedRaises(t)
       PROVE  QueuesDistinct' /\ PlacesApart'
  <2>1. /\ UNCHANGED <<backlog, initialProposals, buffer, returned, lost>>
        /\ hand' = [hand EXCEPT ![t] = None]
    BY <1>13 DEF FeedRaises, FeedEnds
  <2>2. \A q \in Proposals, r \in FeedTasks : hand'[r] = q => hand[r] = q
    BY <2>1, DemandAssumption DEF DemandAssumption
  <2> QED
    BY <2>1, <2>2 DEF QueuesDistinct, PlacesApart, Underway, WithDemand, InQueueOf, Saved
<1>11. ASSUME UNCHANGED demandVars
       PROVE  QueuesDistinct' /\ PlacesApart'
  BY <1>11 DEF demandVars, managerVars, aggregatorVars, QueuesDistinct, PlacesApart, Underway,
          WithDemand, InQueueOf, Saved
<1> HIDE DEF DemandTypeOK, managerVars, aggregatorVars
<1> QED
  BY <1>1, <1>2, <1>3, <1>4, <1>5, <1>6, <1>7, <1>8, <1>9, <1>10, <1>11, <1>12, <1>13
     DEF DemandNext

\* The parts together are an inductive invariant.
LEMMA DemandInvInductive ==
    /\ DemandInit => DemandInv
    /\ DemandInv /\ [DemandNext]_demandVars => DemandInv'
<1>1. ASSUME DemandInit
      PROVE  DemandInv
  <2> USE <1>1 DEF DemandInit
  <2>1. DemandTypeOK
    <3>1. /\ buffer \in Seq(Proposals) /\ waiters \in Seq(Users)
          /\ \A m \in Managers : listed[m] \in Seq(Demands) /\ initialProposals[m] \in Seq(Proposals)
          /\ \A d \in Demands : backlog[d] \in Seq(Proposals)
      BY EmptySeq
    <3>2. 0 \in 0..MaxStarts /\ 0 \in 0..MaxStops /\ 0 \in 0..MaxFeeds
      BY DemandAssumption DEF DemandAssumption
    <3> QED
      BY <3>1, <3>2 DEF DemandTypeOK
  <2>2. IsFiniteSet(made)
    BY FS_EmptySet
  <2>3. CursorRight /\ DemandsKept /\ HandFull /\ LossesKnown
    BY DEF CursorRight, DemandsKept, HandFull, LossesKnown
  <2>4. QueuesDistinct
    BY DEF QueuesDistinct, NoneTwice
  <2>5. PlacesApart
    BY DemandAssumption DEF DemandAssumption, PlacesApart, Underway, WithDemand, InQueueOf,
           Saved, ToSet
  <2> QED
    BY <2>1, <2>2, <2>3, <2>4, <2>5 DEF DemandInv
<1>2. ASSUME DemandInv, [DemandNext]_demandVars
      PROVE  DemandInv'
  BY <1>2, DemandTypes, CursorStaysRight, DemandsStayKept, HandStaysFull, LossesStayKnown,
     PlacesStayApart DEF DemandInv
<1> QED
  BY <1>1, <1>2

\* The places of a proposal, seen one by one.
LEMMA PlacesAre ==
    ASSUME NEW p, NEW x
    PROVE  x \in Places(p) <=>
               \/ \E d \in Demands : \E i \in DOMAIN backlog[d] :
                      x = <<"demand", d, i>> /\ backlog[d][i] = p
               \/ \E m \in Managers : \E i \in DOMAIN initialProposals[m] :
                      x = <<"queue", m, i>> /\ initialProposals[m][i] = p
               \/ \E t \in FeedTasks : x = <<"hand", t>> /\ hand[t] = p
               \/ \E i \in DOMAIN buffer : x = <<"saved", i>> /\ buffer[i] = p
               \/ x = <<"returned">> /\ p \in returned
               \/ x = <<"lost">> /\ p \in lost
<1> DEFINE Demanded == UNION {{<<"demand", d, i>> : i \in Positions(backlog[d], p)} : d \in Demands}
           Queued == UNION {{<<"queue", m, i>> : i \in Positions(initialProposals[m], p)} :
                                m \in Managers}
           InHand == {<<"hand", t>> : t \in {f \in FeedTasks : hand[f] = p}}
           Buffered == {<<"saved", i>> : i \in Positions(buffer, p)}
           Handed == {<<"returned">> : r \in returned \cap {p}}
           Gone == {<<"lost">> : r \in lost \cap {p}}
<1>1. x \in Demanded <=>
          \E d \in Demands : \E i \in DOMAIN backlog[d] :
              x = <<"demand", d, i>> /\ backlog[d][i] = p
  BY DEF Positions
<1>2. x \in Queued <=>
          \E m \in Managers : \E i \in DOMAIN initialProposals[m] :
              x = <<"queue", m, i>> /\ initialProposals[m][i] = p
  BY DEF Positions
<1>3. x \in InHand <=> \E t \in FeedTasks : x = <<"hand", t>> /\ hand[t] = p
  OBVIOUS
<1>4. x \in Buffered <=> \E i \in DOMAIN buffer : x = <<"saved", i>> /\ buffer[i] = p
  BY DEF Positions
<1>5. x \in Handed <=> x = <<"returned">> /\ p \in returned
  OBVIOUS
<1>6. x \in Gone <=> x = <<"lost">> /\ p \in lost
  OBVIOUS
<1>7. x \in Places(p) <=> x \in Demanded \/ x \in Queued \/ x \in InHand \/ x \in Buffered
                          \/ x \in Handed \/ x \in Gone
  BY Zenon DEF Places
<1> HIDE DEF Demanded, Queued, InHand, Buffered, Handed, Gone
<1> QED
  BY <1>1, <1>2, <1>3, <1>4, <1>5, <1>6, <1>7

\* No proposal is in two places.
LEMMA OnePlace ==
    ASSUME DemandInv, NEW p \in Proposals, NEW x \in Places(p), NEW y \in Places(p)
    PROVE  x = y
<1> USE DEF DemandInv, PlacesApart, QueuesDistinct, NoneTwice, WithDemand, InQueueOf,
            Saved, Underway, ToSet
<1>1. CASE \E d \in Demands : \E i \in DOMAIN backlog[d] :
               x = <<"demand", d, i>> /\ backlog[d][i] = p
  BY <1>1, PlacesAre
<1>2. CASE \E m \in Managers : \E i \in DOMAIN initialProposals[m] :
               x = <<"queue", m, i>> /\ initialProposals[m][i] = p
  BY <1>2, PlacesAre
<1>3. CASE \E t \in FeedTasks : x = <<"hand", t>> /\ hand[t] = p
  BY <1>3, PlacesAre
<1>4. CASE \E i \in DOMAIN buffer : x = <<"saved", i>> /\ buffer[i] = p
  BY <1>4, PlacesAre
<1>5. CASE x = <<"returned">> /\ p \in returned
  BY <1>5, PlacesAre
<1>6. CASE x = <<"lost">> /\ p \in lost
  BY <1>6, PlacesAre
<1> HIDE DEF DemandInv, PlacesApart, QueuesDistinct, NoneTwice, WithDemand, InQueueOf,
             Saved, Underway, ToSet
<1> QED
  BY <1>1, <1>2, <1>3, <1>4, <1>5, <1>6, PlacesAre

\* A proposal that was matched is in some place.
LEMMA SomePlace ==
    ASSUME DemandInv, NEW p \in Placed \ {None}
    PROVE  p \in Proposals /\ \E x : x \in Places(p)
<1>1. CASE \E d \in Demands : p \in ToSet(backlog[d])
  <2>0. PICK d \in Demands : p \in ToSet(backlog[d])
    BY <1>1
  <2>1. PICK i \in DOMAIN backlog[d] : backlog[d][i] = p
    BY <2>0 DEF ToSet
  <2>2. <<"demand", d, i>> \in Places(p)
    BY <2>1, PlacesAre
  <2>3. p \in Proposals
    BY <2>1 DEF DemandInv, DemandTypeOK
  <2> QED
    BY <2>2, <2>3
<1>2. CASE \E m \in Managers : p \in ToSet(initialProposals[m])
  <2>0. PICK m \in Managers : p \in ToSet(initialProposals[m])
    BY <1>2
  <2>1. PICK i \in DOMAIN initialProposals[m] : initialProposals[m][i] = p
    BY <2>0 DEF ToSet
  <2>2. <<"queue", m, i>> \in Places(p)
    BY <2>1, PlacesAre
  <2>3. p \in Proposals
    BY <2>1 DEF DemandInv, DemandTypeOK
  <2> QED
    BY <2>2, <2>3
<1>3. CASE \E t \in FeedTasks : hand[t] = p
  <2>1. PICK t \in FeedTasks : hand[t] = p
    BY <1>3
  <2>2. <<"hand", t>> \in Places(p)
    BY <2>1, PlacesAre
  <2> QED
    BY <2>1, <2>2 DEF DemandInv, DemandTypeOK
<1>4. CASE p \in ToSet(buffer)
  <2>1. PICK i \in DOMAIN buffer : buffer[i] = p
    BY <1>4 DEF ToSet
  <2>2. <<"saved", i>> \in Places(p)
    BY <2>1, PlacesAre
  <2> QED
    BY <2>1, <2>2 DEF DemandInv, DemandTypeOK
<1>5. CASE p \in returned
  <2>1. <<"returned">> \in Places(p)
    BY <1>5, PlacesAre
  <2> QED
    BY <1>5, <2>1 DEF DemandInv, DemandTypeOK
<1>6. CASE p \in lost
  <2>1. <<"lost">> \in Places(p)
    BY <1>6, PlacesAre
  <2> QED
    BY <1>6, <2>1 DEF DemandInv, DemandTypeOK
<1> QED
  BY <1>1, <1>2, <1>3, <1>4, <1>5, <1>6, PlacedAre
     DEF Underway, WithDemand, InQueueOf, Saved

(***************************************************************************)
(* A demand that yagna still knows when its manager's loop has ended is    *)
(* one whose subscription, first fetch or unsubscription failed or was     *)
(* interrupted (refreshing.py _background_loop, single_use.py).            *)
(***************************************************************************)
THEOREM NoOtherDemandLeaks == DemandSpec => []LeaksKnown
<1>1. DemandInv => LeaksKnown
  BY DEF DemandInv, DemandsKept, LeaksKnown
<1> QED
  BY <1>1, DemandInvInductive, PTL DEF DemandSpec

(***************************************************************************)
(* A proposal on its way from yagna to a caller of the aggregator is in    *)
(* one place at a time, however many feed tasks of a manager run and stops *)
(* overlap: it is not handed to two callers, and lost only with a feed     *)
(* task that was cancelled or that raises (queue.py get, aggregating.py    *)
(* _feed_queue and stop, buffer.py get).                                   *)
(***************************************************************************)
THEOREM ProposalsInOnePlace == DemandSpec => []ProposalsOnce
<1>1. ASSUME DemandInv, NEW p \in Placed \ {None}
      PROVE  Cardinality(Places(p)) = 1
  <2>1. PICK x : x \in Places(p)
    BY <1>1, SomePlace
  <2>2. Places(p) = {x}
    BY <1>1, <2>1, SomePlace, OnePlace
  <2> QED
    BY <2>2, FS_Singleton
<1>2. DemandInv => ProposalsOnce
  BY <1>1 DEF ProposalsOnce, DemandInv, LossesKnown
<1> QED
  BY <1>2, DemandInvInductive, PTL DEF DemandSpec

-----------------------------------------------------------------------------
-----------------------------------------------------------------------------
(* Debit notes and invoices.                                               *)

\* Amounts: how products and sums of them behave.
LEMMA TimesMonotone ==
  ASSUME NEW r \in Nat, NEW x \in Int, NEW y \in Int, x <= y
  PROVE  r * x <= r * y
<1>1. r * (y - x) >= 0
  <2> DEFINE d == y - x
  <2>1. d \in Nat
    OBVIOUS
  <2>2. \A e \in Nat : r * e >= 0
    OBVIOUS
  <2> QED
    BY <2>1, <2>2
<1>2. r * (y - x) = r * y - r * x
  OBVIOUS
<1>3. r * y \in Int /\ r * x \in Int
  OBVIOUS
<1> QED
  BY <1>1, <1>2, <1>3

LEMMA SumOfNone ==
  ASSUME NEW f, DOMAIN f = {}
  PROVE  SumFunction(f) = 0
<1> DEFINE F(g) == [s \in SUBSET {} |->
                      IF s = {} THEN 0
                      ELSE f[CHOOSE x \in s : TRUE] + g[s \ {CHOOSE x \in s : TRUE}]]
           g0 == [s \in SUBSET {} |-> 0]
<1>1. g0 = F(g0)
  OBVIOUS
<1>2. \A g : g = F(g) => g[{}] = 0
  OBVIOUS
<1> HIDE DEF g0
<1>3. (CHOOSE g : g = F(g)) = F(CHOOSE g : g = F(g))
  BY <1>1
<1>4. SumFunction(f) = (CHOOSE g : g = F(g))[{}]
  BY DEF SumFunction, SumFunctionOnSet, FoldFunctionOnSet, MapThenFoldSet
<1> QED
  BY <1>2, <1>3, <1>4

LEMMA SumOfOne ==
  ASSUME NEW f, NEW a, DOMAIN f = {a}, f[a] \in Int
  PROVE  SumFunction(f) = f[a]
<1> DEFINE F(g) == [s \in SUBSET {a} |->
                      IF s = {} THEN 0
                      ELSE f[CHOOSE x \in s : TRUE] + g[s \ {CHOOSE x \in s : TRUE}]]
           g0 == [s \in SUBSET {a} |-> IF s = {} THEN 0 ELSE f[a]]
<1>0. SUBSET {a} = {{}, {a}} /\ (CHOOSE x \in {a} : TRUE) = a /\ {a} \ {a} = {}
  OBVIOUS
<1>1. g0 = F(g0)
  <2>1. g0[{}] = 0 /\ g0[{a}] = f[a]
    BY <1>0
  <2>2. F(g0)[{}] = 0 /\ F(g0)[{a}] = f[a] + g0[{}]
    BY <1>0
  <2>3. \A s \in SUBSET {a} : g0[s] = F(g0)[s]
    BY <2>1, <2>2, <1>0
  <2> HIDE DEF g0
  <2> QED
    BY <2>3 DEF g0
<1>2. \A g : g = F(g) => g[{a}] = f[a] + 0
  BY <1>0
<1> HIDE DEF g0
<1>3. (CHOOSE g : g = F(g)) = F(CHOOSE g : g = F(g))
  BY <1>1
<1>4. SumFunction(f) = (CHOOSE g : g = F(g))[{a}]
  BY DEF SumFunction, SumFunctionOnSet, FoldFunctionOnSet, MapThenFoldSet
<1>5. (CHOOSE g : g = F(g))[{a}] = f[a] + 0
  BY <1>2, <1>3
<1> HIDE DEF F
<1> QED
  BY <1>4, <1>5

-----------------------------------------------------------------------------
Note ==
    [issued : Nat, created : Nat, state : {"new", "accepted", "refused"},
     usage : Seq(Nat), total : Nat, due : Nat \cup {NoTime}]

\* The total of an invoice is a sum over its activities; see OneTotal.
PayTypeOK ==
    /\ now \in Nat /\ provider \in Providers
    /\ begun \in [Rented -> Nat \cup {NoTime}] /\ created \in [Rented -> Nat \cup {NoTime}]
    /\ sent \in [Rented -> Seq(Note)] /\ notes \in [Rented -> Seq(Note)]
    /\ invoice \in [state : {"none", "sent", "new", "accepted", "refused"},
                    total : {invoice.total}, issued : Nat, created : Nat]

\* The activity is known soon after it was started, and so is each note.
Timely(a) ==
    /\ begun[a] # NoTime =>
          begun[a] <= now /\ (created[a] = NoTime => now - begun[a] <= Delay)
    /\ created[a] # NoTime =>
          /\ begun[a] # NoTime /\ created[a] <= now
          /\ begun[a] <= created[a] /\ created[a] - begun[a] <= Delay
    /\ \A i \in 1..Len(sent[a]) :
          /\ sent[a][i].state = "new"
          /\ sent[a][i].issued <= now /\ now - sent[a][i].issued <= Delay
    /\ \A i \in 1..Len(notes[a]) :
          /\ notes[a][i].issued <= notes[a][i].created /\ notes[a][i].created <= now
          /\ notes[a][i].created - notes[a][i].issued <= Delay
    /\ sent[a] # <<>> => begun[a] # NoTime
    /\ notes[a] # <<>> => created[a] # NoTime

\* What a note says, from which its receipt and its judgement take nothing.
Text(note) == [issued |-> note.issued, usage |-> note.usage, total |-> note.total,
               due |-> note.due]
Texts(a) == [i \in 1..(Len(notes[a]) + Len(sent[a])) |->
                IF i <= Len(notes[a]) THEN Text(notes[a][i])
                ELSE Text(sent[a][i - Len(notes[a])])]

PayablesOf(w, k) == Cardinality({j \in 1..k : w[j].due # NoTime})

\* A note bills what was used until it was written, the n-th one not before n
\* intervals, and a payable one not before as many payment timeouts as there are
\* payable ones.
TextRight(w, i, start) ==
    /\ w[i].issued >= start
    /\ w[i].usage = [k \in DOMAIN vector |-> Used(vector[k], w[i].issued - start)]
    /\ w[i].total = Charge(w[i].issued - start)
    /\ w[i].due # NoTime => w[i].due = w[i].issued + PaymentTimeout
    /\ ~provider.hasty =>
          /\ w[i].issued - start >= i * Interval
          /\ w[i].due # NoTime =>
                /\ provider.midAgreement
                /\ w[i].issued - start >= (PayablesOf(w, i - 1) + 1) * PaymentTimeout

\* The payable notes so far took that many timeouts, until one of them or the start.
LastPayable(w, start) ==
    \/ PayablesOf(w, Len(w)) = 0
    \/ \E i \in 1..Len(w) :
          w[i].due # NoTime /\ w[i].issued - start >= PayablesOf(w, Len(w)) * PaymentTimeout

Billing(a) ==
    /\ \A i \in 1..Len(Texts(a)) : TextRight(Texts(a), i, begun[a])
    /\ ~provider.hasty => LastPayable(Texts(a), begun[a])

InvoiceRight ==
    /\ invoice.state = "none" => invoice = NoInvoice
    /\ invoice.state # "none" =>
          /\ Hired # {} /\ invoice.issued <= now
          /\ \A a \in Rented : Hired = {a} => /\ invoice.issued >= begun[a]
                                              /\ invoice.total = Charge(invoice.issued - begun[a])
    /\ invoice.state \notin {"none", "sent"} =>
          invoice.issued <= invoice.created /\ invoice.created <= now

PayInv ==
    /\ PayTypeOK /\ InvoiceRight /\ HonestPaid
    /\ \A a \in Rented : Timely(a) /\ Billing(a)

-----------------------------------------------------------------------------
LEMMA PayConstants ==
  /\ Initial \in Nat /\ Threads \in Nat /\ Interval \in Nat /\ PaymentTimeout \in Nat
  /\ MaxCostGrace \in Nat /\ LastNoteGrace \in Nat /\ IntervalGrace \in Nat
  /\ TimeoutGrace \in Nat /\ AmountGrace \in Nat /\ Delay \in Nat /\ MaxTime \in Nat
  /\ NoTime \notin Nat /\ IsFiniteSet(Rented) /\ Price \in [Counters -> Nat]
BY PaymentsAssumption

LEMMA ProviderTypes ==
  ASSUME PayTypeOK
  PROVE  /\ vector \in Seq(Counters) /\ IsInjective(vector)
         /\ provider.hasty \in BOOLEAN /\ provider.notes \in Nat
         /\ Coefficient("cpu") \in Nat /\ Coefficient("duration") \in Nat
         /\ Coefficient("other") \in Nat
         /\ AllKnown => Coefficient("other") = 0
<1>1. provider \in [vector : Seq(Counters), activities : SUBSET Rented,
                    midAgreement : BOOLEAN, hasty : BOOLEAN, notes : Nat] /\ IsInjective(provider.vector)
  BY PaymentsAssumption DEF PayTypeOK
<1>2. {"cpu", "duration", "other"} \subseteq Counters
  BY DEF Counters, Priceable
<1>3. \A c \in Counters : Coefficient(c) \in Nat
  BY PayConstants DEF Coefficient
<1>4. AllKnown => "other" \notin Range(vector)
  BY DEF AllKnown, Priceable
<1> QED
  BY <1>1, <1>2, <1>3, <1>4 DEF vector, Coefficient

\* What one unit of time costs.
PerTime == Coefficient("cpu") * Threads + Coefficient("duration")

LEMMA MaxCostLinear ==
  ASSUME PayTypeOK, NEW t \in Int
  PROVE  PerTime \in Nat /\ MaxCost(t) = PerTime * t + Initial
<1>1. PICK p \in Nat : p = Coefficient("cpu")
  BY ProviderTypes
<1>2. PICK d \in Nat : d = Coefficient("duration")
  BY ProviderTypes
<1>3. PICK n \in Nat : n = Threads
  BY PayConstants
<1>4. PICK pn \in Nat : pn = p * n
  OBVIOUS
<1>5. PerTime = pn + d /\ MaxCost(t) = pn * t + d * t + Initial
  BY <1>1, <1>2, <1>3, <1>4 DEF PerTime, MaxCost
<1>6. pn * t + d * t = (pn + d) * t
  OBVIOUS
<1> QED
  BY <1>5, <1>6

LEMMA ChargeIsMaxCost ==
  ASSUME PayTypeOK, AllKnown, NEW t \in Nat
  PROVE  Charge(t) = MaxCost(t)
<1>1. PICK p \in Nat : p = Coefficient("cpu")
  BY ProviderTypes
<1>2. PICK d \in Nat : d = Coefficient("duration")
  BY ProviderTypes
<1>3. PICK n \in Nat : n = Threads
  BY PayConstants
<1>4. PICK c \in Nat : c = Initial
  BY PayConstants
<1>5. Used("cpu", t) = n * t /\ Used("duration", t) = t /\ Used("other", t) = t
  BY <1>3 DEF Used
<1>6. Charge(t) = c + p * (n * t) + d * t + 0
  BY <1>1, <1>2, <1>4, <1>5, ProviderTypes DEF Charge
<1>7. MaxCost(t) = p * n * t + d * t + c
  BY <1>1, <1>2, <1>3, <1>4 DEF MaxCost
<1>8. p * (n * t) = p * n * t
  OBVIOUS
<1> QED
  BY <1>6, <1>7, <1>8

LEMMA MaxCostMonotone ==
  ASSUME PayTypeOK, NEW x \in Int, NEW y \in Int, x <= y
  PROVE  MaxCost(x) <= MaxCost(y) /\ MaxCost(x) \in Int /\ MaxCost(y) \in Int
<1>1. PICK r \in Nat : r = PerTime
  BY MaxCostLinear
<1>2. PICK c \in Nat : c = Initial
  BY PayConstants
<1>3. MaxCost(x) = r * x + c /\ MaxCost(y) = r * y + c
  BY <1>1, <1>2, MaxCostLinear
<1>4. r * x <= r * y /\ r * x \in Int /\ r * y \in Int
  BY TimesMonotone
<1> QED
  BY <1>3, <1>4

\* What a period adds to the cost is at most what a document of that period may add.
LEMMA MaxCostOfPeriod ==
  ASSUME PayTypeOK, NEW x \in Int, NEW y \in Int, NEW d \in Int, x - y <= d
  PROVE  MaxCost(x) - MaxCost(y) <= MaxCost(d)
<1>1. PICK r \in Nat : r = PerTime
  BY MaxCostLinear
<1>2. PICK c \in Nat : c = Initial
  BY PayConstants
<1>3. MaxCost(x) = r * x + c /\ MaxCost(y) = r * y + c /\ MaxCost(d) = r * d + c
  BY <1>1, <1>2, MaxCostLinear
<1>4. r * (x - y) <= r * d
  BY TimesMonotone
<1>5. r * (x - y) = r * x - r * y
  OBVIOUS
<1>6. r * x \in Int /\ r * y \in Int /\ r * d \in Int
  OBVIOUS
<1> QED
  BY <1>3, <1>4, <1>5, <1>6

\* Where all counters are known, each value is paired with its own price.
LEMMA PlaceOfKnown ==
  ASSUME PayTypeOK, AllKnown, NEW c \in Range(vector)
  PROVE  Place(c) \in DOMAIN vector /\ vector[Place(c)] = c
<1> DEFINE k == CHOOSE i \in DOMAIN vector : vector[i] = c
<1>1. k \in DOMAIN vector /\ vector[k] = c
  BY DEF Range
<1>2. DOMAIN vector = 1..Len(vector) /\ Len(vector) \in Nat
  BY ProviderTypes
<1>3. {i \in 1..k : vector[i] \in Priceable} = 1..k
  <2>1. \A i \in 1..k : i \in DOMAIN vector
    BY <1>1, <1>2
  <2> HIDE DEF k
  <2> QED
    BY <2>1 DEF AllKnown, Range
<1>4. Place(c) = Cardinality(1..k)
  BY <1>3 DEF Place
<1> HIDE DEF k
<1>5. k \in Nat /\ k >= 1
  BY <1>1, <1>2
<1>6. Cardinality(1..k) = k
  BY <1>5, FS_Interval
<1> QED
  BY <1>1, <1>4, <1>6

LEMMA CalculatedIsCharge ==
  ASSUME PayTypeOK, AllKnown, NEW t \in Nat, NEW usage,
         usage = [k \in DOMAIN vector |-> Used(vector[k], t)]
  PROVE  CalculatedCost(usage) = Charge(t)
<1>1. \A c \in Range(vector) : usage[Place(c)] = Used(c, t)
  BY PlaceOfKnown
<1>2. \A c : CostOf(c, usage) = Coefficient(c) * Used(c, t)
             \/ (CostOf(c, usage) = 0 /\ Coefficient(c) = 0)
  BY <1>1 DEF CostOf, Coefficient
<1>3. \A c : Used(c, t) \in Nat
  BY PayConstants DEF Used
<1>4. /\ CostOf("cpu", usage) = Coefficient("cpu") * Used("cpu", t)
      /\ CostOf("duration", usage) = Coefficient("duration") * Used("duration", t)
  BY <1>2, <1>3
<1>5. PICK o \in Nat : o = Used("other", t)
  BY <1>3
<1>6. Coefficient("other") * Used("other", t) = 0
  BY <1>5, ProviderTypes
<1>7. PICK x \in Nat : x = Coefficient("cpu") * Used("cpu", t)
  BY <1>3, ProviderTypes
<1>8. PICK y \in Nat : y = Coefficient("duration") * Used("duration", t)
  BY <1>3, ProviderTypes
<1> QED
  BY <1>4, <1>6, <1>7, <1>8, PayConstants DEF CalculatedCost, Charge

LEMMA UsedNat ==
  ASSUME PayTypeOK, NEW t \in Nat
  PROVE  /\ \A c : Used(c, t) \in Nat
         /\ Charge(t) \in Nat
         /\ [k \in DOMAIN vector |-> Used(vector[k], t)] \in Seq(Nat)
<1>1. \A c : Used(c, t) \in Nat
  BY PayConstants DEF Used
<1>2. PICK x \in Nat : x = Coefficient("cpu") * Used("cpu", t)
  BY <1>1, ProviderTypes
<1>3. PICK y \in Nat : y = Coefficient("duration") * Used("duration", t)
  BY <1>1, ProviderTypes
<1>4. PICK z \in Nat : z = Coefficient("other") * Used("other", t)
  BY <1>1, ProviderTypes
<1>5. Charge(t) \in Nat
  BY <1>2, <1>3, <1>4, PayConstants DEF Charge
<1>6. DOMAIN vector = 1..Len(vector) /\ Len(vector) \in Nat
  BY ProviderTypes
<1>7. [k \in 1..Len(vector) |-> Used(vector[k], t)] \in Seq(Nat)
  BY <1>1, <1>6, IsASeq
<1> QED
  BY <1>1, <1>5, <1>6, <1>7

LEMMA PayTypesStay ==
  ASSUME PayTypeOK, PayNext, \A a \in Rented : Timely(a)
  PROVE  PayTypeOK'
<1> USE PayConstants
<1>0. /\ NoInvoice.state = "none" /\ NoInvoice.issued = 0 /\ NoInvoice.created = 0
      /\ invoice = [state |-> invoice.state, total |-> invoice.total,
                    issued |-> invoice.issued, created |-> invoice.created]
      /\ invoice.issued \in Nat /\ invoice.created \in Nat
  BY DEF PayTypeOK, NoInvoice
<1>1. ASSUME NEW a \in Rented, StartActivity(a)
      PROVE  PayTypeOK'
  BY <1>1 DEF PayTypeOK, StartActivity
<1>2. ASSUME NEW a \in Rented, ActivityCreated(a)
      PROVE  PayTypeOK'
  BY <1>2 DEF PayTypeOK, ActivityCreated
<1>3. ASSUME NEW a \in Rented, NEW payable \in BOOLEAN, SendNote(a, payable)
      PROVE  PayTypeOK'
  <2> DEFINE note == [issued |-> now, created |-> now, state |-> "new",
           usage |-> [i \in DOMAIN vector |-> Used(vector[i], now - begun[a])],
           total |-> Charge(now - begun[a]),
           due |-> IF payable THEN now + PaymentTimeout ELSE NoTime]
  <2>1. sent' = [sent EXCEPT ![a] = Append(@, note)]
    BY <1>3 DEF SendNote
  <2>0. Timely(a)
    OBVIOUS
  <2>a. begun[a] # NoTime => begun[a] <= now
    BY <2>0 DEF Timely
  <2>b. begun[a] \in Nat /\ now \in Nat /\ begun[a] # NoTime
    BY <1>3 DEF SendNote, PayTypeOK
  <2>2. begun[a] \in Nat /\ now - begun[a] \in Nat
    BY <2>a, <2>b
  <2>3. note.usage \in Seq(Nat) /\ note.total \in Nat
    BY <2>2, UsedNat
  <2>4. note.due \in Nat \cup {NoTime} /\ now \in Nat
    BY DEF PayTypeOK
  <2>5. note \in Note
    BY <2>3, <2>4 DEF Note
  <2> HIDE DEF note
  <2>6. Append(sent[a], note) \in Seq(Note)
    BY <2>5, AppendProperties DEF PayTypeOK
  <2> QED
    BY <1>3, <2>1, <2>6 DEF PayTypeOK, SendNote
<1>4. ASSUME NEW a \in Rented, CollectNote(a)
      PROVE  PayTypeOK'
  <2>1. Head(sent[a]) \in Note /\ Tail(sent[a]) \in Seq(Note)
    BY <1>4, HeadTailProperties DEF CollectNote, PayTypeOK
  <2>2. [Head(sent[a]) EXCEPT !.created = now] \in Note
    BY <2>1 DEF PayTypeOK, Note
  <2>3. Append(notes[a], [Head(sent[a]) EXCEPT !.created = now]) \in Seq(Note)
    BY <2>2, AppendProperties DEF PayTypeOK
  <2> QED
    BY <1>4, <2>1, <2>3 DEF PayTypeOK, CollectNote
<1>5. ASSUME NEW a \in Rented, HandleNote(a)
      PROVE  PayTypeOK'
  <2>1. PICK i \in DOMAIN notes[a], s \in {"accepted", "refused"} :
           notes' = [notes EXCEPT ![a][i].state = s]
    BY <1>5 DEF HandleNote
  <2>2. notes[a] \in Seq(Note) /\ notes[a][i] \in Note
    BY ElementOfSeq DEF PayTypeOK
  <2>3. [notes[a][i] EXCEPT !.state = s] \in Note
    BY <2>2 DEF Note
  <2>4. [notes[a] EXCEPT ![i].state = s] \in Seq(Note)
    BY <2>2, <2>3, ExceptSeq
  <2> QED
    BY <1>5, <2>1, <2>4 DEF PayTypeOK, HandleNote
<1>6. CASE SendInvoice
  BY <1>0, <1>6 DEF PayTypeOK, SendInvoice, NoInvoice
<1>7. CASE CollectInvoice
  BY <1>0, <1>7 DEF PayTypeOK, CollectInvoice
<1>8. CASE HandleInvoice
  BY <1>0, <1>8 DEF PayTypeOK, HandleInvoice
<1>9. CASE Tick
  <2>1. now' \in Nat
    BY <1>9 DEF PayTypeOK, Tick
  <2> QED
    BY <1>9, <2>1 DEF PayTypeOK, Tick
<1> QED
  BY <1>1, <1>2, <1>3, <1>4, <1>5, <1>6, <1>7, <1>8, <1>9 DEF PayNext

-----------------------------------------------------------------------------
(* What the notes say.                                                     *)

Wording == [issued : Nat, usage : Seq(Nat), total : Nat, due : Nat \cup {NoTime}]

LEMMA TextsAre ==
  ASSUME PayTypeOK, NEW a \in Rented
  PROVE  /\ Len(notes[a]) \in Nat /\ Len(sent[a]) \in Nat
         /\ notes[a] \in Seq(Note) /\ sent[a] \in Seq(Note)
         /\ Texts(a) \in Seq(Wording)
         /\ Len(Texts(a)) = Len(notes[a]) + Len(sent[a])
         /\ \A i \in 1..Len(notes[a]) : Texts(a)[i] = Text(notes[a][i]) /\ notes[a][i] \in Note
         /\ \A i \in 1..Len(sent[a]) :
               Texts(a)[Len(notes[a]) + i] = Text(sent[a][i]) /\ sent[a][i] \in Note
<1>1. notes[a] \in Seq(Note) /\ sent[a] \in Seq(Note)
  BY DEF PayTypeOK
<1>2. \A n \in Note : Text(n) \in Wording
  BY DEF Note, Text, Wording
<1>3. PICK n \in Nat, s \in Nat : n = Len(notes[a]) /\ s = Len(sent[a])
  BY <1>1
<1>4. /\ \A i \in 1..n : notes[a][i] \in Note
      /\ \A i \in 1..s : sent[a][i] \in Note
  BY <1>1, <1>3, ElementOfSeq
<1>5. Texts(a) = [i \in 1..(n + s) |-> IF i <= n THEN Text(notes[a][i])
                                        ELSE Text(sent[a][i - n])]
  BY <1>3 DEF Texts
<1>6. ASSUME NEW i \in 1..(n + s)
      PROVE  Texts(a)[i] \in Wording
  <2>1. CASE i <= n
    BY <1>2, <1>4, <1>5, <2>1
  <2>2. CASE i > n
    <3>1. i - n \in 1..s
      BY <2>2
    <3> QED
      BY <1>2, <1>4, <1>5, <2>2, <3>1
  <2> QED
    BY <2>1, <2>2
<1>7. Texts(a) \in Seq(Wording) /\ Len(Texts(a)) = n + s
  BY <1>5, <1>6, IsASeq
<1>8. \A i \in 1..n : i \in 1..(n + s) /\ Texts(a)[i] = Text(notes[a][i])
  BY <1>5
<1>9. \A i \in 1..s : n + i \in 1..(n + s) /\ ~(n + i <= n) /\ (n + i) - n = i
  OBVIOUS
<1>10. \A i \in 1..s : Texts(a)[n + i] = Text(sent[a][i])
  BY <1>5, <1>9
<1> QED
  BY <1>1, <1>3, <1>4, <1>7, <1>8, <1>10

LEMMA TextsOfHandled ==
  ASSUME PayTypeOK, PayTypeOK', NEW a \in Rented, NEW b \in Rented, HandleNote(b)
  PROVE  Texts(a)' = Texts(a)
<1>1. PICK i \in DOMAIN notes[b], s \in {"accepted", "refused"} :
         notes' = [notes EXCEPT ![b][i].state = s]
  BY DEF HandleNote
<1>2. notes[b] \in Seq(Note) /\ notes[b][i] \in Note /\ sent' = sent
  BY ElementOfSeq DEF PayTypeOK, HandleNote
<1>3. Text([notes[b][i] EXCEPT !.state = s]) = Text(notes[b][i])
  BY <1>2 DEF Text, Note
<1>4. DOMAIN notes = Rented
  BY DEF PayTypeOK
<1>5. \A j \in DOMAIN notes[a] : Text(notes'[a][j]) = Text(notes[a][j])
  BY <1>1, <1>2, <1>3, <1>4
<1>6. Len(notes'[a]) = Len(notes[a])
  BY <1>1, <1>2, <1>4, LenProperties DEF PayTypeOK
<1>7. \A j \in 1..Len(notes[a]) : Text(notes'[a][j]) = Text(notes[a][j])
  BY <1>5 DEF PayTypeOK
<1>8. PICK n \in Nat, k \in Nat : n = Len(notes[a]) /\ k = Len(sent[a])
  BY TextsAre
<1>9. Texts(a) = [j \in 1..(n + k) |-> IF j <= n THEN Text(notes[a][j])
                                        ELSE Text(sent[a][j - n])]
  BY <1>8 DEF Texts
<1>10. Texts(a)' = [j \in 1..(n + k) |-> IF j <= n THEN Text(notes'[a][j])
                                          ELSE Text(sent[a][j - n])]
  BY <1>2, <1>6, <1>8 DEF Texts
<1>11. \A j \in 1..(n + k) : j <= n => Text(notes'[a][j]) = Text(notes[a][j])
  BY <1>7, <1>8
<1> QED
  BY <1>9, <1>10, <1>11

LEMMA TextsOfCollected ==
  ASSUME PayTypeOK, PayTypeOK', NEW a \in Rented, NEW b \in Rented, CollectNote(b)
  PROVE  Texts(a)' = Texts(a)
<1>0. DOMAIN notes = Rented /\ DOMAIN sent = Rented
  BY DEF PayTypeOK
<1>1. CASE a # b
  BY <1>0, <1>1 DEF CollectNote, Texts
<1>2. CASE a = b
  <2> DEFINE note == [Head(sent[a]) EXCEPT !.created = now]
             N == Len(notes[a])
             S == Len(sent[a])
  <2>1. /\ notes'[a] = Append(notes[a], note) /\ sent'[a] = Tail(sent[a])
        /\ sent[a] # <<>>
    BY <1>0, <1>2 DEF CollectNote
  <2>2. N \in Nat /\ S \in Nat /\ notes[a] \in Seq(Note) /\ sent[a] \in Seq(Note)
    BY TextsAre
  <2>3. S >= 1 /\ Head(sent[a]) = sent[a][1] /\ sent[a][1] \in Note
    BY <2>1, <2>2, TextsAre
  <2>4. Text(note) = Text(sent[a][1])
    BY <2>3 DEF Text, Note
  <2> HIDE DEF note
  <2>5. PICK n \in Nat, s \in Nat : n = Len(notes[a]) /\ s = Len(sent[a])
    BY <2>2
  <2>6. /\ Len(notes'[a]) = n + 1 /\ notes'[a][n + 1] = note
        /\ \A i \in 1..n : notes'[a][i] = notes[a][i]
    BY <2>1, <2>2, <2>5, AppendProperties
  <2>7. /\ Len(sent'[a]) = s - 1
        /\ \A i \in 1..(s - 1) : sent'[a][i] = sent[a][i + 1]
    BY <2>1, <2>2, <2>5
  <2>a. s >= 1
    BY <2>3, <2>5
  <2>8. n + 1 + (s - 1) = n + s /\ s >= 1
    BY <2>a
  <2>9. Texts(a) = [i \in 1..(n + s) |-> IF i <= n THEN Text(notes[a][i])
                                          ELSE Text(sent[a][i - n])]
    BY <2>5 DEF Texts
  <2>10. Texts(a)' = [i \in 1..(n + s) |-> IF i <= n + 1 THEN Text(notes'[a][i])
                                            ELSE Text(sent'[a][i - (n + 1)])]
    BY <2>6, <2>7, <2>8 DEF Texts
  <2>11. ASSUME NEW i \in 1..(n + s)
         PROVE  Texts(a)'[i] = Texts(a)[i]
    <3>1. CASE i <= n
      BY <2>6, <2>9, <2>10, <3>1
    <3>2. CASE i = n + 1
      BY <2>3, <2>4, <2>6, <2>9, <2>10, <3>2
    <3>3. CASE i > n + 1
      <4>1. /\ i - (n + 1) \in 1..(s - 1) /\ (i - (n + 1)) + 1 = i - n
            /\ ~(i <= n) /\ ~(i <= n + 1)
        BY <2>8, <3>3
      <4> QED
        BY <2>7, <2>9, <2>10, <4>1
    <3> QED
      BY <3>1, <3>2, <3>3
  <2> QED
    BY <2>9, <2>10, <2>11
<1> QED
  BY <1>1, <1>2

LEMMA AppendIs ==
  ASSUME NEW S, NEW q \in Seq(S), NEW e
  PROVE  Append(q, e) = [i \in 1..(Len(q) + 1) |-> IF i = Len(q) + 1 THEN e ELSE q[i]]
<1>1. q \in Seq(S \cup {e}) /\ e \in S \cup {e}
  BY SeqMonotonic
<1> DEFINE r == [i \in 1..(Len(q) + 1) |-> IF i = Len(q) + 1 THEN e ELSE q[i]]
<1>2. PICK n \in Nat : n = Len(q)
  BY <1>1
<1>3. /\ Append(q, e) \in Seq(S \cup {e}) /\ Len(Append(q, e)) = n + 1
      /\ Append(q, e)[n + 1] = e /\ \A i \in 1..n : Append(q, e)[i] = q[i]
  BY <1>1, <1>2, AppendProperties
<1>4. \A c \in Seq(S \cup {e}) : c = [i \in 1..Len(c) |-> c[i]]
  BY LenProperties
<1>5. \A i \in 1..(n + 1) : Append(q, e)[i] = IF i = n + 1 THEN e ELSE q[i]
  BY <1>3
<1>6. Append(q, e) = [i \in 1..(n + 1) |-> Append(q, e)[i]]
  BY <1>3, <1>4
<1> QED
  BY <1>2, <1>5, <1>6

LEMMA TextsOfSent ==
  ASSUME PayTypeOK, PayTypeOK', NEW a \in Rented, NEW b \in Rented,
         NEW payable \in BOOLEAN, SendNote(b, payable)
  PROVE  Texts(a)' = IF a = b
                     THEN Append(Texts(a),
                       [issued |-> now,
                        usage |-> [k \in DOMAIN vector |-> Used(vector[k], now - begun[a])],
                        total |-> Charge(now - begun[a]),
                        due |-> IF payable THEN now + PaymentTimeout ELSE NoTime])
                     ELSE Texts(a)
<1>0. DOMAIN notes = Rented /\ DOMAIN sent = Rented /\ notes' = notes
  BY DEF PayTypeOK, SendNote
<1>1. CASE a # b
  BY <1>0, <1>1 DEF SendNote, Texts
<1>2. CASE a = b
  <2> DEFINE note == [issued |-> now, created |-> now, state |-> "new",
           usage |-> [i \in DOMAIN vector |-> Used(vector[i], now - begun[a])],
           total |-> Charge(now - begun[a]),
           due |-> IF payable THEN now + PaymentTimeout ELSE NoTime]
             text == [issued |-> now,
                        usage |-> [k \in DOMAIN vector |-> Used(vector[k], now - begun[a])],
                        total |-> Charge(now - begun[a]),
                        due |-> IF payable THEN now + PaymentTimeout ELSE NoTime]
  <2>1. sent'[a] = Append(sent[a], note)
    BY <1>0, <1>2 DEF SendNote
  <2>2. Text(note) = text
    BY DEF Text
  <2> HIDE DEF note, text
  <2>3. PICK n \in Nat, s \in Nat : n = Len(notes[a]) /\ s = Len(sent[a])
    BY TextsAre
  <2>4. Len(sent'[a]) = s + 1 /\ sent'[a][s + 1] = note
        /\ \A i \in 1..s : sent'[a][i] = sent[a][i]
    BY <2>1, <2>3, AppendProperties, TextsAre
  <2>5. Texts(a) = [i \in 1..(n + s) |-> IF i <= n THEN Text(notes[a][i])
                                          ELSE Text(sent[a][i - n])]
    BY <2>3 DEF Texts
  <2>6. Texts(a)' = [i \in 1..(n + (s + 1)) |-> IF i <= n THEN Text(notes[a][i])
                                                ELSE Text(sent'[a][i - n])]
    BY <1>0, <2>3, <2>4 DEF Texts
  <2>7. Texts(a) \in Seq(Wording) /\ Len(Texts(a)) = n + s
    BY <2>3, TextsAre
  <2>8. Append(Texts(a), text) = [i \in 1..(n + s + 1) |->
                                     IF i = n + s + 1 THEN text ELSE Texts(a)[i]]
    BY <2>7, AppendIs
  <2>9. ASSUME NEW i \in 1..(n + s + 1)
        PROVE  Texts(a)'[i] = IF i = n + s + 1 THEN text ELSE Texts(a)[i]
    <3>0. n + (s + 1) = n + s + 1 /\ (n + s + 1) - n = s + 1
      OBVIOUS
    <3>1. CASE i = n + s + 1
      BY <2>2, <2>4, <2>6, <3>0, <3>1
    <3>2. CASE i <= n
      BY <2>5, <2>6, <3>0, <3>2
    <3>3. CASE i > n /\ i # n + s + 1
      <4>1. i - n \in 1..s /\ i \in 1..(n + s) /\ ~(i <= n)
        BY <3>3
      <4> QED
        BY <2>4, <2>5, <2>6, <3>0, <3>3, <4>1
    <3> QED
      BY <3>1, <3>2, <3>3
  <2>10. Texts(a)' = [i \in 1..(n + s + 1) |->
                         IF i = n + s + 1 THEN text ELSE Texts(a)[i]]
    <3>1. n + (s + 1) = n + s + 1
      OBVIOUS
    <3> QED
      BY <2>6, <2>9, <3>1
  <2>11. Texts(a)' = Append(Texts(a), text)
    BY <2>8, <2>10
  <2> QED
    BY <1>2, <2>11 DEF text
<1> QED
  BY <1>1, <1>2

\* Nothing else decides whether the notes are right.
LEMMA BillingKept ==
  ASSUME PayTypeOK, NEW a \in Rented, Billing(a), Texts(a)' = Texts(a),
         begun'[a] = begun[a], provider' = provider
  PROVE  Billing(a)'
<1>1. \A t : Charge(t)' = Charge(t)
  BY DEF Charge, Coefficient, vector
<1>2. vector' = vector
  BY DEF vector
<1>3. \A i \in 1..Len(Texts(a)) : TextRight(Texts(a), i, begun[a])'
  BY <1>1, <1>2 DEF Billing, TextRight
<1> QED
  BY <1>3 DEF Billing

LEMMA PayablesAre ==
  ASSUME NEW w, NEW k \in Nat
  PROVE  /\ PayablesOf(w, k) \in Nat
         /\ IsFiniteSet({j \in 1..k : w[j].due # NoTime})
<1>1. IsFiniteSet(1..k)
  BY FS_Interval
<1>2. IsFiniteSet({j \in 1..k : w[j].due # NoTime})
  BY <1>1, FS_Subset
<1> QED
  BY <1>2, FS_CardinalityType DEF PayablesOf

LEMMA PayablesAppended ==
  ASSUME NEW w, NEW w2, NEW k \in Nat, \A j \in 1..k : w2[j].due = w[j].due
  PROVE  /\ PayablesOf(w2, k) = PayablesOf(w, k)
         /\ PayablesOf(w2, k + 1) = IF w2[k + 1].due # NoTime
                                    THEN PayablesOf(w, k) + 1 ELSE PayablesOf(w, k)
<1> DEFINE P == {j \in 1..k : w[j].due # NoTime}
           Q == {j \in 1..(k + 1) : w2[j].due # NoTime}
<1>1. {j \in 1..k : w2[j].due # NoTime} = P
  OBVIOUS
<1>a. IsFiniteSet(P)
  BY PayablesAre
<1>b. k + 1 \notin 1..k
  OBVIOUS
<1>2. IsFiniteSet(P) /\ k + 1 \notin P
  BY <1>a, <1>b
<1>3. Q = IF w2[k + 1].due # NoTime THEN P \cup {k + 1} ELSE P
  OBVIOUS
<1> HIDE DEF P, Q
<1>4. Cardinality(P \cup {k + 1}) = Cardinality(P) + 1
  BY <1>2, FS_AddElement
<1> QED
  BY <1>1, <1>3, <1>4 DEF PayablesOf, P, Q

LEMMA BilledTexts ==
  ASSUME PayTypeOK, NEW a \in Rented, NEW i \in 1..Len(Texts(a))
  PROVE  /\ Texts(a)[i].issued \in Issued(a)
         /\ Texts(a)[i].due # NoTime => Texts(a)[i].issued \in PayableIssued(a)
<1>1. PICK n \in Nat, s \in Nat : n = Len(notes[a]) /\ s = Len(sent[a])
  BY TextsAre
<1>2. notes[a] \in Seq(Note) /\ sent[a] \in Seq(Note)
  BY TextsAre
<1>3. /\ Billed(a) \in Seq(Note) /\ Len(Billed(a)) = n + s
      /\ \A k \in 1..(n + s) : Billed(a)[k] = IF k <= n THEN notes[a][k] ELSE sent[a][k - n]
  BY <1>1, <1>2, ConcatProperties DEF Billed
<1>4. i \in 1..(n + s) /\ Texts(a)[i] = Text(Billed(a)[i])
  <2>1. Len(Texts(a)) = n + s
    BY <1>1, TextsAre
  <2> QED
    BY <1>1, <1>3, <2>1 DEF Texts
<1>5. i \in DOMAIN Billed(a)
  BY <1>3, <1>4, LenProperties
<1>7. Billed(a)[i] \in Range(Billed(a))
  BY <1>5 DEF Range
<1>6. Texts(a)[i].issued = Billed(a)[i].issued /\ Texts(a)[i].due = Billed(a)[i].due
  BY <1>4 DEF Text
<1> QED
  BY <1>5, <1>6, <1>7 DEF Issued, PayableIssued

LEMMA NothingBilled ==
  ASSUME PayTypeOK, NEW a \in Rented, Timely(a), begun[a] = NoTime
  PROVE  Texts(a) = <<>> /\ Len(Texts(a)) = 0 /\ created[a] = NoTime
<1>1. notes[a] = <<>> /\ sent[a] = <<>> /\ created[a] = NoTime
  BY DEF Timely
<1>3. Len(notes[a]) = 0 /\ Len(sent[a]) = 0
  BY <1>1, EmptySeq
<1>4. Texts(a) \in Seq(Wording) /\ Len(Texts(a)) = Len(notes[a]) + Len(sent[a])
  BY TextsAre
<1>2. Len(Texts(a)) = 0 /\ Texts(a) \in Seq(Wording)
  BY <1>3, <1>4
<1> QED
  BY <1>1, <1>2, EmptySeq

LEMMA BillingAppended ==
  ASSUME PayTypeOK, PayTypeOK', NEW a \in Rented, NEW payable \in BOOLEAN,
         SendNote(a, payable), Timely(a), Billing(a)
  PROVE  Billing(a)'
<1> DEFINE txt == [issued |-> now,
                   usage |-> [k \in DOMAIN vector |-> Used(vector[k], now - begun[a])],
                   total |-> Charge(now - begun[a]),
                   due |-> IF payable THEN now + PaymentTimeout ELSE NoTime]
<1>0. PICK w, w2, start, text :
         w = Texts(a) /\ w2 = Texts(a)' /\ start = begun[a] /\ text = txt
  OBVIOUS
<1>1. w2 = Append(w, text)
  BY <1>0, TextsOfSent
<1>a. w \in Seq(Wording)
  BY <1>0, TextsAre
<1>2. PICK n \in Nat : n = Len(w)
  BY <1>a
<1>3. /\ Len(w2) = n + 1 /\ w2[n + 1] = text /\ \A i \in 1..n : w2[i] = w[i]
      /\ \A i \in 1..n : w[i] \in Wording
  <2>1. w \in Seq(Wording \cup {text}) /\ text \in Wording \cup {text}
    BY <1>a, SeqMonotonic
  <2> QED
    BY <1>a, <1>1, <1>2, <2>1, AppendProperties, ElementOfSeq
<1>4. start \in Nat /\ now \in Nat /\ start <= now /\ begun'[a] = start /\ provider' = provider
  BY <1>0 DEF SendNote, Timely, PayTypeOK
<1>5. /\ \A t : Charge(t)' = Charge(t)
      /\ vector' = vector /\ \A c, t : Used(c, t)' = Used(c, t)
  BY <1>4 DEF Charge, Coefficient, vector, Used
<1>6. PICK T \in Nat, I \in Nat : T = PaymentTimeout /\ I = Interval
  BY PayConstants
<1>7. \A k \in 0..n : PayablesOf(w2, k) = PayablesOf(w, k) /\ PayablesOf(w, k) \in Nat
  <2> TAKE k \in 0..n
  <2>1. k \in Nat /\ \A j \in 1..k : w2[j].due = w[j].due
    BY <1>3
  <2> QED
    BY <2>1, PayablesAppended, PayablesAre
<1>8. PICK p \in Nat : p = PayablesOf(w, n)
  BY <1>2, PayablesAre
<1>9. PayablesOf(w2, n + 1) = IF payable THEN p + 1 ELSE p
  <2>1. text.due # NoTime <=> payable
    BY <1>0, <1>4, PayConstants
  <2> QED
    BY <1>3, <1>8, <2>1, PayablesAppended
<1>10. \A i \in 1..n : TextRight(w, i, start)
  BY <1>0, <1>2 DEF Billing
<1>11. ~provider.hasty => LastPayable(w, start)
  BY <1>0 DEF Billing
<1>12. ~provider.hasty => InTime(a, payable)
  BY DEF SendNote
<1>13. /\ text.issued = now
       /\ text.usage = [k \in DOMAIN vector |-> Used(vector[k], now - start)]
       /\ text.total = Charge(now - start)
       /\ text.due # NoTime <=> payable
       /\ text.due # NoTime => text.due = now + PaymentTimeout
  BY <1>0, <1>4, PayConstants
<1>14. ASSUME NEW i \in 1..n
       PROVE  TextRight(w2, i, start)'
  <2>1. w2[i] = w[i] /\ TextRight(w, i, start) /\ i - 1 \in 0..n
    BY <1>3, <1>10
  <2>2. PayablesOf(w2, i - 1) = PayablesOf(w, i - 1)
    BY <1>7, <2>1
  <2> QED
    BY <1>4, <1>5, <2>1, <2>2 DEF TextRight
<1>15. \A i \in 1..n : ~provider.hasty => now - w[i].issued >= I
  BY <1>0, <1>2, <1>6, <1>12, BilledTexts DEF InTime
<1>16. ~provider.hasty => now - start >= I
  BY <1>0, <1>6, <1>12 DEF InTime
<1>17. ~provider.hasty => now - start >= (n + 1) * I
  <2> SUFFICES ASSUME ~provider.hasty PROVE now - start >= (n + 1) * I
    OBVIOUS
  <2>1. CASE n = 0
    BY <1>16, <2>1
  <2>2. CASE n # 0
    <3>1. n \in 1..n
      BY <2>2
    <3>2. w[n].issued \in Nat /\ w[n].issued - start >= n * I /\ now - w[n].issued >= I
      BY <1>3, <1>6, <1>10, <1>15, <3>1 DEF TextRight, Wording
    <3>3. (n + 1) * I = n * I + I /\ n * I \in Nat
      OBVIOUS
    <3> QED
      BY <1>4, <3>2, <3>3
  <2> QED
    BY <2>1, <2>2
<1>18. \A i \in 1..n : ~provider.hasty /\ payable /\ w[i].due # NoTime => now - w[i].issued >= T
  BY <1>0, <1>2, <1>6, <1>12, BilledTexts DEF InTime
<1>19. ~provider.hasty /\ payable => now - start >= T
  BY <1>0, <1>6, <1>12 DEF InTime
<1>20. ~provider.hasty /\ payable => now - start >= (p + 1) * T
  <2> SUFFICES ASSUME ~provider.hasty, payable PROVE now - start >= (p + 1) * T
    OBVIOUS
  <2>1. CASE p = 0
    BY <1>19, <2>1
  <2>2. CASE p # 0
    <3>1. PICK i \in 1..n : w[i].due # NoTime /\ w[i].issued - start >= p * T
      BY <1>2, <1>6, <1>8, <1>11, <2>2 DEF LastPayable
    <3>2. w[i].issued \in Nat /\ now - w[i].issued >= T
      BY <1>3, <1>18, <3>1 DEF Wording
    <3>3. (p + 1) * T = p * T + T /\ p * T \in Nat
      OBVIOUS
    <3> QED
      BY <1>4, <3>1, <3>2, <3>3
  <2> QED
    BY <2>1, <2>2
<1>21. (n + 1) - 1 = n /\ n \in 0..n
  OBVIOUS
<1>22. PayablesOf(w2, (n + 1) - 1) = p
  BY <1>7, <1>8, <1>21
<1>26. ~provider.hasty /\ payable => provider.midAgreement
  BY <1>12 DEF InTime
<1>23. TextRight(w2, n + 1, start)'
  BY <1>3, <1>4, <1>5, <1>6, <1>13, <1>17, <1>20, <1>22, <1>26 DEF TextRight
<1>24. ~provider.hasty => LastPayable(w2, start)'
  <2> SUFFICES ASSUME ~provider.hasty PROVE LastPayable(w2, start)'
    OBVIOUS
  <2>1. CASE payable
    <3>1. n + 1 \in 1..Len(w2)
      BY <1>3
    <3> QED
      BY <1>3, <1>6, <1>9, <1>13, <1>20, <2>1, <3>1 DEF LastPayable
  <2>2. CASE ~payable
    <3>1. PayablesOf(w2, Len(w2)) = p
      BY <1>3, <1>9, <2>2
    <3>2. \A i \in 1..n : i \in 1..Len(w2) /\ w2[i] = w[i]
      BY <1>3
    <3> QED
      BY <1>2, <1>8, <1>11, <3>1, <3>2 DEF LastPayable
  <2> QED
    BY <2>1, <2>2
<1>25. \A i \in 1..Len(w2) : TextRight(w2, i, start)'
  BY <1>3, <1>14, <1>23
<1> QED
  BY <1>0, <1>4, <1>24, <1>25 DEF Billing

LEMMA TimelyStays ==
  ASSUME PayTypeOK, PayTypeOK', PayNext, NEW a \in Rented, Timely(a)
  PROVE  Timely(a)'
<1>0. /\ notes[a] \in Seq(Note) /\ sent[a] \in Seq(Note) /\ now \in Nat
      /\ begun[a] \in Nat \cup {NoTime} /\ created[a] \in Nat \cup {NoTime}
      /\ DOMAIN notes = Rented /\ DOMAIN sent = Rented /\ DOMAIN begun = Rented
      /\ DOMAIN created = Rented
  BY DEF PayTypeOK
<1>a. /\ \A i \in 1..Len(sent[a]) : sent[a][i] \in Note /\ sent[a][i].issued \in Nat
      /\ \A i \in 1..Len(notes[a]) : /\ notes[a][i] \in Note /\ notes[a][i].issued \in Nat
                                      /\ notes[a][i].created \in Nat
  <2>1. \A n \in Note : n.issued \in Nat /\ n.created \in Nat
    BY DEF Note
  <2> QED
    BY <1>0, <2>1, ElementOfSeq
<1>1. ASSUME NEW b \in Rented, StartActivity(b)
      PROVE  Timely(a)'
  BY <1>0, <1>1, PayConstants DEF StartActivity, Timely
<1>2. ASSUME NEW b \in Rented, ActivityCreated(b)
      PROVE  Timely(a)'
  BY <1>0, <1>2, PayConstants DEF ActivityCreated, Timely
<1>3. ASSUME NEW b \in Rented, NEW payable \in BOOLEAN, SendNote(b, payable)
      PROVE  Timely(a)'
  <2>1. CASE a # b
    BY <1>0, <1>3, <2>1 DEF SendNote, Timely
  <2>2. CASE a = b
    <3> DEFINE written == [issued |-> now, created |-> now, state |-> "new",
              usage |-> [i \in DOMAIN vector |-> Used(vector[i], now - begun[a])],
              total |-> Charge(now - begun[a]),
              due |-> IF payable THEN now + PaymentTimeout ELSE NoTime]
    <3>a. sent'[a] = Append(sent[a], written)
      BY <1>0, <1>3, <2>2 DEF SendNote
    <3>b. written.state = "new" /\ written.issued = now
      OBVIOUS
    <3> HIDE DEF written
    <3>1. PICK note : /\ sent'[a] = Append(sent[a], note) /\ note.state = "new"
                      /\ note.issued = now
      BY <3>a, <3>b
    <3>2. PICK s \in Nat : s = Len(sent[a])
      BY <1>0
    <3>3. /\ Len(sent'[a]) = s + 1 /\ sent'[a][s + 1] = note
          /\ \A i \in 1..s : sent'[a][i] = sent[a][i]
      <4>1. sent[a] \in Seq(Note \cup {note}) /\ note \in Note \cup {note}
        BY <1>0, SeqMonotonic
      <4> QED
        BY <3>1, <3>2, <4>1, AppendProperties
    <3>4. \A i \in 1..(s + 1) : i \in 1..s \/ i = s + 1
      OBVIOUS
    <3>5. \A i \in 1..Len(sent'[a]) :
             /\ sent'[a][i].state = "new"
             /\ sent'[a][i].issued <= now /\ now - sent'[a][i].issued <= Delay
      BY <1>0, <3>1, <3>2, <3>3, <3>4, PayConstants DEF Timely
    <3> QED
      BY <1>3, <2>2, <3>5 DEF SendNote, Timely
  <2> QED
    BY <2>1, <2>2
<1>4. ASSUME NEW b \in Rented, CollectNote(b)
      PROVE  Timely(a)'
  <2>1. CASE a # b
    BY <1>0, <1>4, <2>1 DEF CollectNote, Timely
  <2>2. CASE a = b
    <3>1. /\ sent[a] # <<>> /\ sent'[a] = Tail(sent[a])
          /\ notes'[a] = Append(notes[a], [Head(sent[a]) EXCEPT !.created = now])
          /\ created'[a] = (IF created[a] = NoTime THEN now ELSE created[a])
          /\ begun' = begun /\ now' = now
      BY <1>0, <1>4, <2>2 DEF CollectNote
    <3>2. PICK s \in Nat, n \in Nat : s = Len(sent[a]) /\ n = Len(notes[a])
      BY <1>0
    <3>3. s >= 1 /\ Head(sent[a]) = sent[a][1] /\ sent[a][1] \in Note
      BY <1>0, <3>1, <3>2, ElementOfSeq
    <3>a. PICK first \in Note : first = sent[a][1]
      BY <3>3
    <3>b. /\ [first EXCEPT !.created = now] \in Note
          /\ [first EXCEPT !.created = now].created = now
          /\ [first EXCEPT !.created = now].issued = first.issued
      BY <1>0 DEF Note
    <3>4. PICK note \in Note : /\ note = [Head(sent[a]) EXCEPT !.created = now]
                               /\ note.created = now /\ note.issued = sent[a][1].issued
      BY <3>3, <3>a, <3>b
    <3>5. /\ Len(notes'[a]) = n + 1 /\ notes'[a][n + 1] = note
          /\ \A i \in 1..n : notes'[a][i] = notes[a][i]
      BY <1>0, <3>1, <3>2, <3>4, AppendProperties
    <3>6. /\ Len(sent'[a]) = s - 1
          /\ \A i \in 1..(s - 1) : sent'[a][i] = sent[a][i + 1] /\ i + 1 \in 1..s
      BY <1>0, <3>1, <3>2, <3>3
    <3>7. \A i \in 1..Len(sent'[a]) :
             /\ sent'[a][i].state = "new"
             /\ sent'[a][i].issued <= now /\ now - sent'[a][i].issued <= Delay
      BY <3>2, <3>6 DEF Timely
    <3>8. \A i \in 1..(n + 1) : i \in 1..n \/ i = n + 1
      OBVIOUS
    <3>9. sent[a][1].issued <= now /\ now - sent[a][1].issued <= Delay
      BY <3>2, <3>3 DEF Timely
    <3>10. \A i \in 1..Len(notes'[a]) :
             /\ notes'[a][i].issued <= notes'[a][i].created /\ notes'[a][i].created <= now
             /\ notes'[a][i].created - notes'[a][i].issued <= Delay
      <4>1. /\ note.issued <= note.created /\ note.created <= now
            /\ note.created - note.issued <= Delay
        BY <1>0, <3>4, <3>9
      <4> QED
        BY <3>2, <3>5, <3>8, <4>1 DEF Timely
    <3>11. begun[a] # NoTime
      BY <3>1 DEF Timely
    <3>12. /\ created'[a] # NoTime
           /\ created'[a] <= now /\ begun[a] <= created'[a] /\ created'[a] - begun[a] <= Delay
           /\ begun[a] <= now
      BY <1>0, <3>1, <3>11, PayConstants DEF Timely
    <3> QED
      BY <3>1, <3>7, <3>10, <3>11, <3>12 DEF Timely
  <2> QED
    BY <2>1, <2>2
<1>5. ASSUME NEW b \in Rented, HandleNote(b)
      PROVE  Timely(a)'
  <2>1. PICK i \in DOMAIN notes[b], s \in {"accepted", "refused"} :
           notes' = [notes EXCEPT ![b][i].state = s]
    BY <1>5 DEF HandleNote
  <2>2. notes[b] \in Seq(Note) /\ notes[b][i] \in Note
    BY ElementOfSeq DEF PayTypeOK
  <2>3. Len(notes'[a]) = Len(notes[a]) /\ (notes'[a] = <<>> <=> notes[a] = <<>>)
    BY <1>0, <2>1, <2>2, LenProperties, EmptySeq DEF PayTypeOK
  <2>4. \A j \in 1..Len(notes[a]) : /\ notes'[a][j].issued = notes[a][j].issued
                                    /\ notes'[a][j].created = notes[a][j].created
    <3>1. CASE a # b
      BY <1>0, <2>1, <3>1
    <3>2. CASE a = b
      <4>1. notes'[a] = [notes[a] EXCEPT ![i] = [notes[a][i] EXCEPT !.state = s]]
        BY <1>0, <2>1, <3>2
      <4>2. /\ [notes[a][i] EXCEPT !.state = s].issued = notes[a][i].issued
            /\ [notes[a][i] EXCEPT !.state = s].created = notes[a][i].created
        BY <2>2, <3>2 DEF Note
      <4>3. \A j \in 1..Len(notes[a]) : j \in DOMAIN notes[a]
        BY <1>0, LenProperties
      <4> QED
        BY <4>1, <4>2, <4>3
    <3> QED
      BY <3>1, <3>2
  <2> QED
    BY <1>5, <2>3, <2>4 DEF HandleNote, Timely
<1>6. CASE SendInvoice \/ CollectInvoice \/ HandleInvoice
  BY <1>6 DEF SendInvoice, CollectInvoice, HandleInvoice, Timely
<1>7. CASE Tick
  <2>1. now' = now + 1 /\ begun' = begun /\ created' = created /\ sent' = sent /\ notes' = notes
    BY <1>7 DEF Tick
  <2>2. \A i \in 1..Len(sent[a]) : now - sent[a][i].issued < Delay
    BY <1>0, <1>7, LenProperties DEF Tick, OnTime
  <2>5. begun[a] # NoTime /\ created[a] = NoTime => now - begun[a] < Delay
    BY <1>7 DEF Tick, OnTime
  <2>6. \A i \in 1..Len(sent[a]) :
           /\ sent[a][i].state = "new"
           /\ sent[a][i].issued <= now' /\ now' - sent[a][i].issued <= Delay
    BY <1>0, <1>a, <2>1, <2>2, PayConstants DEF Timely
  <2>7. \A i \in 1..Len(notes[a]) :
           /\ notes[a][i].issued <= notes[a][i].created /\ notes[a][i].created <= now'
           /\ notes[a][i].created - notes[a][i].issued <= Delay
    BY <1>0, <1>a, <2>1 DEF Timely
  <2>8. /\ begun[a] # NoTime =>
              begun[a] <= now' /\ (created[a] = NoTime => now' - begun[a] <= Delay)
        /\ created[a] # NoTime =>
              /\ begun[a] # NoTime /\ created[a] <= now'
              /\ begun[a] <= created[a] /\ created[a] - begun[a] <= Delay
    BY <1>0, <2>1, <2>5, PayConstants DEF Timely
  <2> QED
    BY <2>1, <2>6, <2>7, <2>8 DEF Timely
<1> QED
  BY <1>1, <1>2, <1>3, <1>4, <1>5, <1>6, <1>7 DEF PayNext

LEMMA BillingStays ==
  ASSUME PayTypeOK, PayTypeOK', PayNext, NEW a \in Rented, Timely(a), Billing(a)
  PROVE  Billing(a)'
<1>1. ASSUME NEW b \in Rented, StartActivity(b)
      PROVE  Billing(a)'
  <2>1. Texts(a)' = Texts(a) /\ provider' = provider
    BY <1>1 DEF StartActivity, Texts
  <2>2. CASE a # b
    BY <1>1, <2>1, <2>2, BillingKept DEF StartActivity, PayTypeOK
  <2>3. CASE a = b
    <3>1. Len(Texts(a)) = 0
      BY <1>1, <2>3, NothingBilled DEF StartActivity
    <3>2. PayablesOf(Texts(a), 0) = 0
      BY FS_EmptySet DEF PayablesOf
    <3>3. LastPayable(Texts(a), begun[a])'
      BY <2>1, <3>1, <3>2 DEF LastPayable
    <3> QED
      BY <2>1, <3>1, <3>3 DEF Billing
  <2> QED
    BY <2>2, <2>3
<1>2. ASSUME NEW b \in Rented, NEW payable \in BOOLEAN, SendNote(b, payable)
      PROVE  Billing(a)'
  <2>1. CASE a = b
    BY <1>2, <2>1, BillingAppended
  <2>2. CASE a # b
    BY <1>2, <2>2, TextsOfSent, BillingKept DEF SendNote
  <2> QED
    BY <2>1, <2>2
<1>3. ASSUME NEW b \in Rented, CollectNote(b)
      PROVE  Billing(a)'
  BY <1>3, TextsOfCollected, BillingKept DEF CollectNote
<1>4. ASSUME NEW b \in Rented, HandleNote(b)
      PROVE  Billing(a)'
  BY <1>4, TextsOfHandled, BillingKept DEF HandleNote
<1>5. CASE \/ \E b \in Rented : ActivityCreated(b)
           \/ SendInvoice \/ CollectInvoice \/ HandleInvoice \/ Tick
  <2>1. Texts(a)' = Texts(a) /\ begun' = begun /\ provider' = provider
    BY <1>5 DEF ActivityCreated, SendInvoice, CollectInvoice, HandleInvoice, Tick, Texts
  <2> QED
    BY <2>1, BillingKept
<1> QED
  BY <1>1, <1>2, <1>3, <1>4, <1>5 DEF PayNext

-----------------------------------------------------------------------------
(* How they are judged.                                                    *)

LEMMA CollectedTexts ==
  ASSUME PayTypeOK, NEW a \in Rented, NEW i \in 1..Len(notes[a])
  PROVE  /\ i \in 1..Len(Texts(a)) /\ notes[a][i] \in Note
         /\ Texts(a)[i] = Text(notes[a][i])
<1>1. PICK n \in Nat, s \in Nat : n = Len(notes[a]) /\ s = Len(sent[a])
  BY TextsAre
<1>2. Len(Texts(a)) = n + s /\ i \in 1..n
  BY <1>1, TextsAre
<1>3. i \in 1..(n + s)
  BY <1>2
<1> QED
  BY <1>2, <1>3, TextsAre

LEMMA PriorNotes ==
  ASSUME PayTypeOK, NEW a \in Rented, NEW i \in 1..Len(notes[a])
  PROVE  LET prior == SubSeq(notes[a], 1, i - 1) IN
         /\ Len(prior) = i - 1 /\ prior \in Seq(Note)
         /\ \A j \in 1..(i - 1) : prior[j] = notes[a][j]
         /\ prior # <<>> => i - 1 \in 1..Len(notes[a]) /\ Last(prior) = notes[a][i - 1]
         /\ Payable(prior) = PayablesOf(Texts(a), i - 1)
<1> DEFINE prior == SubSeq(notes[a], 1, i - 1)
<1>0. notes[a] \in Seq(Note)
  BY TextsAre
<1>1. PICK n \in Nat : n = Len(notes[a])
  BY <1>0
<1>2. PICK k \in Nat : k = i - 1 /\ k <= n
  BY <1>1
<1>3. /\ prior \in Seq(Note) /\ Len(prior) = k
      /\ \A j \in 1..k : prior[j] = notes[a][j]
  BY <1>0, <1>1, <1>2, SubSeqProperties
<1>4. prior # <<>> => k \in 1..n /\ Last(prior) = notes[a][k]
  <2>1. prior # <<>> => k # 0
    BY <1>3, EmptySeq
  <2> HIDE DEF prior
  <2>2. k # 0 => k \in 1..n /\ k \in 1..k
    BY <1>2
  <2> QED
    BY <1>3, <2>1, <2>2 DEF Last
<1>5. \A j \in 1..k : Texts(a)[j].due = prior[j].due
  <2>1. \A j \in 1..k : j \in 1..Len(notes[a])
    BY <1>1, <1>2
  <2>2. \A j \in 1..k : Texts(a)[j] = Text(notes[a][j])
    BY <2>1, CollectedTexts
  <2>3. \A m : Text(m).due = m.due
    BY DEF Text
  <2> HIDE DEF prior
  <2>4. \A j \in 1..k : prior[j] = notes[a][j]
    BY <1>3
  <2> QED
    BY <2>2, <2>3, <2>4
<1>6. {j \in DOMAIN prior : prior[j].due # NoTime} = {j \in 1..k : Texts(a)[j].due # NoTime}
  <2>1. DOMAIN prior = 1..k
    BY <1>3, LenProperties
  <2> HIDE DEF prior
  <2> QED
    BY <1>5, <2>1
<1> HIDE DEF prior
<1> QED
  BY <1>1, <1>2, <1>3, <1>4, <1>6 DEF prior, Payable, PayablesOf

\* A debit note that bills what was used, in time, is accepted.
LEMMA NoteAccepted ==
  ASSUME PayTypeOK, NEW a \in Rented, Timely(a), Billing(a), ~provider.hasty, AllKnown,
         NEW i \in 1..Len(notes[a])
  PROVE  LET prior == SubSeq(notes[a], 1, i - 1) IN
         CostOk(notes[a][i], prior, created[a]) /\ RateOk(notes[a][i], prior, created[a])
<1> DEFINE prior == SubSeq(notes[a], 1, i - 1)
<1>1. PICK w : w = Texts(a)
  OBVIOUS
<1>2. PICK note \in Note : note = notes[a][i] /\ i \in 1..Len(w) /\ w[i] = Text(note)
  BY <1>1, CollectedTexts
<1>3. TextRight(w, i, begun[a])
  BY <1>1, <1>2 DEF Billing
<1>4. /\ created[a] # NoTime /\ begun[a] # NoTime /\ created[a] - begun[a] <= Delay
      /\ note.issued <= note.created /\ note.created - note.issued <= Delay
  <2>1. notes[a] # <<>>
    BY EmptySeq
  <2> QED
    BY <1>2, <2>1 DEF Timely
<1>5. PICK start \in Nat, born \in Nat : start = begun[a] /\ born = created[a]
  BY <1>4 DEF PayTypeOK
<1>6. PICK x \in Nat, y \in Nat : x = note.issued /\ y = note.created
  BY DEF Note
<1>7. PICK g1 \in Nat, g2 \in Nat, g3 \in Nat, g4 \in Nat, d \in Nat :
         /\ g1 = MaxCostGrace /\ g2 = LastNoteGrace /\ g3 = IntervalGrace /\ g4 = TimeoutGrace
         /\ d = Delay /\ d <= g1 /\ d <= g2 /\ d <= g3 /\ d <= g4
  BY PayConstants, GraceAssumption
<1>8. PICK T \in Nat, I \in Nat : T = PaymentTimeout /\ I = Interval
  BY PayConstants
<1>9. /\ x >= start /\ x <= y /\ y - x <= d /\ born - start <= d
      /\ note.total = Charge(x - start)
      /\ note.usage = [k \in DOMAIN vector |-> Used(vector[k], x - start)]
      /\ note.due # NoTime => note.due = x + T
      /\ x - start >= i * I
      /\ note.due # NoTime => x - start >= (PayablesOf(w, i - 1) + 1) * T
      /\ note.due # NoTime => provider.midAgreement
  <2>1. w[i].issued = x /\ w[i].total = note.total /\ w[i].usage = note.usage /\ w[i].due = note.due
    BY <1>2, <1>6 DEF Text
  <2>2. /\ x >= start
        /\ note.usage = [k \in DOMAIN vector |-> Used(vector[k], x - start)]
        /\ note.total = Charge(x - start)
        /\ note.due # NoTime => note.due = x + T
    BY <1>3, <1>5, <1>8, <2>1 DEF TextRight
  <2>3. /\ x - start >= i * I
        /\ note.due # NoTime => x - start >= (PayablesOf(w, i - 1) + 1) * T
        /\ note.due # NoTime => provider.midAgreement
    BY <1>2, <1>3, <1>5, <1>8, <2>1 DEF TextRight
  <2>4. x <= y /\ y - x <= d /\ born - start <= d
    BY <1>4, <1>5, <1>6, <1>7
  <2> QED
    BY <2>2, <2>3, <2>4
<1>10. note.total = MaxCost(x - start) /\ CalculatedCost(note.usage) = note.total
  BY <1>9, ChargeIsMaxCost, CalculatedIsCharge
<1>11. note.total <= CalculatedCost(note.usage) + AmountGrace
  BY <1>10, PayConstants DEF Note
<1>12. note.total <= MaxCost(y - born + g1)
  <2>1. x - start <= y - born + g1
    BY <1>7, <1>9
  <2> QED
    BY <1>10, <2>1, MaxCostMonotone
<1>13. ASSUME prior # <<>>
       PROVE  note.total - Last(prior).total <= SinceLast(y - Last(prior).created)
  <2>1. i - 1 \in 1..Len(notes[a]) /\ Last(prior) = notes[a][i - 1]
    BY <1>13, PriorNotes
  <2>2. PICK last \in Note : /\ last = notes[a][i - 1] /\ i - 1 \in 1..Len(w)
                             /\ w[i - 1] = Text(last)
    BY <1>1, <2>1, CollectedTexts
  <2>3. TextRight(w, i - 1, begun[a])
    BY <1>1, <2>2 DEF Billing
  <2>4. PICK x2 \in Nat, y2 \in Nat : x2 = last.issued /\ y2 = last.created
    BY DEF Note
  <2>5. x2 >= start /\ last.total = Charge(x2 - start)
    BY <1>5, <2>2, <2>3, <2>4 DEF TextRight, Text
  <2>6. x2 <= y2 /\ y2 - x2 <= d
    BY <1>7, <2>1, <2>2, <2>4 DEF Timely
  <2>7. last.total = MaxCost(x2 - start)
    BY <2>5, ChargeIsMaxCost
  <2>8. (x - start) - (x2 - start) <= y - y2 + g2
    <3>1. x <= y
      BY <1>9
    <3>2. y2 <= x2 + d
      BY <2>6
    <3>3. d <= g2
      BY <1>7
    <3> QED
      BY <3>1, <3>2, <3>3
  <2>9. MaxCost(x - start) - MaxCost(x2 - start) <= MaxCost(y - y2 + g2)
    BY <2>8, MaxCostOfPeriod
  <2> QED
    BY <1>7, <1>10, <2>1, <2>2, <2>4, <2>7, <2>9 DEF SinceLast
<1>14. CostOk(note, prior, born)
  BY <1>6, <1>7, <1>11, <1>12, <1>13 DEF CostOk
<1>a. i - 1 \in Nat
  OBVIOUS
<1>15. PICK p \in Nat : p = PayablesOf(w, i - 1)
  BY <1>a, PayablesAre
<1>16. Len(prior) = i - 1 /\ Payable(prior) = p
  BY <1>1, <1>15, PriorNotes
<1>17. PICK j \in Nat : j = i
  OBVIOUS
<1>18. y - born + g3 >= (j - 1 - 1) * I
  <2>1. y - born + g3 >= x - start
    BY <1>7, <1>9
  <2>2. (j - 1 - 1) * I = j * I - I - I /\ j * I \in Nat
    OBVIOUS
  <2>3. x - start >= j * I
    BY <1>9, <1>17
  <2> QED
    BY <2>1, <2>2, <2>3
<1>19. note.due # NoTime => y - born + g4 >= (p - 1) * T
  <2>1. y - born + g4 >= x - start
    BY <1>7, <1>9
  <2>2. (p - 1) * T = p * T - T /\ (p + 1) * T = p * T + T /\ p * T \in Nat
    OBVIOUS
  <2>3. note.due # NoTime => x - start >= (p + 1) * T
    BY <1>9, <1>15
  <2> QED
    BY <2>1, <2>2, <2>3
<1>20. note.due # NoTime => note.due - y + g4 >= T
  BY <1>7, <1>9
<1> HIDE DEF prior
<1>21. RateOk(note, prior, born)
  BY <1>6, <1>7, <1>8, <1>9, <1>16, <1>17, <1>18, <1>19, <1>20 DEF RateOk
<1> QED
  BY <1>2, <1>5, <1>14, <1>21 DEF prior

\* An invoice for one activity is accepted.
LEMMA InvoiceAccepted ==
  ASSUME PayTypeOK, NEW a \in Rented, Hired = {a}, \A b \in Rented : Timely(b),
         Billing(a), AllKnown, InvoiceRight, invoice.state = "new"
  PROVE  /\ invoice.total <= MaxCost(now + MaxCostGrace)
         /\ TimeSince # 0 => AmountSince <= SinceLast(TimeSince)
<1>1. PICK x \in Nat, y \in Nat, t \in Nat, start \in Nat :
         x = invoice.issued /\ y = invoice.created /\ t = now /\ start = begun[a]
  BY DEF PayTypeOK, Hired
<1>2. /\ x <= y /\ y <= t /\ x >= start
      /\ invoice.total = Charge(x - start)
  BY <1>1 DEF InvoiceRight
<1>3. PICK g1 \in Nat, g2 \in Nat, d \in Nat :
         g1 = MaxCostGrace /\ g2 = LastNoteGrace /\ d = Delay /\ d <= g1 /\ d <= g2
  BY PayConstants, GraceAssumption
<1>4. invoice.total = MaxCost(x - start) /\ invoice.total \in Int
  BY <1>1, <1>2, ChargeIsMaxCost, MaxCostMonotone
<1>5. invoice.total <= MaxCost(now + MaxCostGrace)
  <2>1. x - start <= t + g1
    BY <1>2
  <2> QED
    BY <1>1, <1>3, <1>4, <2>1, MaxCostMonotone
<1>6. Preceded \subseteq {a}
  <2>1. ASSUME NEW b \in Rented, notes[b] # <<>>
        PROVE  b \in Hired
    BY <2>1 DEF Timely, Hired
  <2> QED
    BY <2>1 DEF Preceded
<1>7. CASE Preceded = {}
  <2>1. DOMAIN [b \in Preceded |-> invoice.created - Last(notes[b]).created] = {}
    BY <1>7
  <2>2. TimeSince = 0
    BY <2>1, SumOfNone DEF TimeSince
  <2> QED
    BY <1>5, <2>2
<1>8. CASE Preceded = {a}
  <2>1. notes[a] # <<>> /\ notes[a] \in Seq(Note)
    BY <1>8, TextsAre DEF Preceded
  <2>2. PICK n \in Nat : n = Len(notes[a]) /\ n \in 1..Len(notes[a])
    BY <2>1, EmptySeq
  <2>3. PICK last \in Note : /\ last = Last(notes[a]) /\ last = notes[a][n]
                             /\ n \in 1..Len(Texts(a)) /\ Texts(a)[n] = Text(last)
    BY <2>2, CollectedTexts DEF Last
  <2>4. TextRight(Texts(a), n, begun[a])
    BY <2>3 DEF Billing
  <2>5. PICK x2 \in Nat, y2 \in Nat : x2 = last.issued /\ y2 = last.created
    BY DEF Note
  <2>6. x2 >= start /\ last.total = Charge(x2 - start)
    BY <1>1, <2>3, <2>4, <2>5 DEF TextRight, Text
  <2>a. Timely(a)
    OBVIOUS
  <2>7. x2 <= y2 /\ y2 - x2 <= d
    BY <1>3, <2>2, <2>3, <2>5, <2>a DEF Timely
  <2>8. last.total = MaxCost(x2 - start) /\ last.total \in Nat
    BY <2>6, ChargeIsMaxCost DEF Note
  <2>9. (x - start) - (x2 - start) <= y - y2 + g2
    <3>1. x <= y /\ y2 <= x2 + d /\ d <= g2
      BY <1>2, <1>3, <2>7
    <3> QED
      BY <3>1
  <2>10. MaxCost(x - start) - MaxCost(x2 - start) <= MaxCost(y - y2 + g2)
    BY <2>9, MaxCostOfPeriod
  <2>11. TimeSince = y - y2
    <3> DEFINE f == [b \in Preceded |-> invoice.created - Last(notes[b]).created]
    <3>1. DOMAIN f = {a} /\ f[a] = y - y2
      BY <1>1, <1>8, <2>3, <2>5
    <3> HIDE DEF f
    <3>2. SumFunction(f) = f[a]
      BY <3>1, SumOfOne
    <3> QED
      BY <3>1, <3>2 DEF TimeSince, f
  <2>12. AmountSince = invoice.total - last.total
    <3> DEFINE f == [b \in Preceded |-> Last(notes[b]).total]
    <3>1. DOMAIN f = {a} /\ f[a] = last.total
      BY <1>8, <2>3
    <3> HIDE DEF f
    <3>2. SumFunction(f) = f[a]
      BY <2>8, <3>1, SumOfOne
    <3> QED
      BY <3>1, <3>2 DEF AmountSince, f
  <2> QED
    BY <1>3, <1>4, <1>5, <2>8, <2>10, <2>11, <2>12 DEF SinceLast
<1> QED
  BY <1>6, <1>7, <1>8

LEMMA InvoiceStaysRight ==
  ASSUME PayTypeOK, PayTypeOK', PayNext, InvoiceRight, \A a \in Rented : Timely(a)
  PROVE  InvoiceRight'
<1>0. /\ invoice = [state |-> invoice.state, total |-> invoice.total,
                    issued |-> invoice.issued, created |-> invoice.created]
      /\ invoice.issued \in Nat /\ invoice.created \in Nat /\ now \in Nat
      /\ DOMAIN begun = Rented /\ NoInvoice.state = "none"
  BY DEF PayTypeOK, NoInvoice
<1>1. ASSUME UNCHANGED <<invoice, begun, provider>>, now' = now
      PROVE  InvoiceRight'
  BY <1>1 DEF InvoiceRight, Hired, Charge, Coefficient, vector, Used
<1>2. ASSUME NEW a \in Rented, StartActivity(a)
      PROVE  InvoiceRight'
  BY <1>2 DEF InvoiceRight, StartActivity
<1>3. CASE SendInvoice
  <2> DEFINE f == [a \in Hired |-> Charge(now - begun[a])]
  <2>1. /\ Hired # {} /\ Hired' = Hired /\ now' = now /\ begun' = begun /\ provider' = provider
        /\ invoice'.state = "sent" /\ invoice'.issued = now
        /\ invoice'.total = SumFunction(f)
    BY <1>3 DEF SendInvoice, NoInvoice, Hired
  <2>2. ASSUME NEW a \in Rented, Hired = {a}
        PROVE  now >= begun[a] /\ SumFunction(f) = Charge(now - begun[a])
    <3>1. Timely(a) /\ begun[a] # NoTime
      BY <2>2 DEF Hired
    <3>2. begun[a] <= now /\ begun[a] \in Nat /\ now \in Nat
      BY <3>1 DEF Timely, PayTypeOK
    <3>3. now - begun[a] \in Nat
      BY <3>2
    <3>4. Charge(now - begun[a]) \in Nat
      BY <3>3, UsedNat
    <3>5. DOMAIN f = {a} /\ f[a] = Charge(now - begun[a])
      BY <2>2
    <3> HIDE DEF f
    <3> QED
      BY <3>2, <3>4, <3>5, SumOfOne
  <2> HIDE DEF f
  <2>3. \A t : Charge(t)' = Charge(t)
    BY <2>1 DEF Charge, Coefficient, vector, Used
  <2> QED
    BY <1>0, <2>1, <2>2, <2>3 DEF InvoiceRight
<1>4. CASE CollectInvoice
  <2>1. /\ Hired' = Hired /\ now' = now /\ begun' = begun /\ provider' = provider
        /\ invoice.state = "sent" /\ invoice'.state = "new" /\ invoice'.issued = invoice.issued
        /\ invoice'.total = invoice.total /\ invoice'.created = now
    BY <1>0, <1>4 DEF CollectInvoice, Hired
  <2>2. \A t : Charge(t)' = Charge(t)
    BY <2>1 DEF Charge, Coefficient, vector, Used
  <2> QED
    BY <1>0, <2>1, <2>2 DEF InvoiceRight
<1>5. CASE HandleInvoice
  <2>1. /\ Hired' = Hired /\ now' = now /\ begun' = begun /\ provider' = provider
        /\ invoice.state = "new" /\ invoice'.state \in {"accepted", "refused"}
        /\ invoice'.issued = invoice.issued
        /\ invoice'.total = invoice.total /\ invoice'.created = invoice.created
    BY <1>0, <1>5 DEF HandleInvoice, Hired
  <2>2. \A t : Charge(t)' = Charge(t)
    BY <2>1 DEF Charge, Coefficient, vector, Used
  <2> QED
    BY <1>0, <2>1, <2>2 DEF InvoiceRight
<1>6. CASE Tick
  <2>1. /\ Hired' = Hired /\ now' = now + 1 /\ begun' = begun /\ provider' = provider
        /\ invoice' = invoice
    BY <1>6 DEF Tick, Hired
  <2>2. \A t : Charge(t)' = Charge(t)
    BY <2>1 DEF Charge, Coefficient, vector, Used
  <2>3. \A t \in Nat : t <= now => t <= now'
    BY <1>0, <2>1
  <2> QED
    BY <1>0, <2>1, <2>2, <2>3 DEF InvoiceRight
<1>7. ASSUME NEW a \in Rented, \/ ActivityCreated(a) \/ CollectNote(a) \/ HandleNote(a)
                               \/ \E payable \in BOOLEAN : SendNote(a, payable)
      PROVE  InvoiceRight'
  BY <1>1, <1>7 DEF ActivityCreated, CollectNote, HandleNote, SendNote
<1> QED
  BY <1>2, <1>3, <1>4, <1>5, <1>6, <1>7 DEF PayNext

LEMMA HonestStaysPaid ==
  ASSUME PayInv, PayTypeOK', PayNext
  PROVE  HonestPaid'
<1>0. /\ PayTypeOK /\ InvoiceRight /\ HonestPaid
      /\ \A a \in Rented : Timely(a) /\ Billing(a)
  BY DEF PayInv
<1>1. provider' = provider
  BY DEF PayNext, StartActivity, ActivityCreated, CollectNote, HandleNote, SendNote,
         SendInvoice, CollectInvoice, HandleInvoice, Tick
<1> SUFFICES ASSUME ~provider.hasty, AllKnown
             PROVE  /\ \A a \in Rented : \A i \in DOMAIN notes'[a] :
                          notes'[a][i].state # "refused"
                    /\ invoice'.state = "refused" => Cardinality(Hired') > 1
  BY <1>1 DEF HonestPaid, AllKnown, vector
<1>2. \A a \in Rented : \A i \in DOMAIN notes[a] : notes[a][i].state # "refused"
  BY <1>0 DEF HonestPaid
<1>3. ASSUME NEW a \in Rented, NEW i \in DOMAIN notes'[a]
      PROVE  notes'[a][i].state # "refused"
  <2>0. DOMAIN notes = Rented
    BY <1>0 DEF PayTypeOK
  <2>1. ASSUME NEW b \in Rented, HandleNote(b)
        PROVE  notes'[a][i].state # "refused"
    <3>1. PICK k \in DOMAIN notes[b] :
             notes' = [notes EXCEPT ![b][k].state =
                IF CostOk(notes[b][k], SubSeq(notes[b], 1, k - 1), created[b])
                   /\ RateOk(notes[b][k], SubSeq(notes[b], 1, k - 1), created[b])
                THEN "accepted" ELSE "refused"]
      BY <2>1 DEF HandleNote
    <3>2. k \in 1..Len(notes[b]) /\ notes[b][k] \in Note
      BY <1>0, ElementOfSeq, LenProperties DEF PayTypeOK
    <3>3. notes' = [notes EXCEPT ![b][k].state = "accepted"]
      BY <1>0, <3>1, <3>2, NoteAccepted
    <3>4. CASE a # b
      BY <1>2, <2>0, <3>3, <3>4
    <3>5. CASE a = b
      <4>1. notes'[a] = [notes[a] EXCEPT ![k] = [notes[a][k] EXCEPT !.state = "accepted"]]
        BY <2>0, <3>3, <3>5
      <4>2. [notes[a][k] EXCEPT !.state = "accepted"].state = "accepted"
        BY <3>2, <3>5 DEF Note
      <4> QED
        BY <1>2, <4>1, <4>2
    <3> QED
      BY <3>4, <3>5
  <2>2. ASSUME NEW b \in Rented, CollectNote(b)
        PROVE  notes'[a][i].state # "refused"
    <3>1. CASE a # b
      BY <1>2, <2>0, <2>2, <3>1 DEF CollectNote
    <3>2. CASE a = b
      <4>1. PICK first \in Note : first = Head(sent[a]) /\ first.state = "new"
        <5>1. sent[a] # <<>> /\ sent[a] \in Seq(Note)
          BY <1>0, <2>2, <3>2 DEF CollectNote, PayTypeOK
        <5>2. Head(sent[a]) = sent[a][1] /\ 1 \in 1..Len(sent[a])
          BY <5>1, EmptySeq
        <5> QED
          BY <1>0, <5>1, <5>2, ElementOfSeq DEF Timely
      <4>2. PICK note \in Note : /\ notes'[a] = Append(notes[a], note)
                                 /\ note.state = "new"
        <5>1. [first EXCEPT !.created = now] \in Note
              /\ [first EXCEPT !.created = now].state = "new"
          BY <1>0, <4>1 DEF Note, PayTypeOK
        <5> QED
          BY <2>0, <2>2, <3>2, <4>1, <5>1 DEF CollectNote
      <4>3. notes[a] \in Seq(Note)
        BY <1>0 DEF PayTypeOK
      <4>4. notes'[a] = [j \in 1..(Len(notes[a]) + 1) |->
                            IF j = Len(notes[a]) + 1 THEN note ELSE notes[a][j]]
        BY <4>2, <4>3, AppendIs
      <4>5. PICK n \in Nat : n = Len(notes[a]) /\ DOMAIN notes[a] = 1..n
        BY <4>3, LenProperties
      <4> QED
        BY <1>2, <4>2, <4>4, <4>5
    <3> QED
      BY <3>1, <3>2
  <2>3. CASE notes' = notes
    BY <1>2, <2>3
  <2> QED
    BY <2>1, <2>2, <2>3 DEF PayNext, StartActivity, ActivityCreated, SendNote,
         SendInvoice, CollectInvoice, HandleInvoice, Tick
<1>4. ASSUME invoice'.state = "refused"
      PROVE  Cardinality(Hired') > 1
  <2>0. invoice = [state |-> invoice.state, total |-> invoice.total,
                   issued |-> invoice.issued, created |-> invoice.created]
    BY <1>0 DEF PayTypeOK
  <2>1. CASE HandleInvoice
    <3>1. Hired' = Hired /\ invoice.state = "new"
      BY <2>1 DEF HandleInvoice, Hired
    <3>2. IsFiniteSet(Hired)
      BY PayConstants, FS_Subset DEF Hired
    <3>3. Hired # {}
      BY <1>0, <3>1 DEF InvoiceRight
    <3>4. ASSUME NEW a \in Rented, Hired = {a}
          PROVE  FALSE
      <4>1. invoice' = [invoice EXCEPT !.state = "accepted"]
        BY <1>0, <2>1, <3>1, <3>4, InvoiceAccepted DEF HandleInvoice
      <4> QED
        BY <1>4, <2>0, <4>1
    <3>5. Cardinality(Hired) \in Nat /\ Cardinality(Hired) # 0
      BY <3>2, <3>3, FS_CardinalityType, FS_EmptySet
    <3>6. Cardinality(Hired) # 1
      <4>1. \A a \in Hired : a \in Rented
        BY DEF Hired
      <4> QED
        BY <3>2, <3>4, <4>1, FS_Singleton
    <3> QED
      BY <3>1, <3>5, <3>6
  <2>2. CASE ~HandleInvoice
    <3>1. invoice.state = "refused" /\ begun' = begun
      BY <1>4, <2>0, <2>2 DEF PayNext, StartActivity, ActivityCreated, CollectNote, HandleNote,
           SendNote, SendInvoice, CollectInvoice, Tick, NoInvoice
    <3> QED
      BY <1>0, <3>1 DEF HonestPaid, Hired
  <2> QED
    BY <2>1, <2>2
<1> QED
  BY <1>3, <1>4

LEMMA PayInvInit == PayInit => PayInv
<1> SUFFICES ASSUME PayInit PROVE PayInv
  OBVIOUS
<1>1. PayTypeOK
  BY PayConstants, EmptySeq DEF PayInit, PayTypeOK, NoInvoice
<1>2. InvoiceRight /\ HonestPaid
  BY DEF PayInit, InvoiceRight, HonestPaid, NoInvoice
<1>3. ASSUME NEW a \in Rented
      PROVE  Timely(a) /\ Billing(a)
  <2>1. notes[a] = <<>> /\ sent[a] = <<>> /\ begun[a] = NoTime /\ created[a] = NoTime
    BY DEF PayInit
  <2>2. Timely(a)
    BY <2>1, EmptySeq DEF Timely
  <2>3. Len(Texts(a)) = 0
    BY <1>1, <2>1, <2>2, NothingBilled
  <2>4. PayablesOf(Texts(a), 0) = 0
    BY FS_EmptySet DEF PayablesOf
  <2> QED
    BY <2>2, <2>3, <2>4 DEF Billing, LastPayable
<1> QED
  BY <1>1, <1>2, <1>3 DEF PayInv

LEMMA PayInvInductive == PayInv /\ [PayNext]_payVars => PayInv'
<1> SUFFICES ASSUME PayInv, [PayNext]_payVars PROVE PayInv'
  OBVIOUS
<1>1. CASE PayNext
  <2>1. PayTypeOK'
    BY <1>1, PayTypesStay DEF PayInv
  <2>2. InvoiceRight' /\ HonestPaid'
    BY <1>1, <2>1, InvoiceStaysRight, HonestStaysPaid DEF PayInv
  <2>3. \A a \in Rented : Timely(a)' /\ Billing(a)'
    BY <1>1, <2>1, TimelyStays, BillingStays DEF PayInv
  <2> QED
    BY <2>1, <2>2, <2>3 DEF PayInv
<1>2. CASE UNCHANGED payVars
  <2>1. PayTypeOK' /\ InvoiceRight' /\ HonestPaid'
    BY <1>2 DEF PayInv, payVars, PayTypeOK, InvoiceRight, HonestPaid, Hired, Charge, Coefficient,
                vector, Used, AllKnown
  <2>2. \A a \in Rented : Timely(a)'
    BY <1>2 DEF PayInv, payVars, Timely
  <2>3. \A a \in Rented : Billing(a)'
    <3> TAKE a \in Rented
    <3>1. PayTypeOK /\ Billing(a)
      BY DEF PayInv
    <3>2. Texts(a)' = Texts(a) /\ begun' = begun /\ provider' = provider
      BY <1>2 DEF payVars, Texts
    <3> QED
      BY <3>1, <3>2, BillingKept
  <2> QED
    BY <2>1, <2>2, <2>3 DEF PayInv
<1> QED
  BY <1>1, <1>2

(***************************************************************************)
(* Whatever the delays within the grace, a provider that bills what was    *)
(* used, in its intervals, is paid every debit note, and the invoice of    *)
(* its only activity (DebitNote.validate_and_accept,                       *)
(* Invoice.validate_and_accept).                                           *)
(***************************************************************************)
THEOREM PayHonestPaid == PaySpec => []HonestPaid
<1>1. PayInv => HonestPaid
  BY DEF PayInv
<1> QED
  BY <1>1, PayInvInit, PayInvInductive, PTL DEF PaySpec

===============================================================================
