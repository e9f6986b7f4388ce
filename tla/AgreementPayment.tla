--------------------------- MODULE AgreementPayment ---------------------------
(***************************************************************************)
(* DefaultAgreementManager (src/golem/managers/agreement/default.py) and   *)
(* DefaultPaymentManager (src/golem/managers/payment/default.py) with the  *)
(* agreements they follow (resources/agreement/agreement.py), connected by *)
(* the event bus: it handles one event after the other, and an event stays *)
(* at the head of the queue while its handler runs (EventBus models the    *)
(* bus itself).                                                            *)
(*                                                                         *)
(* External: what yagna and the provider make of an agreement, and when    *)
(* they send invoices and debit notes.  The managers are stopped in the    *)
(* order of the `async with` of the examples: first the activity manager,  *)
(* whose calls of get_agreement() are over then, the agreement manager and *)
(* at last the payment manager.                                            *)
(***************************************************************************)
EXTENDS Naturals, Sequences, FiniteSets, SequencesExt

CONSTANTS
    Agreements,
    Getters,    \* tasks that call get_agreement() and use what they get
    Kinds,      \* the documents that providers send
    NoAgreement \* what a getter has before

ASSUME AgreementAssumption ==
    /\ IsFiniteSet(Agreements)
    /\ IsFiniteSet(Getters)
    /\ "invoice" \in Kinds /\ Kinds \subseteq {"invoice", "debit"}
    /\ NoAgreement \notin Agreements

Documents == Kinds \X Agreements

\* Who runs close_all(): the handler of ActivityClosed, the stop() of the
\* agreement manager or that of the payment manager.
Closers == {"bus", "am", "pm"}

VARIABLES
    yagna,      \* yagna[g]: agreement g for yagna and the provider
    approved,   \* approved[g]: approved_at is set
    activity,   \* activity[g]: the activity of g
    doc,        \* doc[d]: what became of invoice or debit note d
    getter,     \* getter[u]: where task u is
    got,        \* got[u]: the agreement it works on
    queue,      \* the events of the bus
    handler,    \* where the handler of Head(queue) is
    closing,    \* closing[c][g]: where c is with close_all() of g
    list,       \* _agreements of the agreement manager
    once,       \* the agreements with a subscription to ActivityClosed
    known,      \* _agreements of the payment manager
    noneFlag,   \* _no_agreements_event is set
    am,         \* stop() of the agreement manager
    pm,         \* stop() of the payment manager
    \* history, read by the properties only
    handed,     \* the agreements get_agreement() returned
    saved,      \* those the payment manager saved, before the wait was over
    timedOut,   \* the wait for invoices timed out
    gaveUp      \* the agreements that a close_all() could not terminate

remote == <<yagna, approved, activity, doc>>
getters == <<getter, got, handed>>
bus == <<queue, handler>>
managers == <<list, once, known, noneFlag, am, pm, saved, timedOut>>
vars == <<remote, getters, bus, managers, closing, gaveUp>>

Init ==
    /\ yagna = [g \in Agreements |-> "none"]
    /\ approved = [g \in Agreements |-> FALSE]
    /\ activity = [g \in Agreements |-> "none"]
    /\ doc = [d \in Documents |-> "none"]
    /\ getter = [u \in Getters |-> "idle"]
    /\ got = [u \in Getters |-> NoAgreement]
    /\ queue = <<>>
    /\ handler = "idle"
    /\ closing = [c \in Closers |-> [g \in Agreements |-> "no"]]
    /\ list = {} /\ once = {} /\ known = {}
    /\ noneFlag = TRUE
    /\ am = "run" /\ pm = "run"
    /\ handed = {} /\ saved = {}
    /\ timedOut = FALSE
    /\ gaveUp = {}

Emit(e) == queue' = Append(queue, e)

-----------------------------------------------------------------------------
(* get_agreement() and its caller. *)

\* A draft proposal is there: create_agreement(), which emits NewAgreement.
Create(u, g) ==
    /\ am = "run"
    /\ getter[u] \in {"idle", "draft"}
    /\ yagna[g] = "none"
    /\ yagna' = [yagna EXCEPT ![g] = "proposal"]
    /\ getter' = [getter EXCEPT ![u] = "made"]
    /\ got' = [got EXCEPT ![u] = g]
    /\ Emit(<<"NewAgreement", g>>)
    /\ UNCHANGED <<approved, activity, doc, handed, handler, managers, closing, gaveUp>>

\* confirm() returned.
Confirm(u) ==
    /\ getter[u] = "made"
    /\ yagna[got[u]] = "proposal"
    /\ yagna' = [yagna EXCEPT ![got[u]] = "pending"]
    /\ getter' = [getter EXCEPT ![u] = "wait"]
    /\ UNCHANGED <<approved, activity, doc, got, handed, bus, managers, closing, gaveUp>>

\* confirm() or wait_for_approval() raises: another proposal is tried.
GetRaises(u) ==
    /\ getter[u] \in {"made", "wait"}
    /\ getter' = [getter EXCEPT ![u] = "draft"]
    /\ UNCHANGED <<remote, got, handed, bus, managers, closing, gaveUp>>

\* The task is cancelled: stop() of an activity manager.
GetCancelled(u) ==
    /\ getter[u] \in {"draft", "made", "wait"}
    /\ getter' = [getter EXCEPT ![u] = "over"]
    /\ UNCHANGED <<remote, got, handed, bus, managers, closing, gaveUp>>

\* _agreements.append()
Tracked(g) == list \cup {g}

\* Mutant: there is no subscription.
RegisteredNot(g) == once

\* on_once()
Registered(g) == once \cup {g}

\* The agreement is returned.
HandOut(u, ok) ==
    /\ getter' = [getter EXCEPT ![u] = "has"]
    /\ approved' = [approved EXCEPT ![got[u]] = ok]
    /\ once' = Registered(got[u])
    /\ list' = Tracked(got[u])
    /\ handed' = handed \cup {got[u]}
    /\ UNCHANGED <<yagna, activity, doc, got, bus, known, noneFlag, am, pm, saved,
                   timedOut, closing, gaveUp>>

\* wait_for_approval() returned True, or False for a 410: nobody looks.
Approved(u) ==
    /\ getter[u] = "wait"
    /\ yagna[got[u]] = "approved"
    /\ HandOut(u, TRUE)

NotApproved(u) ==
    /\ getter[u] = "wait"
    /\ yagna[got[u]] \in {"rejected", "terminated"}
    /\ HandOut(u, FALSE)

\* create_activity() returned.
CreateActivity(u) ==
    /\ getter[u] = "has"
    /\ yagna[got[u]] = "approved"
    /\ activity[got[u]] = "none"
    /\ activity' = [activity EXCEPT ![got[u]] = "live"]
    /\ getter' = [getter EXCEPT ![u] = "uses"]
    /\ UNCHANGED <<yagna, approved, doc, got, handed, bus, managers, closing, gaveUp>>

\* create_activity() raises or is not called; the task may go on with another
\* agreement (single_use.py:37-50).
Abandon(u) ==
    /\ getter[u] = "has"
    /\ getter' = [getter EXCEPT ![u] = "idle"]
    /\ UNCHANGED <<remote, got, handed, bus, managers, closing, gaveUp>>

\* Activity.destroy(), which emits ActivityClosed.
DestroyActivity(u) ==
    /\ getter[u] = "uses"
    /\ activity' = [activity EXCEPT ![got[u]] = "destroyed"]
    /\ Emit(<<"ActivityClosed", got[u]>>)
    /\ getter' = [getter EXCEPT ![u] = "over"]
    /\ UNCHANGED <<yagna, approved, doc, got, handed, handler, managers, closing, gaveUp>>

-----------------------------------------------------------------------------
(* yagna and the provider. *)

\* The provider answers, or ends the agreement.
Answer(g, state) ==
    /\ \/ yagna[g] = "pending" /\ state \in {"approved", "rejected"}
       \/ yagna[g] = "approved" /\ state = "terminated"
    /\ yagna' = [yagna EXCEPT ![g] = state]
    /\ UNCHANGED <<approved, activity, doc, getters, bus, managers, closing, gaveUp>>

\* A document is collected: an invoice once the agreement has ended, a debit
\* note while there is an activity.
Collected(d) ==
    /\ doc[d] = "none"
    /\ IF d[1] = "invoice" THEN yagna[d[2]] = "terminated" ELSE activity[d[2]] = "live"
    /\ doc' = [doc EXCEPT ![d] = "queued"]
    /\ Emit(d)
    /\ UNCHANGED <<yagna, approved, activity, getters, handler, managers, closing, gaveUp>>

-----------------------------------------------------------------------------
(* The event bus and the handlers. *)

Arrives(type, g) ==
    /\ handler = "idle"
    /\ queue # <<>>
    /\ Head(queue) = <<type, g>>

\* The payment manager is subscribed until its stop() clears the handlers.
Subscribed == pm \in {"run", "wait", "over", "close", "raised"}

\* Mutant: the event is not cleared.
FlagStays == noneFlag

\* _no_agreements_event.clear()
FlagCleared == FALSE

\* _handle_new_agreement
NewAgreement(g) ==
    /\ Arrives("NewAgreement", g)
    /\ queue' = Tail(queue)
    /\ IF Subscribed
       THEN /\ known' = known \cup {g}
            /\ noneFlag' = FlagCleared
            /\ saved' = IF pm \in {"run", "wait"} THEN saved \cup {g} ELSE saved
       ELSE UNCHANGED <<known, noneFlag, saved>>
    /\ UNCHANGED <<remote, getters, handler, list, once, am, pm, timedOut, closing, gaveUp>>

\* _terminate_agreement, to the first await of close_all().
ActivityClosed(g) ==
    /\ Arrives("ActivityClosed", g)
    /\ IF g \in once
       THEN /\ handler' = "close"
            /\ list' = list \ {g}
            /\ closing' = [closing EXCEPT !["bus"][g] = "terminate"]
            /\ queue' = queue
       ELSE /\ queue' = Tail(queue)
            /\ UNCHANGED <<handler, list, closing>>
    /\ UNCHANGED <<remote, getters, once, known, noneFlag, am, pm, saved, timedOut,
                   gaveUp>>

\* The handler is through, and its subscription is removed.
ActivityClosedDone(g) ==
    /\ handler = "close"
    /\ Head(queue) = <<"ActivityClosed", g>>
    /\ closing["bus"][g] = "done"
    /\ handler' = "idle"
    /\ queue' = Tail(queue)
    /\ once' = once \ {g}
    /\ UNCHANGED <<remote, getters, list, known, noneFlag, am, pm, saved, timedOut,
                   closing, gaveUp>>

\* _handle_invoice_payment and _handle_pay_debit_note_payment, to get_data().
Document(d) ==
    /\ Arrives(d[1], d[2])
    /\ IF Subscribed
       THEN handler' = "data" /\ UNCHANGED <<queue, doc>>
       ELSE handler' = "idle" /\ queue' = Tail(queue) /\ doc' = [doc EXCEPT ![d] = "dropped"]
    /\ UNCHANGED <<yagna, approved, activity, getters, managers, closing, gaveUp>>

\* The handler of d returns or raises.
Handled(d, end) ==
    /\ handler' = "idle"
    /\ queue' = Tail(queue)
    /\ doc' = [doc EXCEPT ![d] = end]

\* get_data() raises.
DataRaises(d) ==
    /\ handler = "data" /\ Head(queue) = d
    /\ Handled(d, "failed")
    /\ UNCHANGED <<yagna, approved, activity, getters, managers, closing, gaveUp>>

\* get_data() returns: only documents of known agreements are looked at.
Data(d) ==
    /\ handler = "data" /\ Head(queue) = d
    /\ IF d[2] \in known
       THEN handler' = "accept" /\ UNCHANGED <<queue, doc>>
       ELSE Handled(d, "ignored")
    /\ UNCHANGED <<yagna, approved, activity, getters, managers, closing, gaveUp>>

\* How validate_and_accept() may return: without accepting, if the document
\* is not valid.  A released allocation makes the API call fail.
Results(d) ==
    {"refused"} \cup (IF approved[d[2]] /\ pm # "stopped" THEN {"accepted"} ELSE {})

\* After validate_and_accept(), of an invoice only, _remove_agreement().
Counts(d, end) == d[1] = "invoice"

\* validate_and_accept() returns.
Accept(d, end) ==
    /\ handler = "accept" /\ Head(queue) = d
    /\ end \in Results(d)
    /\ Handled(d, end)
    /\ IF Counts(d, end)
       THEN /\ known' = known \ {d[2]}
            /\ noneFlag' = (noneFlag \/ (d[2] \in known /\ known = {d[2]}))
       ELSE UNCHANGED <<known, noneFlag>>
    /\ UNCHANGED <<yagna, approved, activity, getters, list, once, am, pm, saved,
                   timedOut, closing, gaveUp>>

\* validate_and_accept() raises.
AcceptRaises(d) ==
    /\ handler = "accept" /\ Head(queue) = d
    /\ Handled(d, "failed")
    /\ UNCHANGED <<yagna, approved, activity, getters, managers, closing, gaveUp>>

-----------------------------------------------------------------------------
(* close_all(): terminate(), then destroy() of the activities, each tried  *)
(* four times.                                                             *)

\* terminate() succeeds for an approved agreement; a 410 for one that has
\* ended is as good.
TerminateOk(c, g) ==
    /\ closing[c][g] = "terminate"
    /\ yagna[g] \in {"approved", "terminated", "rejected"}
    /\ yagna' = [yagna EXCEPT ![g] = IF @ = "approved" THEN "terminated" ELSE @]
    /\ closing' = [closing EXCEPT ![c][g] = "destroy"]
    /\ UNCHANGED <<approved, activity, doc, getters, bus, managers, gaveUp>>

\* Four attempts failed, because the agreement is neither confirmed nor
\* approved or for another reason.
TerminateGivesUp(c, g) ==
    /\ closing[c][g] = "terminate"
    /\ closing' = [closing EXCEPT ![c][g] = "destroy"]
    /\ gaveUp' = gaveUp \cup {g}
    /\ UNCHANGED <<remote, getters, bus, managers>>

\* The activity, if any, is destroyed, again if it was before, or four
\* attempts fail.
DestroyAll(c, g, ok) ==
    /\ closing[c][g] = "destroy"
    /\ closing' = [closing EXCEPT ![c][g] = "done"]
    /\ IF ok /\ activity[g] # "none"
       THEN /\ activity' = [activity EXCEPT ![g] = "destroyed"]
            /\ Emit(<<"ActivityClosed", g>>)
       ELSE UNCHANGED <<activity, queue>>
    /\ UNCHANGED <<yagna, approved, doc, getters, handler, managers, gaveUp>>

\* terminate() raises what close_all() does not catch: a 404, a lost
\* connection.  What waits for it raises; a handler is through.
CloseRaises(c, g) ==
    /\ closing[c][g] = "terminate"
    /\ closing' = [closing EXCEPT ![c][g] = IF c = "bus" THEN "no" ELSE "done"]
    /\ gaveUp' = gaveUp \cup {g}
    /\ IF c = "bus"
       THEN handler' = "idle" /\ queue' = Tail(queue)
       ELSE UNCHANGED bus
    /\ am' = IF c = "am" /\ am = "close" THEN "raised" ELSE am
    /\ pm' = IF c = "pm" /\ pm = "close" THEN "raised" ELSE pm
    /\ UNCHANGED <<remote, getters, list, once, known, noneFlag, saved, timedOut>>

\* gather() is through.
Closed(c) == \A g \in Agreements : closing[c][g] \in {"no", "done"}

CloseSet(c, S) ==
    closing' = [closing EXCEPT ![c] = [g \in Agreements |-> IF g \in S THEN "terminate" ELSE @[g]]]

-----------------------------------------------------------------------------
(* The two stop(). *)

\* Nobody is in get_agreement().
Settled == \A u \in Getters : getter[u] \notin {"draft", "made", "wait"}

\* The list is empty: "All agreements are already terminated".
AmStopEmpty ==
    /\ am = "run"
    /\ Settled
    /\ list = {}
    /\ am' = "stopped"
    /\ UNCHANGED <<remote, getters, bus, list, once, known, noneFlag, pm, saved,
                   timedOut, closing, gaveUp>>

\* A gather of close_all().
AmStop ==
    /\ am = "run"
    /\ Settled
    /\ list # {}
    /\ am' = "close"
    /\ CloseSet("am", list)
    /\ UNCHANGED <<remote, getters, bus, list, once, known, noneFlag, pm, saved,
                   timedOut, gaveUp>>

AmStopped ==
    /\ am = "close"
    /\ Closed("am")
    /\ am' = "stopped"
    /\ UNCHANGED <<remote, getters, bus, list, once, known, noneFlag, pm, saved,
                   timedOut, closing, gaveUp>>

\* stop() of the payment manager, called when that of the agreement manager
\* is through.
PmStop ==
    /\ pm = "run"
    /\ am \in {"stopped", "raised"}
    /\ pm' = "wait"
    /\ UNCHANGED <<remote, getters, bus, list, once, known, noneFlag, am, saved,
                   timedOut, closing, gaveUp>>

\* Mutant: only what is known when there is nothing to wait for is closed.
ToCloseNone == IF noneFlag THEN known ELSE {}

\* The agreements that are closed: those known when the wait is over.
ToClose == known

\* _no_agreements_event.wait() returns.
WaitOver == noneFlag

\* The wait is over, or takes too long; stop() goes on a little later.
PmWaited(timeout) ==
    /\ pm = "wait"
    /\ timeout \/ WaitOver
    /\ timedOut' = timeout
    /\ pm' = "over"
    /\ UNCHANGED <<remote, getters, bus, list, once, known, noneFlag, am, saved, closing, gaveUp>>

\* A gather of close_all().
PmClose ==
    /\ pm = "over"
    /\ ToClose # {}
    /\ pm' = "close"
    /\ CloseSet("pm", ToClose)
    /\ UNCHANGED <<remote, getters, bus, list, once, known, noneFlag, am, saved,
                   timedOut, gaveUp>>

\* _agreements.clear()
Cleared == {}

\* All is closed, or there is nothing to close and no other task runs in
\* between: the agreements are forgotten, the handlers removed, and the
\* allocation is being released.
PmRelease ==
    /\ \/ pm = "over" /\ ToClose = {}
       \/ pm = "close" /\ Closed("pm")
    /\ known' = Cleared
    /\ pm' = "release"
    /\ UNCHANGED <<remote, getters, bus, list, once, noneFlag, am, saved, timedOut,
                   closing, gaveUp>>

\* The allocation is released.
PmStopped ==
    /\ pm = "release"
    /\ pm' = "stopped"
    /\ UNCHANGED <<remote, getters, bus, list, once, known, noneFlag, am, saved,
                   timedOut, closing, gaveUp>>

\* The release fails.
PmRaises ==
    /\ pm = "release"
    /\ pm' = "unreleased"
    /\ UNCHANGED <<remote, getters, bus, list, once, known, noneFlag, am, saved,
                   timedOut, closing, gaveUp>>

-----------------------------------------------------------------------------

Get(u) ==
    \/ \E g \in Agreements : Create(u, g)
    \/ Confirm(u) \/ GetRaises(u) \/ GetCancelled(u) \/ Approved(u) \/ NotApproved(u)
    \/ CreateActivity(u) \/ Abandon(u) \/ DestroyActivity(u)

HandleDocument(d) ==
    \/ Document(d) \/ DataRaises(d) \/ Data(d) \/ AcceptRaises(d)
    \/ \E end \in {"accepted", "refused"} : Accept(d, end)

Close(c, g) ==
    \/ TerminateOk(c, g) \/ TerminateGivesUp(c, g) \/ CloseRaises(c, g)
    \/ \E ok \in BOOLEAN : DestroyAll(c, g, ok)

Stop ==
    \/ AmStopEmpty \/ AmStop \/ AmStopped
    \/ PmStop \/ PmClose \/ PmRelease \/ PmStopped \/ PmRaises
    \/ \E timeout \in BOOLEAN : PmWaited(timeout)

Handle(g) == NewAgreement(g) \/ ActivityClosed(g) \/ ActivityClosedDone(g)

Next ==
    \/ \E u \in Getters : Get(u)
    \/ \E g \in Agreements :
        \/ \E state \in {"approved", "rejected", "terminated"} : Answer(g, state)
        \/ Handle(g)
        \/ \E c \in Closers : Close(c, g)
    \/ \E d \in Documents : Collected(d) \/ HandleDocument(d)
    \/ Stop

Spec == Init /\ [][Next]_vars

\* The bus handles its events, API calls end, and the timeout of the wait
\* for invoices passes.
Fairness ==
    /\ \A g \in Agreements :
        /\ WF_vars(Handle(g))
        /\ \A c \in Closers : WF_vars(Close(c, g))
    /\ \A d \in Documents : WF_vars(HandleDocument(d))
    /\ WF_vars(AmStopped)
    /\ WF_vars(\E timeout \in BOOLEAN : PmWaited(timeout))
    /\ WF_vars(PmClose \/ PmRelease) /\ WF_vars(PmStopped \/ PmRaises)

FairSpec == Spec /\ Fairness

-----------------------------------------------------------------------------
(* Properties. *)

TypeOK ==
    /\ yagna \in [Agreements -> {"none", "proposal", "pending", "approved", "rejected",
                                 "terminated"}]
    /\ approved \in [Agreements -> BOOLEAN]
    /\ activity \in [Agreements -> {"none", "live", "destroyed"}]
    /\ doc \in [Documents -> {"none", "queued", "dropped", "ignored", "failed", "refused",
                              "accepted"}]
    /\ getter \in [Getters -> {"idle", "draft", "made", "wait", "has", "uses", "over"}]
    /\ got \in [Getters -> Agreements \cup {NoAgreement}]
    /\ queue \in Seq(({"NewAgreement", "ActivityClosed"} \cup Kinds) \X Agreements)
    /\ handler \in {"idle", "close", "data", "accept"}
    /\ closing \in [Closers -> [Agreements -> {"no", "terminate", "destroy", "done"}]]
    /\ \A S \in {list, once, known, handed, saved, gaveUp} : S \subseteq Agreements
    /\ noneFlag \in BOOLEAN /\ timedOut \in BOOLEAN
    /\ am \in {"run", "close", "stopped", "raised"}
    /\ pm \in {"run", "wait", "over", "close", "release", "stopped", "raised", "unreleased"}

Ended(g) == yagna[g] \in {"rejected", "terminated"}

\* While the payment manager follows agreements, _no_agreements_event is set
\* exactly when there are none; at the end it may stay cleared (stop() empties
\* the dictionary itself), but is never set for agreements that are known.  No
\* invoice is taken for one of an unknown agreement: the events of the
\* agreement come first, and debit notes do not end it.  So the wait of stop()
\* does its work: unless it timed out, every agreement the manager had been
\* told of has had its invoice looked at.
InvoicesFollowed ==
    /\ noneFlag => known = {}
    /\ Subscribed => (known = {} => noneFlag)
    /\ Subscribed => \A g \in Agreements : doc[<<"invoice", g>>] # "ignored"
    /\ pm \in {"over", "close", "release", "stopped"} /\ ~ timedOut =>
           \A g \in saved : doc[<<"invoice", g>>] \in {"refused", "accepted"}

\* stop() of the payment manager leaves no agreement it knew of running, that
\* of the agreement manager none it had returned: each has ended, or its
\* handler is ending it, or yagna would not.
StopEndsAgreements ==
    /\ pm \in {"release", "stopped"} => \A g \in saved : Ended(g) \/ g \in gaveUp
    /\ am = "stopped" =>
           \A g \in handed :
               Ended(g) \/ g \in gaveUp \/ closing["bus"][g] = "terminate"

\* A closed activity ends its agreement, whichever manager is stopped
\* meanwhile.
ActivityEndsAgreement ==
    \A g \in Agreements : activity[g] = "destroyed" ~> Ended(g) \/ g \in gaveUp

=============================================================================
