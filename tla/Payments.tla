------------------------------- MODULE Payments --------------------------------
(***************************************************************************)
(* What DebitNote.validate_and_accept and Invoice.validate_and_accept make *)
(* of the documents of one agreement (resources/debit_note/debit_note.py,  *)
(* resources/invoice/invoice.py, resources/utils/payment.py).              *)
(*                                                                         *)
(* A document is judged by the time at which the requestor first heard of  *)
(* it (created_at), which is later than the time the provider wrote it.    *)
(* Debit notes of an activity arrive in order; invoices are collected by   *)
(* another collector and may overtake them.  Amounts are in units of       *)
(* 10^-18, in which eth_decimal() rounds up what is whole already; storage *)
(* and memory have no price.                                               *)
(***************************************************************************)
EXTENDS Integers, FiniteSets, Sequences, SequencesExt, Functions

CONSTANTS
    Rented,            \* activities
    Providers,         \* what providers do, see below
    Price,             \* Price[c]: the coefficient of counter c
    Initial,           \* the coefficient of the start
    Threads,           \* golem.inf.cpu.threads
    Interval,          \* debit_note_interval
    PaymentTimeout,    \* payment_timeout
    MaxCostGrace, LastNoteGrace, IntervalGrace, TimeoutGrace, AmountGrace,
    Delay,             \* bound: delay of a document
    MaxTime,           \* bound
    NoTime

Priceable == {"cpu", "duration"}
Counters == Priceable \cup {"other"}

ASSUME PaymentsAssumption ==
    /\ IsFiniteSet(Rented)
    /\ Providers \subseteq [vector : Seq(Counters), activities : SUBSET Rented,
                             midAgreement : BOOLEAN, hasty : BOOLEAN, notes : Nat]
    /\ \A p \in Providers : IsInjective(p.vector)
    /\ Price \in [Counters -> Nat]
    /\ \A n \in {Initial, Threads, Interval, PaymentTimeout, MaxCostGrace, LastNoteGrace,
                 IntervalGrace, TimeoutGrace, AmountGrace, Delay, MaxTime} : n \in Nat
    /\ NoTime \notin Nat

\* Documents are delayed by less than what their receiver concedes.
ASSUME GraceAssumption ==
    Delay <= MaxCostGrace /\ Delay <= LastNoteGrace /\ Delay <= IntervalGrace
    /\ Delay <= TimeoutGrace

VARIABLES
    now,
    provider, \* the usage vector of the agreement, the activities it has, whether it
              \* agrees on mid-agreement payments, whether debit notes are sent too
              \* often or payable against it, and how many at most (bound)
    begun,    \* begun[a]: when the provider started activity a, or NoTime
    created,  \* created[a]: when the requestor's object was created, or NoTime
    sent,     \* sent[a]: debit notes on their way
    notes,    \* notes[a]: debit notes collected, in the order of created_at
    invoice   \* the invoice

payVars == <<now, provider, begun, created, sent, notes, invoice>>

NoInvoice == [state |-> "none", total |-> 0, issued |-> 0, created |-> 0]

PayInit ==
    /\ now = 0 /\ provider \in Providers
    /\ begun = [a \in Rented |-> NoTime] /\ created = [a \in Rented |-> NoTime]
    /\ sent = [a \in Rented |-> <<>>] /\ notes = [a \in Rented |-> <<>>]
    /\ invoice = NoInvoice

-----------------------------------------------------------------------------
(* The cost of a document.                                                 *)

\* Counters of an activity that keeps all threads busy.
Used(c, time) == IF c = "cpu" THEN Threads * time ELSE time

vector == provider.vector

Coefficient(c) == IF c \in Range(vector) THEN Price[c] ELSE 0

\* usage_vector_price() leaves unknown counters out, the values keep theirs: the
\* price of c is paired with the value at its place among the known counters.
Place(c) == Cardinality({i \in 1..CHOOSE k \in DOMAIN vector : vector[k] = c :
                             vector[i] \in Priceable})
CostOf(c, usage) == IF c \in Range(vector) THEN Coefficient(c) * usage[Place(c)] ELSE 0

CalculatedCost(usage) == Initial + CostOf("cpu", usage) + CostOf("duration", usage)

MaxCost(time) ==
    Coefficient("cpu") * Threads * time + Coefficient("duration") * time + Initial

\* What the provider charges for `time` of an activity.
Charge(time) ==
    Initial + Coefficient("cpu") * Used("cpu", time)
            + Coefficient("duration") * Used("duration", time)
            + Coefficient("other") * Used("other", time)

\* Mutant: without the grace period.
SinceLastStrict(time) == MaxCost(time)

SinceLast(time) == MaxCost(time + LastNoteGrace)

CostOk(note, prior, start) ==
    /\ note.total <= CalculatedCost(note.usage) + AmountGrace
    /\ note.total <= MaxCost(note.created - start + MaxCostGrace)
    /\ prior # <<>> =>
         note.total - Last(prior).total <= SinceLast(note.created - Last(prior).created)

\* get_previous_payable_debit_notes_count()
Payable(prior) == Cardinality({i \in DOMAIN prior : prior[i].due # NoTime})

\* validate_mid_agreement_payment()
RateOk(note, prior, start) ==
    note.due # NoTime =>
        /\ provider.midAgreement
        /\ note.due - note.created + TimeoutGrace >= PaymentTimeout
        /\ note.created - start + IntervalGrace >= (Len(prior) - 1) * Interval
        /\ note.created - start + TimeoutGrace >= (Payable(prior) - 1) * PaymentTimeout

-----------------------------------------------------------------------------
(* The provider.                                                           *)

StartActivity(a) ==
    /\ a \in provider.activities /\ begun[a] = NoTime /\ invoice.state = "none"
    /\ begun' = [begun EXCEPT ![a] = now]
    /\ UNCHANGED <<now, provider, created, sent, notes, invoice>>

\* create_activity() returns.
ActivityCreated(a) ==
    /\ begun[a] # NoTime /\ created[a] = NoTime
    /\ created' = [created EXCEPT ![a] = now]
    /\ UNCHANGED <<now, provider, begun, sent, notes, invoice>>

Billed(a) == notes[a] \o sent[a]
Issued(a) == {Billed(a)[i].issued : i \in DOMAIN Billed(a)}
PayableIssued(a) == {n.issued : n \in {m \in Range(Billed(a)) : m.due # NoTime}}

\* A provider that is not hasty keeps to the intervals, and to the agreement.
InTime(a, payable) ==
    /\ \A t \in Issued(a) \cup {begun[a]} : now - t >= Interval
    /\ payable =>
         /\ provider.midAgreement
         /\ \A t \in PayableIssued(a) \cup {begun[a]} : now - t >= PaymentTimeout

SendNote(a, payable) ==
    /\ begun[a] # NoTime /\ invoice.state = "none" /\ Len(Billed(a)) < provider.notes
    /\ provider.hasty \/ InTime(a, payable)
    /\ sent' = [sent EXCEPT ![a] = Append(@,
          [issued |-> now, created |-> now, state |-> "new",
           usage |-> [i \in DOMAIN vector |-> Used(vector[i], now - begun[a])],
           total |-> Charge(now - begun[a]),
           due |-> IF payable THEN now + PaymentTimeout ELSE NoTime])]
    /\ UNCHANGED <<now, provider, begun, created, notes, invoice>>

Hired == {a \in Rented : begun[a] # NoTime}

\* The agreement ends, and every activity with it.
SendInvoice ==
    /\ invoice.state = "none" /\ Hired # {}
    /\ invoice' = [NoInvoice EXCEPT !.state = "sent", !.issued = now,
          !.total = SumFunction([a \in Hired |-> Charge(now - begun[a])])]
    /\ UNCHANGED <<now, provider, begun, created, sent, notes>>

-----------------------------------------------------------------------------
(* The requestor.                                                          *)

\* The collector creates the note, and the activity if nobody has.
CollectNote(a) ==
    /\ sent[a] # <<>>
    /\ notes' = [notes EXCEPT ![a] = Append(@, [Head(sent[a]) EXCEPT !.created = now])]
    /\ sent' = [sent EXCEPT ![a] = Tail(@)]
    /\ created' = [created EXCEPT ![a] = IF @ = NoTime THEN now ELSE @]
    /\ UNCHANGED <<now, provider, begun, invoice>>

\* validate_and_accept() of the oldest note; of what it awaits nothing changes
\* what it looks at: the notes created before this one.
HandleNote(a) ==
    \E i \in DOMAIN notes[a] :
        LET note == notes[a][i]
            prior == SubSeq(notes[a], 1, i - 1) IN
        /\ note.state = "new" /\ \A j \in 1..(i - 1) : notes[a][j].state # "new"
        /\ notes' = [notes EXCEPT ![a][i].state =
              IF CostOk(note, prior, created[a]) /\ RateOk(note, prior, created[a])
              THEN "accepted" ELSE "refused"]
        /\ UNCHANGED <<now, provider, begun, created, sent, invoice>>

CollectInvoice ==
    /\ invoice.state = "sent"
    /\ invoice' = [invoice EXCEPT !.state = "new", !.created = now]
    /\ UNCHANGED <<now, provider, begun, created, sent, notes>>

\* Index of what is looked at: the newest note, if it came before the invoice.
\* Those that came after it hide the others.
Preceded == {a \in Rented : notes[a] # <<>> /\ Last(notes[a]).created < invoice.created}
TimeSince == SumFunction([a \in Preceded |-> invoice.created - Last(notes[a]).created])
AmountSince == invoice.total - SumFunction([a \in Preceded |-> Last(notes[a]).total])

\* validate_and_accept(); the duration is that of now, the agreement was
\* approved at 0.
HandleInvoice ==
    /\ invoice.state = "new"
    /\ invoice' = [invoice EXCEPT !.state =
          IF /\ invoice.total <= MaxCost(now + MaxCostGrace)
             /\ TimeSince # 0 => AmountSince <= SinceLast(TimeSince)
          THEN "accepted" ELSE "refused"]
    /\ UNCHANGED <<now, provider, begun, created, sent, notes>>

\* No document is late, nor the answer of yagna.
OnTime ==
    /\ \A a \in Rented :
         /\ \A i \in DOMAIN sent[a] : now - sent[a][i].issued < Delay
         /\ begun[a] # NoTime /\ created[a] = NoTime => now - begun[a] < Delay
    /\ invoice.state = "sent" => now - invoice.issued < Delay

Tick ==
    /\ now < MaxTime /\ OnTime
    /\ now' = now + 1
    /\ UNCHANGED <<provider, begun, created, sent, notes, invoice>>

PayNext ==
    \/ \E a \in Rented :
          \/ StartActivity(a) \/ ActivityCreated(a) \/ CollectNote(a) \/ HandleNote(a)
          \/ \E payable \in BOOLEAN : SendNote(a, payable)
    \/ SendInvoice \/ CollectInvoice \/ HandleInvoice \/ Tick

PaySpec == PayInit /\ [][PayNext]_payVars

-----------------------------------------------------------------------------
AllKnown == Range(vector) \subseteq Priceable

(***************************************************************************)
(* HonestPaid: whatever the delays, as long as they are within the grace,  *)
(* no debit note of a provider that bills what was used is refused, and no *)
(* invoice, unless the agreement has several activities (the cost expected *)
(* is that of one) or a usage counter nobody knows (debit_note.py          *)
(* validate_and_accept, invoice.py validate_and_accept).                   *)
(***************************************************************************)
HonestPaid ==
    ~provider.hasty /\ AllKnown =>
        /\ \A a \in Rented : \A i \in DOMAIN notes[a] :
               notes[a][i].state # "refused"
        /\ invoice.state = "refused" => Cardinality(Hired) > 1

=============================================================================
