----------------------------- MODULE ScoringBuffer -----------------------------
(***************************************************************************)
(* ProposalScoringBuffer (managers/proposal/plugins/scoring): proposals    *)
(* are fetched into one buffer, from which a loop takes them, together     *)
(* with those already scored, to score all of them again; get_proposal()   *)
(* takes the best scored one.  ProposalBuffer models the first buffer and  *)
(* its workers in detail; here a fetch is one step.                        *)
(***************************************************************************)
EXTENDS Scorers

CONSTANTS
    Proposals, Getters, MinSize, MaxSize,
    Programs,  \* sequences of scorers
    Faults,    \* what may raise: "fill"
    MaxStarts  \* bound

ScoringAssumption ==
    /\ MinSize \in Nat /\ MaxSize \in Nat \ {0}
    /\ DOMAIN Offer = Proposals /\ OfferAssumption
    /\ \A program \in Programs : ProgramAssumption(program)

VARIABLES
    scorers,   \* the scorers of this buffer
    market,    \* proposals that can be fetched
    asked,     \* charges and pending fetches
    unscored,  \* _buffer
    error,     \* its exception is set
    filling,   \* it has workers
    batch,     \* what the loop has taken
    scored,    \* _buffer_scored
    failed,    \* its exception is set
    loop,      \* _background_loop: "off", "wait", "take", "score", "dead"
    getter,    \* get_proposal(): "idle" or "wait"
    starts, started,
    overdrawn  \* proposals were requested while others were scored, because one
               \* had expired, or by a restart

scoVars == <<scorers, market, asked, unscored, error, filling, batch, scored, failed, loop,
             getter, starts, started, overdrawn>>
fetching == <<market, asked, unscored, error, filling>>
control == <<scorers, starts, started>>

\* A buffer that is filled in the background: no workers, and no charges for them.
FillInit == unscored = <<>> /\ error = FALSE /\ asked = 0 /\ filling = FALSE

ScoInit ==
    /\ scorers \in Programs /\ market = Proposals
    /\ FillInit /\ batch = <<>> /\ scored = <<>>
    /\ failed = FALSE /\ overdrawn = FALSE
    /\ loop = "off" /\ getter = [u \in Getters |-> "idle"]
    /\ starts = 0 /\ started = FALSE

\* _request_proposals(): what is scored does not count.
Request(late) ==
    /\ asked' = MaxSize - Len(unscored)
    /\ overdrawn' = (overdrawn \/ (late /\ asked' > asked))

\* Mutant: only what is not scored counts.
UnscoredCount(remaining) == Len(unscored)

\* _get_buffered_proposals_count()
BufferedCount(remaining) == Len(unscored) + Len(remaining)

-----------------------------------------------------------------------------
(* get_proposal()                                                          *)

\* At most MaxSize calls are let in.
Enter(u) ==
    /\ getter[u] = "idle"
    /\ Cardinality({v \in Getters : getter[v] = "wait"}) < MaxSize
    /\ getter' = [getter EXCEPT ![u] = "wait"]
    /\ IF BufferedCount(scored) = 0 THEN Request(batch # <<>>) ELSE UNCHANGED <<asked, overdrawn>>
    /\ UNCHANGED <<market, unscored, error, filling, batch, scored, failed, loop, control>>

\* The best one, and a new request when few are left.
Take(u) ==
    /\ getter[u] = "wait" /\ scored # <<>>
    /\ scored' = Tail(scored)
    /\ getter' = [getter EXCEPT ![u] = "idle"]
    /\ IF BufferedCount(Tail(scored)) < MinSize
       THEN Request(batch # <<>>) ELSE UNCHANGED <<asked, overdrawn>>
    /\ UNCHANGED <<market, unscored, error, filling, batch, failed, loop, control>>

GetRaises(u) ==
    /\ getter[u] = "wait" /\ scored = <<>> /\ failed
    /\ getter' = [getter EXCEPT ![u] = "idle"]
    /\ UNCHANGED <<fetching, batch, scored, failed, loop, control, overdrawn>>

-----------------------------------------------------------------------------
(* The workers and the timers.                                             *)

Fetch(p) ==
    /\ filling /\ asked > 0 /\ p \in market
    /\ market' = market \ {p}
    /\ asked' = asked - 1
    /\ unscored' = Append(unscored, p)
    /\ UNCHANGED <<error, filling, batch, scored, failed, loop, getter, control, overdrawn>>

\* The workers stop, and what was asked for is forgotten.
FetchRaises ==
    /\ "fill" \in Faults /\ filling /\ asked > 0
    /\ error' = TRUE /\ filling' = FALSE /\ asked' = 0
    /\ UNCHANGED <<market, unscored, batch, scored, failed, loop, getter, control, overdrawn>>

Expire(i) ==
    /\ scored' = RemoveAt(scored, i)
    /\ Request(TRUE)
    /\ UNCHANGED <<market, unscored, error, filling, batch, failed, loop, getter, control>>

-----------------------------------------------------------------------------
(* _background_loop()                                                      *)

\* get_requested(): at least one, and those that come within the debounce.
TakeUnscored ==
    /\ loop = "wait" /\ unscored # <<>>
    /\ batch' = unscored /\ unscored' = <<>>
    /\ loop' = "take"
    /\ UNCHANGED <<market, asked, error, filling, scored, failed, getter, control, overdrawn>>

\* get_all() of the scored ones, which raises after a failure if there are none.
TakeScored ==
    /\ loop = "take"
    /\ IF scored = <<>> /\ failed
       THEN loop' = "dead" /\ batch' = <<>> /\ UNCHANGED scored
       ELSE loop' = "score" /\ batch' = batch \o scored /\ scored' = <<>>
    /\ UNCHANGED <<fetching, failed, getter, control, overdrawn>>

NothingFetched ==
    /\ loop = "wait" /\ unscored = <<>> /\ error
    /\ failed' = TRUE /\ loop' = "dead"
    /\ UNCHANGED <<fetching, batch, scored, getter, control, overdrawn>>

\* A scorer raises, and nobody hears of it.
Scored ==
    /\ loop = "score"
    /\ IF ScoringRaises(scorers, batch)
       THEN loop' = "dead" /\ UNCHANGED scored
       ELSE loop' = "wait" /\ scored' = Ranked(scorers, batch)
    /\ batch' = <<>>
    /\ UNCHANGED <<fetching, failed, getter, control, overdrawn>>

-----------------------------------------------------------------------------

\* As many workers as the buffer is to have.
StartFilling == filling' = TRUE

Start(fill) ==
    /\ ~started /\ starts < MaxStarts
    /\ started' = TRUE /\ starts' = starts + 1 /\ StartFilling
    /\ IF fill THEN Request(scored # <<>>) ELSE UNCHANGED <<asked, overdrawn>>
    /\ loop' = "wait"
    /\ UNCHANGED <<scorers, market, unscored, error, batch, scored, failed, getter>>

\* What the loop had taken is lost.
Stop ==
    /\ started
    /\ started' = FALSE /\ filling' = FALSE /\ asked' = 0
    /\ loop' = "off" /\ batch' = <<>>
    /\ UNCHANGED <<scorers, starts, market, unscored, error, scored, failed, getter, overdrawn>>

Loop == TakeUnscored \/ TakeScored \/ NothingFetched \/ Scored

ScoNext ==
    \/ \E u \in Getters : Enter(u) \/ Take(u) \/ GetRaises(u)
    \/ \E p \in Proposals : Fetch(p)
    \/ FetchRaises \/ (\E i \in DOMAIN scored : Expire(i))
    \/ Loop \/ (\E fill \in BOOLEAN : Start(fill)) \/ Stop

ScoSpec == ScoInit /\ [][ScoNext]_scoVars

-----------------------------------------------------------------------------
Held == Len(unscored) + asked + Len(batch) + Len(scored)

(***************************************************************************)
(* HeldBounded: what the two buffers hold, what is scored and what is      *)
(* asked for stays within max_size and the few that may be left at a       *)
(* request, as long as nothing is requested while proposals are scored,    *)
(* which the count leaves out, nor for an expired one or at a restart,     *)
(* which count the unscored only (scoring_buffer.py                        *)
(* _get_buffered_proposals_count, buffer.py _request_proposals).           *)
(***************************************************************************)
Spare == IF MinSize = 0 THEN 0 ELSE MinSize - 1
HeldBounded == ~overdrawn => Held <= MaxSize + Spare

PriceOf(p) == Priced(p, scorers[1].by)
CheapestWanted ==
    Len(scorers) = 1 /\ scorers[1].kind = "map" /\ scorers[1].normalize /\ scorers[1].flip

(***************************************************************************)
(* CheapestFirst: with one flipped, normalized price as score, get_proposal*)
(* takes a cheapest proposal of those scored, however often the others were*)
(* scored again with new ones; free ones may come last (map.py drops zeros *)
(* and may then not flip; scoring_buffer.py _background_loop).             *)
(***************************************************************************)
CheapestFirst ==
    CheapestWanted =>
        \A i, j \in DOMAIN scored :
            LET a == PriceOf(scored[i])
                b == PriceOf(scored[j]) IN
            i < j /\ a # NoValue /\ b # NoValue /\ a[1] # 0 /\ b[1] # 0 => ~Less(b, a)
=============================================================================
