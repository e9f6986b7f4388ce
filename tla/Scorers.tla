-------------------------------- MODULE Scorers --------------------------------
(***************************************************************************)
(* The scorers of golem/managers/proposal/plugins/scoring and the weighted *)
(* mean that ProposalScoringMixin makes of them.  A number is a fraction   *)
(* <<n, d>> with d > 0, NoValue is Python's None.                          *)
(***************************************************************************)
EXTENDS Integers, FiniteSets, Sequences, SequencesExt, Functions

CONSTANTS
    Offer, \* Offer[p]: what the scorers look at, in the offer of proposal p
    NoValue

OfferAssumption ==
    /\ NoValue \notin Nat \cup (Int \X Int)
    /\ \A p \in DOMAIN Offer :
          /\ Offer[p].linear \in BOOLEAN /\ Offer[p].threads \in Nat \cup {NoValue}
          /\ Offer[p].initial \in Nat /\ Offer[p].duration \in Nat /\ Offer[p].cpu \in Nat

\* A program is the sequence of scorers of a buffer.
ProgramAssumption(program) ==
    /\ DOMAIN program = 1..Len(program) /\ Len(program) \in Nat
    /\ \A k \in DOMAIN program :
          /\ program[k].weight \in Int
          /\ program[k].kind = "map" =>
                /\ program[k].by \in {"coeff", "per cpu", "average", "average per cpu"}
                /\ program[k].normalize \in BOOLEAN /\ program[k].flip \in BOOLEAN

Whole(n) == <<n, 1>>

Less(a, b) == a[1] * b[2] < b[1] * a[2]
Plus(a, b) ==
    IF a[2] = b[2] THEN <<a[1] + b[1], a[2]>> ELSE <<a[1] * b[2] + b[1] * a[2], a[2] * b[2]>>
Minus(a, b) == Plus(a, <<-b[1], b[2]>>)
Times(a, b) == <<a[1] * b[1], a[2] * b[2]>>
DividedBy(a, b) == IF b[1] > 0 THEN Times(a, <<b[2], b[1]>>) ELSE Times(a, <<-b[2], -b[1]>>)
Lowest(S) == CHOOSE a \in S : \A b \in S : ~Less(b, a)
Highest(S) == CHOOSE a \in S : \A b \in S : ~Less(a, b)

-----------------------------------------------------------------------------
(* Callbacks: prices.                                                      *)

\* LinearCoeffsCost and LinearPerCpuCoeffsCost of one coefficient; without
\* coefficients the second divides None, which raises.
CoeffCost(p, coeff) == IF Offer[p].linear THEN Whole(Offer[p][coeff]) ELSE NoValue
PerCpuRaises(p) == Offer[p].threads \notin {0, NoValue} /\ ~Offer[p].linear
PerCpuCost(p, coeff) ==
    IF ~Offer[p].linear \/ Offer[p].threads \in {0, NoValue} THEN NoValue
    ELSE DividedBy(CoeffCost(p, coeff), Whole(Offer[p].threads))

\* LinearAverageCostPricing, of a load of half the time.
Cost(initial, duration, cpu, seconds) ==
    Plus(Plus(initial, Times(duration, Whole(seconds))), Times(cpu, Whole(seconds \div 2)))
AverageCost(p, seconds) ==
    IF Offer[p].linear
    THEN Cost(Whole(Offer[p].initial), Whole(Offer[p].duration), Whole(Offer[p].cpu), seconds)
    ELSE NoValue

\* Of one thread; the price of a second of cpu is that of a thread already.
PerCpuAverageCost(p, seconds) ==
    IF ~Offer[p].linear \/ Offer[p].threads \in {0, NoValue} THEN NoValue
    ELSE Cost(<<Offer[p].initial, Offer[p].threads>>, <<Offer[p].duration, Offer[p].threads>>,
              Whole(Offer[p].cpu), seconds)

Priced(p, by) ==
    CASE by = "coeff" -> CoeffCost(p, "cpu")
      [] by = "per cpu" -> PerCpuCost(p, "cpu")
      [] by = "average" -> AverageCost(p, 2)
      [] by = "average per cpu" -> PerCpuAverageCost(p, 2)

-----------------------------------------------------------------------------
(* Scorers: from proposals to their scores.                                *)

\* What filter(None, result) leaves: zeros are dropped as well.
Counted(result) == {a \in Range(result) : a # NoValue /\ a[1] # 0}

\* MapScore with normalize: all the same, they stay as they are, and are not
\* flipped either.
Normalized(result, flip) ==
    LET low == Lowest(Counted(result))
        high == Highest(Counted(result))
        scaled(a) == DividedBy(Minus(a, low), Minus(high, low)) IN
    IF Counted(result) = {} \/ ~Less(low, high) THEN result
    ELSE [i \in DOMAIN result |->
             IF result[i] = NoValue THEN NoValue
             ELSE IF flip THEN Minus(Whole(1), scaled(result[i])) ELSE scaled(result[i])]

MapScore(proposals, s) ==
    LET result == [i \in DOMAIN proposals |-> Priced(proposals[i], s.by)] IN
    IF s.normalize THEN Normalized(result, s.flip) ELSE result

\* PropertyValueLerpScore between two points <<score, value>>, for the number
\* of threads.
Lerp(value, from, to) ==
    LET low == IF from[2] < to[2] THEN from[2] ELSE to[2]
        high == IF from[2] < to[2] THEN to[2] ELSE from[2]
        y == IF value < low THEN low ELSE IF value > high THEN high ELSE value IN
    DividedBy(Whole((to[2] - y) * from[1] + (y - from[2]) * to[1]), Whole(to[2] - from[2]))

LerpScore(proposals, s) ==
    [i \in DOMAIN proposals |->
        IF Offer[proposals[i]].threads = NoValue THEN NoValue
        ELSE Lerp(Offer[proposals[i]].threads, s.from, s.to)]

Scores(proposals, s) ==
    IF s.kind = "map" THEN MapScore(proposals, s) ELSE LerpScore(proposals, s)

-----------------------------------------------------------------------------
(* ProposalScoringMixin.                                                   *)

\* _transpose_scorer_scores(): the scorers that have a score.
Voices(scorers, proposals, i) ==
    {k \in DOMAIN scorers : Scores(proposals, scorers[k])[i] # NoValue}

WeightSum(scorers, voices) == SumFunction([k \in voices |-> scorers[k].weight])

\* _calculate_weighted_score()
WeightedScore(scorers, voices, scores) ==
    IF voices = {} THEN Whole(0)
    ELSE DividedBy(
            FoldFunction(Plus, Whole(0), [k \in voices |-> Times(Whole(scorers[k].weight), scores[k])]),
            Whole(WeightSum(scorers, voices)))

Score(scorers, proposals, i) ==
    WeightedScore(scorers, Voices(scorers, proposals, i),
                  [k \in DOMAIN scorers |-> Scores(proposals, scorers[k])[i]])

\* A callback raises, or the weights cancel each other out.
ScoringRaises(scorers, proposals) ==
    \E i \in DOMAIN proposals :
        \/ \E k \in DOMAIN scorers : scorers[k].kind = "map" /\ scorers[k].by = "per cpu"
                                     /\ PerCpuRaises(proposals[i])
        \/ LET v == Voices(scorers, proposals, i) IN v # {} /\ WeightSum(scorers, v) = 0

\* Mutant: in the order in which they came.
Unranked(scorers, proposals) == proposals

\* do_scoring(): a stable sort, the best first.
Ahead(score, i) ==
    {j \in DOMAIN score : Less(score[i], score[j]) \/ (~Less(score[j], score[i]) /\ j < i)}
Ranked(scorers, proposals) ==
    LET score == [i \in DOMAIN proposals |-> Score(scorers, proposals, i)] IN
    [k \in DOMAIN proposals |->
        proposals[CHOOSE i \in DOMAIN proposals : Cardinality(Ahead(score, i)) = k - 1]]
=============================================================================
