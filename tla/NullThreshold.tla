---------------------------- MODULE NullThreshold ----------------------------
(***************************************************************************)
(* The finite-sample rules of calibration.py and metrics.py.  A score is   *)
(* the max_statistic of one record, as an integer; an ensemble is the      *)
(* histogram of its finite scores; alpha is a percentage.                  *)
(***************************************************************************)
EXTENDS Integers, FiniteSetsExt, Functions

CONSTANT Scores

ASSUME ScoresAssumption == IsFiniteSet(Scores) /\ Scores # {} /\ Scores \subseteq Nat

Empty == [score \in Scores |-> 0]
With(ensemble, score) == [ensemble EXCEPT ![score] = @ + 1]

Size(ensemble) == SumFunction(ensemble)
AtLeast(ensemble, score) == SumFunctionOnSet(ensemble, {s \in Scores : s >= score})
AtMost(ensemble, score) == SumFunctionOnSet(ensemble, {s \in Scores : s <= score})

\* The score at a position, from 1, of the sorted ensemble.
Ranked(ensemble, position) == Min({s \in Scores : AtMost(ensemble, s) >= position})

\* empirical_p_value(score, ensemble) <= alpha, with the plus-one convention.
WithoutPlusOne(ensemble, score, alpha) ==
    /\ Size(ensemble) > 0
    /\ 100 * AtLeast(ensemble, score) <= alpha * Size(ensemble)

Significant(ensemble, score, alpha) ==
    /\ Size(ensemble) > 0
    /\ 100 * (AtLeast(ensemble, score) + 1) <= alpha * (Size(ensemble) + 1)

----------------------------------------------------------------------------

\* _empirical_null_threshold: how many null scores may exceed the threshold.
OneMoreExceedance(count, alpha) ==
    Max({0, Min({count - 1, (alpha * (count + 1)) \div 100})})

AllowedExceedances(count, alpha) ==
    Max({0, Min({count - 1, (alpha * (count + 1)) \div 100 - 1})})

OrderStatistic(ensemble, alpha) ==
    Ranked(ensemble, Size(ensemble) - AllowedExceedances(Size(ensemble), alpha))

AlphaSupported(count, alpha) == 100 <= alpha * (count + 1)

\* The critical value is the next float above the order statistic.
Exceeds(score, orderStatistic) == score > orderStatistic

Exceedances(ensemble, orderStatistic) ==
    SumFunctionOnSet(ensemble, {s \in Scores : Exceeds(s, orderStatistic)})

----------------------------------------------------------------------------

\* numpy.quantile(ensemble, 1 - alpha), interpolated, times 100.
QuantileTimes100(ensemble, alpha) ==
    LET place == (Size(ensemble) - 1) * (100 - alpha)
        below == Ranked(ensemble, place \div 100 + 1)
        above == Ranked(ensemble, Min({place \div 100 + 2, Size(ensemble)}))
    IN  100 * below + (place % 100) * (above - below)

ReachesQuantile(score, critical) == 100 * score >= critical

\* wilson_interval (z = 1.96): its lower end does not exceed alpha.
WilsonAllows(positives, count, alpha) ==
    LET excess == 100 * positives - alpha * count
    IN  \/ excess <= 0
        \/ 10000 * excess * excess <= 38415 * alpha * (100 - alpha) * count

RateIsCalibrated(positives, count, alpha) ==
    /\ count > 0
    /\ 100 * positives <= (alpha + Max({5, alpha})) * count
    /\ WilsonAllows(positives, count, alpha)

=============================================================================
