------------------------ MODULE SensitivityCalibration ------------------------
(***************************************************************************)
(* run_native_sensitivity_calibration of calibration.py: a null ensemble   *)
(* chooses a threshold, positive ensembles choose a magnitude, and fresh   *)
(* ensembles validate both.  Shuffled ensembles are only summarised, so    *)
(* the model keeps of them whether a record is available.                  *)
(***************************************************************************)
EXTENDS NullThreshold, TLC

CONSTANTS
    Magnitudes,          \* injected delays in cycles
    NullReplicates,      \* development_null_replicates
    DevReplicates,       \* development_replicates, and of the shuffled controls
    FreshReplicates,     \* validation_replicates
    Alphas,              \* percentages a configuration may ask for
    TargetPower          \* percentage of detected replicates a magnitude needs

ASSUME SensitivityAssumption ==
    /\ IsFiniteSet(Magnitudes) /\ 0 \in Magnitudes /\ Magnitudes \subseteq Nat
    /\ \A n \in {NullReplicates, DevReplicates, FreshReplicates} : n \in Nat /\ n >= 2
    /\ Alphas \subseteq 1..99

VARIABLES
    stage,       \* "idle", "development", "threshold", "fresh", "complete" or "failed"
    round,       \* replicates drawn of the current ensembles
    alpha,
    null,        \* development null ensemble
    positive,    \* development positive ensembles, by magnitude
    incomplete,  \* whether a record of the current ensembles is unavailable
    critical,    \* the order statistic whose successor is the critical value
    selected,    \* selected magnitude, 0 when none
    levels,      \* magnitudes of the fresh validation
    detected,    \* fresh detections: of the null, and by magnitude
    streams      \* seeds of the observations drawn for development and afresh

sensitivity == <<stage, round, alpha, null, positive, incomplete, critical, selected,
                 levels, detected, streams>>

NoDetections == [null |-> 0, at |-> [m \in Magnitudes |-> 0]]

SensitivityInit ==
    /\ stage = "idle" /\ round = 0 /\ alpha = 1
    /\ null = Empty
    /\ positive = [m \in Magnitudes |-> Empty]
    /\ incomplete = FALSE
    /\ critical = 0 /\ selected = 0 /\ levels = {}
    /\ detected = NoDetections
    /\ streams = [development |-> {}, fresh |-> {}]

\* The seed of a dataset, relative to the configured one; a label permutation
\* reuses the observations of its positive dataset.
PositiveSeed(replicateSeed, m) == replicateSeed + 1000003 + m
DevelopmentSeed(replicate) == 100003 * (replicate + 1)
FreshSeedAsDevelopment(replicate) == 100003 * (replicate + 1)
FreshSeed(replicate) == 9000001 + 100003 * replicate

SeedsOf(replicateSeed, magnitudes) ==
    {replicateSeed} \cup {PositiveSeed(replicateSeed, m) : m \in magnitudes}

\* Arguments outside the declared ranges, or no CLFLUSH kernel: nothing starts.
BeginSensitivity ==
    /\ stage = "idle"
    /\ alpha' \in Alphas
    /\ stage' = "development"
    /\ UNCHANGED <<round, null, positive, incomplete, critical, selected, levels, detected,
                   streams>>

\* The datasets of one iteration, evaluated: the score of the null one and of
\* one with the injected delay of each magnitude.  A record is unavailable when
\* its dataset has no session holdout, or when its score is not finite.
Evaluations(magnitudes) ==
    [null : Scores, injected : [magnitudes -> Scores], available : BOOLEAN]

DevelopmentRounds == Max({NullReplicates, DevReplicates})

DrawDevelopment ==
    /\ stage = "development" /\ round < DevelopmentRounds
    /\ round' = round + 1
    /\ \E record \in Evaluations(Magnitudes) :
        /\ null' = IF round < NullReplicates THEN With(null, record.null) ELSE null
        /\ positive' = IF round < DevReplicates
                       THEN [m \in Magnitudes |-> With(positive[m], record.injected[m])]
                       ELSE positive
        /\ incomplete' = (incomplete \/ ~record.available)
    /\ streams' =
        [streams EXCEPT !.development = @ \cup
            SeedsOf(DevelopmentSeed(round), IF round < DevReplicates THEN Magnitudes ELSE {})]
    /\ UNCHANGED <<stage, alpha, critical, selected, levels, detected>>

\* _record_statistics with require_complete: any gap ends the calibration.
Complete == ~incomplete

Require(next) ==
    IF Complete THEN stage' = next ELSE stage' = "failed"

Power(m) == Exceedances(positive[m], OrderStatistic(null, alpha))
Qualifies(m) == m > 0 /\ 100 * Power(m) >= TargetPower * DevReplicates

\* The threshold and the selection, made once from the development ensembles.
FreezeRule ==
    /\ stage = "development" /\ round = DevelopmentRounds
    /\ Require("threshold")
    /\ critical' = OrderStatistic(null, alpha)
    /\ LET able == {m \in Magnitudes : Qualifies(m)}
           chosen == IF able = {} THEN 0 ELSE Min(able)
       IN  /\ selected' = chosen
           /\ levels' = {0, chosen, Max(Magnitudes)}
    /\ round' = 0
    /\ UNCHANGED <<alpha, null, positive, incomplete, detected, streams>>

\* From here on the development records are only written to the report.
BeginFresh ==
    /\ stage = "threshold"
    /\ stage' = "fresh"
    /\ positive' = [m \in Magnitudes |-> Empty]
    /\ UNCHANGED <<round, alpha, null, incomplete, critical, selected, levels, detected, streams>>

Detected(score) == IF Exceeds(score, critical) THEN 1 ELSE 0

DrawFresh ==
    /\ stage = "fresh" /\ round < FreshReplicates
    /\ round' = round + 1
    /\ \E record \in Evaluations(levels) :
        /\ detected' =
            [null |-> detected.null + Detected(record.null),
             at |-> [m \in Magnitudes |->
                        IF m \in levels THEN detected.at[m] + Detected(record.injected[m])
                        ELSE detected.at[m]]]
        /\ incomplete' = (incomplete \/ ~record.available)
    /\ streams' = [streams EXCEPT !.fresh = @ \cup SeedsOf(FreshSeed(round), levels)]
    /\ UNCHANGED <<stage, alpha, null, positive, critical, selected, levels>>

ConcludeSensitivity ==
    /\ stage = "fresh" /\ round = FreshReplicates
    /\ Require("complete")
    /\ UNCHANGED <<round, alpha, null, positive, incomplete, critical, selected, levels, detected,
                   streams>>

\* A dataset that cannot be acquired, or a death: run.json stays active and
\* no metrics.json is written.
AbandonSensitivity ==
    /\ stage \in {"development", "threshold", "fresh"}
    /\ stage' = "failed"
    /\ UNCHANGED <<round, alpha, null, positive, incomplete, critical, selected, levels, detected,
                   streams>>

SensitivityNext ==
    \/ BeginSensitivity
    \/ DrawDevelopment
    \/ FreezeRule
    \/ BeginFresh
    \/ DrawFresh
    \/ ConcludeSensitivity
    \/ AbandonSensitivity

----------------------------------------------------------------------------

\* The frozen critical value and the plus-one p-value are the same decision:
\* whatever the ensemble and its ties, a score exceeds the threshold that
\* _empirical_null_threshold returns exactly when empirical_p_value puts it at
\* or below alpha, once the ensemble is large enough for that alpha.
ThresholdIsPlusOne ==
    (stage \in {"threshold", "fresh", "complete"} /\ AlphaSupported(Size(null), alpha)) =>
        \A x \in Scores : Exceeds(x, critical) <=> Significant(null, x, alpha)

=============================================================================
