------------------------------ MODULE Phase0Gate ------------------------------
(***************************************************************************)
(* The Phase 0 gate: run_phase0 of phase0.py, run_phase0_calibration and   *)
(* run_phase0_power_study of calibration.py, and the campaign of phase1a.py *)
(* that reads a report's phase1_gate.  Records of injected and shuffled    *)
(* replicates decide nothing before the fresh validation, so a calibration *)
(* step keeps only the null statistic it adds.                             *)
(***************************************************************************)
EXTENDS NullThreshold, TLC

CONSTANTS
    Modes,             \* balance_modes
    ModeReplicates,    \* null_replicates, of each mode
    ModeFresh,         \* gate_validation_replicates, of each mode
    GateAlpha,         \* calibration.alpha, a percentage
    TargetDetection,   \* minimum_injected_detection_rate, a percentage
    SampleCounts,      \* sample_counts of a power study
    MaxCalls           \* bound: invocations of the command line

ASSUME Phase0Assumption ==
    /\ IsFiniteSet(Modes) /\ Modes # {}
    /\ ModeReplicates \in Nat \ {0} /\ ModeFresh \in Nat \ {0} /\ MaxCalls \in Nat
    /\ GateAlpha \in 1..99 /\ TargetDetection \in 0..100
    /\ IsFiniteSet(SampleCounts) /\ SampleCounts # {} /\ SampleCounts \subseteq Nat

VARIABLES
    work,        \* the calibration that runs
    candidates,  \* the power study that runs: its candidates, by sample count
    design,      \* selected_design of the last completed study, 0 when none
    reports,     \* metrics.json files on disk
    campaigns,   \* Phase 1A campaigns started: the report each rests on, and how it ended
    drawn,       \* seed streams drawn, by the ensemble they entered
    calls        \* invocations so far

gate == <<work, candidates, design, reports, campaigns, drawn, calls>>

FinalRole == "final_gate_validation"
CandidateRole == "development_power_candidate"

NoTally == [null |-> 0, shuffled |-> 0, injected |-> 0]
Idle == [role |-> "none", seed |-> 0, count |-> 0, null |-> Empty, validated |-> 0,
         tally |-> NoTally]
Calibration(role, seed, count) == [Idle EXCEPT !.role = role, !.seed = seed, !.count = count]

\* A candidate that a running study has yet to calibrate is absent from the function.
NoStudy == <<>>

GateInit ==
    /\ work = Idle
    /\ candidates = NoStudy /\ design = 0
    /\ reports = {} /\ campaigns = {}
    /\ drawn = [development |-> {}, candidate |-> {}, fresh |-> {}]
    /\ calls = 0

NoCall == work = Idle
BeginCall == calls < MaxCalls /\ NoCall /\ calls' = calls + 1

----------------------------------------------------------------------------

SingleRunGate(detected) == FALSE

Controls(detected) ==
    [role |-> "controls", gate |-> SingleRunGate(detected), detected |-> detected,
     calibrated |-> FALSE]

RunPhase0 ==
    /\ BeginCall
    /\ \E detected \in BOOLEAN : reports' = reports \cup {Controls(detected)}
    /\ UNCHANGED <<work, candidates, design, campaigns, drawn>>

----------------------------------------------------------------------------

BeginCalibration ==
    /\ BeginCall
    /\ work' = Calibration(FinalRole, 0, 0)
    /\ UNCHANGED <<candidates, design, reports, campaigns, drawn>>

\* _seed_bundle: the configured seed, the ensemble's constant and the replicate.
Stream(seed, ensemble, replicate) == <<seed, ensemble, replicate>>

Calibrated(w) == Size(w.null) = Cardinality(Modes) * ModeReplicates
Validated(w) == w.validated = Cardinality(Modes) * ModeFresh

\* Every mode draws the same streams.
Draws(ensemble, replicate) ==
    LET stream == Stream(work.seed, ensemble, replicate)
        entered == IF work.role = CandidateRole THEN "candidate"
                   ELSE IF ensemble = "calibration" THEN "development" ELSE "fresh"
    IN  drawn' = [drawn EXCEPT ![entered] = @ \cup {stream}]

\* The statistics of one replicate's three datasets.
Replicate == [injected : Scores, shuffled : Scores, null : Scores]

DrawReplicate ==
    /\ work.role # "none" /\ ~Calibrated(work)
    /\ \E found \in Replicate : work' = [work EXCEPT !.null = With(@, found.null)]
    /\ Draws("calibration", Size(work.null) % ModeReplicates)
    /\ UNCHANGED <<candidates, design, reports, campaigns, calls>>

\* The rule that counts false positives and the rule that decides a detection.
Critical(null) == QuantileTimes100(null, GateAlpha)
Positive(null, score) == ReachesQuantile(score, Critical(null))
Decision(null, score) == Significant(null, score, GateAlpha)

One(condition) == IF condition THEN 1 ELSE 0

ValidateReplicate ==
    /\ work.role # "none" /\ Calibrated(work) /\ ~Validated(work)
    /\ \E found \in Replicate :
        work' = [work EXCEPT
            !.validated = @ + 1,
            !.tally = [null |-> @.null + One(Positive(work.null, found.null)),
                       shuffled |-> @.shuffled + One(Positive(work.null, found.shuffled)),
                       injected |-> @.injected + One(Decision(work.null, found.injected))]]
    /\ Draws("gate-validation", 100000 + (work.validated % ModeFresh))
    /\ UNCHANGED <<candidates, design, reports, campaigns, calls>>

ControlsPass(w) ==
    /\ RateIsCalibrated(w.tally.null, w.validated, GateAlpha)
    /\ RateIsCalibrated(w.tally.shuffled, w.validated, GateAlpha)
InjectedPass(w) == 100 * w.tally.injected >= TargetDetection * w.validated

Report(w) ==
    [role |-> w.role, gate |-> ControlsPass(w) /\ InjectedPass(w),
     detected |-> InjectedPass(w), calibrated |-> ControlsPass(w)]

ConcludeCalibration ==
    /\ work.role = FinalRole /\ Validated(work)
    /\ reports' = reports \cup {Report(work)}
    /\ work' = Idle
    /\ UNCHANGED <<candidates, design, campaigns, drawn, calls>>

----------------------------------------------------------------------------

\* A study calibrates one candidate after another, each under a seed of its own.
CandidateSeed(count) ==
    1000003 * (1 + Cardinality({c \in SampleCounts : c < count}))

Candidate(count) == Calibration(CandidateRole, CandidateSeed(count), count)

BeginStudy ==
    /\ BeginCall
    /\ work' = Candidate(Min(SampleCounts))
    /\ UNCHANGED <<candidates, design, reports, campaigns, drawn>>

Eligible(w) == InjectedPass(w) /\ ControlsPass(w)

\* The smallest eligible candidate, else the largest.
Selected(eligible) ==
    LET able == {c \in SampleCounts : eligible[c]}
    IN  IF able # {} THEN Min(able) ELSE Max(SampleCounts)

ConcludeCandidate ==
    /\ work.role = CandidateRole /\ Validated(work)
    /\ reports' = reports \cup {Report(work)}
    /\ LET done == candidates @@ (work.count :> Eligible(work))
           left == SampleCounts \ DOMAIN done
       IN  IF left # {}
           THEN /\ candidates' = done
                /\ work' = Candidate(Min(left))
                /\ UNCHANGED design
           ELSE /\ candidates' = NoStudy
                /\ work' = Idle
                /\ design' = Selected(done)
    /\ UNCHANGED <<campaigns, drawn, calls>>

\* An exception or a death: the run stays active without a metrics.json, and a
\* study without its power-study.json.
AbandonCall ==
    /\ ~NoCall
    /\ work' = Idle /\ candidates' = NoStudy
    /\ UNCHANGED <<design, reports, campaigns, drawn, calls>>

----------------------------------------------------------------------------

\* run_phase1a_campaign: any report whose phase1_gate is true starts it; without
\* the native kernel it ends before its first session.
RunCampaign ==
    /\ BeginCall
    /\ \E report \in {r \in reports : r.gate}, kernel \in BOOLEAN :
        campaigns' = campaigns \cup
            {[report |-> report, status |-> IF kernel THEN "exploratory" ELSE "active"]}
    /\ UNCHANGED <<work, candidates, design, reports, drawn>>

GateNext ==
    \/ RunPhase0
    \/ BeginCalibration
    \/ DrawReplicate
    \/ ValidateReplicate
    \/ ConcludeCalibration
    \/ BeginStudy
    \/ ConcludeCandidate
    \/ AbandonCall
    \/ RunCampaign

----------------------------------------------------------------------------

\* A replicate that is called detected by its plus-one p-value also reaches the
\* interpolated quantile that counts false positives: the two rules a gate
\* report combines never disagree in that direction.  So it is for an alpha of
\* at most one half; every configuration of the repository has 0.05.
DetectionsArePositives ==
    Calibrated(work) =>
        \A score \in Scores : Decision(work.null, score) => Positive(work.null, score)

=============================================================================
