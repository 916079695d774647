-------------------------------- MODULE HeldOut --------------------------------
(***************************************************************************)
(* The analyses that score a model on rows held out from it: the latent    *)
(* state ladder, the controlled forecast, the split levels of Phase 0 and  *)
(* Phase 1A, and the horizon curve.  Of a fitted model the module keeps    *)
(* the groups whose rows reached it, and of a score the groups it is about *)
(* and whether it is of an ordinary model, of a control fitted on features *)
(* of other trajectories, or of the model reported as selected.  One       *)
(* horizon, one target and one cell of a campaign stand for all.           *)
(***************************************************************************)
EXTENDS Splits

CONSTANTS
    SessionSets,        \* sets of sessions a development acquisition may have
    ConfirmSessions,    \* the sessions of a confirmation acquisition
    Metadatas,          \* the metadata a grouped dataset may have
    Length,             \* observations of a trajectory
    HistoryLength,      \* history_length
    Ahead,              \* the horizon, in observations
    Block               \* future_block_length

ASSUME HeldOutAssumption ==
    /\ \A s \in SessionSets : IsFiniteSet(s) /\ s \cap ConfirmSessions = {}
    /\ {Length, HistoryLength, Ahead, Block} \subseteq Nat \ {0}

SessionKinds == {"latent", "forecast"}
GroupKinds == Levels \cup {"horizon"}

VARIABLES
    analysis,    \* which analysis runs, and on what
    partition,   \* groups by partition
    fitted,      \* groups whose rows reached the model in use, its scaling included
    chosen,      \* groups whose scores chose among the models
    scores,      \* held-out scores so far
    batch        \* indices a feature row was built from, those of its target, and of
                 \* witness values those stamped and those read after the origin's end

heldOut == <<analysis, partition, fitted, chosen, scores, batch>>

NoAnalysis == [kind |-> "none", stage |-> "idle", usable |-> {}, confirm |-> {}]
NoBatch ==
    [observed |-> {}, witnessed |-> {}, target |-> {}, origin |-> 0, late |-> {},
     after |-> {}, control |-> FALSE]

HeldOutInit ==
    /\ analysis = NoAnalysis
    /\ partition = NoPartition
    /\ fitted = {} /\ chosen = {} /\ scores = {}
    /\ batch = NoBatch

At(kind, stage) == analysis.kind = kind /\ analysis.stage = stage
Goto(stage) == analysis' = [analysis EXCEPT !.stage = stage]
Fail == Goto("failed")

----------------------------------------------------------------------------

\* The window of history_length observations that ends at the origin.
HistoryPastOrigin(origin) == Max({0, origin - HistoryLength + 2})..(origin + 1)
History(origin) == Max({0, origin - HistoryLength + 1})..origin

\* _history_matrix and _causal_origin_witness: values stamped later than the
\* end of the origin are left out.
Arrived(indices, late) == indices \ late

\* Two instants per observation: its operation ends, and with a witness tier the
\* snapshot stamped with that end is read before the next operation.
OperationEnd(index) == 2 * index
ReadAt(index, snapshot) == IF snapshot THEN 2 * index + 1 ELSE 2 * index
ReadAfter(origin, snapshot) ==
    {i \in History(origin) : ReadAt(i, snapshot) > OperationEnd(origin)}

TargetBlock(origin) == (origin + Ahead)..(origin + Ahead + Block - 1)
InTrajectory(indices) == \A i \in indices : i < Length

Row(observed, target, origin) ==
    [NoBatch EXCEPT !.observed = observed, !.target = target, !.origin = origin]

LatentRow(origin, late, snapshot) ==
    [Row(History(origin), TargetBlock(origin), origin) EXCEPT
        !.witnessed = Arrived(History(origin), late),
        !.late = late, !.after = ReadAfter(origin, snapshot)]
ForecastRow(origin) == Row(History(origin), TargetBlock(origin), origin)
CurveRow(origin) == Row({origin}, {origin + Ahead}, origin)

\* build_real_controls: the features of another origin of the trajectory, the
\* target of another origin, and the state as its own target.
ControlRows(origin, other) ==
    {[Row({other}, {origin + Ahead}, origin) EXCEPT !.control = TRUE],
     [Row({origin}, {other + Ahead}, origin) EXCEPT !.control = TRUE],
     [Row({origin}, {origin}, origin) EXCEPT !.control = TRUE]}

Origins == 0..(Length - 1)
Paired == {origin \in Origins : origin + Ahead < Length}

RowsOf(kind, origin) ==
    CASE kind = "latent" ->
            {LatentRow(origin, late, snapshot) :
                late \in SUBSET History(origin), snapshot \in BOOLEAN}
      [] kind = "forecast" -> {ForecastRow(origin)}
      [] kind = "horizon" ->
            {CurveRow(origin)} \cup
            (IF origin \in Paired THEN UNION {ControlRows(origin, other) : other \in Paired}
             ELSE {})

----------------------------------------------------------------------------

\* The sessions of a development acquisition and of the optional confirmation.
\* Rows of a session may all be unusable: their target leaves the trajectory
\* or has no valid quality.
BeginSessions ==
    /\ analysis.stage = "idle"
    /\ \E kind \in SessionKinds, sessions \in SessionSets, confirm \in {{}, ConfirmSessions} :
       \E usable \in SUBSET sessions, order \in Shuffles(sessions) :
        /\ analysis' = [kind |-> kind, usable |-> usable, confirm |-> confirm,
                        stage |-> IF Len(order) < 3 THEN "failed" ELSE "features"]
        /\ partition' = IF Len(order) < 3 THEN NoPartition
                        ELSE IF kind = "latent" THEN LatentSplit(order) ELSE ForecastSplit(order)
    /\ UNCHANGED <<fitted, chosen, scores, batch>>

\* A level of the hierarchy, or the trajectories of a horizon, over one dataset.
LevelKeys(kind, metadata) ==
    IF kind = "horizon" THEN <<"trajectory_id">> ELSE Resolved(metadata, Hierarchy[kind])

Usable(kind, metadata) ==
    IF kind = "horizon"
    THEN /\ "trajectory_id" \in DOMAIN metadata
         /\ Separable(metadata, <<"trajectory_id">>)
    ELSE Available(metadata, kind)

ByGroup(metadata, keys, rows) ==
    [part \in Range(Parts) |-> {Key(metadata, keys, row) : row \in rows[part]}]

\* An unavailable level is reported as such; an empty partition is an error; a
\* split whose audit fails raises.
BeginGroups ==
    /\ analysis.stage = "idle"
    /\ \E kind \in GroupKinds, metadata \in Metadatas :
        LET keys == LevelKeys(kind, metadata)
            groups == Groups(metadata, keys)
        IN  IF ~Usable(kind, metadata)
            THEN /\ analysis' = [NoAnalysis EXCEPT !.kind = kind, !.stage = "unavailable"]
                 /\ UNCHANGED partition
            ELSE \E order \in Shuffles(groups) :
                LET rows == GroupedSplit(metadata, keys, order)
                    accepted == /\ Populated(rows)
                                /\ CoversOnce(rows, Rows(metadata))
                                /\ GroupsApart(metadata, keys, rows)
                IN  /\ analysis' = [kind |-> kind, usable |-> groups, confirm |-> {},
                                    stage |-> IF ~accepted THEN "failed"
                                              ELSE IF kind = "horizon" THEN "features"
                                              ELSE "fit"]
                    /\ partition' = ByGroup(metadata, keys, rows)
    /\ UNCHANGED <<fitted, chosen, scores, batch>>

\* One row stands for all; a row whose target leaves the trajectory is not built.
MaterializeFeatures ==
    /\ analysis.stage = "features"
    /\ \E origin \in Origins : \E row \in RowsOf(analysis.kind, origin) :
        batch' = IF InTrajectory(row.target) THEN row ELSE NoBatch
    /\ Goto("fit")
    /\ UNCHANGED <<partition, fitted, chosen, scores>>

----------------------------------------------------------------------------

PartOf(part) == partition[part] \cap analysis.usable
TrainRows == PartOf("train")
ValidationRows == PartOf("validation")
TestRows == PartOf("test")
Everything == analysis.usable

ScoreOf(of, on, fit, choice) == [of |-> of, on |-> on, fitted |-> fit, chosen |-> choice]
Score(on) == ScoreOf("model", on, fitted, chosen)
Scored(on) == scores' = scores \cup {Score(on)}
Level == analysis.kind \in Levels

\* Each analysis fits its imputation, scaling, decomposition and model on the
\* training rows.  The latent one looks at all three partitions first.
FitLatent ==
    /\ At("latent", "fit")
    /\ IF TrainRows # {} /\ ValidationRows # {} /\ TestRows # {}
       THEN fitted' = TrainRows /\ Goto("select")
       ELSE Fail /\ UNCHANGED fitted
    /\ UNCHANGED <<partition, chosen, scores, batch>>

FitForecast ==
    /\ At("forecast", "fit")
    /\ IF TrainRows # {} THEN fitted' = TrainRows /\ Goto("select")
       ELSE Fail /\ UNCHANGED fitted
    /\ UNCHANGED <<partition, chosen, scores, batch>>

\* A network also stops at the epoch its validation rows prefer; the other
\* classifiers of a level never look at them.
FitLevel ==
    /\ Level /\ analysis.stage = "fit"
    /\ fitted' = TrainRows
    /\ chosen' \in {{}, ValidationRows}
    /\ Goto("test")
    /\ UNCHANGED <<partition, scores, batch>>

\* The horizon curve predicts its validation and test rows with the same fits.
FitCurve ==
    /\ At("horizon", "fit")
    /\ fitted' = TrainRows
    /\ Goto("test")
    /\ UNCHANGED <<partition, chosen, scores, batch>>

----------------------------------------------------------------------------

\* The validation scores choose the model, or the baseline and the candidate.
SelectLatent ==
    /\ At("latent", "select")
    /\ chosen' = ValidationRows
    /\ Goto("refit")
    /\ UNCHANGED <<partition, fitted, scores, batch>>

SelectForecast ==
    /\ At("forecast", "select")
    /\ IF ValidationRows # {} THEN chosen' = ValidationRows /\ Goto("test")
       ELSE Fail /\ UNCHANGED chosen
    /\ UNCHANGED <<partition, fitted, scores, batch>>

\* np.concatenate([train, validation])
RefitOnEverything == Everything
RefitRows == TrainRows \cup ValidationRows

Refit ==
    /\ At("latent", "refit")
    /\ fitted' = RefitRows
    /\ Goto("test")
    /\ UNCHANGED <<partition, chosen, scores, batch>>

----------------------------------------------------------------------------

Confirming == analysis.confirm # {}

TestLatent ==
    /\ At("latent", "test")
    /\ Scored(TestRows)
    /\ Goto(IF Confirming THEN "refreeze" ELSE "report")
    /\ UNCHANGED <<partition, fitted, chosen, batch>>

TestForecast ==
    /\ At("forecast", "test")
    /\ IF TestRows # {} THEN Scored(TestRows) /\ Goto("replay")
       ELSE Fail /\ UNCHANGED scores
    /\ UNCHANGED <<partition, fitted, chosen, batch>>

\* The models of a level, then the audits that fit identities on its training
\* rows and score its test rows.
TestLevel ==
    /\ Level /\ analysis.stage = "test"
    /\ Scored(TestRows)
    /\ Goto("audit")
    /\ UNCHANGED <<partition, fitted, chosen, batch>>

AuditLevel ==
    /\ Level /\ analysis.stage = "audit"
    /\ scores' = scores \cup {ScoreOf("model", TestRows, TrainRows, {})}
    /\ Goto("report")
    /\ UNCHANGED <<partition, fitted, chosen, batch>>

TestCurve ==
    /\ At("horizon", "test")
    /\ Scored(TestRows)
    /\ chosen' = ValidationRows
    /\ Goto("control")
    /\ UNCHANGED <<partition, fitted, batch>>

\* wrong_trajectory_pairing: every trajectory is given the features of another,
\* whatever partition that one is in.
Mispairings(trajectories) ==
    {pairing \in [trajectories -> trajectories] :
        /\ \A t \in trajectories : pairing[t] # t
        /\ \A t, u \in trajectories : pairing[t] = pairing[u] => t = u}
Sources(pairing, rows) == {pairing[t] : t \in rows}

\* The control is fitted and scored with its own features on the split of the
\* others, and its validation score is among those that choose.  It may not be
\* asked for; trajectories without matching origins cannot be paired.
NoControl ==
    /\ At("horizon", "control")
    /\ Goto("contrast") \/ Fail
    /\ UNCHANGED <<partition, fitted, chosen, scores, batch>>

FitControl ==
    /\ At("horizon", "control")
    /\ \E pairing \in Mispairings(Everything) :
        /\ fitted' = TrainRows \cup Sources(pairing, TrainRows)
        /\ chosen' = ValidationRows \cup Sources(pairing, ValidationRows)
        /\ scores' = scores \cup {ScoreOf("control", TestRows, fitted', {})}
    /\ Goto("contrast")
    /\ UNCHANGED <<partition, batch>>

\* The simple baseline a contrast is against is the one its validation score prefers.
ContrastCurve ==
    /\ At("horizon", "contrast")
    /\ scores' = scores \cup {ScoreOf("model", TestRows, TrainRows, ValidationRows)}
    /\ Goto("choose")
    /\ UNCHANGED <<partition, fitted, chosen, batch>>

\* selected_model: the model the validation scores prefer, that control included.
SelectCurve ==
    /\ At("horizon", "choose")
    /\ \E s \in scores :
        scores' = scores \cup {ScoreOf("selected", s.on, s.fitted, chosen)}
    /\ Goto("report")
    /\ UNCHANGED <<partition, fitted, chosen, batch>>

\* Each model is fitted again on the training sessions and replayed observation
\* by observation up to the origin of every test row, usable or not.
Replay ==
    /\ At("forecast", "replay")
    /\ fitted' = TrainRows
    /\ scores' = scores \cup {ScoreOf("model", partition.test, TrainRows, chosen)}
    /\ Goto(IF Confirming THEN "refreeze" ELSE "report")
    /\ UNCHANGED <<partition, chosen, batch>>

----------------------------------------------------------------------------

\* The models a confirmation is scored with, from development rows alone: all
\* of them, or those that trained and chose the candidate.
RefreezeLatent ==
    /\ At("latent", "refreeze")
    /\ fitted' = Everything
    /\ Goto("confirm")
    /\ UNCHANGED <<partition, chosen, scores, batch>>

RefreezeForecast ==
    /\ At("forecast", "refreeze")
    /\ fitted' = TrainRows \cup ValidationRows
    /\ Goto("confirm")
    /\ UNCHANGED <<partition, chosen, scores, batch>>

\* A confirmation without rows of the cell is an error.
ConfirmLatent ==
    /\ At("latent", "confirm")
    /\ \E found \in SUBSET analysis.confirm :
        IF found # {} THEN Scored(found) /\ Goto("report") ELSE Fail /\ UNCHANGED scores
    /\ UNCHANGED <<partition, fitted, chosen, batch>>

\* The forecast reports none.
ConfirmForecast ==
    /\ At("forecast", "confirm")
    /\ \E found \in SUBSET analysis.confirm :
        scores' = IF found # {} THEN scores \cup {Score(found)} ELSE scores
    /\ Goto("report")
    /\ UNCHANGED <<partition, fitted, chosen, batch>>

WriteReport ==
    /\ analysis.stage = "report"
    /\ Goto("reported")
    /\ UNCHANGED <<partition, fitted, chosen, scores, batch>>

HeldOutNext ==
    \/ BeginSessions
    \/ BeginGroups
    \/ MaterializeFeatures
    \/ FitLatent
    \/ FitForecast
    \/ FitLevel
    \/ FitCurve
    \/ SelectLatent
    \/ SelectForecast
    \/ Refit
    \/ TestLatent
    \/ TestForecast
    \/ TestLevel
    \/ AuditLevel
    \/ TestCurve
    \/ NoControl
    \/ FitControl
    \/ ContrastCurve
    \/ SelectCurve
    \/ Replay
    \/ RefreezeLatent
    \/ RefreezeForecast
    \/ ConfirmLatent
    \/ ConfirmForecast
    \/ WriteReport

----------------------------------------------------------------------------

\* No held-out score of a model is about a session, location, block, boot or
\* trajectory whose rows reached the model, its scaling or the choice between
\* models, through every split, refit and replay of four analyses.  The control
\* that pairs trajectories wrongly, and a selection that it took part in, are not
\* ordinary models: SelectedStaysOut is about them.
HeldOutStaysOut ==
    \A s \in scores : s.of = "model" => s.on \cap (s.fitted \cup s.chosen) = {}

\* evaluate_horizon_curve, "selected_model uses validation only": what chose and
\* fitted the model reported as selected leaves out the trajectories it is scored on.
SelectedStaysOut ==
    \A s \in scores : s.of = "selected" => s.on \cap (s.fitted \cup s.chosen) = {}

\* But for the controls that break the order on purpose, a feature row ends at its
\* origin and its target lies strictly later.  It holds no witness value whose stamp
\* is later than the origin, and of those read after the origin's operation ended
\* only the origin's own.
FeaturesEndAtOrigin ==
    /\ ~batch.control =>
        /\ \A i \in batch.observed \cup batch.witnessed : i <= batch.origin
        /\ \A i \in batch.target : i > batch.origin
    /\ batch.witnessed \cap batch.late = {}
    /\ batch.witnessed \cap batch.after \subseteq {batch.origin}

\* The feature firewall of an acquisition forbids "post-origin witness values": no
\* witness value of a feature row was read after the end of the origin.
WitnessPrecedesOrigin == batch.witnessed \cap batch.after = {}

=============================================================================
