--------------------------- MODULE TrajectoryCapture ---------------------------
(***************************************************************************)
(* One trajectory of a campaign: _acquire_trajectory of                    *)
(* controlled_forecast.py ("forecast") and of latent_system_state.py       *)
(* ("latent").  Its blocks are a baseline, the phases of the excitation    *)
(* schedule, the origin and the quiet future.  A latent trajectory runs    *)
(* each block inside SystemWitnessCollector.measure, with snapshots and a  *)
(* PMU window (ScopedPmuWindow, OperationScopedPerfEvent).                 *)
(***************************************************************************)
EXTENDS PressurePhase

CONSTANTS
    Steps,     \* length of the excitation schedule
    Events     \* number of PMU events of a window

ASSUME CaptureAssumption ==
    /\ IsFiniteSet(Cores) /\ Cores # {} /\ Cores = 0..(Cardinality(Cores) - 1)
    /\ Steps \in Nat /\ Events \in Nat \ {0}

\* A schedule for write pressure is always refused: it is built with reads.
Families == {"read_pressure", "active_quiet", "sham", "write_pressure"}
Kinds == {"forecast", "latent"}

VARIABLES
    kind, family,
    tier,      \* instrumentation tier: 0 is the control without witnesses
    pmu,       \* whether PMU events are requested
    at,        \* where the trajectory is in its current block
    block,     \* number of the block
    runs,      \* how often the block's operation was run
    readers,   \* PMU file descriptors that are open
    window,    \* the PMU window of the block
    now,       \* the monotonic clock: one tick per reading
    times,     \* readings of the current block
    origin,    \* readings at the origin block
    rows,      \* one witness row per block
    executed,  \* per phase returned: the cores that complied
    buffer     \* "mapped" or "closed"

trajectory == <<kind, family, tier, pmu, at, block, runs, readers, window, now,
                times, origin, rows, executed, buffer>>
captureVars == <<phase, trajectory>>

Last == Steps + 3
IsPhase(b) == b \in 2..(Steps + 1)
Origin == Steps + 2

\* CodedExcitationSchedule: the cores active at a position of the schedule.
ActiveAt(position) ==
    CASE family = "read_pressure" -> Cores
      [] family = "active_quiet" ->
           IF position % 2 = 0 THEN {(position \div 2) % Cardinality(Cores)} ELSE {}
      [] OTHER -> {}

\* The tier without witnesses, unless counters are requested for the block.
Bare == kind = "forecast" \/ tier = 0

NoTimes == [before |-> 0, start |-> 0, end |-> 0, after |-> 0]

CaptureInit ==
    /\ PhaseInit
    /\ kind \in Kinds /\ family \in Families
    /\ tier \in {0, 1} /\ pmu \in BOOLEAN
    /\ kind = "forecast" => tier = 0 /\ family # "write_pressure"
    /\ tier = 0 => ~pmu
    /\ at = "before" /\ block = 1 /\ runs = 0 /\ readers = 0
    /\ window = "off" /\ now = 1 /\ times = NoTimes /\ origin = NoTimes
    /\ rows = <<>> /\ executed = <<>> /\ buffer = "mapped"

-----------------------------------------------------------------------------
(* SystemWitnessCollector.measure, around the operation.                   *)

Before ==
    /\ at = "before"
    /\ IF Bare
       THEN at' = "operate" /\ UNCHANGED <<now, times>>
       ELSE /\ at' = IF pmu THEN "open" ELSE "operate"
            /\ times' = [NoTimes EXCEPT !.before = now, !.start = now + 1]
            /\ now' = now + 2
    /\ runs' = 0 /\ window' = "off"
    /\ UNCHANGED <<phase, kind, family, tier, pmu, block, readers, origin, rows,
                   executed, buffer>>

\* Every event is opened, then every one is enabled.  Whatever fails, the
\* operation is run without a valid window; a descriptor whose open failed is
\* never held.
OpenWindow ==
    /\ at = "open"
    /\ \/ readers' = Events /\ window' = "counting"
       \/ readers' \in 0..Events /\ window' = "failed"
    /\ at' = "operate"
    /\ UNCHANGED <<phase, kind, family, tier, pmu, block, runs, now, times,
                   origin, rows, executed, buffer>>

\* The operation: a phase with its workers, or a native measurement.
StartOperation ==
    /\ at = "operate"
    /\ runs' = runs + 1
    /\ IF IsPhase(block)
       THEN StartPhase(ActiveAt(block - 2)) /\ at' = "phase"
       ELSE UNCHANGED phase /\ at' \in {"done", "unwind"}
    /\ UNCHANGED <<kind, family, tier, pmu, block, readers, window, now, times,
                   origin, rows, executed, buffer>>

\* The phase returns with its results, or its exception goes on.
PhaseReturns ==
    /\ at = "phase" /\ main \in {"returned", "raised"}
    /\ main' = "outside" /\ UNCHANGED <<active, wpc, flag, open, raised>>
    /\ at' = IF main = "returned" THEN "done" ELSE "unwind"
    /\ executed' = IF main = "returned"
                   THEN Append(executed, {c \in active : wpc[c] = "finished"})
                   ELSE executed
    /\ UNCHANGED <<kind, family, tier, pmu, block, runs, readers, window, now,
                   times, origin, rows, buffer>>

ReadWindowAgain ==   \* mutant: a counter that cannot be read repeats the block
    /\ at = "done"
    /\ \/ window' = window /\ at' = "after"
       \/ window = "counting" /\ window' = "failed" /\ at' = "operate"
    /\ times' = IF Bare THEN times ELSE [times EXCEPT !.end = now]
    /\ now' = IF Bare THEN now ELSE now + 1
    /\ readers' = IF at' = "after" THEN 0 ELSE readers
    /\ UNCHANGED <<phase, kind, family, tier, pmu, block, runs, origin, rows,
                   executed, buffer>>

\* disable and read: a failure now keeps the result and invalidates the window,
\* as multiplexing does.  The readers are closed on the way out.
ReadWindow ==
    /\ at = "done"
    /\ window' \in IF window = "counting"
                   THEN {"whole", "multiplexed", "failed"} ELSE {window}
    /\ readers' = 0
    /\ times' = IF Bare THEN times ELSE [times EXCEPT !.end = now]
    /\ now' = IF Bare THEN now ELSE now + 1
    /\ at' = "after"
    /\ UNCHANGED <<phase, kind, family, tier, pmu, block, runs, origin, rows,
                   executed, buffer>>

\* The second snapshot; the row is stamped with the end of the operation.
RowOf(taken) ==
    [block |-> block, taken |-> taken, available |-> times.end,
     causal |-> block # Last, window |-> window]

After ==
    /\ at = "after"
    /\ now' = IF Bare THEN now ELSE now + 1
    /\ rows' = IF kind = "latent" THEN Append(rows, RowOf(IF Bare THEN 0 ELSE now))
               ELSE rows
    /\ origin' = IF block = Origin THEN [times EXCEPT !.after = now] ELSE origin
    /\ times' = NoTimes
    /\ IF block = Last
       THEN at' = "validate" /\ UNCHANGED block
       ELSE at' = "next" /\ block' = block + 1
    /\ UNCHANGED <<phase, kind, family, tier, pmu, runs, readers, window,
                   executed, buffer>>

\* The schedule is validated after the baseline; origin_start_ns is read before
\* the origin's own measure call.
NextBlock ==
    /\ at = "next"
    /\ at' = IF block = 2 /\ family = "write_pressure" THEN "unwind" ELSE "before"
    /\ IF block = Origin /\ kind = "latent"
       THEN origin' = [origin EXCEPT !.before = now] /\ now' = now + 1
       ELSE UNCHANGED <<origin, now>>
    /\ UNCHANGED <<phase, kind, family, tier, pmu, block, runs, readers, window,
                   times, rows, executed, buffer>>

-----------------------------------------------------------------------------
(* The end.                                                                *)

ReadersLeftOpen ==   \* mutant: only a completed window closes its readers
    /\ at = "unwind" /\ at' = "failed"
    /\ buffer' = "closed"
    /\ UNCHANGED <<phase, kind, family, tier, pmu, block, runs, readers, window,
                   now, times, origin, rows, executed>>

\* An exception leaves through the two finally clauses.
Unwind ==
    /\ at = "unwind" /\ at' = "failed"
    /\ readers' = 0 /\ buffer' = "closed"
    /\ UNCHANGED <<phase, kind, family, tier, pmu, block, runs, window, now,
                   times, origin, rows, executed>>

\* LatentStateRecord.validate; origin_end_ns is the end stamp of the origin's
\* row, zero when nothing was collected.
RecordValid ==
    LET end == rows[Origin].available
    IN  /\ end >= origin.start
        /\ \A i \in DOMAIN rows : rows[i].causal => rows[i].available <= end
        /\ \A i \in (Origin + 1)..Len(rows) : ~rows[i].causal

\* ExcitationExecution.validate
ExecutionValid ==
    Len(executed) = Steps => \A i \in 1..Steps : executed[i] = ActiveAt(i - 1)

Validate ==
    /\ at = "validate"
    /\ at' = IF kind = "forecast"
             THEN IF ExecutionValid THEN "recorded" ELSE "refused"
             ELSE IF tier = 0 \/ ~RecordValid THEN "refused" ELSE "recorded"
    /\ buffer' = "closed"
    /\ UNCHANGED <<phase, kind, family, tier, pmu, block, runs, readers, window,
                   now, times, origin, rows, executed>>

Over == at \in {"recorded", "refused", "failed"}
Finished == Over /\ UNCHANGED captureVars
PoolWaits == Stranded /\ UNCHANGED captureVars

TrajectoryStep ==
    \/ Before \/ OpenWindow \/ StartOperation \/ PhaseReturns \/ ReadWindow
    \/ After \/ NextBlock \/ Unwind \/ Validate
    \/ (PhaseStep /\ UNCHANGED trajectory)

PressureStep(c) == WorkerStep(c) /\ UNCHANGED trajectory

CaptureNext ==
    \/ TrajectoryStep \/ Finished \/ PoolWaits
    \/ \E c \in Cores : PressureStep(c)

\* Threads are scheduled; the native loop of a worker ends by its own clock.
CaptureSpec ==
    /\ CaptureInit /\ [][CaptureNext]_captureVars
    /\ WF_captureVars(TrajectoryStep) /\ \A c \in Cores : WF_captureVars(PressureStep(c))

-----------------------------------------------------------------------------

\* No pressure worker is inside its native loop, reading or writing the buffer,
\* outside its phase: not during baseline, origin and quiet blocks, and never
\* after the buffer was unmapped, also when the phase raised
\* (controlled_forecast.py:737, latent_system_state.py:1718).
NoPressureOutsideItsPhase ==
    (\E c \in Cores : wpc[c] \in Working) => at = "phase" /\ buffer = "mapped"

\* "Do not re-run a probe if the measured operation itself failed": whatever
\* fails around a block, its operation is run exactly once before its row is
\* written (latent_system_state.py:539).
OperationRunsOnce == runs <= 1 /\ (at = "after" => runs = 1)

\* A trajectory that is over holds no descriptor and no mapping.
ResourcesReleased == Over => readers = 0 /\ buffer = "closed"

\* Every trajectory ends, except where the environment stranded its workers.
TrajectoryEnds ==
    <>(Over \/ (Stranded /\ raised \in {"thread", "interrupt"}))

=============================================================================
