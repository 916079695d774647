# SenseTrace verification

TLA+ models of SenseTrace, the TLC configurations that check them on small instances, and
theorems about them whose proofs TLAPS checks for every value of the constants.

SenseTrace acquires timing samples from memory under experimental conditions, keeps them
as evidence, and draws conclusions from them. What makes it correct is less what it
measures than what it keeps and what it lets a conclusion rest on: a run may die at any
instruction, a worker host may reboot between two commands, threads may be late, a reader
may meet files of another analysis, and the result must still say truthfully what was
acquired, under which conditions, and which rows a score has never seen. The models cover
that control. The numbers themselves, floating point statistics and fitted models, are
abstracted to the choices that are made with them.

## 1. Inventory

Paths are below `src/src/sensetrace/` unless they say otherwise.

| Component | State it keeps | Operations | What is hard | What makes it correct |
| --- | --- | --- | --- | --- |
| Journal (`journal.py`) | `events.jsonl` | `append`, `read`, `recover` | a death inside an append or inside the recovery of one; signal handlers that append | no terminated line is ever garbled, returned records are kept, corruption is left alone |
| Shard storage (`storage.py`, `schema.py`) | `shard-N.npz`, `shard-N.json`, temporaries | `ShardWriter.add`, `finalize`, `validate_all_shards`, the two quarantines | two renames, and numpy's own temporary name; indices after a quarantine | valid shards are never lost or overwritten, no sample is held twice or skipped |
| Acquisition runner (`runner.py`, `safety.py`, `recovery.py`, `hashing.py`) | `run.json`, `config.json`, `dataset.json`, its memory | `run`, `_handle_signal`, the idle service `daemon` | every write may be the last one; signals between two steps; another caller on the same directory | truthful status, the ledger of `AcquisitionLedger`, mismatches leave evidence alone |
| Recovery contract of the backends (`acquisition/base.py`, `synthetic.py`, `commodity.py`, `primitive.py`) | the backend's identity | `recovery_identity`, `validate_resume`, `samples` | a physical allocation cannot be continued by another process | two allocations never join one run |
| Physical sessions (`phase1a.py`) | `session.json`, journals and shards of sibling directories | `_materialize_session`, `_existing_session_for_index`, `_materialize_acquired_condition` | replacing an interrupted session takes several writes in two directories | one live session per slot, replacements announced, interrupted sessions frozen |
| Datasets (`datasets.py`) | `dataset.json`, combined shards | `write_dataset_manifest`, `load_dataset`, `combine_datasets` | a combination that died and is repeated; stored copies that disagree | the combined dataset holds each session once; a dataset is evidence only for what its rows were measured under |
| Trajectory campaigns (`controlled_forecast.py`, `latent_system_state.py`) | design, journal, progress, raw artifact, manifest; threads, counters and a mapping per trajectory | the two acquisition loops; `_acquire_trajectory`, `_run_pressure_phase` | their JSONL journal has no recovery; barrier, start flags, deadline and pool join | nothing acquired twice, a manifest over the whole design; measured under pressure when it says so |
| Preregistered experiment (`experiment.py`) | event stream, state file, protocol, inventory, split, decision | `ExperimentStateMachine`, `acquire_worker03_fragmented`, `run_preregistered_worker03_experiment` | a transition is two writes; two drivers use the same lifecycle | stream and state agree, the test partition is evaluated once, a decision rests on frozen evidence |
| Packet store (`packets.py`) | packet shards, sidecars, manifest | `PacketShardWriter`, `write_packet_manifest`, `iter_packets` | what a dead acquisition leaves behind | a dataset is that of one acquisition, and immutable |
| Controlled memory interface (`acquisition/controlled.py`, `capabilities.py`, `probe_contract.py`, `attestation.py`) | provenance, session ledger, rows | `samples` with its checks, `manifest_provenance`, `session_evidence` | a controller that is reconfigured between any two steps; an adapter that answers wrongly | one configuration per session, no row after a fault, accepted claims hold |
| Remote host client (`host/client.py`, `src/infra/`) | units, configurations and boot target of another machine; a campaign manifest here | bootstrap, deploy, service actions, boot profile, reboot acceptance, multi-boot campaign | any command may fail or stay unanswered, the worker may reboot or sudo expire between two | one service scope, the operator's configuration kept, boots that really differ |
| Multi-boot gate (`multiboot.py`) | frozen protocol, per-boot reports | validate, combine | reports of other protocols or of the same boot | only distinct boots under one protocol support a claim |
| Witness plane (`witness/`) | bpftrace process, its event file, the pilot's threads and report | start, readiness, stop, drain, correlation | observer, worker and main thread race; lines torn; deadlines | a sample is called clean only when it was witnessed; the process that was launched is ended with the pilot |
| Perf counters, native kernel (`acquisition/perf.py`, `native.py`, `src/native/`) | file descriptors, start flags | open, enable, read, close; the pressure loop | any of the calls may fail around an operation that must run once | descriptors are released, the operation is not repeated |
| Excitation and trajectories (`excitation.py`, `trajectory.py`) | none | coded schedule, validation of an execution | | the phases requested are the phases executed |
| Calibration and Phase 0 (`calibration.py`, `phase0.py`) | reports, power study | native sensitivity calibration, Phase 0 calibration and power study | order statistics with ties, seeds of ensembles | the threshold is the p-value's, fresh ensembles are fresh |
| Splits (`splits.py`) | none | `grouped_split`, the Phase 1A hierarchy, session splits | groups that span partitions, very few groups | no group crosses |
| Analyses over held-out rows (`controlled_forecast.py`, `latent_system_state.py`, `horizon.py`, `phase0.py`, `models.py`, `metrics.py`, `audits.py`) | none beyond a report | fit, select, refit, test, replay, freeze, confirm | which rows reached the model by the time it is scored | held-out groups stay out, features end at the origin |
| Horizon store (`horizon.py`) | manifest, splits and results of a run | `write_horizon_run`, `load_horizon_run` | writers interleave or die without a lock | what loads is one analysis |
| Fragmented receivers' data and claims (`fragmented.py`) | `split.json` | split, leakage audit, claim authorization | | |
| Characterization, construction (`characterization.py`, `construction.py`, `protocol.py`) | a report | a straight line of measurements | | |
| Receivers (`receiver.py`, `synthetic_receiver.py`, `real_horizon.py`) | none | model fitting over packets | | |
| Configuration, inventory, command line (`config.py`, `cli.py`, `inventory.py`, `worker03.py`) | none | parsing, reads of `/proc` and `/sys` | | |

How they interact. The runner calls the journal, the shard writer and a backend, and
writes a dataset manifest; with a controlled backend it also publishes the provenance and
the ledger `load_dataset` later compares. Phase 1A calls shard writer, journal and
manifests for each session itself, then `combine_datasets`; it starts only from a Phase 0
report whose gate is true. The trajectory campaigns use JSON files of their own, and
for each trajectory start pressure threads, counters and witnesses; their analyses and the
horizon curve read what they wrote. The preregistered experiment calls the packet store for
two nested directories, each with a lifecycle. The controller reaches a worker only by
ssh. Nothing locks a directory.

The hazards are listed in `PROJECT.json`, each at the line where it bites and with the
properties that would catch it.

## 2. Modules

| Module | What it is |
| --- | --- |
| `JournalFile` | the file behind `Journal`: terminated lines and an unterminated tail; used by every module with a JSONL file |
| `Journal` | one journal and a succession of writers, with or without recovery |
| `ShardFiles` | payloads and sidecars, and which of them validate; resume and shard indices |
| `Runner` | `AcquisitionRunner.run` over one run directory; extends the two file modules |
| `AcquisitionLedger` | what a resumable acquisition promises; `Runner` implements it |
| `PhysicalSessions` | one acquired condition of Phase 1A with its combination |
| `Experiment`, `MCExperiment` | the preregistered experiment, its nested acquisitions and packet datasets; the second gives TLC a protocol hash |
| `Trajectories` | the acquisition loops of the two trajectory campaigns |
| `PressurePhase` | one excitation phase: main thread, pool, barrier, native start flags |
| `TrajectoryCapture` | one trajectory of either campaign, around `PressurePhase`: blocks, PMU windows, witness rows, release of what it holds |
| `ControlledInterface` | the acquisition loop of the controlled backends, with the fault-injecting adapter |
| `EvidenceFirewall`, `MCControlled` | extends the former: publication, one altered copy, and `load_dataset` |
| `WitnessPilot` | the witness pilot: main thread, churning worker, bpftrace process and kernel |
| `WorkerHost` | the worker: boots, the two service scopes, boot target, configurations |
| `Deployment` | operations of the controller that change what the worker runs |
| `RemoteHost` | on both: reboot acceptance, the multi-boot campaign and the combined decision |
| `NullThreshold` | thresholds, p-values, quantiles and intervals of `calibration.py` and `metrics.py` over integers |
| `SensitivityCalibration`, `Phase0Gate` | the two calibrations and the power study, on those operators |
| `Splits`, `HeldOut` | the splits, and which rows reach which fit and score in four analyses |
| `HorizonStore` | writers and a reader of a horizon run |
| `Studies`, `MCStudies` | the last six, one study per behaviour; the second gives TLC metadata |
| `JournalProofs`, `RunnerProofs`, `PhysicalSessionsProofs`, `ExperimentProofs`, `RemoteHostProofs` | lemmas and theorems about the module they are named after |
| `TrajectoriesProofs` | the same for `Trajectories` and `TrajectoryCapture` |
| `EvidenceFirewallProofs` | the same for `ControlledInterface` and `EvidenceFirewall` |
| `StudiesProofs` | the same for `Studies`, the modules it composes, and `WitnessPilot` |

### Conventions

State variables are files (as their readers see them), the memory of a process and its
position `pc`. A write that is atomic in the code (temporary file and `os.replace`) is
atomic in the model. A write that is not (`Path.write_text`, `append`) is one step when it
succeeds, and the `Crash` action says what a death during it leaves: nothing, a torn file,
a torn tail, or the whole record without the caller learning of it. An exception the code
raises is a disjunct that ends the operation; an exception from below (a backend, the
operating system, an ssh command) is a step that may happen wherever the code meets one.

Deaths, calls and damaged files are counted in the state only to bound them. Some
variables are observations that no code reads (`returned`, `appended`, `evaluations`, `lastLive`, the
`epoch` of a shard, the call that wrote a packet shard, what a controller `measured`, the
groups behind a score): properties need them to tell histories apart.

Operators commented as a mutant are not part of any behaviour. Each is one plausible bug
in the definition it precedes; in that definition's place TLC finds a violation of
the property `PROJECT.json` names, so no property holds by the shape of the model.

### The file-keeping modules

`Journal`: `file` is a sequence of terminated lines and a tail. `read` decides `Readable`
(all terminated lines decode) and `TrailingPartial`; a complete object without its newline
counts as partial, as in the code. `recovers` is chosen in the first state: `TRUE` for the
writers that call `recover` (the runner), `FALSE` for `daemon`, whose
`service-events.jsonl` is appended without it.

`Runner`: one action per stretch of `run` between two writes or two points a signal may
reach: the run identity, the refusal record, the journal's recovery, the preview
of the resume index and the backend's decision (`CheckBackend`), the quarantines, the
resume index, the loop with its limit and storage guard, `ShardWriter.finalize`, and
the end of the run with its event, status, manifest and returned value. `Signal` is
`_handle_signal` between any two of them once the handlers are installed. Samples are
numbers, a shard is a range of them with an index; checksums are abstracted to whether a
sidecar vouches for a payload. `Resumable` are the identities whose `validate_resume`
accepts: synthetic backends do, commodity memory does not.

`Trajectories`: both campaigns have the same control. `_load_journal` accepts a last line
that only lacks its newline and raises on one that does not decode, so both outcomes of a
torn append are kept apart (`tail`). Both write `progress.json` after each trajectory
(`controlled_forecast.py:1043`, `latent_system_state.py:1794`).

`PhysicalSessions`: `dirs` are the session directories of one condition, by id. The
precedence rule, the counting of the interrupted session's shards (which raises on a
payload that does not validate), the announcement in the old journal, the mark in its
`session.json` and the creation of the replacement are separate steps. So are the two writes
of `dataset.json`: the first embeds a session that is still active, which `load_dataset`
refuses, and only the second, after `session.json` says completed, makes the session
loadable. A completed session with the first one is `Unloadable`, and stays so when the
process died in between. Ids are chosen arbitrarily, as the code's are random.

`Experiment`: three directories, each with a state file, an event stream, frozen
artifacts and a packet dataset. A transition is two steps, `AppendEvent` and
`StoreState`; `After` says where each driver goes on. The process keeps the lifecycle of
every directory in memory (`mem`) and writes that back, so a death forgets what was only
counted there.

### The concurrent modules

`PressurePhase` has a program counter for the main thread and one per worker. The barrier
opens with its last party; a worker's native loop either refuses its core or raises its
start flag; the deadline may pass while any flag is missing; leaving the pool joins the
workers on every path. `TrajectoryCapture` puts its blocks around it: snapshots and PMU
window (`OpenWindow`, `ReadWindow`) of `SystemWitnessCollector.measure`, the schedule
(`ActiveAt`), the origin's time stamps, and the two `finally` clauses (`Unwind`).

`WitnessPilot` interleaves the main thread, the worker, a bpftrace process that may be
refused, start, hang or end at any time, a kernel that makes events, and a clock that ticks
while samples are taken. An event is caught (`pending`) before its line is written
(`delivered`), and what was caught is written only by a process that SIGINT ends; one that is
killed or ends by itself loses it. With `use_sudo` the process launched is sudo, so SIGKILL
leaves bpftrace behind (`orphan`), and `_terminate` may raise without having ended anything,
which ends the pilot with an exception. `stop()` may not be able to read the event file, and
goes on with no lines. Events and windows have times, so the correlation's inclusive bounds
and its uncertainty are computed as the code does.

`RemoteHost` interleaves the controller's steps with the worker's own: a timer that fires,
a loss of power, sudo that expires, another controller's upload. Every remote command may
fail, and an operation may be given up anywhere. No ssh command has a timeout, so one that is
in flight when the worker goes down may never come back (`silent`); then only the operator
ends the operation, if ever. `Live` is the file of the scope that runs: the system service
reads `/etc`, the user service its own copy. Installed source trees are left out: a command
on them succeeds or raises.

### The evidence and study modules

`ControlledInterface` keeps typed records because the checks compare them: command,
provenance, topology, trace and result, with each injected fault as a change to one of
them. Identities the code compares as one block are one value (`config`).
`EvidenceFirewall` publishes rows, provenance and ledger, changes at most one stored copy,
and loads the result for one of four purposes. The copies include those the backend writes
and no reader compares (`Uncompared`): the configuration hash, provenance contract and
evidence source of the manifest, and of a row its bank, row and cell columns and its session
alias.

`NullThreshold` represents an ensemble as the histogram of its scores; `alpha` is a
percentage and every comparison is over integers (the interval's 1.96² is 3.8415).
`HeldOut` keeps, of a fitted model, the groups whose rows reached it, and of a score, the
groups it is about and whether it is of an ordinary model, of a control or of the model
reported as selected; a seed of a split is any order of the groups. The horizon curve's
control `wrong_trajectory_pairing` is fitted on features that a permutation of all
trajectories, whatever their partition, gives its training rows (`FitControl`), and takes
part in the selection (`SelectCurve`). A feature row knows of each witness value both its
stamp, which the analysis compares with the origin, and when it was read, which is after the
operation whose end is its stamp (`ReadAt`). `HorizonStore` has its
three files, each looked up and then written in place.

## 3. What is checked

| Run | What it shows |
| --- | --- |
| `MCJournal` | six appends, three deaths, one damaged line, with and without recovery: `NeverCorrupt`, `ReturnedRecordsAreKept`, `CorruptionLeftAlone` |
| `MCRunner` | three processes over one directory, two configurations, two backends (one resumable), limits, two deaths, a signal: `EvidenceIsSound` (journal, shards, manifest, status and returned value agree), `OneEpochUnlessResumable`, `MismatchLeavesEvidence`, and the refinement of `AcquisitionLedger` (`ImplementsLedger`) |
| `MCRunnerLive` | deaths, a guard stop and a damaged payload under fairness: `ResumesToCompletion`, and `SamplesKeptOnce` when shards go bad |
| `MCTrajectories` | four trajectories, three deaths, an owner and a stranger: `WorkIsKept`, `ResumesWhileLoadable` |
| `MCPhysicalSessions` | two slots of two shards, three deaths: `SlotsAreSound`, `InterruptedIsFrozen`, `Materializes` |
| `MCExperiment` | three calls of either driver, three configurations of which two share a protocol hash, two deaths, one deviation: `TestEvaluatedOnce`, `RecordRestsOnEvidence`, `EvidenceImmutable` |
| `MCControlled` | three samples, every conformance fault on either plane, two reconfigurations or restarts, one altered copy, four purposes: `OneConfiguration`, `FaultsLeaveNoRow`, `AcceptedClaimsHold`, `PlanesNeverCross` |
| `MCPilot` | one pilot over three ticks and two kernel events, with every refusal, torn or unreadable file, early end, failed termination and timeout: `CleanIsWitnessed`, `ObserverReaped`, `PilotEnds` |
| `MCCapture` | one trajectory of three steps, two cores and two events, with a failure or a late worker at every call: `MeasuredUnderPressure`, `NoPressureOutsideItsPhase`, `OperationRunsOnce`, `ResourcesReleased`, `TrajectoryEnds` |
| `MCRemoteHost` | two operations, three boots, two cycles, a failure or no answer at every command: `OneScope`, `LiveConfigKept`, `AcceptedBootsDiffer`, `ClaimRestsOnDistinctBoots`, `OperationsEnd` |
| `MCStudies` | each study over all inputs of small domains: `ThresholdIsPlusOne`, `DetectionsArePositives`, `FreshStreamsAreNew`, `HeldOutStaysOut`, `FeaturesEndAtOrigin`, `LoadsAsOneAnalysis` |
| `MCStaleConfig` | four calls on one boot; a violation, see below: `ReplacedOnRequest` |

Several properties are conjunctions of what one sentence of the documentation promises
(`EvidenceIsSound`, `WorkIsKept`, `SlotsAreSound`, `RecordRestsOnEvidence`); their parts
are defined, commented and, where proved, proved one by one.

Bounds. For the file-keeping modules every hazard needs at most two deaths (one to leave
something behind, one inside its recovery) and one later process to meet the result; the
runs allow that many and, where they are cheap, one more. Two shards of different sizes are
the least that have an order, a middle and a last one that may be damaged; `MaxRows = 2`
makes the row limit, the byte limit and the drain at the end differ. Two configurations
or identities are enough because the code only compares them for equality. In
`MCPhysicalSessions` every death consumes at most one directory, so five are enough for two
slots and three deaths. In `MCRunnerLive` `MaxStarts` exceeds by one the number of times a
process can end early, so the bound on starts never is what keeps a run from completing.
In `MCControlled` three samples give a fault that needs an earlier result one before and one
after it, and two changes let a configuration be left and come back to. In `MCCapture` three
steps and two cores are the least schedule whose coded positions alternate and take turns
over the cores, and two events let one descriptor be open when the next fails. In
`MCPilot` three ticks put an event before, inside, at the edge of and after a window with
its uncertainty. In `MCRemoteHost` two operations are enough for one to fail and the next to
meet what it left; three boots allow a reboot that nobody asked for in a campaign of two.
`MCStaleConfig` needs four operations and nothing else, so it has one boot and one cycle.
In `MCStudies` four null scores over three values give ties at, below and above the order
statistic, five sessions reach both branches of either session split, and the metadata has
locations that cross blocks, sessions and boots.

Symmetry is not used: every run finishes without it.

Deadlock is checked in `MCControlled`, `MCPilot` and `MCCapture`, whose modules say
explicitly where they may stop: that the trajectory's threads wait for each other for
ever only where its environment failed is part of what `MCCapture` shows. The
other programs stop when they are done or when the bounds are used up, so their
configurations turn the check off.

Fairness. `WF_vars(Process)`: a process that runs takes its next step, which is what the
operating system gives a single-threaded program. `WF_vars(Retry)`: whoever started the
work starts it again while it has not reported completion, which is what the service
unit and the operator's procedure (WORKER03.md) do; for trajectories the owner's
attempts are interleaved with those of a stranger, so the attempt is only infinitely
often possible and the assumption is strong fairness. In `TrajectoryCapture` each thread is
weakly fair: the scheduler runs it, and a native loop ends by its own clock. In
`WitnessPilot` the two threads are weakly fair; `PollTimeout` is strongly fair, since the
deadline of `start` passes however often its loop goes round; nothing is assumed of the
observer process. In `RemoteHost` an operation that is under way continues while its commands
are answered or fail: the polls have deadlines, the ssh commands have none
(`host/client.py:44-52`). Nothing is assumed of a command that is in flight when the worker
goes down, neither that it comes back nor that an operator interrupts it, and `OperationsEnd`
leaves such an operation out; the worker is never assumed to boot. Deaths, signals, damage and
failures are never fair.

`ResumesToCompletion`, `ResumesWhileLoadable` and `Materializes` each allow the ways in
which a death does end the work for good: a `run.json` torn while it was being rewritten,
a journal `_load_journal` refuses, a payload or manifest nothing quarantines, a completed
session whose `dataset.json` was not refreshed. `PilotEnds` leaves out the worker of a pilot
whose `start()` raised: nobody tells it to stop, and it churns until the interpreter ends.
`TrajectoryEnds` allows a pool that was left with workers at the barrier because a thread
could not be started or the wait was interrupted. These exits are as narrow as they are in
the code.

### Where code and documentation disagree

`MCStaleConfig` checks a property taken from the documentation and finds it violated.
ADR-005:13 says that deployment preserves an existing configuration and that replacing one
requires an explicit reset request. `_preserve_fallback_config` copies the configuration of the
user scope to `/etc` only if `/etc` has none (`host/client.py:336`). A migration that fails
after its copy leaves it there, while the user service goes on with
`~/.config/sensetrace/worker03.yaml` (`src/infra/worker03/sensetrace-user.service:10`). After
that file was replaced, by a reset that was asked for, a later migration without one goes live
on the old copy in `/etc`. `LiveConfigKept` says that this is the only way.

Seven more sentences of the documentation are stated as invariants in the modules and do not
hold. All but `AttestedEvidenceLoads` are the strong form of a property a run checks, which says
what the code does give.
TLC shows the violation within seconds when the invariant is added to the named configuration.

| Invariant | Configuration | What it says, and what refutes it |
| --- | --- | --- |
| `PhysicalSessions!CompletedSessionsLoad` | `MCPhysicalSessions` | "Acquire one genuine session into its own crash-safe source directory" (`phase1a.py:187`). A death after `session.json` says completed (`phase1a.py:407`) and before `dataset.json` is refreshed (410-453) leaves the one that embeds an active session; it is whole, `load_dataset` refuses it (`datasets.py:884`), and every later attempt raises at `phase1a.py:194`. `Materializes` counts that state as stuck. |
| `EvidenceFirewall!EveryCopyIsChecked` | `MCControlled` | "Every duplicated identity is checked against the serialized typed objects and the session ledgers" (`datasets.py:203`). Of what `acquisition/controlled.py` writes, lines 776-779, 858 and 864-866 are compared by no reader of physical evidence. `AcceptedClaimsHold` is about all others. |
| `EvidenceFirewall!AttestedEvidenceLoads` | `MCControlled` | New physical claims require an explicit attestation record (DATASET.md:52), and `load_dataset` has a boundary that requires one. It compares the record with a controller identity and a host inventory fingerprint of the dataset's provenance (`datasets.py:275`, 282), which `manifest_provenance` never writes (`acquisition/controlled.py:720`), so a session with a valid attestation, published unaltered, is refused there. |
| `WitnessPilot!TelemetryNeverZero` | `MCPilot` | "telemetry is never silently treated as zero" (ADR-014:53). The status of a session (`witness/observer.py:395`) depends on the start, the hooks and the lines that do not parse, neither on the end of the process nor on a file that could not be read (332-335), so a sample with events in its window is called clean when the observer had died. `CleanIsWitnessed` is about every event of an observer that lasted, and about what was written of one that did not. |
| `WitnessPilot!ObserverIsTemporary` | `MCPilot` | "Load a temporary, target-filtered observer" (`witness/observer.py:188`). `_terminate` (317-325) may raise, or kill only sudo. `ObserverReaped` is about the process that was launched, when there is a report. |
| `HeldOut!SelectedStaysOut` | `MCStudies` | "selected_model uses validation only" (`horizon.py:1101`), and preprocessing is fit on training rows only (DATASET.md:158). `build_real_controls` permutes features over all trajectories (`trajectory.py:121`), the control is fitted on what its training rows get (`horizon.py:1184`, 1265), and nothing keeps it from being selected (`horizon.py:1414`). `HeldOutStaysOut` is about the ordinary models. |
| `HeldOut!WitnessPrecedesOrigin` | `MCStudies` | The firewall of an acquisition forbids "post-origin witness values" (`latent_system_state.py:1706`). `measure` takes the end of the operation, then reads the snapshot, and stamps it with that end (`latent_system_state.py:729`), so the origin's own snapshot passes the comparison (2022, 2039). `FeaturesEndAtOrigin` says that no other does. |

Met while modelling, and visible in the modules, without a run of their own:

- `daemon` appends to `service-events.jsonl` without recovering it (`runner.py:465`), while
  `journal.py` says later appends to an invalid tail would be ambiguous (`Journal` with
  `recovers = FALSE`).
- The preview of the resume index skips a damaged shard in the middle (`runner.py:166`); its
  docstring says it is the valid finalized prefix (`runner.py:159`).
- A torn last line of a trajectory journal is refused by every later process;
  CONTROLLED-PREDICTIVE-STATE.md:56 says a campaign is resumable after a completed
  trajectory.
- An interrupted session with an unfinished payload of its own makes its recovery raise
  (`phase1a.py:219`), so it is never replaced; EXPERIMENT.md:155 says it is.
- `combine_datasets` raises on an unfinished combined payload (`datasets.py:1036`); it is
  said to resume safely (`datasets.py:977`).
- With no live session in the slot, the parent with the greatest random name is recovered
  a second time (`phase1a.py:474`, against `phase1a.py:457`).
- The worker of a witness pilot waits at most five seconds to be released; a baseline sample
  that takes longer is followed by a positive control without churn (`witness/pilot.py:42`).
- A latent trajectory at instrumentation tier 0 has no witness rows and its record is always
  refused; docs/ARCHITECTURE-LATENT-SYSTEM-STATE.md:31 has tier 0 as the control.
- Any report whose `phase1_gate` is true starts a Phase 1A campaign (`phase1a.py:796`), also
  one that a power study wrote for a development candidate, although the study's own record
  says that no candidate authorizes Phase 1A (`calibration.py:2043`).
- Two invocations with different reports over the same splits may interleave in one horizon
  directory: one raises, and what the other left may not load. The manifest carries
  the time of its invocation, so repeating an identical one raises as well.
- The forecast's bootstrap takes one group per test trajectory, while its losses are those of
  the trajectories with a valid target (`controlled_forecast.py:1508`), so the two lists
  align only when every target is valid; `confirmation_is_untouched` of the latent analysis
  says that a confirmation was given (`latent_system_state.py:2715`).
- In the native sensitivity calibration the seed streams of two development replicates
  coincide at magnitude 27, and all balance modes of Phase 0 draw the same streams.
  Development and fresh streams stay apart (`FreshStreamsAreNew`) for the magnitudes of
  every configuration in the repository. They would meet at a magnitude of 296 cycles from
  the hundredth null replicate on, and for two magnitudes 269 cycles apart from the
  ninetieth development replicate on (`calibration.py:1218`, `calibration.py:1344`).
- A gate report counts detections by the plus-one p-value and false positives by an
  interpolated quantile. `config.py:82` takes any `alpha` below one; above one half a
  replicate may count as detected without reaching the quantile, so
  `DetectionsArePositives` is about an `alpha` of at most one half.

## 4. What is proved

`tlapm` on each of the modules named `...Proofs` checks the proofs. Every safety invariant
and every action property that a passing run checks is a theorem. Nothing is assumed but the named
assumptions on the constants, which TLC evaluates in the runs: `JournalAssumption`,
`RunnerAssumption`, `MalformedAssumption`, `TrajectoryAssumption`, `CaptureAssumption`,
`SessionAssumption`, `ExperimentAssumption`, `EventAssumption`, `NoManifestAssumption`,
`CountAssumption`, `ChangesAssumption`, `ConfigsAssumption`, `PilotAssumption`,
`WorkerAssumption`, `CyclesAssumption`, `ScoresAssumption`, `SensitivityAssumption`,
`Phase0Assumption`, `HeldOutAssumption`. They bound counts from below, keep markers such as
`None`, `Malformed` and `Changed` apart from what they mark, and repeat ranges the code checks.
Three theorems have a hypothesis of their own, named in their statement and explained below:
`RunnerImplementsLedger`, `StudiesFreshStreamsAreNew` and `StudiesDetectionsArePositives`.

`JournalProofs`, for any number of records, deaths, processes and damaged lines:

- `JournalTypeCorrect`. `TypeOK` is not inductive: inside an append the record needs a
  number, which `AppendIsCalled` adds.
- `JournalOrdered`. `LinesInCallOrder` is not inductive either: `LinesAreCalled` adds
  that lines hold called records, and inside an append only earlier ones.
- `JournalNeverCorrupted` and `JournalKeepsReturnedRecords`, from `SafeInv`: past recovery
  there is no tail (`AppendsOnALineBoundary`), so an append becomes a line of its own.
  This is the argument the comment in `journal.py` makes, and it holds although the
  record of a recovery is itself an append that may die.
- `JournalLeavesCorruptionAlone`, an action property, from type correctness.

The module begins with the lemmas about the file operators of `JournalFile`: what an append, a
torn append, a truncation and a damaged line do to the lines, the tail and the type.

`RunnerProofs`, for any stream, shard size, set of callers and number of events:

- `RunnerTypeCorrect`, where `BufferSound` (the buffer is part of what was acquired and
  not empty when finalized) is what makes a shard's range well typed.
- `RunnerJournalNeverCorrupt`: no process, refused ones and signal handlers included,
  garbles a line. The invariant says at which points the journal may have a tail:
  before its recovery, and there the only append checks for one.
- `RunnerMismatchLeavesEvidence`, an action property, from `ContractInv`: a process that is
  past the comparisons of `run.json` has its configuration, and past the backend's decision
  its identity; only steps past both touch shards, journal and manifest.
- `RunnerSamplesKeptOnce`, another, from `ShardsInv`: all payloads, damaged ones included,
  follow each other in the stream in the order of their indices, and what the process
  acquires next, and the index it will be written under, come after all of them. The
  second half is what a resume index that skips a damaged shard, and a quarantine that
  frees a name, must re-establish.
- `RunnerEvidenceSound` joins four invariants. `PrefixInv`: without damage the valid shards
  are a prefix of the stream and the process continues it where it ends. `EndInv`: the
  reasons to leave the loop are never forgotten, although the stop request is read three
  times, so a manifest is written over the whole stream only and completion is reported
  only with one. `EventsInv`: every shard the journal names ends where a valid shard ends.
  `JournalInv` is that of `RunnerJournalNeverCorrupt`.
- `RunnerOneEpoch`, from `EpochInv`: a backend that cannot prove continuity is accepted
  only where no shard validates, so all that validate later are this process's.
- `RunnerImplementsLedger`: every step maps to a step or a stutter of `AcquisitionLedger`,
  through deaths, refusals, signals, quarantines and restarts. Its hypothesis
  `[](used.damage = 0)` says that no finalized payload is damaged from outside: the ledger
  promises nothing where evidence is destroyed. The run has the same bound.

`TrajectoriesProofs`, for any plan, set of callers and number of deaths:

- `TrajectoriesTypeCorrect`, and `TrajectoriesRefuseForeignContract` from the invariant
  that past `_make_design` the caller's contract is the design's (`ContractChecked`).
- `TrajectoriesJournalledOnce`, `TrajectoriesManifestComplete` and
  `TrajectoriesLoadTheWork`, together `TrajectoriesKeepTheWork` (the run's `WorkIsKept`),
  from one inductive invariant. Its heart is `MemoryIsJournal`: a process's dictionary
  covers what the journal holds and is exactly that as long as the journal can be read. The
  append that glues a record to a line without its newline breaks the second half and, in
  the same step, the readability of the journal, which nothing restores: the trajectory is
  lost to every later process, but no process ever takes the journal for complete.

The same module, of one trajectory (`CaptureSpec`), for any cores, schedule and number of
events:

- `CaptureMeasuredUnderPressure`, from `FlagsAreFresh` (a start flag of this phase means its
  worker entered the native loop) and `FlagsBeforeMeasuring`.
- `CapturePressureInItsPhase`, from `PoolJoined`: the main thread is outside a phase, or has
  a result or an exception of one, only when all its workers have ended; and from
  `BufferWhileWorking`.
- `CaptureOperationOnce` and `CaptureResourcesReleased`, from what `RunsSound` and
  `ReadersSound` say at each point. `ScheduleOnCores` shows that the coded schedule takes
  the cores in turn and names no other, which the wait for all workers rests on.

`PhysicalSessionsProofs`, for any number of slots, shards, session ids and deaths:

- `SessionsTypeCorrect`; the strengthening `Working` says which of `slot`, `dir` and
  `replaced` name something at which point.
- `SessionsOneLivePerSlot`, `SessionsParentsAnnounce`, `SessionsCompletedHaveManifest` and
  the action property `SessionsInterruptedFrozen`, from `Position`: between the choice of
  the session to replace and its mark no other session of the slot is live
  (`AtInterrupt`), after the mark none is (`AtCreate`), and a directory is written only
  while it is the active session of the slot. That the choice leaves no other live session
  is the precedence rule (`ExistingSessions`).
- `SessionsCombineOnePerSlot`, from `SourcesInv` and `Copied`: the loop's sources are the
  completed sessions of their slots, so their rows are all completed rows; and with a
  manifest every slot has a completed session, so no later attempt completes another.
- `SessionsSlotsSound`, the run's `SlotsAreSound`, from these.

`ExperimentProofs`, for any configurations, protocol hash, inventories, size of an
acquisition and number of calls, deaths and deviations:

- `ExperimentTypeCorrect`. The strengthening says where the process is
  (`Whereabouts`: a nested acquisition has the phase of its directory, only the whole
  experiment goes beyond the evidence, every pending transition has a name) and that a
  manifest exists wherever its fingerprint is about to be set (`Published`).
- `ExperimentDatasetOfOneAcquisition` and `ExperimentEvidenceImmutable`, from `Writing`:
  while shards are written there is no manifest, no temporary, and nothing in the
  directory that another call wrote.
- `ExperimentDatasetUnderFrozenProtocol`, from `Synchronized` (memory and state file agree
  on state and hash, for the outer directory also during a nested call) and `Frozen`.
  It holds for every hash, so two configurations that share one may differ.
- `ExperimentTestEvaluatedOnce`, from `Evaluated`: an evaluation leaves the state file in a
  late state, transitions go up by one rank, so training is never announced again.
- `ExperimentBooksAgree`, from `BookInv`: between the two writes of a transition the stream is
  one event ahead of the state file (`Ahead`), the process's memory is that of the state file
  (`Remembered`), and each death adds at most one event that no state file counts.
- `ExperimentFingerprintsOfDatasets`, from `Phased`: a dataset has the phase of the
  acquisition that wrote it, so a fingerprint in a state file is that of a published dataset
  of its phase.
- `ExperimentDecisionRestsOnEvidence`, from `Staged`: at every point of the way from the
  reference acquisition to the report, the stages before it were done in this very call. The
  reason is that the complete experiment starts from `inventory_verified` only, so nothing
  of an earlier call can be among its results.
- `ExperimentRecordRestsOnEvidence`, the run's `RecordRestsOnEvidence`, from all of these.

`EvidenceFirewallProofs`, for any number of samples, configurations and reconfigurations:

- `FirewallOneConfiguration` and `FirewallFaultsLeaveNoRow`, from `RowsInv`: row *i* is what a
  correct controller answers to command *i* (`RowsCorrect`), all under the configuration that
  the process read, or on the mock plane the one on disk (`Anchored`). That no injected
  fault survives the checks is `InjectedAnswer`, one case per fault; the stale answers need
  that a sequence number is never used twice.
- `FirewallPlanesNeverCross`, from `MockRefused` and `PhysicalRefusedAsMock`: whatever is
  altered alone, another copy still tells the plane.
- `FirewallAcceptedClaimsHold`, from `DatasetInv` (what is published is that of a complete
  session, changed at one site at most) and `AlteredRefused`, which goes through every site
  but the `Uncompared` ones: each is compared with a second copy by one of the checks of the
  physical boundary. A change at an uncompared site is accepted, and `UncomparedKeeps` says
  that it leaves the claim itself, provenance and measurements, as it was.

`RemoteHostProofs`, for any number of calls, boots, cycles and boots of a campaign:

- `RemoteHostOneScope`, from `ScopeInv`: a deployment that works on the user scope met no
  system unit and none can appear under it; one that installs the system unit has seen the
  fallback gone, and a reboot does not bring back a unit that is not enabled.
- `RemoteHostAcceptedBootsDiffer`, from `AcceptanceInv`: the boot that is polled for is
  labelled after every accepted one, and boot ids only grow.
- `RemoteHostClaimsRest`, from `CampaignInv`: between label and entry the label is not in
  the manifest, a report that knows its boot agrees with its entry, entered reports stay, and
  a claim is only made of a full manifest of compliant reports. The check for distinct boots
  in the combination turns out not to be needed for reports gathered this way.

- `RemoteHostLiveConfigKept`, an action property over the history variable `lastLive`, from
  `ConfInv` (where the installer copies a configuration without a reset, a missing one in the
  system scope means that the user scope has none either) and `LiveInv` (as long as there is no
  system unit, what was live last is the user's file, so a migration that copies carries it
  over). A step that brings up another configuration without a reset started from a
  `StaleCopy`.

`StudiesProofs`, of the witness pilot, for any number of samples, threads, events and ticks:

- `PilotCleanIsWitnessed`: nothing is said of a sample before the report (`SilentBefore`).
  `Caught` says that with every tracepoint what happened is caught or written as long as the
  observer runs, and written when SIGINT ended it at the end of a session, so what
  `Answerable` asks for is among the lines the report is made of; no later step changes that.
- `PilotObserverReaped`: every way to a report passes through a `_terminate` that returned, or
  the process was never launched (`NotYetLaunched`), and only a killed sudo leaves its child
  (`OrphanOfSudo`). A pilot whose `_terminate` raised has no report.

Of the studies, from one invariant for each, for any sessions, metadata, writers and scores:

- `StudiesHeldOutStaysOut`, from `FitSound` (what reached the model by which stage) and
  `RowsApart` (the partitions share nothing). The latter rests on `CutApart`, that a cut of a
  shuffle at two places within it has disjoint parts, on `SessionSplitsApart`, that both
  session splits cut within it from three sessions on, and, for the grouped splits, on the
  audit that refuses a group in two partitions. `FitSound` does not hold of the model in use
  after the curve's control (`Controlled`); `ControlsKeep` shows that what follows scores no
  ordinary model with it.
- `StudiesFeaturesEndAtOrigin`, from `RowEndsAtOrigin`, for every length of history, lead and
  block: of the two instants of an observation, only the origin's own reading can come after
  the end of the origin's operation.
- `StudiesLoadAsOneAnalysis`, from `ManifestsAreWhole`: a manifest that parses, on disk or in
  a reader's memory, is the whole one of an invocation that began; the hashes in it do the
  rest.
- `StudiesThresholdIsPlusOne` and `StudiesDetectionsArePositives`. The counts of an ensemble
  are folds, which are defined by recursion, and the library's induction theorems cannot be
  used here. The lemmas `IterExists` to `SumUnion` are therefore proved by taking a least
  subset for which they fail, which exists because strict inclusion of finite sets is
  well founded (`LeastSet`). `RankedBounds` then relates a rank to the count below a score;
  both theorems are arithmetic on it. The second has the hypothesis `GateAlpha <= 50`.
- `StudiesFreshStreamsAreNew`. The gate's streams are apart by seed or by the ensemble's name
  (`GateInv`). Those of the sensitivity calibration are sums on one base, and apart for any
  number of replicates under the hypothesis `MagnitudesApart`: magnitudes below 99734, none
  of them 296, no two 269 apart. Without it the theorem is false, as section 3 says; the
  magnitudes of every configuration of the repository, 0, 32, 64, 128, 256 and 512,
  satisfy it.

Only model-checked: liveness, which is beyond this prover (`ResumesToCompletion`,
`ResumesWhileLoadable`, `Materializes`, `PilotEnds`, `TrajectoryEnds`, `OperationsEnd`), and
that `ReplacedOnRequest` and the seven invariants of section 3 are violated.

## 5. What is not modelled, and what comes next

Next: abstract specifications of a campaign and of a condition's slots, as `AcquisitionLedger`
is one of a run, and that `Trajectories` and `PhysicalSessions` implement them.

Not modelled:

- `characterization.py`, `construction.py`, `protocol.py`: one straight line from
  measurements to a report, whose decisions are floating point statistics.
- `receiver.py`, `synthetic_receiver.py`, `real_horizon.py`, the residualizer and leakage
  audit of `fragmented.py`: model fitting and contrasts over arrays. The experiment models
  when a tournament runs, not what it computes.
- `config.py`, `cli.py`, `inventory.py`, `worker03.py`: parsing and reads, no state.
- Of the remote host client: the verifications of a process restart and a recovery, the
  launchers of single remote runs, copying their results, the CPU and noise profiles.
- Of the witness observer: lines lost inside bpftrace when its buffers overflow, and a
  readiness line that comes before the probes are attached (it is taken to mean that they are).
- Of the forecast's confirmation: its replay observation by observation
  (`controlled_forecast.py:1573`), which is of the same fit and the same rows as the score
  that is modelled. Of the horizon curve: the fits on its other controls, which stay within
  a trajectory and so within a partition; their rows are modelled (`ControlRows`). Of Phase 1A:
  the metadata view of its features.
- Of the trajectory campaigns and calibrations: the numbers. A score is an integer or the set
  of groups it is about.

Left out of the modules that exist: the contents of samples and packets, checksums
(whether a sidecar vouches for a payload is kept), the contents of manifests beyond what
they count or compare, file permissions and durability of renames (a rename that returned
is taken to survive). Two processes at once on one directory are modelled for the horizon
store only; for the others the models have one process after another, which is how the
command line and the service start them.
