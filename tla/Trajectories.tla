---------------------------- MODULE Trajectories -----------------------------
(***************************************************************************)
(* The two trajectory campaigns, run_controlled_forecast_acquisition and   *)
(* run_latent_system_state_acquisition: one process at a time acquires the *)
(* trajectories of a design file in order and appends each to a JSONL      *)
(* journal of its own, which is not sensetrace.journal: it is loaded       *)
(* without any repair of its tail.  When every trajectory is there, the    *)
(* raw artifact and the manifest are written from memory.                  *)
(***************************************************************************)
EXTENDS JournalFile, FiniteSets

CONSTANTS
    Planned,       \* number of trajectories the design lists
    Contracts,     \* configuration and stage a caller may pass
    None,
    MaxCrashes     \* bound on process deaths

ASSUME TrajectoryAssumption ==
    /\ Planned \in Nat \ {0}
    /\ None \notin Contracts
    /\ MaxCrashes \in Nat
    /\ Malformed \notin Nat

VARIABLES
    design,        \* the contract design.json records, None when it is absent
    journal,       \* trajectory_journal.jsonl: trajectories 1..Planned
    progress,      \* completed_trajectory_count of progress.json
    raw,           \* the trajectories in raw_trajectories.npz
    manifest,      \* the trajectories acquisition.json counts
    pc,
    contract,      \* argument of the running process
    completed,     \* its dictionary of completed trajectories
    appended,      \* trajectories whose _append_journal has returned, an observation
    outcome,
    crashes

files == <<design, journal, progress, raw, manifest>>
vars == <<design, journal, progress, raw, manifest, pc, contract, completed,
          appended, outcome, crashes>>

Trajectory == 1..Planned

Points == {"idle", "design", "load", "acquire", "append", "progress", "writeManifest"}

Init ==
    /\ design = None
    /\ journal = EmptyFile
    /\ progress = 0
    /\ raw = {}
    /\ manifest = {}
    /\ pc = "idle"
    /\ contract = None
    /\ completed = {}
    /\ appended = {}
    /\ outcome = "none"
    /\ crashes = 0

----------------------------------------------------------------------------

Leave(result) ==
    /\ pc' = "idle"
    /\ contract' = None
    /\ completed' = {}
    /\ outcome' = result

Start(c) ==
    /\ pc = "idle"
    /\ contract' = c
    /\ pc' = "design"
    /\ UNCHANGED <<files, completed, appended, outcome, crashes>>

\* Mutant: an existing design is never accepted.
DesignNeverReopened ==
    /\ pc = "design"
    /\ \/ /\ design = None
          /\ design' = contract
          /\ pc' = "load"
          /\ UNCHANGED <<contract, completed, outcome>>
       \/ /\ design # None
          /\ Leave("refused")
          /\ UNCHANGED design
    /\ UNCHANGED <<journal, progress, raw, manifest, appended, crashes>>

\* _make_design writes the design once, atomically, and refuses another one.
MakeDesign ==
    /\ pc = "design"
    /\ \/ /\ design = None
          /\ design' = contract
          /\ pc' = "load"
          /\ UNCHANGED <<contract, completed, outcome>>
       \/ /\ design = contract
          /\ pc' = "load"
          /\ UNCHANGED <<design, contract, completed, outcome>>
       \/ /\ design \notin {None, contract}
          /\ Leave("refused")
          /\ UNCHANGED design
    /\ UNCHANGED <<journal, progress, raw, manifest, appended, crashes>>

Lines == {journal.lines[i] : i \in 1..Len(journal.lines)}

Journalled == Lines \ {Malformed}

NoDuplicate ==
    \A i, j \in 1..Len(journal.lines) :
        journal.lines[i] = journal.lines[j] => i = j

\* _load_journal raises on a line it cannot decode, the unterminated last one
\* included, and on a trajectory that occurs twice.  A last line that only
\* lacks its newline is read as any other; TailRecord is the trajectory in it.
TailRecord ==
    IF journal.tail = "whole"
    THEN {t \in Trajectory : t \notin Journalled /\ \A u \in 1..(t - 1) : u \in Journalled}
    ELSE {}

\* Mutant: the last line is taken for a partial one.
AllButLastLine == {journal.lines[i] : i \in 1..(Len(journal.lines) - 1)}

Loaded == Journalled \cup TailRecord

Loadable == Readable(journal) /\ NoDuplicate /\ journal.tail # "torn"

LoadJournal ==
    /\ pc = "load"
    /\ IF Loadable
       THEN /\ completed' = Loaded
            /\ pc' = "acquire"
            /\ UNCHANGED <<contract, outcome>>
       ELSE Leave("refused")
    /\ UNCHANGED <<files, appended, crashes>>

\* The loop over the design skips what is completed.
IsNext(t) ==
    /\ t \in Trajectory \ completed
    /\ \A u \in 1..(t - 1) : u \in completed

Missing == Trajectory \ completed

\* _acquire_trajectory returns a record; raising is a Crash.
Acquire ==
    /\ pc = "acquire"
    /\ Missing # {}
    /\ pc' = "append"
    /\ UNCHANGED <<files, contract, completed, appended, outcome, crashes>>

AppendTrajectory ==
    /\ pc = "append"
    /\ \E t \in Trajectory :
        /\ IsNext(t)
        /\ journal' = Append1(journal, t)
        /\ completed' = completed \cup {t}
        /\ appended' = appended \cup {t}
    /\ pc' = "progress"
    /\ UNCHANGED <<design, progress, raw, manifest, contract, outcome, crashes>>

\* progress.json, written atomically.
WriteProgress ==
    /\ pc = "progress"
    /\ progress' = Cardinality(completed)
    /\ pc' = "acquire"
    /\ UNCHANGED <<design, journal, raw, manifest, contract, completed, appended,
                   outcome, crashes>>

AllCompleted == Missing = {}

WriteRaw ==
    /\ pc = "acquire"
    /\ AllCompleted
    /\ raw' = completed
    /\ pc' = "writeManifest"
    /\ UNCHANGED <<design, journal, progress, manifest, contract, completed,
                   appended, outcome, crashes>>

\* acquisition.json, then experiment.json.
WriteManifest ==
    /\ pc = "writeManifest"
    /\ manifest' = completed
    /\ Leave("completed")
    /\ UNCHANGED <<design, journal, progress, raw, appended, crashes>>

\* A death inside _append_journal leaves any prefix of the line.
Crash ==
    /\ pc # "idle"
    /\ crashes < MaxCrashes
    /\ crashes' = crashes + 1
    /\ IF pc = "append"
       THEN journal' \in TornAppends(journal)
       ELSE UNCHANGED journal
    /\ Leave("error")
    /\ UNCHANGED <<design, progress, raw, manifest, appended>>

Process == MakeDesign \/ LoadJournal \/ Acquire \/ AppendTrajectory
           \/ WriteProgress \/ WriteRaw \/ WriteManifest

Begin == \E c \in Contracts : Start(c)

Next == Begin \/ Process \/ Crash

Spec == Init /\ [][Next]_vars

\* A caller with the campaign's own contract, or the first one.
Retry == outcome # "completed" /\ \E c \in Contracts : design \in {None, c} /\ Start(c)

\* A process that runs takes its next step, and whoever owns the campaign comes
\* back to it until it completed, whatever other callers do in between.
FairSpec == Spec /\ WF_vars(Process) /\ SF_vars(Retry)

----------------------------------------------------------------------------

TypeOK ==
    /\ design \in Contracts \cup {None}
    /\ journal \in Files(Trajectory)
    /\ progress \in 0..Planned
    /\ raw \in SUBSET Trajectory
    /\ manifest \in SUBSET Trajectory
    /\ pc \in Points
    /\ contract \in Contracts \cup {None}
    /\ completed \in SUBSET Trajectory
    /\ appended \in SUBSET Trajectory
    /\ outcome \in {"none", "completed", "refused", "error"}
    /\ crashes \in 0..MaxCrashes

\* A trajectory is acquired once, however often its campaign was interrupted:
\* no two lines of the journal hold the same one, a line that a torn tail
\* swallowed aside (the duplicate check of _load_journal never fires).
NeverJournalledTwice ==
    \A i, j \in 1..Len(journal.lines) :
        (journal.lines[i] = journal.lines[j] /\ journal.lines[i] # Malformed) => i = j

\* A manifest is published only over all planned trajectories, and the raw
\* artifact it describes holds the same ones, although the artifact is written
\* from the memory of the last process and not from the journal.
ManifestCoversDesign == manifest # {} => manifest = Trajectory /\ raw = Trajectory

\* A caller whose configuration or stage differs from the design changes no
\* file of the campaign (_make_design).
ForeignContract == design # None /\ contract \notin {None, design}

ForeignContractRefused == [][ForeignContract => UNCHANGED files]_vars

\* A campaign whose owner comes back to it does complete, unless a death left a
\* journal that _load_journal refuses (run_controlled_forecast_acquisition).
ResumesWhileLoadable == <>(outcome = "completed" \/ ~Loadable)

\* The campaign is read back through its journal (in the latent campaign by
\* load_latent_system_state_acquisition): a journal that can be loaded holds
\* every trajectory whose append returned, also one that followed a line without
\* its newline, and exactly those of the manifest once there is one.
LoadableHoldsTheWork ==
    Loadable =>
        /\ appended \subseteq Loaded
        /\ manifest # {} => Loaded = manifest

\* The work of a campaign is kept: whatever deaths left in the journal, each
\* trajectory is acquired once, what was acquired can be read back as long as
\* anything can, and a manifest stands for the whole plan.
WorkIsKept ==
    /\ NeverJournalledTwice
    /\ ManifestCoversDesign
    /\ LoadableHoldsTheWork

=============================================================================
