-------------------------- MODULE TrajectoriesProofs --------------------------
(***************************************************************************)
(* Proofs about Trajectories, for any number of planned trajectories, of   *)
(* callers and of deaths.                                                  *)
(***************************************************************************)
EXTENDS Trajectories, TrajectoryCapture, FiniteSetTheorems, TLAPS

USE TrajectoryAssumption

----------------------------------------------------------------------------
(* The operations on the journal file (see JournalProofs)                  *)

LEMMA AppendType ==
    ASSUME NEW R, NEW f \in Files(R), NEW r \in R
    PROVE  Append1(f, r) \in Files(R)
BY DEF Files, Append1, Tails

LEMMA TornType ==
    ASSUME NEW R, NEW f \in Files(R), NEW g \in TornAppends(f)
    PROVE  g \in Files(R) /\ g.lines = f.lines
BY DEF Files, TornAppends, Tails

\* What an append adds: one line, at the end.
LEMMA AppendLines ==
    ASSUME NEW R, NEW f \in Files(R), NEW r \in R
    PROVE  LET g == Append1(f, r)
           IN  /\ Len(g.lines) = Len(f.lines) + 1
               /\ \A i \in 1..Len(f.lines) : g.lines[i] = f.lines[i]
               /\ g.lines[Len(f.lines) + 1] =
                      IF TrailingPartial(f) THEN Malformed ELSE r
               /\ ~TrailingPartial(g)
BY DEF Files, Append1, TrailingPartial, Tails

----------------------------------------------------------------------------
(* Type correctness *)

\* A set of trajectories has at most as many members as the plan lists.
LEMMA CountBounded ==
    ASSUME NEW S \in SUBSET Trajectory
    PROVE  Cardinality(S) \in 0..Planned
<1>1. IsFiniteSet(Trajectory) /\ Cardinality(Trajectory) = Planned
  BY FS_Interval DEF Trajectory
<1>2. Cardinality(S) \in Nat /\ Cardinality(S) <= Planned
  BY <1>1, FS_Subset, FS_CardinalityType
<1>3. QED
  BY <1>2

LEMMA LoadedType == TypeOK => Loaded \in SUBSET Trajectory /\ Journalled \in SUBSET Trajectory
BY DEF TypeOK, Loaded, Journalled, Lines, TailRecord, Files

LEMMA InitType == Init => TypeOK
BY DEF Init, TypeOK, Files, EmptyFile, Tails, Points

LEMMA ProcessType == TypeOK /\ Process => TypeOK'
<1> SUFFICES ASSUME TypeOK, Process PROVE TypeOK'
  OBVIOUS
<1> USE DEF TypeOK, files, Leave, Points
<1>1. CASE MakeDesign
  BY <1>1 DEF MakeDesign
<1>2. CASE LoadJournal
  BY <1>2, LoadedType DEF LoadJournal
<1>3. CASE Acquire
  BY <1>3 DEF Acquire
<1>4. CASE AppendTrajectory
  BY <1>4, AppendType DEF AppendTrajectory
<1>5. CASE WriteProgress
  BY <1>5, CountBounded DEF WriteProgress
<1>6. CASE WriteRaw
  BY <1>6 DEF WriteRaw
<1>7. CASE WriteManifest
  BY <1>7 DEF WriteManifest
<1>8. QED
  BY <1>1, <1>2, <1>3, <1>4, <1>5, <1>6, <1>7 DEF Process

LEMMA NextType == TypeOK /\ [Next]_vars => TypeOK'
<1> SUFFICES ASSUME TypeOK, [Next]_vars PROVE TypeOK'
  OBVIOUS
<1>1. CASE Begin
  BY <1>1 DEF Begin, Start, TypeOK, Points, files
<1>2. CASE Process
  BY <1>2, ProcessType
<1>3. CASE Crash
  <2>1. journal' \in Files(Trajectory)
    BY <1>3, TornType DEF Crash, TypeOK
  <2>2. QED
    BY <1>3, <2>1 DEF Crash, Leave, TypeOK, Points
<1>4. CASE UNCHANGED vars
  BY <1>4 DEF vars, TypeOK
<1>5. QED
  BY <1>1, <1>2, <1>3, <1>4 DEF Next

\* Every reachable state is well typed; in particular the count in progress.json
\* never exceeds the plan.
THEOREM TrajectoriesTypeCorrect == Spec => []TypeOK
<1>1. QED
  BY InitType, NextType, PTL DEF Spec

----------------------------------------------------------------------------
(* The owner of the campaign *)

\* Past _make_design the running process has the contract of the design.
ContractChecked ==
    /\ pc = "idle" => contract = None
    /\ pc \notin {"idle", "design"} => contract = design

LEMMA ContractInit == Init => ContractChecked
BY DEF Init, ContractChecked

LEMMA ContractNext == ContractChecked /\ [Next]_vars => ContractChecked'
BY DEF ContractChecked, Next, Begin, Start, Process, MakeDesign, LoadJournal, Acquire,
       AppendTrajectory, WriteProgress, WriteRaw, WriteManifest, Crash, Leave, files, vars

LEMMA ForeignStep ==
    ContractChecked /\ [Next]_vars => (ForeignContract => UNCHANGED files)
<1> SUFFICES ASSUME ContractChecked, [Next]_vars, ForeignContract
             PROVE  UNCHANGED files
  OBVIOUS
<1>1. pc = "design"
  BY DEF ContractChecked, ForeignContract
<1>2. design \notin {None, contract}
  BY DEF ForeignContract
<1>3. QED
  BY <1>1, <1>2 DEF Next, Begin, Start, Process, MakeDesign, LoadJournal, Acquire,
     AppendTrajectory, WriteProgress, WriteRaw, WriteManifest, Crash, Leave, files, vars

\* A caller with another configuration or stage changes no file of a campaign.
THEOREM TrajectoriesRefuseForeignContract == Spec => ForeignContractRefused
<1>1. QED
  BY ContractInit, ContractNext, ForeignStep, PTL DEF Spec, ForeignContractRefused

----------------------------------------------------------------------------
(* What the journal holds *)

Running == pc \in {"acquire", "append", "progress", "writeManifest"}

\* The memory of a running process is what its journal holds, as long as the
\* journal can be read: the first append after a tail without its newline ends
\* that, and nothing restores it.
MemoryIsJournal ==
    /\ Running => Journalled \subseteq completed /\ appended \subseteq completed
    /\ Running /\ Readable(journal) => completed = Loaded /\ journal.tail # "torn"

\* Trajectories are left to acquire at an append, none once the raw artifact is
\* written.
WorkLeft ==
    /\ pc = "append" => Missing # {}
    /\ pc = "writeManifest" => completed = Trajectory /\ raw = Trajectory

IInv ==
    /\ TypeOK
    /\ NeverJournalledTwice
    /\ ManifestCoversDesign
    /\ LoadableHoldsTheWork
    /\ MemoryIsJournal
    /\ WorkLeft

\* With nothing journalled twice, a journal is loaded if it can be read and has
\* no partial last line.
LEMMA LoadableMeans ==
    ASSUME NeverJournalledTwice
    PROVE  Loadable <=> Readable(journal) /\ journal.tail # "torn"
BY DEF NeverJournalledTwice, Loadable, NoDuplicate, Readable

\* Steps that touch neither the journal nor the manifest, nor what was appended.
LEMMA JournalUnchanged ==
    ASSUME IInv, UNCHANGED <<journal, manifest, appended>>
    PROVE  /\ NeverJournalledTwice' /\ LoadableHoldsTheWork'
           /\ Loaded' = Loaded /\ Journalled' = Journalled /\ Loadable' = Loadable
<1>1. /\ Loaded' = Loaded /\ Journalled' = Journalled /\ Loadable' = Loadable
  BY DEF Loaded, Journalled, Lines, TailRecord, Loadable, NoDuplicate
<1>2. NeverJournalledTwice'
  BY DEF IInv, NeverJournalledTwice
<1>3. LoadableHoldsTheWork'
  BY <1>1 DEF IInv, LoadableHoldsTheWork
<1>4. QED
  BY <1>1, <1>2, <1>3

LEMMA InitJournal == Init => IInv
<1> SUFFICES ASSUME Init PROVE IInv
  OBVIOUS
<1>1. TypeOK
  BY InitType
<1>2. journal.lines = <<>> /\ journal.tail = "none"
  BY DEF Init, EmptyFile
<1>3. NeverJournalledTwice
  BY <1>2 DEF NeverJournalledTwice
<1>4. ManifestCoversDesign /\ LoadableHoldsTheWork /\ MemoryIsJournal /\ WorkLeft
  BY DEF Init, ManifestCoversDesign, LoadableHoldsTheWork, MemoryIsJournal, WorkLeft, Running
<1>5. QED
  BY <1>1, <1>3, <1>4 DEF IInv

\* The lines after an append are those before and, on a line boundary, the new
\* trajectory; after a partial line the journal can no longer be read.
LEMMA AppendEffect ==
    ASSUME TypeOK, NEW t \in Trajectory, journal' = Append1(journal, t)
    PROVE  /\ Readable(journal') <=> Readable(journal) /\ journal.tail = "none"
           /\ journal'.tail = "none"
           /\ Journalled' \subseteq Journalled \cup {t}
           /\ journal.tail = "none" => Journalled' = Journalled \cup {t}
           /\ t \notin Journalled /\ NeverJournalledTwice => NeverJournalledTwice'
<1> DEFINE n == Len(journal.lines)
           line == IF TrailingPartial(journal) THEN Malformed ELSE t
<1>1. journal \in Files(Trajectory) /\ t # Malformed
  BY DEF TypeOK, Trajectory
<1>2. n \in Nat
  BY <1>1 DEF Files
<1>3. /\ Len(journal'.lines) = n + 1
      /\ \A i \in 1..n : journal'.lines[i] = journal.lines[i]
      /\ journal'.lines[n + 1] = line
      /\ ~TrailingPartial(journal')
  BY <1>1, AppendLines
<1> HIDE DEF n, line
<1>4. \A i \in 1..(n + 1) : i \in 1..n \/ i = n + 1
  BY <1>2
<1>5. Lines' = Lines \cup {line}
  BY <1>2, <1>3, <1>4 DEF Lines, n
<1>6. line \in {Malformed, t} /\ (line = t <=> journal.tail = "none")
  BY <1>1 DEF line, TrailingPartial
<1>7. Journalled' \subseteq Journalled \cup {t}
  BY <1>5, <1>6 DEF Journalled
<1>8. journal.tail = "none" => Journalled' = Journalled \cup {t}
  BY <1>1, <1>5, <1>6 DEF Journalled
<1>9. Readable(journal') <=> Readable(journal) /\ journal.tail = "none"
  BY <1>1, <1>2, <1>3, <1>4, <1>6 DEF Readable, n
<1>10. ASSUME t \notin Journalled, NeverJournalledTwice PROVE NeverJournalledTwice'
  <2>1. \A i \in 1..n : journal.lines[i] # t
    BY <1>1, <1>10 DEF Journalled, Lines, n
  <2>2. SUFFICES ASSUME NEW i \in 1..(n + 1), NEW j \in 1..(n + 1),
                        journal'.lines[i] = journal'.lines[j],
                        journal'.lines[i] # Malformed
                 PROVE  i = j
    BY <1>3 DEF NeverJournalledTwice
  <2>3. CASE i \in 1..n /\ j \in 1..n
    BY <1>3, <1>10, <2>2, <2>3 DEF NeverJournalledTwice, n
  <2>4. CASE ~(i \in 1..n /\ j \in 1..n)
    BY <1>3, <1>4, <1>6, <2>1, <2>2, <2>4
  <2>5. QED
    BY <2>3, <2>4
<1>11. QED
  BY <1>3, <1>7, <1>8, <1>9, <1>10 DEF TrailingPartial

LEMMA AppendKeeps == IInv /\ AppendTrajectory => IInv'
<1> SUFFICES ASSUME IInv, AppendTrajectory PROVE IInv'
  OBVIOUS
<1>1. PICK t \in Trajectory : /\ IsNext(t)
                             /\ journal' = Append1(journal, t)
                             /\ completed' = completed \cup {t}
                             /\ appended' = appended \cup {t}
  BY DEF AppendTrajectory
<1>2. pc = "append" /\ pc' = "progress" /\ manifest' = manifest /\ raw' = raw
  BY DEF AppendTrajectory
<1>3. TypeOK /\ TypeOK'
  BY ProcessType DEF IInv, Process
<1>4. t \notin completed /\ t \notin Journalled
  BY <1>1, <1>2 DEF IsNext, IInv, MemoryIsJournal, Running
<1>5. NeverJournalledTwice'
  BY <1>1, <1>3, <1>4, AppendEffect DEF IInv
<1>6. ManifestCoversDesign' /\ WorkLeft'
  BY <1>2 DEF IInv, ManifestCoversDesign, WorkLeft
<1>7. Readable(journal') => Loaded' = completed' /\ completed = Loaded /\ Loadable
  <2>1. SUFFICES ASSUME Readable(journal') PROVE Loaded' = completed' /\ completed = Loaded /\ Loadable
    OBVIOUS
  <2>2. Readable(journal) /\ journal.tail = "none" /\ journal'.tail = "none"
        /\ Journalled' = Journalled \cup {t}
    BY <1>1, <1>3, <2>1, AppendEffect
  <2>3. completed = Loaded /\ Loadable
    BY <1>2, <2>2, LoadableMeans DEF IInv, MemoryIsJournal, Running
  <2>4. Loaded = Journalled /\ Loaded' = Journalled'
    BY <2>2 DEF Loaded, TailRecord
  <2>5. QED
    BY <1>1, <2>2, <2>3, <2>4
<1>8. MemoryIsJournal'
  BY <1>1, <1>2, <1>3, <1>7, AppendEffect DEF IInv, MemoryIsJournal, Running
<1>9. LoadableHoldsTheWork'
  <2>1. SUFFICES ASSUME Loadable' PROVE appended' \subseteq Loaded' /\ (manifest' # {} => Loaded' = manifest')
    BY DEF LoadableHoldsTheWork
  <2>2. Loaded' = completed' /\ completed = Loaded /\ Loadable
    BY <1>7, <2>1 DEF Loadable
  <2>3. appended' \subseteq Loaded'
    BY <1>1, <1>2, <2>2 DEF IInv, MemoryIsJournal, Running
  <2>4. manifest = {}
    BY <1>1, <1>4, <2>2 DEF IInv, LoadableHoldsTheWork, ManifestCoversDesign
  <2>5. QED
    BY <1>2, <2>3, <2>4
<1>10. QED
  BY <1>3, <1>5, <1>6, <1>8, <1>9 DEF IInv

\* A death inside an append: no line is added, and what lies behind the last
\* newline can only have grown.
LEMMA TornEffect ==
    ASSUME TypeOK, journal' \in TornAppends(journal)
    PROVE  /\ Journalled' = Journalled
           /\ Readable(journal') <=> Readable(journal)
           /\ NeverJournalledTwice => NeverJournalledTwice'
           /\ journal'.tail # "torn" => Loaded \subseteq Loaded'
<1>1. journal \in Files(Trajectory)
  BY DEF TypeOK
<1>2. journal'.lines = journal.lines
  BY <1>1, TornType
<1>3. Journalled' = Journalled
  BY <1>2 DEF Journalled, Lines
<1>4. ASSUME journal'.tail # "torn" PROVE Loaded \subseteq Loaded'
  <2>1. CASE journal.tail = "none"
    BY <1>3, <2>1 DEF Loaded, TailRecord
  <2>2. CASE journal.tail # "none"
    <3>1. journal'.tail = journal.tail
      BY <1>1, <1>4, <2>2 DEF TornAppends, TrailingPartial, Files
    <3>2. QED
      BY <1>3, <3>1 DEF Loaded, TailRecord
  <2>3. QED
    BY <2>1, <2>2
<1>5. QED
  BY <1>2, <1>3, <1>4 DEF Readable, NeverJournalledTwice

LEMMA CrashKeeps == IInv /\ Crash => IInv'
<1> SUFFICES ASSUME IInv, Crash PROVE IInv'
  OBVIOUS
<1>1. TypeOK /\ TypeOK'
  BY NextType DEF IInv, Next
<1>2. pc' = "idle" /\ UNCHANGED <<raw, manifest, appended>>
  BY DEF Crash, Leave
<1>3. ManifestCoversDesign' /\ WorkLeft' /\ MemoryIsJournal'
  BY <1>2 DEF IInv, ManifestCoversDesign, WorkLeft, MemoryIsJournal, Running
<1>4. CASE pc = "append"
  <2>1. journal' \in TornAppends(journal)
    BY <1>4 DEF Crash
  <2>2. NeverJournalledTwice'
    BY <1>1, <2>1, TornEffect DEF IInv
  <2>3. SUFFICES ASSUME Loadable' PROVE LoadableHoldsTheWork'
    BY <1>1, <1>3, <2>2 DEF IInv, LoadableHoldsTheWork
  <2>4. Readable(journal) /\ journal'.tail # "torn"
    BY <1>1, <2>1, <2>3, TornEffect DEF Loadable
  <2>5. completed = Loaded /\ Loadable /\ appended \subseteq completed
    BY <1>4, <2>4, LoadableMeans DEF IInv, MemoryIsJournal, Running
  <2>6. manifest = {}
    BY <1>4, <2>5 DEF IInv, LoadableHoldsTheWork, ManifestCoversDesign, WorkLeft, Missing
  <2>7. Loaded \subseteq Loaded'
    BY <1>1, <2>1, <2>4, TornEffect
  <2>8. LoadableHoldsTheWork'
    BY <1>2, <2>5, <2>6, <2>7 DEF LoadableHoldsTheWork
  <2>9. QED
    BY <2>8
<1>5. CASE pc # "append"
  <2>1. journal' = journal
    BY <1>5 DEF Crash
  <2>2. QED
    BY <1>1, <1>2, <1>3, <2>1, JournalUnchanged DEF IInv
<1>6. QED
  BY <1>4, <1>5

\* The steps that leave the journal and the manifest alone.
Quiet == Begin \/ MakeDesign \/ LoadJournal \/ Acquire \/ WriteProgress \/ WriteRaw

LEMMA QuietKeeps == IInv /\ (Quiet \/ UNCHANGED vars) => IInv'
<1> SUFFICES ASSUME IInv, Quiet \/ UNCHANGED vars PROVE IInv'
  OBVIOUS
<1>1. TypeOK /\ TypeOK'
  BY NextType DEF IInv, Next, Process, Quiet
<1>2. UNCHANGED <<journal, manifest, appended>>
  BY DEF Quiet, Begin, Start, MakeDesign, LoadJournal, Acquire, WriteProgress, WriteRaw,
         files, vars
<1>3. /\ NeverJournalledTwice' /\ LoadableHoldsTheWork'
      /\ Loaded' = Loaded /\ Journalled' = Journalled /\ Loadable' = Loadable
  BY <1>2, JournalUnchanged
<1>4. ManifestCoversDesign' /\ WorkLeft' /\ MemoryIsJournal'
  <2> USE DEF IInv, ManifestCoversDesign, WorkLeft, MemoryIsJournal, Running, Leave, files
  <2>1. CASE Begin
    BY <2>1 DEF Begin, Start
  <2>2. CASE MakeDesign
    BY <2>2 DEF MakeDesign
  <2>3. CASE LoadJournal
    <3>1. ManifestCoversDesign' /\ WorkLeft'
      BY <2>3 DEF LoadJournal
    <3>2. CASE Loadable
      <4>1. completed' = Loaded /\ Journalled \subseteq Loaded /\ appended \subseteq Loaded
            /\ journal.tail # "torn"
        BY <2>3, <3>2 DEF LoadJournal, LoadableHoldsTheWork, Loaded, Loadable
      <4>2. QED
        BY <1>2, <1>3, <3>1, <4>1
    <3>3. CASE ~Loadable
      BY <2>3, <3>1, <3>3 DEF LoadJournal
    <3>4. QED
      BY <3>2, <3>3
  <2>4. CASE Acquire
    BY <1>2, <1>3, <2>4 DEF Acquire, Missing
  <2>5. CASE WriteProgress
    BY <1>2, <1>3, <2>5 DEF WriteProgress
  <2>6. CASE WriteRaw
    <3>1. completed = Trajectory
      BY <1>1, <2>6 DEF WriteRaw, AllCompleted, Missing, TypeOK
    <3>2. QED
      BY <1>2, <1>3, <2>6, <3>1 DEF WriteRaw
  <2>7. CASE UNCHANGED vars
    BY <1>2, <1>3, <2>7 DEF vars, Missing
  <2>8. QED
    BY <2>1, <2>2, <2>3, <2>4, <2>5, <2>6, <2>7 DEF Quiet
<1>5. QED
  BY <1>1, <1>3, <1>4 DEF IInv

LEMMA ManifestKeeps == IInv /\ WriteManifest => IInv'
<1> SUFFICES ASSUME IInv, WriteManifest PROVE IInv'
  OBVIOUS
<1>1. TypeOK'
  BY ProcessType DEF IInv, Process
<1>2. /\ pc = "writeManifest" /\ pc' = "idle" /\ manifest' = completed
      /\ UNCHANGED <<journal, raw, appended>>
  BY DEF WriteManifest, Leave
<1>3. /\ Loaded' = Loaded /\ Loadable' = Loadable /\ NeverJournalledTwice'
  BY <1>2 DEF Loaded, Journalled, Lines, TailRecord, Loadable, NoDuplicate, IInv,
              NeverJournalledTwice
<1>4. ManifestCoversDesign' /\ WorkLeft' /\ MemoryIsJournal'
  BY <1>2 DEF IInv, ManifestCoversDesign, WorkLeft, MemoryIsJournal, Running
<1>5. LoadableHoldsTheWork'
  BY <1>2, <1>3 DEF IInv, LoadableHoldsTheWork, MemoryIsJournal, Running, Loadable
<1>6. QED
  BY <1>1, <1>3, <1>4, <1>5 DEF IInv

LEMMA NextKeeps == IInv /\ [Next]_vars => IInv'
BY AppendKeeps, CrashKeeps, QuietKeeps, ManifestKeeps DEF Next, Process, Quiet

\* No trajectory is journalled twice, however often the campaign was interrupted:
\* the memory a process resumes from covers what the journal holds.
THEOREM TrajectoriesJournalledOnce == Spec => []NeverJournalledTwice
<1>1. IInv => NeverJournalledTwice
  BY DEF IInv
<1>2. QED
  BY <1>1, InitJournal, NextKeeps, PTL DEF Spec

\* A published manifest, and the raw artifact under it, cover the whole plan.
THEOREM TrajectoriesManifestComplete == Spec => []ManifestCoversDesign
<1>1. IInv => ManifestCoversDesign
  BY DEF IInv
<1>2. QED
  BY <1>1, InitJournal, NextKeeps, PTL DEF Spec

\* A journal that can be loaded holds every trajectory whose append returned,
\* and exactly those of a published manifest.
THEOREM TrajectoriesLoadTheWork == Spec => []LoadableHoldsTheWork
<1>1. IInv => LoadableHoldsTheWork
  BY DEF IInv
<1>2. QED
  BY <1>1, InitJournal, NextKeeps, PTL DEF Spec

\* The work of a campaign is kept, for any plan and any number of deaths: the
\* three facts above at once.
THEOREM TrajectoriesKeepTheWork == Spec => []WorkIsKept
BY TrajectoriesJournalledOnce, TrajectoriesManifestComplete, TrajectoriesLoadTheWork,
   PTL DEF WorkIsKept

-----------------------------------------------------------------------------
(***************************************************************************)
(* One captured trajectory, for any set of pressure cores, any schedule    *)
(* length and any number of PMU events: pressure is where it is said to be *)
(* and nothing survives the trajectory.                                    *)
(***************************************************************************)

BlockPoints == {"before", "open", "operate", "phase", "done", "after", "next",
           "unwind", "validate", "recorded", "refused", "failed"}

CaptureTypeOK ==
    /\ main \in {"outside", "submit", "barrier", "flags", "measure", "results",
                 "returned", "exiting", "raised"}
    /\ active \in SUBSET Cores
    /\ wpc \in [Cores -> Ended \cup Working \cup {"submitted", "barrier"}]
    /\ flag \in [Cores -> BOOLEAN]
    /\ at \in BlockPoints

\* A start flag is one of this phase: its worker has entered the native loop.
FlagsAreFresh == \A c \in Cores : flag[c] => wpc[c] \in {"running", "finished"}

\* Only requested cores have a worker.
WorkersRequested == \A c \in Cores : wpc[c] # "absent" => c \in active

FlagsBeforeMeasuring == main = "measure" => \A c \in active : flag[c]

\* Whatever way a phase is left, the pool joined its workers first.
PoolJoined ==
    main \in {"outside", "returned", "raised"} => \A c \in Cores : wpc[c] \in Ended

InPhase == at = "phase" <=> main # "outside"

BufferWhileWorking == buffer = IF Over THEN "closed" ELSE "mapped"

RunsSound ==
    /\ runs \in {0, 1}
    /\ at \in {"open", "operate"} => runs = 0
    /\ at \in {"phase", "done", "after"} => runs = 1

ReadersSound ==
    (Over \/ at \in {"before", "open", "after", "next", "validate"}) => readers = 0

CaptureInv ==
    /\ CaptureTypeOK /\ FlagsAreFresh /\ WorkersRequested /\ FlagsBeforeMeasuring
    /\ PoolJoined /\ InPhase /\ BufferWhileWorking /\ RunsSound /\ ReadersSound

-----------------------------------------------------------------------------
(* The phase's own part, which its steps disturb.                          *)

PhasePart ==
    /\ CaptureTypeOK /\ FlagsAreFresh /\ WorkersRequested /\ FlagsBeforeMeasuring
    /\ PoolJoined

\* A step of the main thread inside the phase keeps the phase sound and does
\* not leave or enter it.
LEMMA MainKeepsPhase ==
    ASSUME PhasePart, PhaseStep, UNCHANGED at
    PROVE  PhasePart' /\ (main = "outside" <=> main' = "outside")
<1> USE DEF PhasePart, CaptureTypeOK, Ended, Working
<1>1. ASSUME NEW c \in Cores, Submit(c)
      PROVE  PhasePart' /\ (main = "outside" <=> main' = "outside")
    BY <1>1 DEF Submit, FlagsAreFresh, WorkersRequested, FlagsBeforeMeasuring,
                PoolJoined
<1>2. ASSUME NEW c \in Cores, SubmitFails(c)
      PROVE  PhasePart' /\ (main = "outside" <=> main' = "outside")
    BY <1>2 DEF SubmitFails, LeavePhase, FlagsAreFresh, WorkersRequested,
                FlagsBeforeMeasuring, PoolJoined
<1>3. CASE MainArrives
    BY <1>3 DEF MainArrives, FlagsAreFresh, WorkersRequested,
                FlagsBeforeMeasuring, PoolJoined
<1>4. CASE MainPasses
    BY <1>4 DEF MainPasses, FlagsAreFresh, WorkersRequested,
                FlagsBeforeMeasuring, PoolJoined
<1>5. CASE Interrupted
    BY <1>5 DEF Interrupted, LeavePhase, FlagsAreFresh, WorkersRequested,
                FlagsBeforeMeasuring, PoolJoined
<1>6. CASE AllStarted
    BY <1>6 DEF AllStarted, FlagsAreFresh, WorkersRequested,
                FlagsBeforeMeasuring, PoolJoined
<1>7. CASE Deadline
    BY <1>7 DEF Deadline, LeavePhase, FlagsAreFresh, WorkersRequested,
                FlagsBeforeMeasuring, PoolJoined
<1>8. CASE Measure
    BY <1>8 DEF Measure, LeavePhase, FlagsAreFresh, WorkersRequested,
                FlagsBeforeMeasuring, PoolJoined
<1>9. CASE Results
    BY <1>9 DEF Results, FlagsAreFresh, WorkersRequested,
                FlagsBeforeMeasuring, PoolJoined
<1>10. CASE ExitPool
    BY <1>10 DEF ExitPool, FlagsAreFresh, WorkersRequested,
                 FlagsBeforeMeasuring, PoolJoined
<1> QED
    BY <1>1, <1>2, <1>3, <1>4, <1>5, <1>6, <1>7, <1>8, <1>9, <1>10 DEF PhaseStep

\* A worker's step keeps the phase sound and leaves the main thread alone.
LEMMA WorkerKeepsPhase ==
    ASSUME PhasePart, NEW c \in Cores, WorkerStep(c), UNCHANGED at
    PROVE  PhasePart' /\ UNCHANGED main
<1> USE DEF PhasePart, CaptureTypeOK, Ended, Working, Go
<1>1. CASE Arrives(c)
    BY <1>1 DEF Arrives, FlagsAreFresh, WorkersRequested, FlagsBeforeMeasuring,
                PoolJoined
<1>2. CASE Passes(c)
    BY <1>2 DEF Passes, FlagsAreFresh, WorkersRequested, FlagsBeforeMeasuring,
                PoolJoined
<1>3. CASE NativeFails(c)
    BY <1>3 DEF NativeFails, FlagsAreFresh, WorkersRequested,
                FlagsBeforeMeasuring, PoolJoined
<1>4. CASE NativeStarts(c)
    BY <1>4 DEF NativeStarts, FlagsAreFresh, WorkersRequested,
                FlagsBeforeMeasuring, PoolJoined
<1>5. CASE NativeEnds(c)
    BY <1>5 DEF NativeEnds, FlagsAreFresh, WorkersRequested,
                FlagsBeforeMeasuring, PoolJoined
<1> QED
    BY <1>1, <1>2, <1>3, <1>4, <1>5 DEF WorkerStep

\* The schedule never asks for a core outside the excitation role, whose cores
\* are taken in turn.
LEMMA ScheduleOnCores ==
    ASSUME NEW position \in Nat
    PROVE  ActiveAt(position) \in SUBSET Cores
<1> DEFINE n == Cardinality(Cores)
<1>1. n \in Nat \ {0}
    <2>1. n \in Nat BY CaptureAssumption, FS_CardinalityType
    <2>2. n # 0 BY CaptureAssumption, FS_EmptySet
    <2> QED BY <2>1, <2>2
<1>2. (position \div 2) % n \in 0..(n - 1)
    <2>1. position \div 2 \in Nat OBVIOUS
    <2> HIDE DEF n
    <2> QED BY <1>1, <2>1
<1>3. (position \div 2) % n \in Cores
    BY <1>2, CaptureAssumption
<1>4. CASE family = "read_pressure"
    BY <1>4 DEF ActiveAt
<1>5. CASE family = "active_quiet"
    BY <1>3, <1>5 DEF ActiveAt
<1>6. CASE family \notin {"read_pressure", "active_quiet"}
    BY <1>6 DEF ActiveAt
<1> QED BY <1>4, <1>5, <1>6

-----------------------------------------------------------------------------

LEMMA CaptureInvInit == CaptureInit => CaptureInv
BY DEF CaptureInit, PhaseInit, CaptureInv, CaptureTypeOK, FlagsAreFresh, WorkersRequested,
       FlagsBeforeMeasuring, PoolJoined, InPhase, BufferWhileWorking, RunsSound,
       ReadersSound, BlockPoints, Over, Ended, Working

\* The trajectory's part, which a step inside the phase leaves alone.
LEMMA PhaseKeepsTrajectory ==
    ASSUME CaptureInv, PhasePart', UNCHANGED trajectory, main = "outside" <=> main' = "outside"
    PROVE  CaptureInv'
BY DEF CaptureInv, PhasePart, InPhase, BufferWhileWorking, RunsSound, ReadersSound,
       trajectory, Over

LEMMA CaptureInvNext == CaptureInv /\ [CaptureNext]_captureVars => CaptureInv'
<1> SUFFICES ASSUME CaptureInv, [CaptureNext]_captureVars PROVE CaptureInv'
    OBVIOUS
<1> USE DEF CaptureInv
<1>1. CASE Before
    BY <1>1 DEF Before, phase, CaptureTypeOK, FlagsAreFresh, WorkersRequested,
        FlagsBeforeMeasuring, PoolJoined, InPhase, BufferWhileWorking, RunsSound,
        ReadersSound, BlockPoints, Over
<1>2. CASE OpenWindow
    BY <1>2 DEF OpenWindow, phase, CaptureTypeOK, FlagsAreFresh, WorkersRequested,
        FlagsBeforeMeasuring, PoolJoined, InPhase, BufferWhileWorking, RunsSound,
        ReadersSound, BlockPoints, Over
<1>3. CASE StartOperation
    <2> USE <1>3 DEF StartOperation
    <2>1. CASE IsPhase(block)
        <3>1. block - 2 \in Nat
            BY <2>1, CaptureAssumption DEF IsPhase
        <3>2. ActiveAt(block - 2) \in SUBSET Cores
            BY <3>1, ScheduleOnCores
        <3>3. PhasePart'
            BY <2>1, <3>2 DEF PhasePart, StartPhase, CaptureTypeOK, FlagsAreFresh,
                WorkersRequested, FlagsBeforeMeasuring, PoolJoined, Ended, BlockPoints
        <3> QED
            BY <2>1, <3>3 DEF PhasePart, StartPhase, InPhase, BufferWhileWorking,
                RunsSound, ReadersSound, Over
    <2>2. CASE ~IsPhase(block)
        BY <2>2 DEF phase, CaptureTypeOK, FlagsAreFresh, WorkersRequested,
            FlagsBeforeMeasuring, PoolJoined, InPhase, BufferWhileWorking,
            RunsSound, ReadersSound, BlockPoints, Over
    <2> QED BY <2>1, <2>2
<1>4. CASE PhaseReturns
    BY <1>4 DEF PhaseReturns, CaptureTypeOK, FlagsAreFresh, WorkersRequested,
        FlagsBeforeMeasuring, PoolJoined, InPhase, BufferWhileWorking, RunsSound,
        ReadersSound, BlockPoints, Over
<1>5. CASE ReadWindow
    BY <1>5 DEF ReadWindow, phase, CaptureTypeOK, FlagsAreFresh, WorkersRequested,
        FlagsBeforeMeasuring, PoolJoined, InPhase, BufferWhileWorking, RunsSound,
        ReadersSound, BlockPoints, Over
<1>6. CASE After
    BY <1>6 DEF After, phase, CaptureTypeOK, FlagsAreFresh, WorkersRequested,
        FlagsBeforeMeasuring, PoolJoined, InPhase, BufferWhileWorking, RunsSound,
        ReadersSound, BlockPoints, Over
<1>7. CASE NextBlock
    BY <1>7 DEF NextBlock, phase, CaptureTypeOK, FlagsAreFresh, WorkersRequested,
        FlagsBeforeMeasuring, PoolJoined, InPhase, BufferWhileWorking, RunsSound,
        ReadersSound, BlockPoints, Over
<1>8. CASE Unwind
    BY <1>8 DEF Unwind, phase, CaptureTypeOK, FlagsAreFresh, WorkersRequested,
        FlagsBeforeMeasuring, PoolJoined, InPhase, BufferWhileWorking, RunsSound,
        ReadersSound, BlockPoints, Over
<1>9. CASE Validate
    BY <1>9 DEF Validate, phase, CaptureTypeOK, FlagsAreFresh, WorkersRequested,
        FlagsBeforeMeasuring, PoolJoined, InPhase, BufferWhileWorking, RunsSound,
        ReadersSound, BlockPoints, Over
<1>10. CASE PhaseStep /\ UNCHANGED trajectory
    <2>1. PhasePart' /\ (main = "outside" <=> main' = "outside")
        BY <1>10, MainKeepsPhase DEF PhasePart, trajectory
    <2> QED BY <1>10, <2>1, PhaseKeepsTrajectory
<1>11. ASSUME NEW c \in Cores, PressureStep(c) PROVE CaptureInv'
    <2>1. PhasePart' /\ UNCHANGED main
        BY <1>11, WorkerKeepsPhase DEF PressureStep, PhasePart, trajectory
    <2> QED BY <1>11, <2>1, PhaseKeepsTrajectory DEF PressureStep
<1>12. CASE UNCHANGED captureVars
    BY <1>12 DEF captureVars, phase, trajectory, CaptureTypeOK, FlagsAreFresh,
        WorkersRequested, FlagsBeforeMeasuring, PoolJoined, InPhase,
        BufferWhileWorking, RunsSound, ReadersSound, Over
<1> QED
    BY <1>1, <1>2, <1>3, <1>4, <1>5, <1>6, <1>7, <1>8, <1>9, <1>10, <1>11, <1>12
    DEF CaptureNext, TrajectoryStep, Finished, PoolWaits

LEMMA CaptureInvHolds == CaptureSpec => []CaptureInv
BY CaptureInvInit, CaptureInvNext, PTL DEF CaptureSpec

-----------------------------------------------------------------------------

\* A block counts as measured under pressure only while every requested worker
\* has entered its native loop in this phase, whatever was late, failed or was
\* left from an earlier phase (controlled_forecast.py:470).
THEOREM CaptureMeasuredUnderPressure == CaptureSpec => []MeasuredUnderPressure
<1>1. CaptureInv => MeasuredUnderPressure
    BY DEF CaptureInv, CaptureTypeOK, FlagsBeforeMeasuring, FlagsAreFresh, MeasuredUnderPressure
<1> QED BY <1>1, CaptureInvHolds, PTL

\* No worker touches the buffer outside its phase or after it was unmapped:
\* every way out of a phase joins the pool first (controlled_forecast.py:737).
THEOREM CapturePressureInItsPhase == CaptureSpec => []NoPressureOutsideItsPhase
<1>1. CaptureInv => NoPressureOutsideItsPhase
    BY DEF CaptureInv, CaptureTypeOK, PoolJoined, InPhase, BufferWhileWorking, Over, Ended,
           Working, NoPressureOutsideItsPhase
<1> QED BY <1>1, CaptureInvHolds, PTL

\* The operation of a block is run once, also when its counters fail before or
\* after it (latent_system_state.py:539).
THEOREM CaptureOperationOnce == CaptureSpec => []OperationRunsOnce
<1>1. CaptureInv => OperationRunsOnce
    BY DEF CaptureInv, RunsSound, OperationRunsOnce
<1> QED BY <1>1, CaptureInvHolds, PTL

\* A trajectory that is over, recorded, refused or failed, has closed its
\* descriptors and its mapping (latent_system_state.py:1718).
THEOREM CaptureResourcesReleased == CaptureSpec => []ResourcesReleased
<1>1. CaptureInv => ResourcesReleased
    BY DEF CaptureInv, ReadersSound, BufferWhileWorking, ResourcesReleased
<1> QED BY <1>1, CaptureInvHolds, PTL

===============================================================================
