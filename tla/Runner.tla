------------------------------- MODULE Runner --------------------------------
(***************************************************************************)
(* AcquisitionRunner.run over one run directory: a succession of processes *)
(* that create or reopen the run, repair its journal, quarantine what they *)
(* cannot validate, and acquire samples into shards until the stream ends, *)
(* a signal, a limit or the storage guard stops them, or they die.  Every  *)
(* write the code makes that is not atomic is a step of its own, and Crash *)
(* says what a death during that step leaves on disk.                      *)
(***************************************************************************)
EXTENDS JournalFile, ShardFiles, FiniteSets

CONSTANTS
    Total,         \* samples the backend yields
    MaxRows,       \* max_samples_per_shard
    Configs,       \* configurations and run parameters a caller may pass
    Identities,    \* backend recovery identities a process may observe
    Resumable,     \* those of backends whose validate_resume accepts
    StopLimits,    \* values of the stop_after argument
    None,          \* absence of a value: no stop_after, no identity yet
    MaxStarts, MaxCrashes, MaxSignals, MaxGuards, MaxDamage

ASSUME RunnerAssumption ==
    /\ Total \in Nat
    /\ MaxRows \in Nat \ {0}
    /\ Resumable \subseteq Identities
    /\ StopLimits \ {None} \subseteq Nat
    /\ None \notin Configs /\ None \notin Identities /\ None \notin Nat
    /\ {MaxStarts, MaxCrashes, MaxSignals, MaxGuards, MaxDamage} \subseteq Nat

Events ==
    {"journal_recovery", "recovery_refused", "recovery_started",
     "acquisition_started", "shard_finalized", "storage_guard_stop",
     "termination_requested", "interrupted", "acquisition_completed",
     "dataset_manifest_written"}

\* next is the event's next_sample_index (resume_from_sample, start_index).
Records == [event : Events, next : Nat]

ASSUME MalformedAssumption == Malformed \notin Records

VARIABLES
    runJson,       \* run.json
    configJson,    \* config.json: "absent", "torn" or "ok"
    journal,       \* events.jsonl
    payloads,      \* the finalized payloads shard-*.npz
    sidecars,      \* their sidecars shard-*.json
    temporary,     \* what is left of an unfinished shard
    manifest,      \* dataset.json
    pc,            \* the step the process is at, "idle" when none runs
    mem,           \* the process's memory
    outcome,       \* what the last call of run() came to
    used           \* how often each bounded event has happened

disk == <<runJson, configJson, payloads, sidecars, temporary, manifest>>
vars == <<runJson, configJson, journal, payloads, sidecars, temporary, manifest,
          pc, mem, outcome, used>>

Points ==
    {"idle", "identity", "refusing", "writeRun", "writeConfig", "recover",
     "logRecovery", "checkBackend", "writeIdentity", "quarantine", "validate",
     "logStarted", "logAcquisition", "loop", "finalize", "logShard", "logGuard",
     "flush", "conclude", "logEnd", "writeStatus", "manifest", "logManifest",
     "return"}

\* The points at which SIGTERM and SIGINT reach _handle_signal; elsewhere they
\* kill the process, which is a Crash.
Handling ==
    {"loop", "finalize", "logShard", "logGuard", "flush", "conclude", "logEnd",
     "writeStatus", "manifest", "logManifest", "return"}

\* The points at which the process is inside Journal.append.
Logging ==
    {"refusing", "logRecovery", "logStarted", "logAcquisition", "logShard",
     "logGuard", "logEnd", "logManifest"}

RunJson ==
    [state : {"absent", "torn", "ok"}, config : Configs \cup {None},
     identity : Identities \cup {None},
     status : {"active", "interrupted", "completed"}]

NoRunJson == [state |-> "absent", config |-> None, identity |-> None, status |-> "active"]

Manifests == [state : {"absent", "torn", "ok"}, samples : SUBSET Nat]

NoManifest == [state |-> "absent", samples |-> {}]

Memory ==
    [config : Configs \cup {None}, identity : Identities \cup {None},
     limit : Nat \cup {None}, resuming : BOOLEAN,
     start : Nat, acquired : Nat, buffered : Nat, nextShard : Nat,
     draining : BOOLEAN, stop : BOOLEAN, limited : BOOLEAN, interrupted : BOOLEAN]

NoMemory ==
    [config |-> None, identity |-> None, limit |-> None, resuming |-> FALSE,
     start |-> 0, acquired |-> 0, buffered |-> 0, nextShard |-> 0,
     draining |-> FALSE, stop |-> FALSE, limited |-> FALSE, interrupted |-> FALSE]

\* An events.jsonl that an earlier use of the directory left without run.json.
StrayFile == [lines |-> <<[event |-> "recovery_refused", next |-> 0]>>, tail |-> "none"]

Init ==
    /\ runJson = NoRunJson
    /\ configJson = "absent"
    /\ journal \in {EmptyFile, StrayFile}
    /\ payloads = {}
    /\ sidecars = {}
    /\ temporary = "none"
    /\ manifest = NoManifest
    /\ pc = "idle"
    /\ mem = NoMemory
    /\ outcome = "none"
    /\ used = [starts |-> 0, crashes |-> 0, signals |-> 0, guards |-> 0, damage |-> 0]

----------------------------------------------------------------------------

Log(event, next) == journal' = Append1(journal, [event |-> event, next |-> next])

Goto(point) == pc' = point

\* run() raises: the process ends with whatever is on disk.
Raise(result) ==
    /\ pc' = "idle"
    /\ mem' = NoMemory
    /\ outcome' = result

DirectoryEmpty ==
    /\ runJson.state = "absent"
    /\ journal = EmptyFile

\* shard-*.npz files that do not validate: besides the payloads themselves, the
\* name numpy gives an unfinished temporary, which the same glob pattern finds.
NothingInvalid == InvalidShards(payloads, sidecars) = {} /\ temporary # "savez"

Valid == ValidShards(payloads, sidecars)

Start(config, identity, limit) ==
    /\ pc = "idle"
    /\ used.starts < MaxStarts
    /\ used' = [used EXCEPT !.starts = @ + 1]
    /\ mem' = [NoMemory EXCEPT !.config = config, !.identity = identity, !.limit = limit]
    /\ Goto("identity")
    /\ UNCHANGED <<disk, journal, outcome>>

----------------------------------------------------------------------------
(* _load_or_create_run_identity *)

CreateIdentity ==
    /\ pc = "identity"
    /\ DirectoryEmpty
    /\ Goto("writeRun")
    /\ UNCHANGED <<disk, journal, mem, outcome, used>>

IdentityReadable == runJson.state = "ok" /\ configJson = "ok"

IdentityMatches == IdentityReadable /\ runJson.config = mem.config

OpenIdentity ==
    /\ pc = "identity"
    /\ runJson.state # "absent"
    /\ IdentityMatches
    /\ mem' = [mem EXCEPT !.resuming = TRUE]
    /\ Goto("recover")
    /\ UNCHANGED <<disk, journal, outcome, used>>

\* Evidence without run.json, an unreadable identity, or another contract.
RefuseIdentity ==
    /\ pc = "identity"
    /\ IF runJson.state = "absent" THEN ~DirectoryEmpty ELSE ~IdentityMatches
    /\ Goto("refusing")
    /\ UNCHANGED <<disk, journal, mem, outcome, used>>

\* _append_recovery_refusal, and the exception that follows it.
SafeToLogRefusal == Readable(journal) /\ ~TrailingPartial(journal)

Refuse ==
    /\ pc = "refusing"
    /\ IF SafeToLogRefusal
       THEN Log("recovery_refused", mem.start)
       ELSE UNCHANGED journal
    /\ Raise("refused")
    /\ UNCHANGED <<disk, used>>

WriteRunJson ==
    /\ pc = "writeRun"
    /\ runJson' = [state |-> "ok", config |-> mem.config, identity |-> None,
                   status |-> "active"]
    /\ Goto("writeConfig")
    /\ UNCHANGED <<configJson, journal, payloads, sidecars, temporary, manifest,
                   mem, outcome, used>>

\* config.json, then host.json.
WriteConfigJson ==
    /\ pc = "writeConfig"
    /\ configJson' = "ok"
    /\ Goto("recover")
    /\ UNCHANGED <<runJson, journal, payloads, sidecars, temporary, manifest,
                   mem, outcome, used>>

----------------------------------------------------------------------------
(* journal.recover, the backend checks, and the shards to resume from *)

RecoverJournal ==
    /\ pc = "recover"
    /\ IF ~Readable(journal)
       THEN Raise("error") /\ UNCHANGED journal
       ELSE /\ journal' = TruncateTail(journal)
            /\ Goto(IF TrailingPartial(journal) THEN "logRecovery" ELSE "checkBackend")
            /\ UNCHANGED <<mem, outcome>>
    /\ UNCHANGED <<disk, used>>

LogRecovery ==
    /\ pc = "logRecovery"
    /\ Log("journal_recovery", 0)
    /\ Goto("checkBackend")
    /\ UNCHANGED <<disk, mem, outcome, used>>

\* Mutant: the persisted backend identity is not compared.
AcceptsAnyIdentity(preview) == preview > 0 => mem.identity \in Resumable

\* Mutant: the backend's recovery decision is not asked for.
AcceptsAnyResume(preview) == mem.resuming => runJson.identity = mem.identity

\* _preview_resume_index counts the shards that validate and ignores the rest.
BackendAccepts(preview) ==
    /\ mem.resuming => runJson.identity = mem.identity
    /\ preview > 0 => mem.identity \in Resumable

CheckBackend ==
    /\ pc = "checkBackend"
    /\ IF ~InOrder(Valid)
       THEN Raise("error")
       ELSE \E preview \in ResumeIndices(Valid) :
                /\ IsResumeIndex(preview, Valid)
                /\ mem' = [mem EXCEPT !.start = preview]
                /\ Goto(IF ~BackendAccepts(preview) THEN "refusing"
                        ELSE IF mem.resuming THEN "quarantine" ELSE "writeIdentity")
                /\ UNCHANGED outcome
    /\ UNCHANGED <<disk, journal, used>>

WriteIdentity ==
    /\ pc = "writeIdentity"
    /\ runJson' = [runJson EXCEPT !.identity = mem.identity]
    /\ Goto("quarantine")
    /\ UNCHANGED <<configJson, journal, payloads, sidecars, temporary, manifest,
                   mem, outcome, used>>

\* Mutant: only *.tmp and payloads are moved, not numpy's own temporary.
QuarantineMissesSavez ==
    /\ pc = "quarantine"
    /\ temporary' = IF temporary = "tmp" THEN "none" ELSE temporary
    /\ payloads' = Valid
    /\ sidecars' = {s \in sidecars :
                        \A p \in InvalidShards(payloads, sidecars) : s.idx # p.idx}
    /\ Goto("validate")
    /\ UNCHANGED <<runJson, configJson, journal, manifest, mem, outcome, used>>

\* quarantine_temporary_shards moves *.tmp; quarantine_invalid_shards moves
\* every shard-*.npz that does not validate, with its sidecar.
Quarantine ==
    /\ pc = "quarantine"
    /\ temporary' = "none"
    /\ payloads' = payloads \ InvalidShards(payloads, sidecars)
    /\ sidecars' = {s \in sidecars :
                        \A p \in InvalidShards(payloads, sidecars) : s.idx # p.idx}
    /\ Goto("validate")
    /\ UNCHANGED <<runJson, configJson, journal, manifest, mem, outcome, used>>

\* validate_all_shards again, and the resume index of _resume_index.
DeriveResume ==
    /\ pc = "validate"
    /\ IF ~NothingInvalid \/ ~InOrder(payloads)
       THEN Raise("error")
       ELSE \E n \in ResumeIndices(payloads) :
                /\ IsResumeIndex(n, payloads)
                /\ mem' = [mem EXCEPT !.start = n, !.acquired = n]
                /\ Goto("logStarted")
                /\ UNCHANGED outcome
    /\ UNCHANGED <<disk, journal, used>>

LogStarted ==
    /\ pc = "logStarted"
    /\ Log("recovery_started", mem.start)
    /\ Goto("logAcquisition")
    /\ UNCHANGED <<disk, mem, outcome, used>>

\* The signal handlers are installed and the ShardWriter finds its next index.
LogAcquisition ==
    /\ pc = "logAcquisition"
    /\ Log("acquisition_started", mem.start)
    /\ \E n \in NextShards(payloads) :
        /\ IsNextShard(n, payloads)
        /\ mem' = [mem EXCEPT !.nextShard = n]
    /\ Goto("loop")
    /\ UNCHANGED <<disk, outcome, used>>

----------------------------------------------------------------------------
(* The sampling loop *)

AtLimit == mem.limit # None /\ mem.acquired - mem.start >= mem.limit

\* The backend has no more samples, or a sample arrives after a stop request.
LeaveLoop ==
    /\ pc = "loop"
    /\ mem.acquired >= Total \/ mem.stop
    /\ Goto("flush")
    /\ UNCHANGED <<disk, journal, mem, outcome, used>>

StopAtLimit ==
    /\ pc = "loop"
    /\ mem.acquired < Total
    /\ ~mem.stop
    /\ AtLimit
    /\ mem' = [mem EXCEPT !.limited = TRUE]
    /\ Goto("flush")
    /\ UNCHANGED <<disk, journal, outcome, used>>

\* storage_status reports too little free space.
StorageGuard ==
    /\ pc = "loop"
    /\ mem.acquired < Total
    /\ ~mem.stop
    /\ ~AtLimit
    /\ used.guards < MaxGuards
    /\ used' = [used EXCEPT !.guards = @ + 1]
    /\ Goto("logGuard")
    /\ UNCHANGED <<disk, journal, mem, outcome>>

LogGuard ==
    /\ pc = "logGuard"
    /\ Log("storage_guard_stop", mem.acquired)
    /\ mem' = [mem EXCEPT !.limited = TRUE]
    /\ Goto("flush")
    /\ UNCHANGED <<disk, outcome, used>>

\* ShardWriter.add: the row limit finalizes the shard, and so may the byte
\* limit at any row.
AddSample ==
    /\ pc = "loop"
    /\ mem.acquired < Total
    /\ ~mem.stop
    /\ ~AtLimit
    /\ mem' = [mem EXCEPT !.acquired = @ + 1, !.buffered = @ + 1]
    /\ \/ Goto("finalize")
       \/ mem.buffered + 1 < MaxRows /\ Goto("loop")
    /\ UNCHANGED <<disk, journal, outcome, used>>

----------------------------------------------------------------------------
(* ShardWriter.finalize *)

\* The samples the writer holds, as the shard they are about to become.
Buffered ==
    [idx |-> mem.nextShard, first |-> mem.acquired - mem.buffered,
     last |-> mem.acquired - 1, epoch |-> used.starts, ok |-> TRUE]

ReplacePayload(p) == {q \in payloads : q.idx # p.idx} \cup {p}

ReplaceSidecar(p) == {s \in sidecars : s.idx # p.idx} \cup {SidecarOf(p)}

Finalize ==
    /\ pc = "finalize"
    /\ payloads' = ReplacePayload(Buffered)
    /\ sidecars' = ReplaceSidecar(Buffered)
    /\ temporary' = "none"
    /\ mem' = [mem EXCEPT !.buffered = 0, !.nextShard = @ + 1]
    /\ Goto("logShard")
    /\ UNCHANGED <<runJson, configJson, journal, manifest, outcome, used>>

LogShard ==
    /\ pc = "logShard"
    /\ Log("shard_finalized", mem.acquired)
    /\ Goto(IF mem.draining THEN "conclude" ELSE "loop")
    /\ UNCHANGED <<disk, mem, outcome, used>>

\* The finalize() after the loop, a no-op when nothing is buffered.
Flush ==
    /\ pc = "flush"
    /\ mem' = [mem EXCEPT !.draining = TRUE]
    /\ Goto(IF mem.buffered > 0 THEN "finalize" ELSE "conclude")
    /\ UNCHANGED <<disk, journal, outcome, used>>

----------------------------------------------------------------------------
(* The end of run() *)

Conclude ==
    /\ pc = "conclude"
    /\ mem' = [mem EXCEPT !.interrupted = mem.stop \/ mem.limited]
    /\ Goto("logEnd")
    /\ UNCHANGED <<disk, journal, outcome, used>>

LogEnd ==
    /\ pc = "logEnd"
    /\ Log(IF mem.interrupted THEN "interrupted" ELSE "acquisition_completed", mem.acquired)
    /\ Goto("writeStatus")
    /\ UNCHANGED <<disk, mem, outcome, used>>

\* Mutant: the manifest is written for an interrupted run too.
WriteStatusThenManifest ==
    /\ pc = "writeStatus"
    /\ runJson' = [runJson EXCEPT
                      !.status = IF mem.interrupted THEN "interrupted" ELSE "completed"]
    /\ Goto("manifest")
    /\ UNCHANGED <<configJson, journal, payloads, sidecars, temporary, manifest,
                   mem, outcome, used>>

\* run.json is rewritten in place.
WriteStatus ==
    /\ pc = "writeStatus"
    /\ runJson' = [runJson EXCEPT
                      !.status = IF mem.interrupted THEN "interrupted" ELSE "completed"]
    /\ Goto(IF mem.interrupted THEN "return" ELSE "manifest")
    /\ UNCHANGED <<configJson, journal, payloads, sidecars, temporary, manifest,
                   mem, outcome, used>>

WriteManifest ==
    /\ pc = "manifest"
    /\ IF ~NothingInvalid \/ ~InOrder(payloads)
       THEN Raise("error") /\ UNCHANGED manifest
       ELSE /\ manifest' = [state |-> "ok", samples |-> SamplesIn(payloads)]
            /\ Goto("logManifest")
            /\ UNCHANGED <<mem, outcome>>
    /\ UNCHANGED <<runJson, configJson, journal, payloads, sidecars, temporary, used>>

LogManifest ==
    /\ pc = "logManifest"
    /\ Log("dataset_manifest_written", mem.acquired)
    /\ Goto("return")
    /\ UNCHANGED <<disk, mem, outcome, used>>

\* The returned status reads the stop flag once more.
Return ==
    /\ pc = "return"
    /\ Raise(IF mem.stop \/ mem.limited THEN "interrupted" ELSE "completed")
    /\ UNCHANGED <<disk, journal, used>>

----------------------------------------------------------------------------
(* What happens to the process from outside *)

\* _handle_signal runs between two steps of the process it interrupts.
Signal ==
    /\ pc \in Handling
    /\ used.signals < MaxSignals
    /\ used' = [used EXCEPT !.signals = @ + 1]
    /\ mem' = [mem EXCEPT !.stop = TRUE]
    /\ Log("termination_requested", 0)
    /\ UNCHANGED <<disk, pc, outcome>>

\* What a death leaves of the file being written: Path.write_text truncates.
CrashRunJson ==
    IF pc \in {"writeRun", "writeIdentity", "writeStatus"}
    THEN runJson' \in {runJson, [runJson EXCEPT !.state = "torn"]}
    ELSE runJson' = runJson

CrashConfigJson ==
    IF pc = "writeConfig" THEN configJson' \in {"absent", "torn"} ELSE configJson' = configJson

CrashManifest ==
    IF pc = "manifest"
    THEN manifest' \in {manifest, [state |-> "torn", samples |-> {}]}
    ELSE manifest' = manifest

\* At a logging point the main program dies inside append; where the handlers
\* are installed a death may also hit the append of _handle_signal.  A refusal
\* is not appended after a partial tail.
CrashJournal ==
    IF \/ pc \in Logging \ {"refusing"}
       \/ pc = "refusing" /\ SafeToLogRefusal
       \/ pc \in Handling
    THEN journal' \in TornAppends(journal)
    ELSE journal' = journal

\* Inside finalize: before the payload's name is replaced, a temporary under
\* the name numpy chose or under the code's own; between the two renames, the
\* payload without its sidecar.  Inside the quarantine: some payloads have been
\* moved, the sidecars of some of these have not.
CrashShards ==
    \/ UNCHANGED <<payloads, sidecars, temporary>>
    \/ /\ pc = "finalize"
       /\ temporary' \in {"savez", "tmp"}
       /\ UNCHANGED <<payloads, sidecars>>
    \/ /\ pc = "finalize"
       /\ payloads' = ReplacePayload(Buffered)
       /\ temporary' = "tmp"
       /\ UNCHANGED sidecars
    \/ /\ pc = "quarantine"
       /\ \E moved \in SUBSET InvalidShards(payloads, sidecars) :
           \E orphaned \in SUBSET moved :
               /\ payloads' = payloads \ moved
               /\ sidecars' = {s \in sidecars :
                                   \A p \in moved \ orphaned : s.idx # p.idx}
       /\ temporary' \in {temporary, "none"}

\* The process is killed, or an exception the code does not catch ends it.
Crash ==
    /\ pc # "idle"
    /\ used.crashes < MaxCrashes
    /\ used' = [used EXCEPT !.crashes = @ + 1]
    /\ CrashRunJson
    /\ CrashConfigJson
    /\ CrashManifest
    /\ CrashJournal
    /\ CrashShards
    /\ Raise("error")

\* A payload's bytes change after it was finalized.
Damage ==
    /\ used.damage < MaxDamage
    /\ pc \in {"idle", "loop"}
    /\ used' = [used EXCEPT !.damage = @ + 1]
    /\ \E p \in payloads :
        /\ p.ok
        /\ payloads' = (payloads \ {p}) \cup {[p EXCEPT !.ok = FALSE]}
    /\ UNCHANGED <<runJson, configJson, journal, sidecars, temporary, manifest,
                   pc, mem, outcome>>

----------------------------------------------------------------------------

Identification == CreateIdentity \/ OpenIdentity \/ RefuseIdentity \/ Refuse
                  \/ WriteRunJson \/ WriteConfigJson

Recovery == RecoverJournal \/ LogRecovery \/ CheckBackend \/ WriteIdentity
            \/ Quarantine \/ DeriveResume \/ LogStarted \/ LogAcquisition

Sampling == LeaveLoop \/ StopAtLimit \/ LogGuard \/ AddSample
            \/ Finalize \/ LogShard \/ Flush

Ending == Conclude \/ LogEnd \/ WriteStatus \/ WriteManifest \/ LogManifest \/ Return

\* The steps the process takes by itself.
Process == Identification \/ Recovery \/ Sampling \/ Ending

Begin == \E c \in Configs, i \in Identities, l \in StopLimits : Start(c, i, l)

Next == Begin \/ Process \/ StorageGuard \/ Signal \/ Crash \/ Damage

Spec == Init /\ [][Next]_vars

\* Whoever started the run starts it again, without a limit, until it reports
\* that it completed.
Retry == outcome # "completed" /\ \E c \in Configs, i \in Identities : Start(c, i, None)

RetryNext == Retry \/ Process \/ StorageGuard \/ Signal \/ Crash \/ Damage

\* A process that runs takes its next step, and a run that has not completed is
\* eventually started again.
FairSpec == Init /\ [][RetryNext]_vars /\ WF_vars(Process) /\ WF_vars(Retry)

----------------------------------------------------------------------------

TypeOK ==
    /\ runJson \in RunJson
    /\ configJson \in {"absent", "torn", "ok"}
    /\ journal \in Files(Records)
    /\ payloads \in SUBSET Payloads
    /\ sidecars \in SUBSET Sidecars
    /\ temporary \in {"none", "savez", "tmp"}
    /\ manifest \in Manifests
    /\ pc \in Points
    /\ mem \in Memory
    /\ outcome \in {"none", "completed", "interrupted", "refused", "error"}
    /\ used \in [starts : Nat, crashes : Nat, signals : Nat, guards : Nat, damage : Nat]

\* No history of deaths, refusals and signal handlers leaves a terminated line
\* of events.jsonl that does not decode: every append of the runner comes after
\* the repair of the tail, and _append_recovery_refusal, the one that may come
\* before it, checks for a tail first (runner.py, _append_recovery_refusal).
JournalNeverCorrupt == Readable(journal)

\* WORKER03.md, crash-safe acquisition: a resumed run does not duplicate
\* samples.  Two shards that validate never hold the same sample, even when
\* other shards were damaged or died between their two renames.
SamplesUnique ==
    \A p, q \in Valid : p # q => Span(p) \cap Span(q) = {}

\* Nor does it skip samples: as long as no finalized payload is damaged
\* afterwards, the shards that validate hold a prefix of the sample stream.
NoSampleSkipped ==
    used.damage = 0 =>
        \A k \in SamplesIn(Valid) : \A j \in 0..k : j \in SamplesIn(Valid)

\* A readable dataset.json describes the whole stream, and the shards still
\* hold it: the manifest is never written over what an interrupted run left.
ManifestCoversStream ==
    (used.damage = 0 /\ manifest.state = "ok") =>
        /\ manifest.samples = 0..(Total - 1)
        /\ SamplesIn(Valid) = manifest.samples

ShardEvents ==
    {i \in 1..Len(journal.lines) :
        journal.lines[i] # Malformed /\ journal.lines[i].event = "shard_finalized"}

\* The journal may miss a shard (the process died before the append) but never
\* invents or repeats one: each shard_finalized event names the end of a shard
\* that validates, and no two name the same (the duplicate check that
\* recovery_test makes on next_sample_index).
JournalledShardsExist ==
    used.damage = 0 =>
        /\ \A i \in ShardEvents : \E p \in Valid : p.last + 1 = journal.lines[i].next
        /\ \A i, j \in ShardEvents : journal.lines[i].next = journal.lines[j].next => i = j

\* A backend that cannot prove continuity never has its samples joined with
\* those of another process: all shards that validate come from one.
OneEpochUnlessResumable ==
    runJson.identity \in Identities \ Resumable =>
        \A p, q \in Valid : p.epoch = q.epoch

\* When run() returns "completed", run.json says so too and the manifest is
\* on disk, although both the flag the status is computed from and the stop
\* request are read at different times (run, from "interrupted =" on).
ReportedCompletion ==
    (pc = "idle" /\ outcome = "completed") =>
        /\ runJson.state = "ok"
        /\ runJson.status = "completed"
        /\ manifest.state = "ok"

\* WORKER03.md, crash-safe acquisition, taken together: after any history of
\* deaths, refusals, signals and restarts the journal decodes and tells of
\* shards that exist, the shards that validate are a prefix of the stream, and
\* manifest, status and returned value agree with them.
EvidenceIsSound ==
    /\ JournalNeverCorrupt
    /\ NoSampleSkipped
    /\ ManifestCoversStream
    /\ JournalledShardsExist
    /\ ReportedCompletion

\* The contract of the process differs from the one run.json records.
Mismatch ==
    /\ pc # "idle"
    /\ runJson.state = "ok"
    /\ \/ runJson.config # mem.config
       \/ runJson.identity # None /\ runJson.identity # mem.identity

\* ADR-016: a mismatch is rejected before configuration is rewritten, shards
\* are quarantined or acquisition is reopened.  No step of a process whose
\* contract differs touches anything but the journal.
MismatchLeavesEvidence == [][Mismatch => UNCHANGED disk]_vars

\* The samples on disk are kept, each once: whatever the storage guard stopped,
\* a death left between two renames or damage took away, no later process adds
\* a sample a second time, and only damage takes away a shard that validates:
\* the runner never moves, replaces or rewrites one.
SamplesKeptOnce ==
    [][/\ SamplesUnique'
       /\ used'.damage = used.damage
              => Valid \subseteq ValidShards(payloads', sidecars')]_vars

\* Once its identity is complete on disk, a run whose deaths and signals are
\* finitely many ends with a manifest, or with a run.json that a death tore
\* while it was being rewritten.
IdentityDurable == runJson.state = "ok" /\ runJson.identity # None

ResumesToCompletion ==
    IdentityDurable ~> (manifest.state = "ok" \/ runJson.state = "torn")

\* The abstract ledger this runner implements, for a run without damage.
Ledger ==
    INSTANCE AcquisitionLedger
    WITH kept <- SamplesIn(Valid), published <- (manifest.state = "ok")

ImplementsLedger == Ledger!Spec

=============================================================================
