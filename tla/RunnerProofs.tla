----------------------------- MODULE RunnerProofs -----------------------------
(***************************************************************************)
(* Proofs about Runner, for every stream length, shard size, set of        *)
(* configurations and backend identities, and for any number of processes, *)
(* deaths, signals and damaged payloads.                                   *)
(***************************************************************************)
EXTENDS Runner, TLAPS

USE RunnerAssumption, MalformedAssumption

----------------------------------------------------------------------------
(* The operations on the journal file (see JournalProofs)                  *)

LEMMA AppendType ==
    ASSUME NEW R, NEW f \in Files(R), NEW r \in R
    PROVE  Append1(f, r) \in Files(R)
BY DEF Files, Append1, Tails

LEMMA TornType ==
    ASSUME NEW R, NEW f \in Files(R), NEW g \in TornAppends(f)
    PROVE  g \in Files(R) /\ g.lines = f.lines
BY DEF Files, TornAppends, Tails

LEMMA TruncateType ==
    ASSUME NEW R, NEW f \in Files(R)
    PROVE  /\ TruncateTail(f) \in Files(R)
           /\ TruncateTail(f).lines = f.lines
           /\ ~TrailingPartial(TruncateTail(f))
BY DEF Files, TruncateTail, TrailingPartial, Tails

\* What an append adds: one line, at the end.
LEMMA AppendLines ==
    ASSUME NEW R, NEW f \in Files(R), NEW r \in R
    PROVE  LET g == Append1(f, r)
           IN  /\ Len(g.lines) = Len(f.lines) + 1
               /\ \A i \in 1..Len(f.lines) : g.lines[i] = f.lines[i]
               /\ g.lines[Len(f.lines) + 1] =
                      IF TrailingPartial(f) THEN Malformed ELSE r
               /\ ~TrailingPartial(g)
BY DEF Files, Append1, TrailingPartial, Tails

----------------------------------------------------------------------------
(* The operators on shards *)

\* Resume indices and shard indices are numbers.
LEMMA IndexTypes ==
    ASSUME NEW shards \in SUBSET Payloads
    PROVE  ResumeIndices(shards) \subseteq Nat /\ NextShards(shards) \subseteq Nat
BY DEF ResumeIndices, NextShards, Payloads

LEMMA LogType ==
    ASSUME journal \in Files(Records), NEW e \in Events, NEW n \in Nat, Log(e, n)
    PROVE  journal' \in Files(Records)
<1>1. [event |-> e, next |-> n] \in Records
  BY DEF Records
<1>2. QED
  BY <1>1, AppendType DEF Log

\* The assignments of two fields of the process's memory at once.
LEMMA MemoryUpdates ==
    ASSUME NEW m \in Memory, NEW a \in Nat, NEW b \in Nat
    PROVE  /\ [m EXCEPT !.start = a] \in Memory
           /\ [m EXCEPT !.start = a, !.acquired = b] \in Memory
           /\ [m EXCEPT !.acquired = a, !.buffered = b] \in Memory
           /\ [m EXCEPT !.buffered = a, !.nextShard = b] \in Memory
BY DEF Memory

\* What a death leaves of a payload or sidecar being written is well typed.
LEMMA BufferedType ==
    ASSUME mem \in Memory, used.starts \in Nat, mem.buffered <= mem.acquired,
           mem.buffered > 0
    PROVE  Buffered \in Payloads /\ SidecarOf(Buffered) \in Sidecars
BY DEF Memory, Buffered, Payloads, Sidecars, SidecarOf

----------------------------------------------------------------------------
(* Type correctness *)

\* Nothing is buffered before the loop; the buffer never holds more than has
\* been acquired, and is not empty when it is finalized.
BeforeLoop ==
    {"idle", "identity", "refusing", "writeRun", "writeConfig", "recover",
     "logRecovery", "checkBackend", "writeIdentity", "quarantine", "validate",
     "logStarted", "logAcquisition"}

BufferSound ==
    /\ mem.buffered <= mem.acquired
    /\ pc \in BeforeLoop => mem.buffered = 0
    /\ pc = "finalize" => mem.buffered > 0

TypeInv == TypeOK /\ BufferSound

\* The process's memory after it has ended.
LEMMA RaiseType ==
    ASSUME NEW r \in {"none", "completed", "interrupted", "refused", "error"}, Raise(r)
    PROVE  /\ pc' \in Points
           /\ mem' \in Memory
           /\ outcome' \in {"none", "completed", "interrupted", "refused", "error"}
           /\ BufferSound'
BY DEF Raise, Points, Memory, NoMemory, BufferSound, BeforeLoop

LEMMA InitType == Init => TypeInv
<1> SUFFICES ASSUME Init PROVE TypeInv
  OBVIOUS
<1> USE DEF Init
<1>1. journal \in Files(Records)
  <2> DEFINE stray == [event |-> "recovery_refused", next |-> 0]
  <2>1. stray \in Records
    BY DEF Records, Events
  <2>2. EmptyFile \in Files(Records)
    BY DEF EmptyFile, Files, Tails
  <2>3. StrayFile \in Files(Records)
    <3>1. StrayFile = [lines |-> <<stray>>, tail |-> "none"]
      BY DEF StrayFile
    <3> HIDE DEF stray
    <3>2. <<stray>> \in Seq(Records \cup {Malformed})
      BY <2>1
    <3>3. QED
      BY <3>1, <3>2 DEF Files, Tails
  <2>4. QED
    BY <2>2, <2>3
<1>2. runJson \in RunJson /\ manifest \in Manifests
  BY DEF NoRunJson, RunJson, NoManifest, Manifests
<1>3. mem \in Memory /\ BufferSound
  BY DEF NoMemory, Memory, BufferSound, BeforeLoop
<1>4. pc \in Points
  BY DEF Points
<1>5. QED
  BY <1>1, <1>2, <1>3, <1>4 DEF TypeInv, TypeOK

LEMMA IdentificationType == TypeInv /\ Identification => TypeInv'
<1> SUFFICES ASSUME TypeInv, Identification PROVE TypeInv'
  OBVIOUS
<1> USE DEF TypeInv, disk
<1>1. CASE CreateIdentity
  BY <1>1 DEF CreateIdentity, TypeOK, Goto, Points, BufferSound, BeforeLoop
<1>2. CASE OpenIdentity
  BY <1>2 DEF OpenIdentity, TypeOK, Goto, Points, BufferSound, BeforeLoop, Memory
<1>3. CASE RefuseIdentity
  BY <1>3 DEF RefuseIdentity, TypeOK, Goto, Points, BufferSound, BeforeLoop
<1>4. CASE Refuse
  <2>1. journal' \in Files(Records)
    BY <1>4, LogType DEF Refuse, TypeOK, Memory, Events
  <2>2. QED
    BY <1>4, <2>1, RaiseType DEF Refuse, TypeOK
<1>5. CASE WriteRunJson
  <2>1. runJson' \in RunJson
    BY <1>5 DEF WriteRunJson, TypeOK, RunJson, Memory
  <2>2. QED
    BY <1>5, <2>1 DEF WriteRunJson, TypeOK, Goto, Points, BufferSound, BeforeLoop
<1>6. CASE WriteConfigJson
  BY <1>6 DEF WriteConfigJson, TypeOK, Goto, Points, BufferSound, BeforeLoop
<1>7. QED
  BY <1>1, <1>2, <1>3, <1>4, <1>5, <1>6 DEF Identification

LEMMA RecoveryType == TypeInv /\ Recovery => TypeInv'
<1> SUFFICES ASSUME TypeInv, Recovery PROVE TypeInv'
  OBVIOUS
<1> USE DEF TypeInv, disk
<1>0. Valid \in SUBSET Payloads
  BY DEF TypeOK, Valid, ValidShards
<1>1. CASE RecoverJournal
  <2>1. CASE Readable(journal)
    <3>1. journal' \in Files(Records)
      BY <1>1, <2>1, TruncateType DEF RecoverJournal, TypeOK
    <3>2. QED
      BY <1>1, <2>1, <3>1 DEF RecoverJournal, TypeOK, Goto, Points, BufferSound, BeforeLoop
  <2>2. CASE ~Readable(journal)
    BY <1>1, <2>2, RaiseType DEF RecoverJournal, TypeOK
  <2>3. QED
    BY <2>1, <2>2
<1>2. CASE LogRecovery
  <2>1. journal' \in Files(Records)
    BY <1>2, LogType DEF LogRecovery, TypeOK, Events
  <2>2. QED
    BY <1>2, <2>1 DEF LogRecovery, TypeOK, Goto, Points, BufferSound, BeforeLoop
<1>3. CASE CheckBackend
  <2>1. CASE InOrder(Valid)
    <3>1. PICK preview \in ResumeIndices(Valid) :
              /\ mem' = [mem EXCEPT !.start = preview]
              /\ pc' \in {"refusing", "quarantine", "writeIdentity"}
              /\ UNCHANGED outcome
      BY <1>3, <2>1 DEF CheckBackend, Goto
    <3>2. preview \in Nat
      BY <1>0, <3>1, IndexTypes
    <3>3. mem \in Memory /\ mem.buffered = 0
      BY <1>3 DEF TypeOK, CheckBackend, BufferSound, BeforeLoop
    <3>4. mem' \in Memory
      BY <3>1, <3>2, <3>3, MemoryUpdates
    <3>5. mem'.buffered = 0 /\ mem'.acquired = mem.acquired /\ mem.acquired \in Nat
      BY <3>1, <3>3 DEF Memory
    <3>6. BufferSound' /\ pc' \in Points
      BY <3>1, <3>5 DEF BufferSound, Points
    <3>7. QED
      BY <1>3, <3>1, <3>4, <3>6 DEF CheckBackend, TypeOK
  <2>2. CASE ~InOrder(Valid)
    BY <1>3, <2>2, RaiseType DEF CheckBackend, TypeOK
  <2>3. QED
    BY <2>1, <2>2
<1>4. CASE WriteIdentity
  <2>1. runJson' \in RunJson
    BY <1>4 DEF WriteIdentity, TypeOK, RunJson, Memory
  <2>2. QED
    BY <1>4, <2>1 DEF WriteIdentity, TypeOK, Goto, Points, BufferSound, BeforeLoop
<1>5. CASE Quarantine
  BY <1>5 DEF Quarantine, TypeOK, Goto, Points, BufferSound, BeforeLoop
<1>6. CASE DeriveResume
  <2>1. CASE NothingInvalid /\ InOrder(payloads)
    <3>1. PICK n \in ResumeIndices(payloads) :
              /\ mem' = [mem EXCEPT !.start = n, !.acquired = n]
              /\ pc' = "logStarted"
              /\ UNCHANGED outcome
      BY <1>6, <2>1 DEF DeriveResume, Goto
    <3>2. n \in Nat
      BY <3>1, IndexTypes DEF TypeOK
    <3>3. mem \in Memory /\ mem.buffered = 0
      BY <1>6 DEF TypeOK, DeriveResume, BufferSound, BeforeLoop
    <3>4. mem' \in Memory
      BY <3>1, <3>2, <3>3, MemoryUpdates
    <3>5. mem'.buffered = 0 /\ mem'.acquired = n
      BY <3>1, <3>3 DEF Memory
    <3>6. BufferSound' /\ pc' \in Points
      BY <3>1, <3>2, <3>5 DEF BufferSound, Points
    <3>7. QED
      BY <1>6, <3>1, <3>4, <3>6 DEF DeriveResume, TypeOK
  <2>2. CASE ~NothingInvalid \/ ~InOrder(payloads)
    BY <1>6, <2>2, RaiseType DEF DeriveResume, TypeOK
  <2>3. QED
    BY <2>1, <2>2
<1>7. CASE LogStarted
  <2>1. journal' \in Files(Records)
    BY <1>7, LogType DEF LogStarted, TypeOK, Events, Memory
  <2>2. QED
    BY <1>7, <2>1 DEF LogStarted, TypeOK, Goto, Points, BufferSound, BeforeLoop
<1>8. CASE LogAcquisition
  <2>1. journal' \in Files(Records)
    BY <1>8, LogType DEF LogAcquisition, TypeOK, Events, Memory
  <2>2. PICK n \in NextShards(payloads) : mem' = [mem EXCEPT !.nextShard = n]
    BY <1>8 DEF LogAcquisition
  <2>3. mem' \in Memory /\ BufferSound'
    BY <1>8, <2>2, IndexTypes DEF TypeOK, Memory, BufferSound, BeforeLoop, LogAcquisition, Goto
  <2>4. QED
    BY <1>8, <2>1, <2>3 DEF LogAcquisition, TypeOK, Goto, Points
<1>9. QED
  BY <1>1, <1>2, <1>3, <1>4, <1>5, <1>6, <1>7, <1>8 DEF Recovery

LEMMA SamplingType == TypeInv /\ Sampling => TypeInv'
<1> SUFFICES ASSUME TypeInv, Sampling PROVE TypeInv'
  OBVIOUS
<1> USE DEF TypeInv, disk
<1>1. CASE LeaveLoop
  BY <1>1 DEF LeaveLoop, TypeOK, Goto, Points, BufferSound, BeforeLoop
<1>2. CASE StopAtLimit
  BY <1>2 DEF StopAtLimit, TypeOK, Goto, Points, BufferSound, BeforeLoop, Memory
<1>3. CASE LogGuard
  <2>1. journal' \in Files(Records)
    BY <1>3, LogType DEF LogGuard, TypeOK, Events, Memory
  <2>2. QED
    BY <1>3, <2>1 DEF LogGuard, TypeOK, Goto, Points, BufferSound, BeforeLoop, Memory
<1>4. CASE AddSample
  <2>1. pc' \in {"finalize", "loop"}
    BY <1>4 DEF AddSample, Goto
  <2>2. /\ mem' = [mem EXCEPT !.acquired = @ + 1, !.buffered = @ + 1]
        /\ mem \in Memory /\ mem.buffered <= mem.acquired
    BY <1>4 DEF AddSample, TypeOK, BufferSound
  <2> DEFINE a == mem.acquired + 1
             b == mem.buffered + 1
  <2>a. mem.acquired \in Nat /\ mem.buffered \in Nat /\ a \in Nat /\ b \in Nat
    BY <2>2 DEF Memory
  <2>c. mem \in Memory
    BY <2>2
  <2>b. mem' = [mem EXCEPT !.acquired = a, !.buffered = b]
    BY <2>2
  <2>3. /\ mem' \in Memory
        /\ mem'.buffered = b
        /\ mem'.acquired = a
    <3> HIDE DEF a, b
    <3>1. mem' \in Memory
      BY <2>a, <2>b, <2>c, MemoryUpdates, Zenon
    <3>2. QED
      BY <2>2, <2>b, <3>1 DEF Memory
  <2>4. BufferSound'
    BY <2>1, <2>2, <2>3, <2>a DEF BufferSound, BeforeLoop
  <2>5. QED
    BY <1>4, <2>1, <2>3, <2>4 DEF AddSample, TypeOK, Points
<1>5. CASE Finalize
  <2>1. Buffered \in Payloads /\ SidecarOf(Buffered) \in Sidecars
    BY <1>5, BufferedType DEF Finalize, TypeOK, BufferSound, BeforeLoop
  <2>2. payloads' \in SUBSET Payloads /\ sidecars' \in SUBSET Sidecars
    BY <1>5, <2>1 DEF Finalize, TypeOK, ReplacePayload, ReplaceSidecar
  <2>3. /\ mem' = [mem EXCEPT !.buffered = 0, !.nextShard = @ + 1]
        /\ pc' = "logShard" /\ mem \in Memory
    BY <1>5 DEF Finalize, Goto, TypeOK
  <2>c. mem \in Memory
    BY <2>3
  <2> DEFINE b == mem.nextShard + 1
  <2>4. mem' \in Memory /\ mem'.buffered = 0 /\ mem'.acquired \in Nat
    <3>1. b \in Nat /\ mem' = [mem EXCEPT !.buffered = 0, !.nextShard = b]
      BY <2>3 DEF Memory
    <3> HIDE DEF b
    <3>2. mem' \in Memory
      BY <2>c, <3>1, 0 \in Nat, MemoryUpdates, Zenon
    <3>3. QED
      BY <2>3, <3>1, <3>2 DEF Memory
  <2>5. BufferSound' /\ pc' \in Points
    BY <2>3, <2>4 DEF BufferSound, BeforeLoop, Points
  <2>6. QED
    BY <1>5, <2>2, <2>4, <2>5 DEF Finalize, TypeOK
<1>6. CASE LogShard
  <2>1. journal' \in Files(Records)
    BY <1>6, LogType DEF LogShard, TypeOK, Events, Memory
  <2>2. QED
    BY <1>6, <2>1 DEF LogShard, TypeOK, Goto, Points, BufferSound, BeforeLoop
<1>7. CASE Flush
  BY <1>7 DEF Flush, TypeOK, Goto, Points, BufferSound, BeforeLoop, Memory
<1>8. QED
  BY <1>1, <1>2, <1>3, <1>4, <1>5, <1>6, <1>7 DEF Sampling

LEMMA EndingType == TypeInv /\ Ending => TypeInv'
<1> SUFFICES ASSUME TypeInv, Ending PROVE TypeInv'
  OBVIOUS
<1> USE DEF TypeInv, disk
<1>1. CASE Conclude
  BY <1>1 DEF Conclude, TypeOK, Goto, Points, BufferSound, BeforeLoop, Memory
<1>2. CASE LogEnd
  <2>1. journal' \in Files(Records)
    BY <1>2, LogType DEF LogEnd, TypeOK, Events, Memory
  <2>2. QED
    BY <1>2, <2>1 DEF LogEnd, TypeOK, Goto, Points, BufferSound, BeforeLoop
<1>3. CASE WriteStatus
  <2>1. runJson' \in RunJson
    BY <1>3 DEF WriteStatus, TypeOK, RunJson
  <2>2. QED
    BY <1>3, <2>1 DEF WriteStatus, TypeOK, Goto, Points, BufferSound, BeforeLoop
<1>4. CASE WriteManifest
  <2>1. CASE NothingInvalid /\ InOrder(payloads)
    <3>1. manifest' \in Manifests
      BY <1>4, <2>1 DEF WriteManifest, TypeOK, Manifests, SamplesIn, Span, Payloads
    <3>2. QED
      BY <1>4, <2>1, <3>1 DEF WriteManifest, TypeOK, Goto, Points, BufferSound, BeforeLoop
  <2>2. CASE ~NothingInvalid \/ ~InOrder(payloads)
    BY <1>4, <2>2, RaiseType DEF WriteManifest, TypeOK
  <2>3. QED
    BY <2>1, <2>2
<1>5. CASE LogManifest
  <2>1. journal' \in Files(Records)
    BY <1>5, LogType DEF LogManifest, TypeOK, Events, Memory
  <2>2. QED
    BY <1>5, <2>1 DEF LogManifest, TypeOK, Goto, Points, BufferSound, BeforeLoop
<1>6. CASE Return
  BY <1>6, RaiseType DEF Return, TypeOK
<1>7. QED
  BY <1>1, <1>2, <1>3, <1>4, <1>5, <1>6 DEF Ending

LEMMA CrashType == TypeInv /\ Crash => TypeInv'
<1> SUFFICES ASSUME TypeInv, Crash PROVE TypeInv'
  OBVIOUS
<1> USE DEF TypeInv
<1>1. runJson' \in RunJson
  BY DEF Crash, CrashRunJson, TypeOK, RunJson
<1>2. configJson' \in {"absent", "torn", "ok"}
  BY DEF Crash, CrashConfigJson, TypeOK
<1>3. manifest' \in Manifests
  BY DEF Crash, CrashManifest, TypeOK, Manifests
<1>4. journal' \in Files(Records)
  BY TornType DEF Crash, CrashJournal, TypeOK
<1>5. /\ payloads' \in SUBSET Payloads
      /\ sidecars' \in SUBSET Sidecars
      /\ temporary' \in {"none", "savez", "tmp"}
  <2>1. CASE UNCHANGED <<payloads, sidecars, temporary>>
    BY <2>1 DEF TypeOK
  <2>2. CASE pc = "finalize" /\ temporary' \in {"savez", "tmp"}
             /\ UNCHANGED <<payloads, sidecars>>
    BY <2>2 DEF TypeOK
  <2>3. CASE pc = "finalize" /\ payloads' = ReplacePayload(Buffered)
             /\ temporary' = "tmp" /\ UNCHANGED sidecars
    <3>1. Buffered \in Payloads
      BY <2>3, BufferedType DEF TypeOK, BufferSound
    <3>2. QED
      BY <2>3, <3>1 DEF TypeOK, ReplacePayload
  <2>4. CASE /\ \E moved \in SUBSET InvalidShards(payloads, sidecars) :
                 \E orphaned \in SUBSET moved :
                     /\ payloads' = payloads \ moved
                     /\ sidecars' = {s \in sidecars :
                                         \A p \in moved \ orphaned : s.idx # p.idx}
             /\ temporary' \in {temporary, "none"}
    BY <2>4 DEF TypeOK
  <2>5. QED
    BY <2>1, <2>2, <2>3, <2>4 DEF Crash, CrashShards
<1>6. used' \in [starts : Nat, crashes : Nat, signals : Nat, guards : Nat, damage : Nat]
  BY DEF Crash, TypeOK
<1>7. Raise("error")
  BY DEF Crash
<1>8. QED
  BY <1>1, <1>2, <1>3, <1>4, <1>5, <1>6, <1>7, RaiseType DEF TypeOK

LEMMA EnvironmentType ==
    TypeInv /\ (Begin \/ StorageGuard \/ Signal \/ Damage) => TypeInv'
<1> SUFFICES ASSUME TypeInv, Begin \/ StorageGuard \/ Signal \/ Damage PROVE TypeInv'
  OBVIOUS
<1> USE DEF TypeInv, disk
<1>1. CASE Begin
  <2>1. PICK c \in Configs, i \in Identities, l \in StopLimits : Start(c, i, l)
    BY <1>1 DEF Begin
  <2>2. mem' = [NoMemory EXCEPT !.config = c, !.identity = i, !.limit = l]
    BY <2>1 DEF Start
  <2>3. l \in Nat \cup {None}
    OBVIOUS
  <2>4. mem' \in Memory /\ mem'.buffered = 0 /\ mem'.acquired = 0
    BY <2>2, <2>3 DEF NoMemory, Memory
  <2>5. pc' = "identity"
    BY <2>1 DEF Start, Goto
  <2>6. BufferSound' /\ pc' \in Points
    BY <2>4, <2>5 DEF BufferSound, Points
  <2>7. QED
    BY <2>1, <2>4, <2>6 DEF Start, TypeOK
<1>2. CASE StorageGuard
  BY <1>2 DEF StorageGuard, TypeOK, Goto, Points, BufferSound, BeforeLoop
<1>3. CASE Signal
  <2>1. journal' \in Files(Records)
    BY <1>3, LogType DEF Signal, TypeOK, Events
  <2>2. mem' \in Memory /\ mem'.buffered = mem.buffered /\ mem'.acquired = mem.acquired
    BY <1>3 DEF Signal, TypeOK, Memory
  <2>3. BufferSound'
    BY <1>3, <2>2 DEF Signal, BufferSound
  <2>4. QED
    BY <1>3, <2>1, <2>2, <2>3 DEF Signal, TypeOK
<1>4. CASE Damage
  <2>1. payloads' \in SUBSET Payloads
    <3>1. PICK p \in payloads :
              payloads' = (payloads \ {p}) \cup {[p EXCEPT !.ok = FALSE]}
      BY <1>4 DEF Damage
    <3>2. [p EXCEPT !.ok = FALSE] \in Payloads
      BY DEF TypeOK, Payloads
    <3>3. QED
      BY <3>1, <3>2 DEF TypeOK
  <2>2. QED
    BY <1>4, <2>1 DEF Damage, TypeOK, BufferSound
<1>5. QED
  BY <1>1, <1>2, <1>3, <1>4

LEMMA NextType == TypeInv /\ [Next]_vars => TypeInv'
<1>1. TypeInv /\ UNCHANGED vars => TypeInv'
  BY DEF TypeInv, TypeOK, BufferSound, vars
<1>2. QED
  BY <1>1, IdentificationType, RecoveryType, SamplingType, EndingType, CrashType,
     EnvironmentType DEF Next, Process

LEMMA TypeInvInvariant == Spec => []TypeInv
<1>1. QED
  BY InitType, NextType, PTL DEF Spec

\* Type correctness of the runner for every stream, shard size and bound.
THEOREM RunnerTypeCorrect == Spec => []TypeOK
<1>1. TypeInv => TypeOK
  BY DEF TypeInv
<1>2. QED
  BY <1>1, TypeInvInvariant, PTL

----------------------------------------------------------------------------
(* The journal is never corrupted *)

\* Where a process may still face the tail that an earlier one left.
MayFindTail == {"idle", "identity", "refusing", "writeRun", "writeConfig", "recover"}

\* Once recovery is over there is no tail, which is what keeps every later
\* append on a line of its own.
JournalInv ==
    /\ Readable(journal)
    /\ pc \notin MayFindTail => ~TrailingPartial(journal)

LEMMA LogReadable ==
    ASSUME TypeInv, NEW e \in Events, NEW n \in Nat, Log(e, n),
           Readable(journal), ~TrailingPartial(journal)
    PROVE  Readable(journal') /\ ~TrailingPartial(journal')
<1> DEFINE r == [event |-> e, next |-> n]
           k == Len(journal.lines)
<1>1. r \in Records /\ r # Malformed
  BY DEF Records
<1>2. journal \in Files(Records) /\ journal' = Append1(journal, r)
  BY DEF TypeInv, TypeOK, Log
<1> HIDE DEF r
<1>3. /\ Len(journal'.lines) = k + 1
      /\ \A i \in 1..k : journal'.lines[i] = journal.lines[i]
      /\ journal'.lines[k + 1] = r
      /\ ~TrailingPartial(journal')
  BY <1>1, <1>2, AppendLines
<1>4. k \in Nat
  BY <1>2 DEF Files
<1>5. \A i \in 1..k : journal.lines[i] # Malformed
  BY DEF Readable
<1> HIDE DEF k
<1>6. \A i \in 1..(k + 1) : i \in 1..k \/ i = k + 1
  BY <1>4
<1>7. QED
  BY <1>1, <1>3, <1>5, <1>6 DEF Readable

\* A step that logs from a point past recovery.
LEMMA LoggingStep ==
    ASSUME TypeInv, JournalInv, pc \notin MayFindTail,
           NEW e \in Events, NEW n \in Nat, Log(e, n)
    PROVE  JournalInv'
BY LogReadable DEF JournalInv

\* A step that leaves the journal alone and does not come from before the end
\* of recovery to after it.
LEMMA QuietStep ==
    ASSUME JournalInv, journal' = journal,
           pc' \in MayFindTail \/ pc \notin MayFindTail
    PROVE  JournalInv'
BY DEF JournalInv

LEMMA ProcessJournal == TypeInv /\ JournalInv /\ Process => JournalInv'
<1> SUFFICES ASSUME TypeInv, JournalInv, Process PROVE JournalInv'
  OBVIOUS
<1>0. mem.acquired \in Nat /\ mem.start \in Nat
  BY DEF TypeInv, TypeOK, Memory
<1>1. CASE Identification
  <2>1. CASE Refuse
    <3>1. CASE SafeToLogRefusal
      <4>1. Log("recovery_refused", mem.start) /\ pc' = "idle"
        BY <2>1, <3>1 DEF Refuse, Raise
      <4>2. Readable(journal')
        BY <1>0, <3>1, <4>1, LogReadable DEF SafeToLogRefusal, Events
      <4>3. QED
        BY <4>1, <4>2 DEF JournalInv, MayFindTail
    <3>2. CASE ~SafeToLogRefusal
      BY <2>1, <3>2, QuietStep DEF Refuse, Raise, MayFindTail
    <3>3. QED
      BY <3>1, <3>2
  <2>2. CASE CreateIdentity \/ OpenIdentity \/ RefuseIdentity \/ WriteRunJson
             \/ WriteConfigJson
    BY <2>2, QuietStep DEF CreateIdentity, OpenIdentity, RefuseIdentity, WriteRunJson,
       WriteConfigJson, Goto, MayFindTail
  <2>3. QED
    BY <1>1, <2>1, <2>2 DEF Identification
<1>2. CASE Recovery
  <2>1. CASE RecoverJournal
    <3>1. Readable(journal)
      BY DEF JournalInv
    <3>2. journal' = TruncateTail(journal)
      BY <2>1, <3>1 DEF RecoverJournal
    <3>3. journal'.lines = journal.lines /\ ~TrailingPartial(journal')
      BY <3>2, TruncateType DEF TypeInv, TypeOK
    <3>4. QED
      BY <3>1, <3>3 DEF JournalInv, Readable
  <2>2. CASE LogRecovery
    BY <2>2, LoggingStep DEF LogRecovery, MayFindTail, Events
  <2>3. CASE CheckBackend \/ WriteIdentity \/ Quarantine \/ DeriveResume
    BY <2>3, QuietStep DEF CheckBackend, WriteIdentity, Quarantine, DeriveResume,
       MayFindTail
  <2>4. CASE LogStarted
    BY <1>0, <2>4, LoggingStep DEF LogStarted, MayFindTail, Events
  <2>5. CASE LogAcquisition
    BY <1>0, <2>5, LoggingStep DEF LogAcquisition, MayFindTail, Events
  <2>6. QED
    BY <1>2, <2>1, <2>2, <2>3, <2>4, <2>5 DEF Recovery
<1>3. CASE Sampling
  <2>1. CASE LogGuard
    BY <1>0, <2>1, LoggingStep DEF LogGuard, MayFindTail, Events
  <2>2. CASE LogShard
    BY <1>0, <2>2, LoggingStep DEF LogShard, MayFindTail, Events
  <2>3. CASE LeaveLoop \/ StopAtLimit \/ AddSample \/ Finalize \/ Flush
    BY <2>3, QuietStep DEF LeaveLoop, StopAtLimit, AddSample, Finalize, Flush, MayFindTail
  <2>4. QED
    BY <1>3, <2>1, <2>2, <2>3 DEF Sampling
<1>4. CASE Ending
  <2>1. CASE LogEnd
    BY <1>0, <2>1, LoggingStep DEF LogEnd, MayFindTail, Events
  <2>2. CASE LogManifest
    BY <1>0, <2>2, LoggingStep DEF LogManifest, MayFindTail, Events
  <2>3. CASE Conclude \/ WriteStatus \/ WriteManifest \/ Return
    BY <2>3, QuietStep DEF Conclude, WriteStatus, WriteManifest, Return, MayFindTail
  <2>4. QED
    BY <1>4, <2>1, <2>2, <2>3 DEF Ending
<1>5. QED
  BY <1>1, <1>2, <1>3, <1>4 DEF Process

LEMMA EnvironmentJournal ==
    TypeInv /\ JournalInv /\ (Begin \/ StorageGuard \/ Signal \/ Crash \/ Damage)
        => JournalInv'
<1> SUFFICES ASSUME TypeInv, JournalInv,
                    Begin \/ StorageGuard \/ Signal \/ Crash \/ Damage
             PROVE  JournalInv'
  OBVIOUS
<1>1. CASE Begin
  BY <1>1, QuietStep DEF Begin, Start, Goto, MayFindTail
<1>2. CASE StorageGuard
  BY <1>2, QuietStep DEF StorageGuard, MayFindTail
<1>3. CASE Signal
  BY <1>3, LoggingStep DEF Signal, Handling, MayFindTail, Events
<1>4. CASE Crash
  <2>1. pc' = "idle"
    BY <1>4 DEF Crash, Raise
  <2>2. journal' \in TornAppends(journal) \/ journal' = journal
    BY <1>4 DEF Crash, CrashJournal
  <2>3. journal'.lines = journal.lines
    BY <2>2, TornType DEF TypeInv, TypeOK
  <2>4. QED
    BY <2>1, <2>3 DEF JournalInv, Readable, MayFindTail
<1>5. CASE Damage
  BY <1>5, QuietStep DEF Damage
<1>6. QED
  BY <1>1, <1>2, <1>3, <1>4, <1>5

LEMMA JournalInvariant == Spec => []JournalInv
<1>1. Init => JournalInv
  BY DEF Init, JournalInv, Readable, EmptyFile, StrayFile, MayFindTail, TrailingPartial,
         Records, Events
<1>2. TypeInv /\ JournalInv /\ [Next]_vars => JournalInv'
  <2>1. JournalInv /\ UNCHANGED vars => JournalInv'
    BY DEF JournalInv, vars
  <2>2. QED
    BY <2>1, ProcessJournal, EnvironmentJournal DEF Next
<1>3. QED
  BY <1>1, <1>2, TypeInvInvariant, PTL DEF Spec

\* No interleaving of deaths, refusals and signal handlers, in any number of
\* processes, leaves a terminated line of events.jsonl that does not decode.
THEOREM RunnerJournalNeverCorrupt == Spec => []JournalNeverCorrupt
<1>1. JournalInv => JournalNeverCorrupt
  BY DEF JournalInv, JournalNeverCorrupt
<1>2. QED
  BY <1>1, JournalInvariant, PTL

----------------------------------------------------------------------------
(* A process whose contract differs leaves the evidence alone *)

\* Where the process has not yet found or written a run.json of its contract,
\* and where it has not yet compared the identity run.json holds.
Unidentified == {"idle", "identity", "refusing", "writeRun"}

Unaccepted ==
    Unidentified \cup {"writeConfig", "recover", "logRecovery", "checkBackend",
                       "writeIdentity"}

\* Past these points the process and run.json agree; a fresh run.json has no
\* identity until the process writes its own.
ContractInv ==
    /\ pc \notin Unidentified => runJson.state = "ok" /\ runJson.config = mem.config
    /\ pc \notin Unaccepted => runJson.identity = mem.identity
    /\ pc = "writeRun" => runJson.state = "absent"
    /\ pc \in Unaccepted \ Unidentified /\ ~mem.resuming => runJson.identity = None
    /\ pc \in {"identity", "writeRun", "writeConfig", "writeIdentity"} => ~mem.resuming

\* A step past all comparisons changes neither identity nor configuration.
LEMMA ContractKept ==
    ASSUME ContractInv, pc \notin Unaccepted, pc' \notin Unaccepted,
           runJson'.state = runJson.state, runJson'.config = runJson.config,
           runJson'.identity = runJson.identity,
           mem'.config = mem.config, mem'.identity = mem.identity
    PROVE  ContractInv'
BY DEF ContractInv, Unaccepted, Unidentified

\* Where no process runs, or one is about to be refused, there is nothing to agree on.
LEMMA ContractFree == ASSUME pc' \in {"idle", "refusing"} PROVE ContractInv'
BY DEF ContractInv, Unaccepted, Unidentified

LEMMA IdentificationContract == TypeInv /\ ContractInv /\ Identification => ContractInv'
<1> SUFFICES ASSUME TypeInv, ContractInv, Identification PROVE ContractInv'
  OBVIOUS
<1>0. mem \in Memory
  BY DEF TypeInv, TypeOK
<1> USE DEF disk
<1>1. CASE CreateIdentity
  BY <1>1 DEF CreateIdentity, DirectoryEmpty, Goto, ContractInv, Unaccepted, Unidentified
<1>2. CASE OpenIdentity
  <2>1. /\ pc' = "recover" /\ UNCHANGED runJson /\ runJson.state = "ok"
        /\ runJson.config = mem.config /\ mem' = [mem EXCEPT !.resuming = TRUE]
    BY <1>2 DEF OpenIdentity, IdentityMatches, IdentityReadable, Goto
  <2>2. mem'.config = mem.config /\ mem'.resuming
    BY <1>0, <2>1 DEF Memory
  <2>3. QED
    BY <2>1, <2>2 DEF ContractInv, Unaccepted, Unidentified
<1>3. CASE RefuseIdentity
  BY <1>3, ContractFree DEF RefuseIdentity, Goto
<1>4. CASE Refuse
  BY <1>4, ContractFree DEF Refuse, Raise
<1>5. CASE WriteRunJson
  BY <1>5 DEF WriteRunJson, Goto, ContractInv, Unaccepted, Unidentified
<1>6. CASE WriteConfigJson
  BY <1>6 DEF WriteConfigJson, Goto, ContractInv, Unaccepted, Unidentified
<1>7. QED
  BY <1>1, <1>2, <1>3, <1>4, <1>5, <1>6 DEF Identification

LEMMA RecoveryContract == TypeInv /\ ContractInv /\ Recovery => ContractInv'
<1> SUFFICES ASSUME TypeInv, ContractInv, Recovery PROVE ContractInv'
  OBVIOUS
<1>0. mem \in Memory /\ runJson \in RunJson
  BY DEF TypeInv, TypeOK
<1> USE DEF disk
<1>1. CASE RecoverJournal
  <2>1. CASE Readable(journal)
    BY <1>1, <2>1 DEF RecoverJournal, Goto, ContractInv, Unaccepted, Unidentified
  <2>2. CASE ~Readable(journal)
    BY <1>1, <2>2, ContractFree DEF RecoverJournal, Raise
  <2>3. QED
    BY <2>1, <2>2
<1>2. CASE LogRecovery
  BY <1>2 DEF LogRecovery, Goto, ContractInv, Unaccepted, Unidentified
<1>3. CASE CheckBackend
  <2>1. CASE pc' \in {"idle", "refusing"}
    BY <2>1, ContractFree
  <2>2. CASE pc' \notin {"idle", "refusing"}
    <3>1. PICK preview \in ResumeIndices(Valid) :
              /\ mem' = [mem EXCEPT !.start = preview]
              /\ BackendAccepts(preview)
              /\ pc' = IF mem.resuming THEN "quarantine" ELSE "writeIdentity"
      BY <1>3, <2>2 DEF CheckBackend, Goto, Raise
    <3>2. /\ mem'.config = mem.config /\ mem'.identity = mem.identity
          /\ mem'.resuming = mem.resuming
      BY <1>0, <3>1 DEF Memory
    <3>3. mem.resuming => runJson.identity = mem.identity
      BY <3>1 DEF BackendAccepts
    <3>4. pc = "checkBackend" /\ UNCHANGED runJson
      BY <1>3 DEF CheckBackend
    <3>5. QED
      BY <3>1, <3>2, <3>3, <3>4 DEF ContractInv, Unaccepted, Unidentified
  <2>3. QED
    BY <2>1, <2>2
<1>4. CASE WriteIdentity
  <2>1. /\ pc = "writeIdentity" /\ pc' = "quarantine" /\ UNCHANGED mem
        /\ runJson' = [runJson EXCEPT !.identity = mem.identity]
    BY <1>4 DEF WriteIdentity, Goto
  <2>2. /\ runJson'.state = runJson.state /\ runJson'.config = runJson.config
        /\ runJson'.identity = mem.identity
    BY <1>0, <2>1 DEF RunJson
  <2>3. QED
    BY <2>1, <2>2 DEF ContractInv, Unaccepted, Unidentified
<1>5. CASE Quarantine
  BY <1>5, ContractKept DEF Quarantine, Goto, Unaccepted, Unidentified
<1>6. CASE DeriveResume
  <2>1. CASE pc' = "idle"
    BY <2>1, ContractFree
  <2>2. CASE pc' # "idle"
    <3>1. PICK n \in ResumeIndices(payloads) :
              mem' = [mem EXCEPT !.start = n, !.acquired = n] /\ pc' = "logStarted"
      BY <1>6, <2>2 DEF DeriveResume, Goto, Raise
    <3>2. mem'.config = mem.config /\ mem'.identity = mem.identity
      BY <1>0, <3>1 DEF Memory
    <3>3. QED
      BY <1>6, <3>1, <3>2, ContractKept DEF DeriveResume, Unaccepted, Unidentified
  <2>3. QED
    BY <2>1, <2>2
<1>7. CASE LogStarted
  BY <1>7, ContractKept DEF LogStarted, Goto, Unaccepted, Unidentified
<1>8. CASE LogAcquisition
  <2>1. PICK n \in NextShards(payloads) : mem' = [mem EXCEPT !.nextShard = n]
    BY <1>8 DEF LogAcquisition
  <2>2. mem'.config = mem.config /\ mem'.identity = mem.identity
    BY <1>0, <2>1 DEF Memory
  <2>3. QED
    BY <1>8, <2>2, ContractKept DEF LogAcquisition, Goto, Unaccepted, Unidentified
<1>9. QED
  BY <1>1, <1>2, <1>3, <1>4, <1>5, <1>6, <1>7, <1>8 DEF Recovery

\* In the loop and after it the process writes run.json only to set the status.
LEMMA SteadyStep ==
    ASSUME TypeInv, Sampling \/ Ending \/ StorageGuard \/ Signal
    PROVE  /\ pc \in Handling /\ pc' \in Handling \cup {"idle"}
           /\ runJson'.state = runJson.state /\ runJson'.config = runJson.config
           /\ runJson'.identity = runJson.identity
           /\ pc' # "idle" => mem'.config = mem.config /\ mem'.identity = mem.identity
<1>0. mem \in Memory /\ runJson \in RunJson
  BY DEF TypeInv, TypeOK
<1> USE DEF disk, Handling, Goto
<1>1. CASE LeaveLoop \/ StorageGuard \/ LogShard \/ LogEnd \/ LogManifest
  BY <1>1 DEF LeaveLoop, StorageGuard, LogShard, LogEnd, LogManifest
<1>2. CASE StopAtLimit \/ LogGuard
  BY <1>0, <1>2 DEF StopAtLimit, LogGuard, Memory
<1>3. CASE AddSample \/ Finalize
  BY <1>0, <1>3 DEF AddSample, Finalize, Memory
<1>4. CASE Flush \/ Conclude \/ Signal
  BY <1>0, <1>4 DEF Flush, Conclude, Signal, Memory
<1>5. CASE WriteStatus
  <2>1. /\ pc = "writeStatus" /\ pc' \in {"return", "manifest"} /\ UNCHANGED mem
        /\ \E s \in {"interrupted", "completed"} : runJson' = [runJson EXCEPT !.status = s]
    BY <1>5 DEF WriteStatus
  <2>2. QED
    BY <1>0, <2>1 DEF RunJson
<1>6. CASE WriteManifest
  BY <1>6 DEF WriteManifest, Raise
<1>7. CASE Return
  BY <1>7 DEF Return, Raise
<1>8. QED
  BY <1>1, <1>2, <1>3, <1>4, <1>5, <1>6, <1>7 DEF Sampling, Ending

LEMMA NextContract == TypeInv /\ ContractInv /\ [Next]_vars => ContractInv'
<1> SUFFICES ASSUME TypeInv, ContractInv, [Next]_vars PROVE ContractInv'
  OBVIOUS
<1>1. CASE Sampling \/ Ending \/ StorageGuard \/ Signal
  <2>1. CASE pc' = "idle"
    BY <2>1, ContractFree
  <2>2. CASE pc' # "idle"
    BY <1>1, <2>2, SteadyStep, ContractKept DEF Handling, Unaccepted, Unidentified
  <2>3. QED
    BY <2>1, <2>2
<1>2. CASE Begin
  <2>1. PICK c \in Configs, i \in Identities, l \in StopLimits : Start(c, i, l)
    BY <1>2 DEF Begin
  <2>2. pc' = "identity" /\ ~mem'.resuming
    BY <2>1 DEF Start, Goto, NoMemory
  <2>3. QED
    BY <2>2 DEF ContractInv, Unaccepted, Unidentified
<1>3. CASE Crash
  BY <1>3, ContractFree DEF Crash, Raise
<1>4. CASE Damage
  BY <1>4 DEF Damage, ContractInv
<1>5. CASE UNCHANGED vars
  BY <1>5 DEF vars, ContractInv
<1>6. QED
  BY <1>1, <1>2, <1>3, <1>4, <1>5, IdentificationContract, RecoveryContract
  DEF Next, Process

LEMMA ContractInvariant == Spec => []ContractInv
<1>1. Init => ContractInv
  BY DEF Init, ContractInv, Unaccepted, Unidentified
<1>2. QED
  BY <1>1, NextContract, TypeInvInvariant, PTL DEF Spec

\* No step of a process whose configuration or backend identity differs from the
\* one run.json records touches anything but the journal, also when the process
\* dies or the stored files are damaged at that moment.
THEOREM RunnerMismatchLeavesEvidence == Spec => MismatchLeavesEvidence
<1>1. TypeInv /\ ContractInv /\ [Next]_vars => (Mismatch => UNCHANGED disk)
  <2> SUFFICES ASSUME TypeInv, ContractInv, Next, Mismatch PROVE UNCHANGED disk
    BY DEF vars, disk
  <2>1. /\ pc \in {"identity", "refusing", "recover", "logRecovery", "checkBackend"}
        /\ pc = "checkBackend" => mem.resuming
    BY DEF TypeInv, TypeOK, Points, Mismatch, ContractInv, Unaccepted, Unidentified
  <2>2. CASE Identification
    BY <2>1, <2>2 DEF Identification, CreateIdentity, OpenIdentity, RefuseIdentity, Refuse,
       WriteRunJson, WriteConfigJson
  <2>3. CASE Recovery
    BY <2>1, <2>3 DEF Recovery, RecoverJournal, LogRecovery, CheckBackend, WriteIdentity,
       Quarantine, DeriveResume, LogStarted, LogAcquisition
  <2>4. CASE Sampling \/ Ending \/ StorageGuard \/ Signal
    BY <2>1, <2>4, SteadyStep DEF Handling
  <2>5. CASE Crash
    BY <2>1, <2>5 DEF Crash, CrashRunJson, CrashConfigJson, CrashManifest, CrashShards, disk
  <2>6. CASE Begin \/ Damage
    BY <2>1, <2>6 DEF Begin, Start, Damage
  <2>7. QED
    BY <2>2, <2>3, <2>4, <2>5, <2>6 DEF Next, Process
<1>2. QED
  BY <1>1, TypeInvInvariant, ContractInvariant, PTL DEF Spec, MismatchLeavesEvidence

----------------------------------------------------------------------------
(* The shards on disk, whatever was damaged *)

\* Where the process knows its position in the stream.
Joined == Handling \cup {"logStarted", "logAcquisition"}

\* Where everything acquired is on disk.
Drained == {"logShard", "conclude", "logEnd", "writeStatus", "manifest", "logManifest",
            "return"}

\* The payloads, valid or not, follow each other in the stream in the order of
\* their indices.
PayloadsInv ==
    /\ \A p, q \in payloads : p.idx = q.idx => p = q
    /\ InOrder(payloads)
    /\ \A p \in payloads : p.first <= p.last /\ p.last < Total

\* What the process acquires next, and the index it will write it under, come
\* after all of them.
StreamInv ==
    /\ pc \in Joined => /\ mem.acquired <= Total
                        /\ \A p \in payloads : p.last < mem.acquired - mem.buffered
    /\ pc \in Handling => \A p \in payloads : p.idx < mem.nextShard
    /\ mem.buffered <= MaxRows
    /\ pc = "loop" => mem.buffered < MaxRows
    /\ pc \in Drained => mem.buffered = 0

ShardsInv == PayloadsInv /\ StreamInv

LEMMA FewerPayloads == ASSUME PayloadsInv, payloads' \subseteq payloads PROVE PayloadsInv'
BY DEF PayloadsInv, InOrder

\* The shard about to be written is a new one after all the others.
LEMMA AddBuffered ==
    ASSUME TypeInv, ShardsInv, pc = "finalize"
    PROVE  /\ ReplacePayload(Buffered) = payloads \cup {Buffered}
           /\ Buffered \in Payloads
           /\ Buffered.idx = mem.nextShard /\ Buffered.epoch = used.starts /\ Buffered.ok
           /\ Buffered.first = mem.acquired - mem.buffered
           /\ Buffered.last + 1 = mem.acquired
           /\ Buffered.first <= Buffered.last /\ Buffered.last < Total
           /\ Buffered.last - Buffered.first < MaxRows
           /\ \A p \in payloads : p.idx < Buffered.idx /\ p.last < Buffered.first
<1>1. /\ mem \in Memory /\ used.starts \in Nat /\ payloads \in SUBSET Payloads
      /\ mem.buffered <= mem.acquired /\ mem.buffered > 0
  BY DEF TypeInv, TypeOK, BufferSound
<1>2. Buffered \in Payloads
  BY <1>1, BufferedType
<1>3. /\ mem.acquired \in Nat /\ mem.buffered \in Nat /\ mem.nextShard \in Nat
  BY <1>1 DEF Memory
<1>4. /\ mem.acquired <= Total /\ mem.buffered <= MaxRows
      /\ \A p \in payloads : p.last < mem.acquired - mem.buffered /\ p.idx < mem.nextShard
  BY DEF ShardsInv, StreamInv, Joined, Handling
<1>5. /\ Buffered.idx = mem.nextShard /\ Buffered.epoch = used.starts /\ Buffered.ok
      /\ Buffered.first = mem.acquired - mem.buffered
      /\ Buffered.last = mem.acquired - 1
  BY DEF Buffered
<1>6. \A p \in payloads : p.idx \in Nat
  BY <1>1 DEF Payloads
<1>7. ReplacePayload(Buffered) = payloads \cup {Buffered}
  BY <1>3, <1>4, <1>5, <1>6 DEF ReplacePayload
<1>8. QED
  BY <1>1, <1>2, <1>3, <1>4, <1>5, <1>7

LEMMA PayloadsAfterAdd ==
    ASSUME TypeInv, ShardsInv, pc = "finalize", payloads' = ReplacePayload(Buffered)
    PROVE  PayloadsInv'
<1> DEFINE b == Buffered
<1>1. /\ payloads' = payloads \cup {b} /\ b \in Payloads
      /\ b.first <= b.last /\ b.last < Total
      /\ \A p \in payloads : p.idx < b.idx /\ p.last < b.first
  BY AddBuffered
<1>2. \A p \in payloads : p.idx \in Nat
  BY DEF TypeInv, TypeOK, Payloads
<1>3. b.idx \in Nat
  BY <1>1 DEF Payloads
<1> HIDE DEF b
<1>4. QED
  BY <1>1, <1>2, <1>3 DEF ShardsInv, PayloadsInv, InOrder

\* Damage leaves every payload its index and its range.
LEMMA DamageEffect ==
    ASSUME TypeInv, Damage
    PROVE  /\ \E p \in payloads : \E d \in Payloads :
                /\ payloads' = (payloads \ {p}) \cup {d}
                /\ d.idx = p.idx /\ d.first = p.first /\ d.last = p.last /\ ~d.ok
           /\ UNCHANGED <<pc, mem, runJson, journal, sidecars, manifest, outcome>>
           /\ used'.damage = used.damage + 1 /\ used'.starts = used.starts
<1>1. PICK p \in payloads : payloads' = (payloads \ {p}) \cup {[p EXCEPT !.ok = FALSE]}
  BY DEF Damage
<1>2. p \in Payloads
  BY DEF TypeInv, TypeOK
<1> DEFINE d == [p EXCEPT !.ok = FALSE]
<1>3. /\ d \in Payloads /\ d.idx = p.idx /\ d.first = p.first /\ d.last = p.last
      /\ ~d.ok
  BY <1>2 DEF Payloads
<1>4. used' = [used EXCEPT !.damage = @ + 1]
      /\ used \in [starts : Nat, crashes : Nat, signals : Nat, guards : Nat, damage : Nat]
  BY DEF Damage, TypeInv, TypeOK
<1>5. used'.damage = used.damage + 1 /\ used'.starts = used.starts
  BY <1>4
<1> HIDE DEF d
<1>6. payloads' = (payloads \ {p}) \cup {d}
  BY <1>1 DEF d
<1>7. QED
  BY <1>3, <1>5, <1>6 DEF Damage

LEMMA DamageShards ==
    ASSUME TypeInv, ShardsInv, Damage
    PROVE  ShardsInv'
<1>1. PICK p \in payloads, d \in Payloads :
          /\ payloads' = (payloads \ {p}) \cup {d}
          /\ d.idx = p.idx /\ d.first = p.first /\ d.last = p.last
  BY DamageEffect
<1>2. UNCHANGED <<pc, mem>>
  BY DamageEffect
<1>3. PayloadsInv'
  BY <1>1 DEF ShardsInv, PayloadsInv, InOrder
<1>4. StreamInv'
  BY <1>1, <1>2 DEF ShardsInv, StreamInv
<1>5. QED
  BY <1>3, <1>4 DEF ShardsInv

\* The process has ended: nothing is buffered.
LEMMA EndedStream == ASSUME pc' = "idle", mem' = NoMemory PROVE StreamInv'
BY DEF StreamInv, Joined, Handling, Drained, NoMemory

\* Before the process joins the stream only the buffer is spoken of.
LEMMA EarlyStream ==
    ASSUME TypeInv, pc \in BeforeLoop, pc' \in BeforeLoop \ {"logStarted", "logAcquisition"},
           mem'.buffered = mem.buffered
    PROVE  StreamInv'
<1>1. mem'.buffered = 0 /\ 0 < MaxRows
  BY DEF TypeInv, BufferSound
<1>2. QED
  BY <1>1 DEF StreamInv, BeforeLoop, Joined, Handling, Drained

\* All payloads end before the index the next process resumes from.
LEMMA ResumeAfterAll ==
    ASSUME payloads \in SUBSET Payloads, PayloadsInv,
           NEW n \in Nat, IsResumeIndex(n, payloads)
    PROVE  n <= Total /\ \A p \in payloads : p.last < n
<1>1. CASE payloads = {} /\ n = 0
  BY <1>1
<1>2. CASE \E p \in payloads : n = p.last + 1 /\ \A q \in payloads : q.idx <= p.idx
  <2>1. PICK p \in payloads : n = p.last + 1 /\ \A q \in payloads : q.idx <= p.idx
    BY <1>2
  <2>2. \A q \in payloads : q = p \/ q.idx < p.idx
    BY <2>1 DEF PayloadsInv, Payloads
  <2>3. \A q \in payloads : q.last <= p.last
    BY <2>2 DEF PayloadsInv, InOrder, Payloads
  <2>4. QED
    BY <2>1, <2>3 DEF PayloadsInv, Payloads
<1>3. QED
  BY <1>1, <1>2 DEF IsResumeIndex

LEMMA RecoveryStream ==
    TypeInv /\ ShardsInv /\ (Identification \/ Recovery \/ Begin) => StreamInv'
<1> SUFFICES ASSUME TypeInv, ShardsInv, Identification \/ Recovery \/ Begin
             PROVE  StreamInv'
  OBVIOUS
<1>0. mem \in Memory /\ payloads \in SUBSET Payloads
  BY DEF TypeInv, TypeOK
<1> USE DEF disk, Goto
<1>1. CASE CreateIdentity \/ RefuseIdentity \/ WriteRunJson \/ WriteConfigJson
           \/ LogRecovery \/ WriteIdentity \/ Quarantine
  BY <1>1, EarlyStream DEF CreateIdentity, RefuseIdentity, WriteRunJson, WriteConfigJson,
     LogRecovery, WriteIdentity, Quarantine, BeforeLoop
<1>2. CASE OpenIdentity
  <2>1. mem'.buffered = mem.buffered
    BY <1>0, <1>2 DEF OpenIdentity, Memory
  <2>2. QED
    BY <1>2, <2>1, EarlyStream DEF OpenIdentity, BeforeLoop
<1>3. CASE pc' = "idle" /\ mem' = NoMemory
  BY <1>3, EndedStream
<1>4. CASE CheckBackend /\ pc' # "idle"
  <2>1. PICK preview \in ResumeIndices(Valid) : mem' = [mem EXCEPT !.start = preview]
    BY <1>4 DEF CheckBackend, Raise
  <2>2. mem'.buffered = mem.buffered
    BY <1>0, <2>1 DEF Memory
  <2>3. QED
    BY <1>4, <2>2, EarlyStream DEF CheckBackend, Raise, BeforeLoop
<1>5. CASE DeriveResume /\ pc' # "idle"
  <2>1. PICK n \in ResumeIndices(payloads) :
            /\ IsResumeIndex(n, payloads) /\ pc' = "logStarted"
            /\ mem' = [mem EXCEPT !.start = n, !.acquired = n]
    BY <1>5 DEF DeriveResume, Raise
  <2>2. n \in Nat /\ pc = "validate" /\ payloads' = payloads
    BY <1>0, <1>5, <2>1, IndexTypes DEF DeriveResume
  <2>3. mem.buffered = 0 /\ mem'.buffered = 0 /\ mem'.acquired = n
    BY <1>0, <2>1, <2>2 DEF Memory, TypeInv, BufferSound, BeforeLoop
  <2>4. n <= Total /\ \A p \in payloads : p.last < n
    BY <1>0, <2>1, <2>2, ResumeAfterAll DEF ShardsInv
  <2>5. QED
    BY <2>1, <2>2, <2>3, <2>4 DEF StreamInv, Joined, Handling, Drained
<1>6. CASE LogStarted
  BY <1>6 DEF LogStarted, ShardsInv, StreamInv, Joined, Handling, Drained
<1>7. CASE LogAcquisition
  <2>1. PICK n \in NextShards(payloads) :
            IsNextShard(n, payloads) /\ mem' = [mem EXCEPT !.nextShard = n]
    BY <1>7 DEF LogAcquisition
  <2>2. /\ mem'.buffered = mem.buffered /\ mem'.acquired = mem.acquired
        /\ mem'.nextShard = n /\ mem.buffered = 0
        /\ pc = "logAcquisition" /\ pc' = "loop" /\ UNCHANGED payloads
    BY <1>0, <1>7, <2>1 DEF LogAcquisition, Memory, TypeInv, BufferSound, BeforeLoop
  <2>3. \A p \in payloads : p.idx < n
    BY <1>0, <2>1 DEF IsNextShard, Payloads
  <2>4. QED
    BY <2>2, <2>3 DEF ShardsInv, StreamInv, Joined, Handling, Drained
<1>8. CASE RecoverJournal /\ pc' # "idle"
  BY <1>8, EarlyStream DEF RecoverJournal, Raise, BeforeLoop
<1>9. CASE Begin
  <2>1. PICK c \in Configs, i \in Identities, l \in StopLimits : Start(c, i, l)
    BY <1>9 DEF Begin
  <2>2. pc' = "identity" /\ mem'.buffered = 0 /\ pc = "idle"
    BY <2>1 DEF Start, NoMemory
  <2>3. QED
    BY <2>2 DEF StreamInv, Joined, Handling, Drained
<1>10. QED
  BY <1>1, <1>2, <1>3, <1>4, <1>5, <1>6, <1>7, <1>8, <1>9
  DEF Identification, Recovery, Refuse, RecoverJournal, CheckBackend, DeriveResume, Raise

LEMMA LoopStream ==
    TypeInv /\ ShardsInv /\ (Sampling \/ Ending \/ StorageGuard \/ Signal) => StreamInv'
<1> SUFFICES ASSUME TypeInv, ShardsInv, Sampling \/ Ending \/ StorageGuard \/ Signal
             PROVE  StreamInv'
  OBVIOUS
<1>0. mem \in Memory /\ payloads \in SUBSET Payloads /\ StreamInv
  BY DEF TypeInv, TypeOK, ShardsInv
<1>a. /\ mem.acquired \in Nat /\ mem.buffered \in Nat /\ mem.nextShard \in Nat
      /\ \A p \in payloads : p.idx \in Nat /\ p.last \in Nat
  BY <1>0 DEF Memory, Payloads
<1> USE DEF disk, Goto
<1>1. CASE LeaveLoop \/ StorageGuard \/ LogShard \/ LogEnd \/ LogManifest \/ WriteStatus
  BY <1>0, <1>1 DEF LeaveLoop, StorageGuard, LogShard, LogEnd, LogManifest, WriteStatus,
     StreamInv, Joined, Handling, Drained
<1>2. CASE StopAtLimit \/ LogGuard \/ Flush \/ Conclude \/ Signal
  <2>1. /\ mem'.buffered = mem.buffered /\ mem'.acquired = mem.acquired
        /\ mem'.nextShard = mem.nextShard /\ UNCHANGED payloads
    BY <1>0, <1>2 DEF StopAtLimit, LogGuard, Flush, Conclude, Signal, Memory
  <2>2. /\ pc \in Handling
        /\ \/ pc' = pc \/ pc' \in {"flush", "finalize", "logEnd"}
           \/ pc' = "conclude" /\ mem.buffered = 0
        /\ pc' = "logEnd" => pc \in {"conclude", "logEnd"}
    BY <1>2, <1>a DEF StopAtLimit, LogGuard, Flush, Conclude, Signal, Handling
  <2>3. QED
    BY <1>0, <2>1, <2>2 DEF StreamInv, Joined, Handling, Drained
<1>3. CASE AddSample
  <2>1. /\ mem'.buffered = mem.buffered + 1 /\ mem'.acquired = mem.acquired + 1
        /\ mem'.nextShard = mem.nextShard /\ UNCHANGED payloads
    BY <1>0, <1>3 DEF AddSample, Memory
  <2>2. /\ pc = "loop" /\ mem.acquired < Total
        /\ pc' = "finalize" \/ (pc' = "loop" /\ mem.buffered + 1 < MaxRows)
    BY <1>3 DEF AddSample
  <2>3. QED
    BY <1>0, <1>a, <2>1, <2>2 DEF StreamInv, Joined, Handling, Drained
<1>4. CASE Finalize
  <2>1. /\ pc = "finalize" /\ pc' = "logShard"
        /\ payloads' = ReplacePayload(Buffered)
        /\ mem'.buffered = 0 /\ mem'.acquired = mem.acquired
        /\ mem'.nextShard = mem.nextShard + 1
    BY <1>0, <1>4 DEF Finalize, Memory
  <2>2. /\ payloads' = payloads \cup {Buffered} /\ Buffered.idx = mem.nextShard
        /\ Buffered.last + 1 = mem.acquired /\ Buffered \in Payloads
    BY <2>1, AddBuffered
  <2>3. Buffered.last \in Nat
    BY <2>2 DEF Payloads
  <2>4. QED
    BY <1>0, <1>a, <2>1, <2>2, <2>3 DEF StreamInv, Joined, Handling, Drained
<1>5. CASE pc' = "idle" /\ mem' = NoMemory
  BY <1>5, EndedStream
<1>6. CASE WriteManifest /\ pc' # "idle"
  BY <1>0, <1>6 DEF WriteManifest, Raise, StreamInv, Joined, Handling, Drained
<1>7. QED
  BY <1>1, <1>2, <1>3, <1>4, <1>5, <1>6
  DEF Sampling, Ending, WriteManifest, Return, Raise

LEMMA NextShardsInv == TypeInv /\ ShardsInv /\ [Next]_vars => ShardsInv'
<1> SUFFICES ASSUME TypeInv, ShardsInv, [Next]_vars PROVE ShardsInv'
  OBVIOUS
<1>1. CASE UNCHANGED vars
  BY <1>1 DEF vars, ShardsInv, PayloadsInv, StreamInv
<1>2. CASE Damage
  BY <1>2, DamageShards
<1>3. CASE Crash
  <2>1. StreamInv'
    BY <1>3, EndedStream DEF Crash, Raise
  <2>2. payloads' \subseteq payloads
        \/ (pc = "finalize" /\ payloads' = ReplacePayload(Buffered))
    BY <1>3 DEF Crash, CrashShards
  <2>3. QED
    BY <2>1, <2>2, FewerPayloads, PayloadsAfterAdd DEF ShardsInv
<1>4. CASE Begin \/ Process \/ StorageGuard \/ Signal
  <2>1. StreamInv'
    BY <1>4, RecoveryStream, LoopStream DEF Process
  <2>2. PayloadsInv'
    <3>1. CASE Finalize
      BY <3>1, PayloadsAfterAdd DEF Finalize
    <3>2. CASE Quarantine
      BY <3>2, FewerPayloads DEF Quarantine, ShardsInv
    <3>3. CASE ~Finalize /\ ~Quarantine
      <4>1. UNCHANGED payloads
        BY <1>4, <3>3 DEF Begin, Start, Process, Identification, CreateIdentity,
           OpenIdentity, RefuseIdentity, Refuse, WriteRunJson, WriteConfigJson, Recovery,
           RecoverJournal, LogRecovery, CheckBackend, WriteIdentity, DeriveResume,
           LogStarted, LogAcquisition, Sampling, LeaveLoop, StopAtLimit, LogGuard,
           AddSample, LogShard, Flush, Ending, Conclude, LogEnd, WriteStatus,
           WriteManifest, LogManifest, Return, StorageGuard, Signal, disk
      <4>2. QED
        BY <4>1, FewerPayloads DEF ShardsInv
    <3>4. QED
      BY <3>1, <3>2, <3>3
  <2>3. QED
    BY <2>1, <2>2 DEF ShardsInv
<1>5. QED
  BY <1>1, <1>2, <1>3, <1>4 DEF Next

LEMMA ShardsInvariant == Spec => []ShardsInv
<1>1. Init => ShardsInv
  BY DEF Init, ShardsInv, PayloadsInv, StreamInv, InOrder, Joined, Handling, Drained,
     NoMemory
<1>2. QED
  BY <1>1, NextShardsInv, TypeInvInvariant, PTL DEF Spec

----------------------------------------------------------------------------
(* What a reader of the directory gets back *)

\* Quarantine, complete or cut short by a death, only moves what does not
\* validate, with sidecars no valid payload needs.
LEMMA QuarantineKeepsValid ==
    ASSUME PayloadsInv, NEW moved \in SUBSET InvalidShards(payloads, sidecars),
           NEW orphaned \in SUBSET moved, payloads' = payloads \ moved,
           sidecars' = {s \in sidecars : \A p \in moved \ orphaned : s.idx # p.idx}
    PROVE  Valid' = Valid
<1>1. ASSUME NEW p \in payloads, p.ok, SidecarOf(p) \in sidecars
      PROVE  p \in payloads' /\ SidecarOf(p) \in sidecars'
  <2>1. p \notin moved
    BY <1>1 DEF InvalidShards, ValidShard
  <2>2. \A q \in moved : q \in payloads /\ q.idx # p.idx
    BY <2>1 DEF PayloadsInv, InvalidShards
  <2>3. SidecarOf(p).idx = p.idx
    BY DEF SidecarOf
  <2>4. QED
    BY <1>1, <2>1, <2>2, <2>3
<1>2. payloads' \subseteq payloads /\ sidecars' \subseteq sidecars
  OBVIOUS
<1>3. Valid' = {p \in payloads' : p.ok /\ SidecarOf(p) \in sidecars'}
  BY DEF Valid, ValidShards, ValidShard
<1>4. Valid = {p \in payloads : p.ok /\ SidecarOf(p) \in sidecars}
  BY DEF Valid, ValidShards, ValidShard
<1>5. QED
  BY <1>1, <1>2, <1>3, <1>4, Zenon

\* A shard added to a directory takes nothing from the ones before it.
LEMMA AddKeepsValid ==
    ASSUME TypeInv, ShardsInv, pc = "finalize", payloads' = ReplacePayload(Buffered)
    PROVE  /\ sidecars' = ReplaceSidecar(Buffered) => Valid' = Valid \cup {Buffered}
           /\ sidecars' = sidecars => Valid' = Valid \/ Valid' = Valid \cup {Buffered}
<1> DEFINE b == Buffered
<1>1. /\ payloads' = payloads \cup {b} /\ b.ok
      /\ \A p \in payloads : p.idx # b.idx
  <2>1. \A p \in payloads : p.idx \in Nat
    BY DEF TypeInv, TypeOK, Payloads
  <2>2. b.idx \in Nat
    BY AddBuffered DEF Payloads
  <2>3. QED
    BY <2>1, <2>2, AddBuffered
<1>2. Valid' = {p \in payloads' : p.ok /\ SidecarOf(p) \in sidecars'}
  BY DEF Valid, ValidShards, ValidShard
<1>3. Valid = {p \in payloads : p.ok /\ SidecarOf(p) \in sidecars}
  BY DEF Valid, ValidShards, ValidShard
<1> HIDE DEF b
<1>4. ASSUME sidecars' = sidecars PROVE Valid' = Valid \/ Valid' = Valid \cup {b}
  BY <1>1, <1>2, <1>3, <1>4
<1>5. ASSUME sidecars' = ReplaceSidecar(b) PROVE Valid' = Valid \cup {b}
  <2>1. sidecars' = {s \in sidecars : s.idx # b.idx} \cup {SidecarOf(b)}
    BY <1>5 DEF ReplaceSidecar
  <2>2. SidecarOf(b).idx = b.idx /\ \A p \in payloads : SidecarOf(p).idx = p.idx
    BY DEF SidecarOf
  <2>3. \A p \in payloads : SidecarOf(p) \in sidecars' <=> SidecarOf(p) \in sidecars
    BY <1>1, <2>1, <2>2
  <2>4. SidecarOf(b) \in sidecars'
    BY <2>1
  <2>5. QED
    BY <1>1, <1>2, <1>3, <2>3, <2>4
<1>6. QED
  BY <1>4, <1>5 DEF b

\* The steps of the runner leave the shards that validate alone or add the one
\* that was buffered, and only damage does anything else.
LEMMA ValidStep ==
    ASSUME TypeInv, ShardsInv, [Next]_vars
    PROVE  \/ Valid' = Valid /\ ~Damage
           \/ pc = "finalize" /\ Valid' = Valid \cup {Buffered} /\ (Finalize \/ Crash)
           \/ Damage
<1>1. CASE Damage
  BY <1>1
<1>2. CASE Finalize
  BY <1>2, AddKeepsValid DEF Finalize
<1>3. CASE Quarantine /\ ~Damage
  <2> DEFINE moved == InvalidShards(payloads, sidecars)
             orphaned == {}
  <2>1. moved \in SUBSET InvalidShards(payloads, sidecars) /\ orphaned \in SUBSET moved
    OBVIOUS
  <2>2. /\ payloads' = payloads \ moved
        /\ sidecars' = {s \in sidecars : \A p \in moved : s.idx # p.idx}
    BY <1>3 DEF Quarantine
  <2>3. moved \ orphaned = moved
    OBVIOUS
  <2>4. sidecars' = {s \in sidecars : \A p \in moved \ orphaned : s.idx # p.idx}
    BY <2>2, <2>3
  <2> HIDE DEF moved, orphaned
  <2>5. PayloadsInv
    BY DEF ShardsInv
  <2>6. Valid' = Valid
    BY <2>1, <2>2, <2>4, <2>5, QuarantineKeepsValid
  <2>7. QED
    BY <1>3, <2>6
<1>4. CASE Crash /\ ~Damage
  <2>1. CASE UNCHANGED <<payloads, sidecars>>
    BY <1>4, <2>1 DEF Valid
  <2>2. CASE pc = "finalize" /\ payloads' = ReplacePayload(Buffered) /\ UNCHANGED sidecars
    BY <1>4, <2>2, AddKeepsValid
  <2>3. CASE \E moved \in SUBSET InvalidShards(payloads, sidecars) :
                \E orphaned \in SUBSET moved :
                    /\ payloads' = payloads \ moved
                    /\ sidecars' = {s \in sidecars :
                                        \A p \in moved \ orphaned : s.idx # p.idx}
    BY <1>4, <2>3, QuarantineKeepsValid DEF ShardsInv
  <2>4. QED
    BY <1>4, <2>1, <2>2, <2>3 DEF Crash, CrashShards
<1>5. CASE UNCHANGED <<payloads, sidecars>> /\ ~Damage
  BY <1>5 DEF Valid
<1>6. QED
  BY <1>1, <1>2, <1>3, <1>4, <1>5 DEF Next, Begin, Start, Process, Identification,
     CreateIdentity, OpenIdentity, RefuseIdentity, Refuse, WriteRunJson, WriteConfigJson,
     Recovery, RecoverJournal, LogRecovery, CheckBackend, WriteIdentity, DeriveResume,
     LogStarted, LogAcquisition, Sampling, LeaveLoop, StopAtLimit, LogGuard, AddSample,
     LogShard, Flush, Ending, Conclude, LogEnd, WriteStatus, WriteManifest, LogManifest,
     Return, StorageGuard, Signal, disk, vars

LEMMA UniqueByOrder == TypeInv /\ PayloadsInv => SamplesUnique
<1> SUFFICES ASSUME TypeInv, PayloadsInv, NEW p \in Valid, NEW q \in Valid, p # q
             PROVE  Span(p) \cap Span(q) = {}
  BY DEF SamplesUnique
<1>1. p \in payloads /\ q \in payloads /\ p \in Payloads /\ q \in Payloads
  BY DEF Valid, ValidShards, TypeInv, TypeOK
<1>2. p.idx < q.idx \/ q.idx < p.idx
  BY <1>1 DEF PayloadsInv, Payloads
<1>3. p.last < q.first \/ q.last < p.first
  BY <1>1, <1>2 DEF PayloadsInv, InOrder
<1>4. QED
  BY <1>1, <1>3 DEF Span, Payloads

\* No sample is on disk twice, and only damage takes away a shard that validates,
\* whatever the runner is interrupted in.
THEOREM RunnerSamplesKeptOnce == Spec => SamplesKeptOnce
<1>1. TypeInv /\ ShardsInv /\ TypeInv' /\ ShardsInv' /\ [Next]_vars =>
        /\ SamplesUnique'
        /\ used'.damage = used.damage => Valid \subseteq ValidShards(payloads', sidecars')
  <2> SUFFICES ASSUME TypeInv, ShardsInv, TypeInv', ShardsInv', [Next]_vars
               PROVE  /\ SamplesUnique'
                      /\ used'.damage = used.damage
                            => Valid \subseteq ValidShards(payloads', sidecars')
    OBVIOUS
  <2>1. SamplesUnique'
    BY UniqueByOrder, PTL DEF ShardsInv
  <2>2. CASE Damage
    <3>1. used.damage \in Nat /\ used'.damage = used.damage + 1
      BY <2>2, DamageEffect DEF TypeInv, TypeOK
    <3>2. QED
      BY <2>1, <3>1
  <2>3. CASE ~Damage
    <3>1. Valid \subseteq Valid'
      BY <2>3, ValidStep
    <3>2. QED
      BY <2>1, <3>1 DEF Valid
  <2>4. QED
    BY <2>2, <2>3
<1>2. QED
  BY <1>1, TypeInvInvariant, ShardsInvariant, PTL DEF Spec, SamplesKeptOnce
----------------------------------------------------------------------------
(* The samples on disk are a prefix of the stream *)

\* A reader of the shards gets the first n samples.
Covers(shards, n) == \A k \in Nat : k \in SamplesIn(shards) <=> k < n

\* Without damage the shards that validate are such a prefix, and a process in
\* the stream continues it exactly where it ends.
PrefixInv ==
    used.damage = 0 =>
        /\ \E n \in 0..Total : Covers(Valid, n)
        /\ pc \in Joined => Covers(Valid, mem.acquired - mem.buffered)

\* A shard that begins where the prefix ends extends it to its own end.
LEMMA CoverAdd ==
    ASSUME NEW shards, NEW b \in Payloads, Covers(shards, b.first), b.first <= b.last
    PROVE  Covers(shards \cup {b}, b.last + 1)
<1>1. b.first \in Nat /\ b.last \in Nat
  BY DEF Payloads
<1>2. SamplesIn(shards \cup {b}) = SamplesIn(shards) \cup Span(b)
  BY DEF SamplesIn
<1>3. \A k \in Nat : k \in Span(b) <=> b.first <= k /\ k < b.last + 1
  BY <1>1 DEF Span
<1>4. ASSUME NEW k \in Nat PROVE k \in SamplesIn(shards \cup {b}) <=> k < b.last + 1
  <2>1. k \in SamplesIn(shards) <=> k < b.first
    BY DEF Covers
  <2>2. k \in SamplesIn(shards \cup {b}) <=> k \in SamplesIn(shards) \/ k \in Span(b)
    BY <1>2
  <2>3. k \in Span(b) <=> b.first <= k /\ k < b.last + 1
    BY <1>3
  <2>4. QED
    BY <1>1, <2>1, <2>2, <2>3
<1>5. QED
  BY <1>4 DEF Covers

\* The resume index of a directory whose shards form a prefix is its length.
LEMMA ResumeAtPrefix ==
    ASSUME payloads \in SUBSET Payloads, PayloadsInv, NEW m \in Nat, Covers(payloads, m),
           NEW n \in Nat, IsResumeIndex(n, payloads)
    PROVE  Covers(payloads, n)
<1>1. CASE payloads = {} /\ n = 0
  BY <1>1 DEF Covers, SamplesIn
<1>2. CASE \E p \in payloads : n = p.last + 1
  <2>1. PICK p \in payloads : n = p.last + 1
    BY <1>2
  <2>2. p.first \in Nat /\ p.last \in Nat /\ p.first <= p.last
    BY DEF Payloads, PayloadsInv
  <2>3. p.last \in Span(p)
    BY <2>2 DEF Span
  <2>4. p.last \in SamplesIn(payloads)
    BY <2>3 DEF SamplesIn
  <2>5. n <= m
    BY <2>1, <2>2, <2>4 DEF Covers
  <2>6. ASSUME NEW k \in Nat, k \in SamplesIn(payloads) PROVE k < n
    <3>1. PICK q \in payloads : k \in Span(q)
      BY <2>6 DEF SamplesIn
    <3>2. q.last < n /\ q.first \in Nat /\ q.last \in Nat
      BY ResumeAfterAll DEF Payloads
    <3>3. QED
      BY <3>1, <3>2 DEF Span
  <2>7. QED
    BY <2>5, <2>6 DEF Covers
<1>3. QED
  BY <1>1, <1>2 DEF IsResumeIndex

\* Only damage is counted as damage.
LEMMA DamageCounted ==
    ASSUME TypeInv, [Next]_vars
    PROVE  /\ used'.damage = 0 => used.damage = 0
           /\ ~Damage => used'.damage = used.damage
<1>0. used \in [starts : Nat, crashes : Nat, signals : Nat, guards : Nat, damage : Nat]
  BY DEF TypeInv, TypeOK
<1>1. CASE Damage
  BY <1>0, <1>1, DamageEffect
<1>2. CASE ~Damage
  <2>1. used'.damage = used.damage
    <3>1. CASE Begin
      BY <1>0, <3>1 DEF Begin, Start
    <3>2. CASE StorageGuard \/ Signal \/ Crash
      BY <1>0, <3>2 DEF StorageGuard, Signal, Crash
    <3>3. CASE UNCHANGED used
      BY <3>3
    <3>4. QED
      BY <1>2, <3>1, <3>2, <3>3 DEF Next, Process, Identification, CreateIdentity,
         OpenIdentity, RefuseIdentity, Refuse, WriteRunJson, WriteConfigJson, Recovery,
         RecoverJournal, LogRecovery, CheckBackend, WriteIdentity, Quarantine,
         DeriveResume, LogStarted, LogAcquisition, Sampling, LeaveLoop, StopAtLimit,
         LogGuard, AddSample, Finalize, LogShard, Flush, Ending, Conclude, LogEnd,
         WriteStatus, WriteManifest, LogManifest, Return, vars
  <2>2. QED
    BY <1>2, <2>1
<1>3. QED
  BY <1>1, <1>2

\* How a process comes to its place in the stream, and moves on in it.
LEMMA PlaceStep ==
    ASSUME TypeInv, [Next]_vars, ~Damage, pc' \in Joined
    PROVE  \/ /\ pc \in Joined /\ ~Finalize
              /\ mem'.acquired - mem'.buffered = mem.acquired - mem.buffered
           \/ Finalize /\ mem'.acquired = mem.acquired /\ mem'.buffered = 0
           \/ /\ DeriveResume /\ NothingInvalid /\ mem'.buffered = 0
              /\ mem'.acquired \in Nat /\ IsResumeIndex(mem'.acquired, payloads)
<1>0. /\ mem \in Memory /\ payloads \in SUBSET Payloads
      /\ mem.acquired \in Nat /\ mem.buffered \in Nat
  BY DEF TypeInv, TypeOK, Memory
<1> USE DEF Goto, Joined, Handling
<1>1. CASE Finalize
  BY <1>0, <1>1 DEF Finalize, Memory
<1>2. CASE DeriveResume
  <2>1. PICK n \in ResumeIndices(payloads) :
            /\ IsResumeIndex(n, payloads)
            /\ mem' = [mem EXCEPT !.start = n, !.acquired = n]
    BY <1>2 DEF DeriveResume, Raise
  <2>2. n \in Nat /\ mem'.acquired = n /\ mem'.buffered = mem.buffered
    BY <1>0, <2>1, IndexTypes DEF Memory
  <2>3. mem.buffered = 0 /\ NothingInvalid
    BY <1>2 DEF DeriveResume, Raise, TypeInv, BufferSound, BeforeLoop
  <2>4. QED
    BY <1>2, <2>1, <2>2, <2>3
<1>3. CASE (Sampling \/ Ending \/ StorageGuard \/ Signal) /\ ~Finalize
  <2>1. pc \in Joined
    BY <1>3, SteadyStep
  <2>2. CASE UNCHANGED mem
    BY <1>3, <2>1, <2>2
  <2>3. CASE AddSample
    <3>1. mem'.acquired = mem.acquired + 1 /\ mem'.buffered = mem.buffered + 1
      BY <1>0, <2>3 DEF AddSample, Memory
    <3>2. QED
      BY <1>0, <1>3, <2>1, <3>1
  <2>4. CASE StopAtLimit \/ LogGuard \/ Flush \/ Conclude \/ Signal
    <3>1. mem'.acquired = mem.acquired /\ mem'.buffered = mem.buffered
      BY <1>0, <2>4 DEF StopAtLimit, LogGuard, Flush, Conclude, Signal, Memory
    <3>2. QED
      BY <1>3, <2>1, <3>1
  <2>5. QED
    BY <1>3, <2>2, <2>3, <2>4 DEF Sampling, Ending, LeaveLoop, LogShard, LogEnd,
       WriteStatus, WriteManifest, LogManifest, Return, Raise, StorageGuard
<1>4. CASE LogStarted \/ UNCHANGED vars
  BY <1>4 DEF LogStarted, Finalize, vars
<1>5. CASE LogAcquisition
  <2>1. PICK n \in NextShards(payloads) : mem' = [mem EXCEPT !.nextShard = n]
    BY <1>5 DEF LogAcquisition
  <2>2. mem'.acquired = mem.acquired /\ mem'.buffered = mem.buffered
    BY <1>0, <2>1 DEF Memory
  <2>3. QED
    BY <1>5, <2>2 DEF LogAcquisition, Finalize
<1>6. QED
  BY <1>1, <1>2, <1>3, <1>4, <1>5 DEF Next, Begin, Start, Process, Identification,
     CreateIdentity, OpenIdentity, RefuseIdentity, Refuse, WriteRunJson, WriteConfigJson,
     Recovery, RecoverJournal, LogRecovery, CheckBackend, WriteIdentity, Quarantine,
     Crash, Raise

LEMMA NextPrefix == TypeInv /\ ShardsInv /\ PrefixInv /\ [Next]_vars => PrefixInv'
<1> SUFFICES ASSUME TypeInv, ShardsInv, PrefixInv, [Next]_vars, used'.damage = 0
             PROVE  /\ \E n \in 0..Total : Covers(Valid', n)
                    /\ pc' \in Joined => Covers(Valid', mem'.acquired - mem'.buffered)
  BY DEF PrefixInv, Covers
<1>0. /\ used.damage = 0 /\ ~Damage
      /\ \E n \in 0..Total : Covers(Valid, n)
      /\ pc \in Joined => Covers(Valid, mem.acquired - mem.buffered)
      /\ payloads \in SUBSET Payloads /\ mem.acquired \in Nat
  <2>1. used.damage \in Nat
    BY DEF TypeInv, TypeOK
  <2>2. used.damage = 0 /\ ~Damage
    BY <2>1, DamageCounted, DamageEffect
  <2>3. QED
    BY <2>2 DEF PrefixInv, TypeInv, TypeOK, Memory
<1>1. CASE Valid' = Valid /\ ~Finalize
  <2>1. ASSUME pc' \in Joined PROVE Covers(Valid, mem'.acquired - mem'.buffered)
    <3>1. CASE DeriveResume /\ NothingInvalid /\ mem'.buffered = 0
               /\ mem'.acquired \in Nat /\ IsResumeIndex(mem'.acquired, payloads)
      <4>1. Valid = payloads
        BY <3>1 DEF NothingInvalid, InvalidShards, Valid, ValidShards
      <4>2. Covers(payloads, mem'.acquired)
        BY <1>0, <3>1, <4>1, ResumeAtPrefix DEF ShardsInv
      <4>3. mem'.acquired - mem'.buffered = mem'.acquired
        BY <3>1
      <4>4. QED
        BY <4>1, <4>2, <4>3
    <3>2. QED
      BY <1>0, <1>1, <2>1, <3>1, PlaceStep
  <2>2. QED
    BY <1>0, <1>1, <2>1
<1>2. CASE pc = "finalize" /\ Valid' = Valid \cup {Buffered} /\ (Finalize \/ Crash)
  <2>1. /\ Buffered \in Payloads /\ Buffered.first = mem.acquired - mem.buffered
        /\ Buffered.last + 1 = mem.acquired /\ Buffered.first <= Buffered.last
        /\ Buffered.last < Total
    BY <1>2, AddBuffered
  <2>2. Covers(Valid, Buffered.first)
    BY <1>0, <1>2, <2>1 DEF Joined, Handling
  <2>3. Covers(Valid \cup {Buffered}, mem.acquired)
    BY <2>1, <2>2, CoverAdd
  <2>4. mem.acquired \in 0..Total
    BY <1>0, <1>2 DEF ShardsInv, StreamInv, Joined, Handling
  <2>5. CASE Crash
    BY <1>2, <2>3, <2>4, <2>5 DEF Crash, Raise, Joined, Handling
  <2>6. CASE Finalize
    <3>1. mem'.acquired = mem.acquired /\ mem'.buffered = 0
      BY <2>6 DEF Finalize, TypeInv, TypeOK, Memory
    <3>2. mem'.acquired - mem'.buffered = mem.acquired
      BY <1>0, <3>1
    <3>3. QED
      BY <1>2, <2>3, <2>4, <3>2
  <2>7. QED
    BY <1>2, <2>5, <2>6
<1>3. CASE Finalize
  BY <1>2, <1>3, AddKeepsValid DEF Finalize
<1>4. QED
  BY <1>0, <1>1, <1>2, <1>3, ValidStep

LEMMA PrefixInvariant == Spec => []PrefixInv
<1>1. Init => PrefixInv
  <2> SUFFICES ASSUME Init PROVE PrefixInv
    OBVIOUS
  <2>1. Valid = {} /\ pc \notin Joined
    BY DEF Init, Valid, ValidShards, Joined, Handling
  <2>2. Covers(Valid, 0) /\ 0 \in 0..Total
    BY <2>1 DEF Covers, SamplesIn
  <2>3. QED
    BY <2>1, <2>2 DEF PrefixInv
<1>2. QED
  BY <1>1, NextPrefix, TypeInvInvariant, ShardsInvariant, PTL DEF Spec

\* The shards that validate hold a prefix of the stream.
LEMMA PrefixSkipsNone == TypeInv /\ PrefixInv => NoSampleSkipped
<1> SUFFICES ASSUME TypeInv, PrefixInv, used.damage = 0, NEW k \in SamplesIn(Valid), NEW j \in 0..k
             PROVE  j \in SamplesIn(Valid)
  BY DEF NoSampleSkipped
<1>1. PICK n \in 0..Total : Covers(Valid, n)
  BY DEF PrefixInv
<1>2. k \in Nat /\ j \in Nat /\ j <= k
  <2>1. \A p \in Valid : Span(p) \subseteq Nat
    BY DEF TypeInv, TypeOK, Valid, ValidShards, Payloads, Span
  <2>2. k \in Nat
    BY <2>1 DEF SamplesIn
  <2>3. QED
    BY <2>2
<1>3. QED
  BY <1>1, <1>2 DEF Covers
----------------------------------------------------------------------------
(* How a run ends *)

\* The reasons for which the loop is left are never forgotten, so that a process
\* that writes the manifest has acquired the whole stream, and one that reports
\* completion has written it, although the stop request is read three times.
EndInv ==
    /\ pc \in BeforeLoop => ~mem.draining
    /\ pc \in {"flush", "conclude"} \/ mem.draining
           => mem.stop \/ mem.limited \/ mem.acquired >= Total
    /\ mem.interrupted => mem.stop \/ mem.limited
    /\ pc \in {"logEnd", "writeStatus"} => mem.interrupted \/ mem.acquired >= Total
    /\ pc \in {"manifest", "logManifest"}
           => ~mem.interrupted /\ mem.acquired >= Total /\ runJson.status = "completed"
    /\ pc = "logManifest" => manifest.state = "ok"
    /\ pc = "return" => mem.interrupted \/ (runJson.status = "completed" /\ manifest.state = "ok")
    /\ ReportedCompletion

\* A process that ends without reporting completion.
LEMMA EndsUnreported ==
    ASSUME pc' = "idle", mem' = NoMemory, outcome' # "completed"
    PROVE  EndInv'
BY DEF EndInv, NoMemory, BeforeLoop, ReportedCompletion

\* A step before the loop, which forgets what was acquired by no one.
LEMMA EndBefore ==
    ASSUME EndInv, pc \in BeforeLoop, pc' \in (BeforeLoop \ {"idle"}) \cup {"loop"},
           mem'.draining = mem.draining, mem'.interrupted = mem.interrupted,
           mem'.stop = mem.stop, mem'.limited = mem.limited
    PROVE  EndInv'
BY DEF EndInv, BeforeLoop, ReportedCompletion

LEMMA BeforeEnd ==
    TypeInv /\ EndInv /\ (Identification \/ Recovery \/ Begin) => EndInv'
<1> SUFFICES ASSUME TypeInv, EndInv, Identification \/ Recovery \/ Begin PROVE EndInv'
  OBVIOUS
<1>0. mem \in Memory
  BY DEF TypeInv, TypeOK
<1> USE DEF disk, Goto, BeforeLoop
<1>1. CASE CreateIdentity \/ RefuseIdentity \/ WriteRunJson \/ WriteConfigJson
           \/ LogRecovery \/ WriteIdentity \/ Quarantine \/ LogStarted
           \/ (RecoverJournal /\ pc' # "idle")
  <2>1. pc \in BeforeLoop /\ pc' \in BeforeLoop \ {"idle"} /\ UNCHANGED mem
    BY <1>1 DEF CreateIdentity, RefuseIdentity, WriteRunJson, WriteConfigJson,
       LogRecovery, WriteIdentity, Quarantine, LogStarted, RecoverJournal, Raise
  <2>2. QED
    BY <2>1, EndBefore
<1>2. CASE OpenIdentity
  <2>1. /\ mem'.draining = mem.draining /\ mem'.interrupted = mem.interrupted
        /\ mem'.stop = mem.stop /\ mem'.limited = mem.limited
    BY <1>0, <1>2 DEF OpenIdentity, Memory
  <2>2. QED
    BY <1>2, <2>1, EndBefore DEF OpenIdentity
<1>3. CASE pc' = "idle"
  BY <1>3, EndsUnreported DEF Identification, CreateIdentity, RefuseIdentity, OpenIdentity,
     Refuse, WriteRunJson, WriteConfigJson, Recovery, RecoverJournal, LogRecovery,
     CheckBackend, WriteIdentity, Quarantine, DeriveResume, LogStarted, LogAcquisition,
     Begin, Start, Raise
<1>4. CASE CheckBackend /\ pc' # "idle"
  <2>1. PICK preview \in ResumeIndices(Valid) : mem' = [mem EXCEPT !.start = preview]
    BY <1>4 DEF CheckBackend, Raise
  <2>2. /\ mem'.draining = mem.draining /\ mem'.interrupted = mem.interrupted
        /\ mem'.stop = mem.stop /\ mem'.limited = mem.limited
    BY <1>0, <2>1 DEF Memory
  <2>3. QED
    BY <1>4, <2>2, EndBefore DEF CheckBackend, Raise
<1>5. CASE DeriveResume /\ pc' # "idle"
  <2>1. PICK n \in ResumeIndices(payloads) :
            mem' = [mem EXCEPT !.start = n, !.acquired = n]
    BY <1>5 DEF DeriveResume, Raise
  <2>2. /\ mem'.draining = mem.draining /\ mem'.interrupted = mem.interrupted
        /\ mem'.stop = mem.stop /\ mem'.limited = mem.limited
    BY <1>0, <2>1 DEF Memory
  <2>3. QED
    BY <1>5, <2>2, EndBefore DEF DeriveResume, Raise
<1>6. CASE LogAcquisition
  <2>1. PICK n \in NextShards(payloads) : mem' = [mem EXCEPT !.nextShard = n]
    BY <1>6 DEF LogAcquisition
  <2>2. /\ mem'.draining = mem.draining /\ mem'.interrupted = mem.interrupted
        /\ mem'.stop = mem.stop /\ mem'.limited = mem.limited
    BY <1>0, <2>1 DEF Memory
  <2>3. QED
    BY <1>6, <2>2, EndBefore DEF LogAcquisition
<1>7. CASE Begin
  <2>1. PICK c \in Configs, i \in Identities, l \in StopLimits : Start(c, i, l)
    BY <1>7 DEF Begin
  <2>2. pc' = "identity" /\ ~mem'.draining /\ ~mem'.interrupted
    BY <2>1 DEF Start, NoMemory
  <2>3. QED
    BY <2>2 DEF EndInv, ReportedCompletion
<1>8. QED
  BY <1>1, <1>2, <1>3, <1>4, <1>5, <1>6, <1>7
  DEF Identification, Refuse, Recovery, Raise

LEMMA LoopEnd ==
    TypeInv /\ EndInv /\ (Sampling \/ StorageGuard \/ Signal) => EndInv'
<1> SUFFICES ASSUME TypeInv, EndInv, Sampling \/ StorageGuard \/ Signal PROVE EndInv'
  OBVIOUS
<1>0. mem \in Memory /\ mem.acquired \in Nat
  BY DEF TypeInv, TypeOK, Memory
<1> USE DEF disk, Goto
<1>1. CASE LeaveLoop \/ StorageGuard \/ LogShard
  BY <1>0, <1>1 DEF LeaveLoop, StorageGuard, LogShard, EndInv, BeforeLoop,
     ReportedCompletion
<1>2. CASE StopAtLimit \/ LogGuard
  <2>1. /\ mem'.limited /\ mem'.stop = mem.stop /\ mem'.draining = mem.draining
        /\ mem'.interrupted = mem.interrupted /\ pc' = "flush"
    BY <1>0, <1>2 DEF StopAtLimit, LogGuard, Memory
  <2>2. QED
    BY <2>1 DEF EndInv, BeforeLoop, ReportedCompletion
<1>3. CASE AddSample
  <2>1. /\ mem'.limited = mem.limited /\ mem'.stop = mem.stop
        /\ mem'.draining = mem.draining /\ mem'.interrupted = mem.interrupted
        /\ mem'.acquired = mem.acquired + 1
    BY <1>0, <1>3 DEF AddSample, Memory
  <2>2. pc = "loop" /\ pc' \in {"loop", "finalize"}
    BY <1>3 DEF AddSample
  <2>3. QED
    BY <1>0, <2>1, <2>2 DEF EndInv, BeforeLoop, ReportedCompletion
<1>4. CASE Finalize
  <2>1. /\ mem'.limited = mem.limited /\ mem'.stop = mem.stop
        /\ mem'.draining = mem.draining /\ mem'.interrupted = mem.interrupted
        /\ mem'.acquired = mem.acquired
    BY <1>0, <1>4 DEF Finalize, Memory
  <2>2. pc' = "logShard"
    BY <1>4 DEF Finalize
  <2>3. QED
    BY <2>1, <2>2 DEF EndInv, BeforeLoop, ReportedCompletion
<1>5. CASE Flush
  <2>1. /\ mem'.limited = mem.limited /\ mem'.stop = mem.stop
        /\ mem'.interrupted = mem.interrupted /\ mem'.acquired = mem.acquired
    BY <1>0, <1>5 DEF Flush, Memory
  <2>2. pc = "flush" /\ pc' \in {"finalize", "conclude"}
    BY <1>5 DEF Flush
  <2>3. QED
    BY <2>1, <2>2 DEF EndInv, BeforeLoop, ReportedCompletion
<1>6. CASE Signal
  <2>1. /\ mem'.limited = mem.limited /\ mem'.stop /\ mem'.draining = mem.draining
        /\ mem'.interrupted = mem.interrupted /\ mem'.acquired = mem.acquired
    BY <1>0, <1>6 DEF Signal, Memory
  <2>2. pc \in Handling /\ UNCHANGED <<pc, runJson, manifest>>
    BY <1>6 DEF Signal
  <2>3. QED
    BY <2>1, <2>2 DEF EndInv, BeforeLoop, Handling, ReportedCompletion
<1>7. QED
  BY <1>1, <1>2, <1>3, <1>4, <1>5, <1>6 DEF Sampling

LEMMA EndingEnd == TypeInv /\ ContractInv /\ EndInv /\ Ending => EndInv'
<1> SUFFICES ASSUME TypeInv, ContractInv, EndInv, Ending PROVE EndInv'
  OBVIOUS
<1>0. mem \in Memory /\ mem.acquired \in Nat /\ runJson \in RunJson
  BY DEF TypeInv, TypeOK, Memory
<1> USE DEF disk, Goto
<1>1. CASE Conclude
  <2>1. /\ mem'.limited = mem.limited /\ mem'.stop = mem.stop
        /\ mem'.draining = mem.draining /\ mem'.acquired = mem.acquired
        /\ mem'.interrupted = (mem.stop \/ mem.limited)
    BY <1>0, <1>1 DEF Conclude, Memory
  <2>2. pc = "conclude" /\ pc' = "logEnd"
    BY <1>1 DEF Conclude
  <2>3. QED
    BY <2>1, <2>2 DEF EndInv, BeforeLoop, ReportedCompletion
<1>2. CASE LogEnd
  BY <1>2 DEF LogEnd, EndInv, BeforeLoop, ReportedCompletion
<1>3. CASE WriteStatus
  <2>1. /\ runJson'.status = (IF mem.interrupted THEN "interrupted" ELSE "completed")
        /\ pc = "writeStatus" /\ UNCHANGED <<mem, manifest>>
        /\ pc' = (IF mem.interrupted THEN "return" ELSE "manifest")
    BY <1>0, <1>3 DEF WriteStatus, RunJson
  <2>2. QED
    BY <2>1 DEF EndInv, BeforeLoop, ReportedCompletion
<1>4. CASE WriteManifest
  <2>1. CASE pc' = "idle"
    BY <1>4, <2>1, EndsUnreported DEF WriteManifest, Raise
  <2>2. CASE pc' # "idle"
    <3>1. manifest'.state = "ok" /\ pc = "manifest" /\ pc' = "logManifest"
          /\ UNCHANGED <<mem, runJson>>
      BY <1>4, <2>2 DEF WriteManifest, Raise
    <3>2. QED
      BY <3>1 DEF EndInv, BeforeLoop, ReportedCompletion
  <2>3. QED
    BY <2>1, <2>2
<1>5. CASE LogManifest
  BY <1>5 DEF LogManifest, EndInv, BeforeLoop, ReportedCompletion
<1>6. CASE Return
  <2>1. CASE mem.stop \/ mem.limited
    BY <1>6, <2>1, EndsUnreported DEF Return, Raise
  <2>2. CASE ~(mem.stop \/ mem.limited)
    <3>1. pc = "return" /\ pc' = "idle" /\ mem' = NoMemory /\ UNCHANGED <<runJson, manifest>>
      BY <1>6 DEF Return, Raise
    <3>2. /\ runJson.state = "ok" /\ runJson.status = "completed" /\ manifest.state = "ok"
      BY <2>2, <3>1 DEF EndInv, ContractInv, Unidentified
    <3>3. QED
      BY <3>1, <3>2 DEF EndInv, NoMemory, BeforeLoop, ReportedCompletion
  <2>3. QED
    BY <2>1, <2>2
<1>7. QED
  BY <1>1, <1>2, <1>3, <1>4, <1>5, <1>6 DEF Ending

LEMMA EndInvariant == Spec => []EndInv
<1>1. Init => EndInv
  BY DEF Init, EndInv, NoMemory, ReportedCompletion
<1>2. TypeInv /\ ContractInv /\ EndInv /\ [Next]_vars => EndInv'
  <2> SUFFICES ASSUME TypeInv, ContractInv, EndInv, [Next]_vars PROVE EndInv'
    OBVIOUS
  <2>1. CASE Crash
    BY <2>1, EndsUnreported DEF Crash, Raise
  <2>2. CASE Damage
    BY <2>2, DamageEffect DEF EndInv, ReportedCompletion
  <2>3. CASE UNCHANGED vars
    BY <2>3 DEF vars, EndInv, ReportedCompletion
  <2>4. QED
    BY <2>1, <2>2, <2>3, BeforeEnd, LoopEnd, EndingEnd DEF Next, Process
<1>3. QED
  BY <1>1, <1>2, TypeInvInvariant, ContractInvariant, PTL DEF Spec

----------------------------------------------------------------------------
(* The manifest *)

\* The samples of shards that cover the first n, as a set.
LEMMA PrefixSet ==
    ASSUME NEW shards \in SUBSET Payloads, NEW n \in Nat, Covers(shards, n)
    PROVE  SamplesIn(shards) = 0..(n - 1)
<1>1. \A p \in shards : Span(p) \subseteq Nat
  BY DEF Payloads, Span
<1>2. SamplesIn(shards) \subseteq Nat
  BY <1>1 DEF SamplesIn
<1>3. \A k \in Nat : k \in 0..(n - 1) <=> k < n
  OBVIOUS
<1>4. \A k \in Nat : k \in SamplesIn(shards) <=> k \in 0..(n - 1)
  BY <1>3 DEF Covers
<1>5. 0..(n - 1) \subseteq Nat
  OBVIOUS
<1>6. QED
  BY <1>2, <1>4, <1>5, Zenon

\* A manifest is written whole by WriteManifest or not at all.
LEMMA ManifestStep ==
    ASSUME [Next]_vars, manifest'.state = "ok"
    PROVE  \/ manifest' = manifest
           \/ /\ pc = "manifest" /\ NothingInvalid /\ UNCHANGED payloads
              /\ manifest'.samples = SamplesIn(payloads)
<1>1. CASE WriteManifest
  BY <1>1 DEF WriteManifest
<1>2. CASE Crash
  BY <1>2 DEF Crash, CrashManifest
<1>3. CASE ~WriteManifest /\ ~Crash
  BY <1>3 DEF Next, Begin, Start, Process, Identification, CreateIdentity, OpenIdentity,
     RefuseIdentity, Refuse, WriteRunJson, WriteConfigJson, Recovery, RecoverJournal,
     LogRecovery, CheckBackend, WriteIdentity, Quarantine, DeriveResume, LogStarted,
     LogAcquisition, Sampling, LeaveLoop, StopAtLimit, LogGuard, AddSample, Finalize,
     LogShard, Flush, Ending, Conclude, LogEnd, WriteStatus, LogManifest, Return,
     StorageGuard, Signal, Damage, disk, vars
<1>4. QED
  BY <1>1, <1>2, <1>3

\* No shard is added under a manifest, which would have to be of samples beyond
\* the stream.
LEMMA NextManifest ==
    /\ TypeInv /\ ShardsInv /\ PrefixInv /\ EndInv /\ ManifestCoversStream
    /\ TypeInv' /\ [Next]_vars
    => ManifestCoversStream'
<1> SUFFICES ASSUME TypeInv, ShardsInv, PrefixInv, EndInv, ManifestCoversStream,
                    TypeInv', [Next]_vars, used'.damage = 0, manifest'.state = "ok"
             PROVE  /\ manifest'.samples = 0..(Total - 1)
                    /\ SamplesIn(Valid') = manifest'.samples
  BY DEF ManifestCoversStream
<1>1. used.damage = 0 /\ ~Damage
  <2>1. used.damage \in Nat
    BY DEF TypeInv, TypeOK
  <2>2. QED
    BY <2>1, DamageCounted, DamageEffect
<1>2. CASE manifest' = manifest
  <2>1. manifest.samples = 0..(Total - 1) /\ SamplesIn(Valid) = 0..(Total - 1)
    BY <1>1, <1>2 DEF ManifestCoversStream
  <2>2. ~(pc = "finalize")
    <3> SUFFICES ASSUME pc = "finalize" PROVE FALSE
      OBVIOUS
    <3>1. /\ Buffered \in Payloads /\ Buffered.first = mem.acquired - mem.buffered
          /\ Buffered.first <= Buffered.last /\ Buffered.last < Total
      BY AddBuffered
    <3>2. Covers(Valid, Buffered.first)
      BY <1>1, <3>1 DEF PrefixInv, Joined, Handling
    <3>3. Buffered.first \in Nat /\ Buffered.last \in Nat
      BY <3>1 DEF Payloads
    <3>4. Buffered.first \in 0..(Total - 1)
      BY <3>1, <3>3
    <3>5. Buffered.first < Buffered.first
      BY <2>1, <3>2, <3>3, <3>4 DEF Covers
    <3>6. QED
      BY <3>3, <3>5
  <2>3. Valid' = Valid
    BY <1>1, <2>2, ValidStep
  <2>4. QED
    BY <1>2, <2>1, <2>3
<1>3. CASE pc = "manifest" /\ NothingInvalid /\ manifest'.samples = SamplesIn(payloads)
  <2>1. Valid = payloads
    BY <1>3 DEF NothingInvalid, InvalidShards, Valid, ValidShards
  <2>2. mem.acquired = Total /\ mem.buffered = 0
    <3>1. mem.acquired \in Nat
      BY DEF TypeInv, TypeOK, Memory
    <3>2. mem.acquired >= Total /\ mem.acquired <= Total /\ mem.buffered = 0
      BY <1>3 DEF EndInv, ShardsInv, StreamInv, Joined, Handling, Drained
    <3>3. QED
      BY <3>1, <3>2
  <2>3. Covers(Valid, Total)
    <3>1. Covers(Valid, mem.acquired - mem.buffered)
      BY <1>1, <1>3 DEF PrefixInv, Joined, Handling
    <3>2. mem.acquired - mem.buffered = Total
      BY <2>2
    <3>3. QED
      BY <3>1, <3>2
  <2>4. Valid' = Valid
    BY <1>1, <1>3, ValidStep
  <2>5. Valid \in SUBSET Payloads
    BY DEF TypeInv, TypeOK, Valid, ValidShards
  <2>6. QED
    BY <1>3, <2>1, <2>3, <2>4, <2>5, PrefixSet
<1>4. QED
  BY <1>2, <1>3, ManifestStep

LEMMA ManifestInvariant == Spec => []ManifestCoversStream
<1>1. Init => ManifestCoversStream
  BY DEF Init, ManifestCoversStream, NoManifest
<1>2. QED
  BY <1>1, NextManifest, TypeInvInvariant, ShardsInvariant, PrefixInvariant, EndInvariant,
     PTL DEF Spec
----------------------------------------------------------------------------
(* The shards the journal tells of *)

\* A process about to log a shard has it on disk, and has not logged it yet.
LoggingInv ==
    (used.damage = 0 /\ pc = "logShard") =>
        /\ \E p \in Valid : p.last + 1 = mem.acquired
        /\ \A i \in ShardEvents : journal.lines[i].next # mem.acquired

EventsInv == JournalledShardsExist /\ LoggingInv

\* The journal tells of the same shards as before.
EventsKept ==
    /\ ShardEvents' = ShardEvents
    /\ \A i \in ShardEvents : journal'.lines[i] = journal.lines[i]

LEMMA SameLines == ASSUME journal'.lines = journal.lines PROVE EventsKept
BY DEF EventsKept, ShardEvents

\* What an append adds to the lines.
LEMMA LogLines ==
    ASSUME TypeInv, NEW e \in Events, NEW n \in Nat, Log(e, n)
    PROVE  LET k == Len(journal.lines)
           IN  /\ k \in Nat /\ Len(journal'.lines) = k + 1
               /\ \A i \in 1..k : journal'.lines[i] = journal.lines[i]
               /\ journal'.lines[k + 1] \in {Malformed, [event |-> e, next |-> n]}
<1> DEFINE r == [event |-> e, next |-> n]
<1>1. r \in Records
  BY DEF Records
<1>2. journal \in Files(Records) /\ journal' = Append1(journal, r)
  BY DEF TypeInv, TypeOK, Log
<1>3. Len(journal.lines) \in Nat
  BY <1>2 DEF Files
<1> HIDE DEF r
<1>4. QED
  BY <1>1, <1>2, <1>3, AppendLines DEF r

LEMMA OtherEvent ==
    ASSUME TypeInv, NEW e \in Events \ {"shard_finalized"}, NEW n \in Nat, Log(e, n)
    PROVE  EventsKept
<1> DEFINE k == Len(journal.lines)
<1>1. /\ k \in Nat /\ Len(journal'.lines) = k + 1
      /\ \A i \in 1..k : journal'.lines[i] = journal.lines[i]
      /\ journal'.lines[k + 1] \in {Malformed, [event |-> e, next |-> n]}
  BY LogLines
<1>2. ShardEvents = {i \in 1..k : journal.lines[i] # Malformed
                                  /\ journal.lines[i].event = "shard_finalized"}
  BY DEF ShardEvents
<1>3. ShardEvents' = {i \in 1..(k + 1) : journal'.lines[i] # Malformed
                                         /\ journal'.lines[i].event = "shard_finalized"}
  BY <1>1 DEF ShardEvents
<1> HIDE DEF k
<1>4. k + 1 \notin ShardEvents'
  <2>1. [event |-> e, next |-> n].event = e
    OBVIOUS
  <2>2. QED
    BY <1>1, <1>3, <2>1
<1>5. \A i \in 1..(k + 1) : i \in 1..k \/ i = k + 1
  BY <1>1
<1>6. \A i : i \in ShardEvents' <=> i \in ShardEvents
  <2> SUFFICES ASSUME NEW i PROVE i \in ShardEvents' <=> i \in ShardEvents
    OBVIOUS
  <2>1. CASE i \in 1..k
    <3>1. i \in 1..(k + 1) /\ journal'.lines[i] = journal.lines[i]
      BY <1>1, <2>1
    <3> QED BY <2>1, <3>1, <1>2, <1>3
  <2>2. CASE i \notin 1..k
    <3>1. i \in ShardEvents' => i = k + 1
      BY <1>3, <1>5, <2>2
    <3> QED BY <2>2, <3>1, <1>2, <1>4
  <2> QED BY <2>1, <2>2
<1>7. ShardEvents' = ShardEvents
  <2>1. ShardEvents \subseteq 1..k /\ ShardEvents' \subseteq 1..(k + 1)
    BY <1>2, <1>3
  <2> QED BY <1>6
<1>8. QED
  BY <1>1, <1>2, <1>7 DEF EventsKept

\* The event of one more shard.
LEMMA ShardEvent ==
    ASSUME TypeInv, NEW n \in Nat, Log("shard_finalized", n)
    PROVE  \E new : /\ ShardEvents' \subseteq ShardEvents \cup {new}
                    /\ new \notin ShardEvents
                    /\ new \in ShardEvents' => journal'.lines[new].next = n
                    /\ \A i \in ShardEvents : journal'.lines[i] = journal.lines[i]
<1> DEFINE k == Len(journal.lines)
<1>1. /\ k \in Nat /\ Len(journal'.lines) = k + 1
      /\ \A i \in 1..k : journal'.lines[i] = journal.lines[i]
      /\ journal'.lines[k + 1] \in {Malformed, [event |-> "shard_finalized", next |-> n]}
  BY LogLines DEF Events
<1>2. ShardEvents = {i \in 1..k : journal.lines[i] # Malformed
                                  /\ journal.lines[i].event = "shard_finalized"}
  BY DEF ShardEvents
<1>3. ShardEvents' = {i \in 1..(k + 1) : journal'.lines[i] # Malformed
                                         /\ journal'.lines[i].event = "shard_finalized"}
  BY <1>1 DEF ShardEvents
<1> HIDE DEF k
<1>4. \A i \in 1..(k + 1) : i \in 1..k \/ i = k + 1
  BY <1>1
<1>5. k + 1 \notin ShardEvents
  BY <1>1, <1>2
<1>6. ShardEvents' \subseteq ShardEvents \cup {k + 1}
  BY <1>1, <1>2, <1>3, <1>4
<1>7. k + 1 \in ShardEvents' => journal'.lines[k + 1].next = n
  <2>1. [event |-> "shard_finalized", next |-> n].next = n
    OBVIOUS
  <2>2. QED
    BY <1>1, <1>3, <2>1
<1>8. QED
  BY <1>1, <1>2, <1>5, <1>6, <1>7

\* Only LogShard changes what the journal tells of shards.
LEMMA EventsStep == TypeInv /\ [Next]_vars => EventsKept \/ LogShard
<1> SUFFICES ASSUME TypeInv, [Next]_vars, ~LogShard PROVE EventsKept
  OBVIOUS
<1>0. mem.acquired \in Nat /\ mem.start \in Nat /\ journal \in Files(Records)
  BY DEF TypeInv, TypeOK, Memory
<1>1. CASE LogRecovery \/ LogStarted \/ LogAcquisition \/ LogGuard \/ LogEnd
           \/ LogManifest \/ Signal
  <2>1. \E e \in Events \ {"shard_finalized"}, n \in Nat : Log(e, n)
    BY <1>0, <1>1 DEF LogRecovery, LogStarted, LogAcquisition, LogGuard, LogEnd,
       LogManifest, Signal, Events
  <2>2. QED
    BY <2>1, OtherEvent
<1>2. CASE Refuse
  <2>1. CASE SafeToLogRefusal
    BY <1>0, <1>2, <2>1, OtherEvent DEF Refuse, Events
  <2>2. CASE ~SafeToLogRefusal
    BY <1>2, <2>2, SameLines DEF Refuse
  <2>3. QED
    BY <2>1, <2>2
<1>3. CASE RecoverJournal
  <2>1. journal' = journal \/ journal' = TruncateTail(journal)
    BY <1>3 DEF RecoverJournal
  <2>2. QED
    BY <1>0, <2>1, TruncateType, SameLines
<1>4. CASE Crash
  <2>1. journal' = journal \/ journal' \in TornAppends(journal)
    BY <1>4 DEF Crash, CrashJournal
  <2>2. QED
    BY <1>0, <2>1, TornType, SameLines
<1>5. CASE UNCHANGED journal
  BY <1>5, SameLines
<1>6. QED
  BY <1>1, <1>2, <1>3, <1>4, <1>5 DEF Next, Begin, Start, Process, Identification,
     CreateIdentity, OpenIdentity, RefuseIdentity, WriteRunJson, WriteConfigJson,
     Recovery, CheckBackend, WriteIdentity, Quarantine, DeriveResume, Sampling,
     LeaveLoop, StopAtLimit, AddSample, Finalize, Flush, Ending, Conclude, WriteStatus,
     WriteManifest, Return, StorageGuard, Damage, vars

\* A process comes to logging a shard by writing it, and waits there.
LEMMA ReachesLogShard ==
    ASSUME TypeInv, [Next]_vars, ~Damage, pc' = "logShard"
    PROVE  (pc = "logShard" \/ Finalize) /\ mem'.acquired = mem.acquired
<1>0. mem \in Memory
  BY DEF TypeInv, TypeOK
<1>1. CASE Finalize
  BY <1>0, <1>1 DEF Finalize, Memory
<1>2. CASE Signal
  BY <1>0, <1>2 DEF Signal, Memory
<1>3. CASE UNCHANGED vars
  BY <1>3 DEF vars
<1>4. QED
  BY <1>1, <1>2, <1>3 DEF Next, Begin, Start, Process, Identification,
     CreateIdentity, OpenIdentity, RefuseIdentity, Refuse, WriteRunJson, WriteConfigJson,
     Recovery, RecoverJournal, LogRecovery, CheckBackend, WriteIdentity, Quarantine,
     DeriveResume, LogStarted, LogAcquisition, Sampling, LeaveLoop, StopAtLimit,
     LogGuard, AddSample, LogShard, Flush, Ending, Conclude, LogEnd, WriteStatus,
     WriteManifest, LogManifest, Return, StorageGuard, Crash, Raise, Goto

LEMMA NextEvents == TypeInv /\ ShardsInv /\ EventsInv /\ [Next]_vars => EventsInv'
<1> SUFFICES ASSUME TypeInv, ShardsInv, EventsInv, [Next]_vars, used'.damage = 0
             PROVE  /\ \A i \in ShardEvents' :
                          \E p \in Valid' : p.last + 1 = journal'.lines[i].next
                    /\ \A i, j \in ShardEvents' :
                          journal'.lines[i].next = journal'.lines[j].next => i = j
                    /\ pc' = "logShard" =>
                          /\ \E p \in Valid' : p.last + 1 = mem'.acquired
                          /\ \A i \in ShardEvents' : journal'.lines[i].next # mem'.acquired
  BY DEF EventsInv, JournalledShardsExist, LoggingInv
<1>1. used.damage = 0 /\ ~Damage
  <2>1. used.damage \in Nat
    BY DEF TypeInv, TypeOK
  <2>2. QED
    BY <2>1, DamageCounted, DamageEffect
<1>2. Valid \subseteq Valid'
  BY <1>1, ValidStep
<1>3. /\ \A i \in ShardEvents : \E p \in Valid : p.last + 1 = journal.lines[i].next
      /\ \A i, j \in ShardEvents : journal.lines[i].next = journal.lines[j].next => i = j
      /\ pc = "logShard" =>
            /\ \E p \in Valid : p.last + 1 = mem.acquired
            /\ \A i \in ShardEvents : journal.lines[i].next # mem.acquired
  BY <1>1 DEF EventsInv, JournalledShardsExist, LoggingInv
<1>4. CASE EventsKept
  <2>1. ASSUME pc' = "logShard"
        PROVE  /\ \E p \in Valid' : p.last + 1 = mem'.acquired
               /\ \A i \in ShardEvents' : journal'.lines[i].next # mem'.acquired
    <3>1. mem'.acquired = mem.acquired /\ (pc = "logShard" \/ Finalize)
      BY <1>1, <2>1, ReachesLogShard
    <3>2. CASE pc = "logShard"
      BY <1>2, <1>3, <1>4, <3>1, <3>2 DEF EventsKept
    <3>3. CASE Finalize
      <4>1. /\ Buffered \in Payloads /\ Buffered.last + 1 = mem.acquired
            /\ Buffered.first <= Buffered.last
            /\ \A p \in payloads : p.last < Buffered.first
        BY <3>3, AddBuffered DEF Finalize
      <4>2. Buffered \in Valid'
        BY <3>3, AddKeepsValid DEF Finalize
      <4>3. \A p \in Valid : p \in payloads /\ p.last \in Nat
        BY DEF Valid, ValidShards, TypeInv, TypeOK, Payloads
      <4>4. Buffered.first \in Nat /\ Buffered.last \in Nat
        BY <4>1 DEF Payloads
      <4>5. \A p \in Valid : p.last + 1 # mem.acquired
        BY <4>1, <4>3, <4>4
      <4>6. \A i \in ShardEvents : journal.lines[i].next # mem.acquired
        BY <1>3, <4>5
      <4>7. QED
        BY <1>4, <3>1, <4>1, <4>2, <4>6 DEF EventsKept
    <3>4. QED
      BY <3>1, <3>2, <3>3
  <2>2. QED
    BY <1>2, <1>3, <1>4, <2>1 DEF EventsKept
<1>5. CASE LogShard
  <2>1. /\ Log("shard_finalized", mem.acquired) /\ pc = "logShard"
        /\ pc' \in {"conclude", "loop"}
    BY <1>5 DEF LogShard, Goto
  <2>2. mem.acquired \in Nat
    BY DEF TypeInv, TypeOK, Memory
  <2>3. PICK new : /\ ShardEvents' \subseteq ShardEvents \cup {new}
                   /\ new \notin ShardEvents
                   /\ new \in ShardEvents' => journal'.lines[new].next = mem.acquired
                   /\ \A i \in ShardEvents : journal'.lines[i] = journal.lines[i]
    BY <2>1, <2>2, ShardEvent
  <2>4. QED
    BY <1>2, <1>3, <2>1, <2>3
<1>6. QED
  BY <1>4, <1>5, EventsStep

LEMMA EventsInvariant == Spec => []EventsInv
<1>1. Init => EventsInv
  BY DEF Init, EventsInv, JournalledShardsExist, LoggingInv, ShardEvents, EmptyFile,
     StrayFile
<1>2. QED
  BY <1>1, NextEvents, TypeInvInvariant, ShardsInvariant, PTL DEF Spec

----------------------------------------------------------------------------

\* After any history of deaths, refusals, signals and restarts the journal
\* decodes and tells of shards that exist, the shards that validate are a prefix
\* of the stream, and manifest, status and returned value agree with them.
THEOREM RunnerEvidenceSound == Spec => []EvidenceIsSound
<1>1. /\ TypeInv /\ JournalInv /\ PrefixInv /\ EndInv /\ ManifestCoversStream /\ EventsInv
      => EvidenceIsSound
  BY PrefixSkipsNone DEF EvidenceIsSound, JournalInv, JournalNeverCorrupt, EndInv, EventsInv
<1>2. QED
  BY <1>1, TypeInvInvariant, JournalInvariant, PrefixInvariant, EndInvariant,
     ManifestInvariant, EventsInvariant, PTL
----------------------------------------------------------------------------
(* One process's samples, where the backend cannot prove continuity *)

\* Where the persisted identity and the backend's recovery decision have been
\* checked.
Accepted == Points \ (Unaccepted \ {"writeIdentity"})

\* A process that was accepted without being able to prove continuity found no
\* shards, so all that validate now are its own.
EpochInv ==
    pc \in Accepted =>
        mem.identity \in Resumable \/ \A p \in Valid : p.epoch = used.starts

LEMMA DamageFewerValid == ASSUME TypeInv, Damage PROVE Valid' \subseteq Valid
<1>1. PICK p \in payloads, d \in Payloads :
          payloads' = (payloads \ {p}) \cup {d} /\ ~d.ok
  BY DamageEffect
<1>2. sidecars' = sidecars
  BY DamageEffect
<1>3. QED
  BY <1>1, <1>2 DEF Valid, ValidShards, ValidShard

\* A process is accepted by CheckBackend and keeps its identity from there on.
LEMMA AcceptedStep ==
    ASSUME TypeInv, [Next]_vars, pc' \in Accepted
    PROVE  \/ /\ pc \in Accepted /\ mem'.identity = mem.identity
              /\ used'.starts = used.starts
           \/ CheckBackend
<1>0. /\ mem \in Memory
      /\ used \in [starts : Nat, crashes : Nat, signals : Nat, guards : Nat, damage : Nat]
  BY DEF TypeInv, TypeOK
<1> USE DEF Accepted, Unaccepted, Unidentified, Points, Goto
<1>1. CASE Sampling \/ Ending \/ StorageGuard \/ Signal
  <2>1. pc \in Handling /\ mem'.identity = mem.identity
    BY <1>1, SteadyStep
  <2>2. used'.starts = used.starts
    <3>1. CASE StorageGuard \/ Signal
      BY <1>0, <3>1 DEF StorageGuard, Signal
    <3>2. CASE UNCHANGED used
      BY <3>2
    <3>3. QED
      BY <1>1, <3>1, <3>2 DEF Sampling, LeaveLoop, StopAtLimit, LogGuard, AddSample,
         Finalize, LogShard, Flush, Ending, Conclude, LogEnd, WriteStatus, WriteManifest,
         LogManifest, Return
  <2>3. QED
    BY <2>1, <2>2 DEF Handling
<1>2. CASE DeriveResume
  <2>1. PICK n \in ResumeIndices(payloads) :
            mem' = [mem EXCEPT !.start = n, !.acquired = n]
    BY <1>2 DEF DeriveResume, Raise
  <2>2. mem'.identity = mem.identity
    BY <1>0, <2>1 DEF Memory
  <2>3. QED
    BY <1>2, <2>2 DEF DeriveResume
<1>3. CASE LogAcquisition
  <2>1. PICK n \in NextShards(payloads) : mem' = [mem EXCEPT !.nextShard = n]
    BY <1>3 DEF LogAcquisition
  <2>2. mem'.identity = mem.identity
    BY <1>0, <2>1 DEF Memory
  <2>3. QED
    BY <1>3, <2>2 DEF LogAcquisition
<1>4. CASE WriteIdentity \/ Quarantine \/ LogStarted \/ UNCHANGED vars
  BY <1>4 DEF WriteIdentity, Quarantine, LogStarted, vars
<1>5. CASE Damage
  BY <1>5, DamageEffect
<1>6. QED
  BY <1>1, <1>2, <1>3, <1>4, <1>5 DEF Next, Begin, Start, Process, Identification,
     CreateIdentity, OpenIdentity, RefuseIdentity, Refuse, WriteRunJson, WriteConfigJson,
     Recovery, RecoverJournal, LogRecovery, Crash, Raise

LEMMA NextEpoch == TypeInv /\ ShardsInv /\ EpochInv /\ [Next]_vars => EpochInv'
<1> SUFFICES ASSUME TypeInv, ShardsInv, EpochInv, [Next]_vars, pc' \in Accepted
             PROVE  \/ mem'.identity \in Resumable
                    \/ \A p \in Valid' : p.epoch = used'.starts
  BY DEF EpochInv
<1>1. CASE CheckBackend
  <2>1. PICK preview \in ResumeIndices(Valid) :
            /\ IsResumeIndex(preview, Valid) /\ BackendAccepts(preview)
            /\ mem' = [mem EXCEPT !.start = preview]
    BY <1>1 DEF CheckBackend, Raise, Goto, Accepted, Unaccepted, Unidentified
  <2>2. mem'.identity = mem.identity /\ Valid' = Valid
    BY <1>1, <2>1 DEF TypeInv, TypeOK, Memory, CheckBackend, disk, Valid
  <2>3. Valid \in SUBSET Payloads
    BY DEF TypeInv, TypeOK, Valid, ValidShards
  <2>4. preview \in Nat
    BY <2>1, <2>3, IndexTypes
  <2>5. CASE preview > 0
    BY <2>1, <2>2, <2>5 DEF BackendAccepts
  <2>6. CASE ~(preview > 0)
    <3>1. \A p \in Valid : p.last \in Nat
      BY <2>3 DEF Payloads
    <3>2. preview = 0
      BY <2>4, <2>6
    <3>3. Valid = {}
      BY <2>1, <3>1, <3>2 DEF IsResumeIndex
    <3>4. QED
      BY <2>2, <3>3
  <2>7. QED
    BY <2>5, <2>6
<1>2. CASE pc \in Accepted /\ mem'.identity = mem.identity /\ used'.starts = used.starts
  <2>1. CASE mem.identity \in Resumable
    BY <1>2, <2>1
  <2>2. CASE \A p \in Valid : p.epoch = used.starts
    <3>1. pc = "finalize" => Buffered.epoch = used.starts
      BY AddBuffered
    <3>2. \/ Valid' \subseteq Valid
          \/ pc = "finalize" /\ Valid' = Valid \cup {Buffered}
      BY ValidStep, DamageFewerValid
    <3>3. QED
      BY <1>2, <2>2, <3>1, <3>2
  <2>3. QED
    BY <1>2, <2>1, <2>2 DEF EpochInv
<1>3. QED
  BY <1>1, <1>2, AcceptedStep

\* The identity in run.json is set by WriteIdentity alone.
LEMMA IdentityStep ==
    ASSUME TypeInv, [Next]_vars
    PROVE  \/ runJson'.identity \in {runJson.identity, None}
           \/ WriteIdentity /\ runJson'.identity = mem.identity
<1>0. runJson \in RunJson
  BY DEF TypeInv, TypeOK
<1>1. CASE WriteIdentity
  BY <1>0, <1>1 DEF WriteIdentity, RunJson
<1>2. CASE WriteRunJson
  BY <1>2 DEF WriteRunJson
<1>3. CASE Crash
  BY <1>0, <1>3 DEF Crash, CrashRunJson, RunJson
<1>4. CASE Sampling \/ Ending \/ StorageGuard \/ Signal
  BY <1>4, SteadyStep
<1>5. CASE UNCHANGED runJson
  BY <1>5
<1>6. QED
  BY <1>1, <1>2, <1>3, <1>4, <1>5 DEF Next, Begin, Start, Process, Identification,
     CreateIdentity, OpenIdentity, RefuseIdentity, Refuse, WriteConfigJson, Recovery,
     RecoverJournal, LogRecovery, CheckBackend, Quarantine, DeriveResume, LogStarted,
     LogAcquisition, Damage, disk, vars

\* A backend that cannot prove continuity never has its samples joined with
\* those of another process, whatever identities later processes observe.
THEOREM RunnerOneEpoch == Spec => []OneEpochUnlessResumable
<1>1. Init => EpochInv /\ OneEpochUnlessResumable
  BY DEF Init, EpochInv, OneEpochUnlessResumable, Accepted, Unaccepted, Unidentified,
     NoRunJson
<1>2. /\ TypeInv /\ ShardsInv /\ ContractInv /\ EpochInv /\ OneEpochUnlessResumable
      /\ [Next]_vars
      => OneEpochUnlessResumable'
  <2> SUFFICES ASSUME TypeInv, ShardsInv, ContractInv, EpochInv, OneEpochUnlessResumable,
                      [Next]_vars, runJson'.identity \in Identities \ Resumable,
                      NEW p \in Valid', NEW q \in Valid'
               PROVE  p.epoch = q.epoch
    BY DEF OneEpochUnlessResumable
  <2>1. CASE WriteIdentity
    <3>1. mem.identity \notin Resumable /\ Valid' = Valid
      BY <2>1 DEF WriteIdentity, TypeInv, TypeOK, RunJson, Valid
    <3>2. pc \in Accepted
      BY <2>1 DEF WriteIdentity, Accepted, Points
    <3>3. QED
      BY <3>1, <3>2 DEF EpochInv
  <2>2. CASE runJson'.identity = runJson.identity
    <3>1. CASE Valid' \subseteq Valid
      BY <2>2, <3>1 DEF OneEpochUnlessResumable
    <3>2. CASE pc = "finalize" /\ Valid' = Valid \cup {Buffered}
      <4>1. Buffered.epoch = used.starts
        BY <3>2, AddBuffered
      <4>2. pc \in Accepted /\ pc \notin Unaccepted
        BY <3>2 DEF Accepted, Unaccepted, Unidentified, Points
      <4>3. mem.identity \notin Resumable
        BY <2>2, <4>2 DEF ContractInv
      <4>4. \A s \in Valid' : s.epoch = used.starts
        BY <3>2, <4>1, <4>2, <4>3 DEF EpochInv
      <4>5. QED
        BY <4>4
    <3>3. QED
      BY <3>1, <3>2, ValidStep, DamageFewerValid
  <2>3. QED
    BY <2>1, <2>2, IdentityStep
<1>3. QED
  BY <1>1, <1>2, NextEpoch, TypeInvInvariant, ShardsInvariant, ContractInvariant, PTL
  DEF Spec
----------------------------------------------------------------------------
(* The runner implements the ledger *)

\* Every step of an undamaged run extends the prefix by one shard, publishes or
\* retracts the manifest over the whole stream, or changes nothing a reader sees.
LEMMA LedgerStep ==
    ASSUME TypeInv, ShardsInv, PrefixInv, ManifestCoversStream, ManifestCoversStream',
           used.damage = 0, used'.damage = 0, [Next]_vars
    PROVE  [Ledger!Next]_(Ledger!vars)
<1> DEFINE kept == SamplesIn(Valid)
           published == manifest.state = "ok"
<1>0. ~Damage
  BY DamageEffect
<1>a. Valid \in SUBSET Payloads
  BY DEF TypeInv, TypeOK, Valid, ValidShards
<1>1. CASE Valid' = Valid
  <2>0. kept' = kept
    BY <1>1
  <2>1. CASE published' = published
    <3>1. UNCHANGED Ledger!vars
      BY <2>0, <2>1 DEF Ledger!vars
    <3>2. QED
      BY <3>1
  <2>2. CASE published /\ ~published'
    <3>1. Ledger!Retract
      BY <2>0, <2>2, Zenon DEF Ledger!Retract
    <3>2. QED
      BY <3>1 DEF Ledger!Next
  <2>3. CASE ~published /\ published'
    <3>1. kept' = 0..(Total - 1)
      BY <2>3 DEF ManifestCoversStream
    <3>2. kept = Ledger!Prefix(Total)
      BY <2>0, <3>1 DEF Ledger!Prefix
    <3>3. Ledger!Publish
      BY <2>0, <2>3, <3>2, Zenon DEF Ledger!Publish
    <3>4. QED
      BY <3>3 DEF Ledger!Next
  <2>4. QED
    BY <2>1, <2>2, <2>3, Zenon
<1>2. CASE pc = "finalize" /\ Valid' = Valid \cup {Buffered} /\ (Finalize \/ Crash)
  <2> DEFINE m == Buffered.first
             n == Buffered.last + 1
  <2>1. /\ Buffered \in Payloads /\ m = mem.acquired - mem.buffered
        /\ m <= Buffered.last /\ Buffered.last < Total
        /\ Buffered.last - m < MaxRows
    BY <1>2, AddBuffered
  <2>2. m \in Nat /\ Buffered.last \in Nat
    BY <2>1 DEF Payloads
  <2>3. m \in 0..Total /\ n \in (m + 1)..Total /\ n <= m + MaxRows
    BY <2>1, <2>2
  <2>4. Covers(Valid, m)
    BY <1>2, <2>1 DEF PrefixInv, Joined, Handling
  <2>5. Covers(Valid', n)
    BY <1>2, <2>1, <2>4, CoverAdd
  <2>6. Valid' \in SUBSET Payloads /\ n \in Nat
    BY <1>a, <1>2, <2>1, <2>2
  <2> HIDE DEF m, n
  <2>7. kept = Ledger!Prefix(m) /\ kept' = Ledger!Prefix(n)
    BY <1>a, <2>2, <2>4, <2>5, <2>6, PrefixSet DEF Ledger!Prefix
  <2>8. manifest' = manifest
    BY <1>2 DEF Finalize, Crash, CrashManifest
  <2>9. Ledger!Extend
    <3>1. published' = published
      BY <2>8
    <3>2. QED
      BY <2>3, <2>7, <3>1, Zenon DEF Ledger!Extend
  <2>10. QED
    BY <2>9 DEF Ledger!Next
<1>3. QED
  BY <1>0, <1>1, <1>2, ValidStep

\* Through deaths, refusals, signals, quarantines and restarts the durable samples
\* only ever grow by one shard at the end of the prefix, and a manifest appears
\* only over the whole stream, as long as no finalized payload is damaged.
THEOREM RunnerImplementsLedger == Spec /\ [](used.damage = 0) => ImplementsLedger
<1>1. Init => Ledger!Init
  <2> SUFFICES ASSUME Init PROVE Ledger!Init
    OBVIOUS
  <2>1. SamplesIn(Valid) = {}
    BY DEF Init, SamplesIn, Valid, ValidShards
  <2>2. ~(manifest.state = "ok")
    BY DEF Init, NoManifest
  <2>3. QED
    BY <2>1, <2>2, Zenon DEF Ledger!Init
<1>2. /\ TypeInv /\ ShardsInv /\ PrefixInv /\ ManifestCoversStream /\ ManifestCoversStream'
      /\ used.damage = 0 /\ (used.damage = 0)' /\ [Next]_vars
      => [Ledger!Next]_(Ledger!vars)
  BY LedgerStep
<1>3. QED
  BY <1>1, <1>2, TypeInvInvariant, ShardsInvariant, PrefixInvariant, ManifestInvariant, PTL
  DEF Spec, ImplementsLedger, Ledger!Spec


=============================================================================
