------------------------------- MODULE Journal -------------------------------
(***************************************************************************)
(* One journal, written by a succession of processes each of which may die *)
(* at any point.  A process opens the journal, repairs the tail if it is   *)
(* one that calls Journal.recover, and then appends events.  The processes *)
(* of a run recover, those of the idle service do not: which of the two a  *)
(* behaviour is about is chosen in its first state.  Records are numbered  *)
(* in the order Journal.append is called, so that a line can be told from  *)
(* every other.                                                            *)
(***************************************************************************)
EXTENDS JournalFile, FiniteSets

CONSTANTS
    MaxRecords,    \* bound on calls of Journal.append
    MaxCrashes,    \* bound on process deaths
    MaxDamage      \* bound on lines that go bad on disk

ASSUME JournalAssumption ==
    /\ MaxRecords \in Nat
    /\ MaxCrashes \in Nat
    /\ MaxDamage \in Nat
    /\ Malformed \notin Nat

VARIABLES
    recovers,      \* TRUE when a process calls Journal.recover before it appends
    file,          \* the journal file
    pc,            \* where the current process is; "down" when there is none
    called,        \* number of calls of Journal.append so far
    returned,      \* the records whose append has returned, an observation
    crashes,
    damage         \* number of lines that have gone bad on disk

vars == <<recovers, file, pc, called, returned, crashes, damage>>

Points == {"down", "open", "logging_recovery", "ready", "appending"}

Init ==
    /\ recovers \in BOOLEAN
    /\ file = EmptyFile
    /\ pc = "down"
    /\ called = 0
    /\ returned = {}
    /\ crashes = 0
    /\ damage = 0

----------------------------------------------------------------------------

Open ==
    /\ pc = "down"
    /\ pc' = "open"
    /\ UNCHANGED <<recovers, file, called, returned, crashes, damage>>

\* A process that never calls recover appends to whatever it finds.
SkipRecovery ==
    /\ pc = "open"
    /\ ~recovers
    /\ pc' = "ready"
    /\ UNCHANGED <<recovers, file, called, returned, crashes, damage>>

\* Mutant: a tail that only lacks its newline is taken for a record.
AcceptWholeTail ==
    /\ pc = "open"
    /\ recovers
    /\ Readable(file)
    /\ file.tail # "torn"
    /\ pc' = "ready"
    /\ UNCHANGED <<recovers, file, called, returned, crashes, damage>>

\* recover() on a file that read() accepts without a partial tail.
NothingToRecover ==
    /\ pc = "open"
    /\ recovers
    /\ Readable(file)
    /\ ~TrailingPartial(file)
    /\ pc' = "ready"
    /\ UNCHANGED <<recovers, file, called, returned, crashes, damage>>

\* Mutant: the tail is truncated before the lines are looked at.
TruncateUnread ==
    /\ pc = "open"
    /\ recovers
    /\ TrailingPartial(file)
    /\ called < MaxRecords
    /\ file' = TruncateTail(file)
    /\ called' = called + 1
    /\ pc' = "logging_recovery"
    /\ UNCHANGED <<recovers, returned, crashes, damage>>

\* recover() truncates the partial tail; the journal_recovery event follows.
Truncate ==
    /\ pc = "open"
    /\ recovers
    /\ Readable(file)
    /\ TrailingPartial(file)
    /\ called < MaxRecords
    /\ file' = TruncateTail(file)
    /\ called' = called + 1
    /\ pc' = "logging_recovery"
    /\ UNCHANGED <<recovers, returned, crashes, damage>>

\* recover() raises JournalCorruptionError and the process ends.
RefuseCorruption ==
    /\ pc = "open"
    /\ recovers
    /\ ~Readable(file)
    /\ pc' = "down"
    /\ UNCHANGED <<recovers, file, called, returned, crashes, damage>>

BeginAppend ==
    /\ pc = "ready"
    /\ called < MaxRecords
    /\ called' = called + 1
    /\ pc' = "appending"
    /\ UNCHANGED <<recovers, file, returned, crashes, damage>>

\* write, flush and fsync are over and append returns.
CompleteAppend ==
    /\ pc \in {"appending", "logging_recovery"}
    /\ file' = Append1(file, called)
    /\ returned' = returned \cup {called}
    /\ pc' = "ready"
    /\ UNCHANGED <<recovers, called, crashes, damage>>

\* The process dies.  Inside an append the record may be lost, torn, or on
\* disk without the caller ever learning of it.
Crash ==
    /\ pc # "down"
    /\ crashes < MaxCrashes
    /\ crashes' = crashes + 1
    /\ pc' = "down"
    /\ IF pc \in {"appending", "logging_recovery"}
       THEN file' \in TornAppends(file) \cup {Append1(file, called)}
       ELSE file' = file
    /\ UNCHANGED <<recovers, called, returned, damage>>

\* A terminated line goes bad on disk.
Damage ==
    /\ damage < MaxDamage
    /\ damage' = damage + 1
    /\ \E i \in 1..Len(file.lines) : file' = [file EXCEPT !.lines[i] = Malformed]
    /\ UNCHANGED <<recovers, pc, called, returned, crashes>>

Next ==
    \/ Open
    \/ SkipRecovery
    \/ NothingToRecover
    \/ Truncate
    \/ RefuseCorruption
    \/ BeginAppend
    \/ CompleteAppend
    \/ Crash
    \/ Damage

Spec == Init /\ [][Next]_vars

----------------------------------------------------------------------------

TypeOK ==
    /\ recovers \in BOOLEAN
    /\ file \in Files(1..called)
    /\ pc \in Points
    /\ called \in Nat
    /\ returned \in SUBSET (1..called)
    /\ crashes \in Nat
    /\ damage \in Nat

\* However many processes died inside an append or inside the repair of an
\* earlier one, no terminated line is ever garbage: Journal.read never raises
\* JournalCorruptionError on a journal whose writers recover it first
\* (journal.py, read and recover).
NeverCorrupt == (recovers /\ damage = 0) => Readable(file)

\* A record is appended where the next record will be read back only if no
\* partial tail is in front of it: a process that has finished recovery never
\* faces one (the comment in journal.py, read, on concatenated objects).
AppendsOnALineBoundary ==
    (recovers /\ pc \in {"ready", "appending", "logging_recovery"})
        => ~TrailingPartial(file)

\* A record whose append returned is on a line of its own for ever: neither a
\* later crash nor the truncation of a tail takes it away (journal.py, append
\* and recover).
ReturnedRecordsAreKept ==
    (recovers /\ damage = 0) =>
        \A r \in returned : \E i \in 1..Len(file.lines) : file.lines[i] = r

\* Lines are in the order of the append calls, each call at most once, so the
\* journal can be read as the history of the run.
LinesInCallOrder ==
    \A i, j \in 1..Len(file.lines) :
        (i < j /\ file.lines[i] # Malformed /\ file.lines[j] # Malformed)
            => file.lines[i] < file.lines[j]

\* ADR-009: a malformed terminated line is corruption, never repaired.  A
\* process that meets one in recover() leaves the file as it is, its partial
\* tail included, so that what is left of it can be examined.
CorruptionLeftAlone ==
    [][(pc \in {"down", "open"} /\ ~Readable(file) /\ damage' = damage)
            => UNCHANGED file]_vars

=============================================================================
