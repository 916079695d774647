---------------------------- MODULE JournalProofs -----------------------------
(***************************************************************************)
(* Proofs about Journal for any number of processes, deaths, records and   *)
(* damaged lines.  The invariant JournalInv strengthens the properties     *)
(* with where the writer is: past recovery it faces a file without a tail, *)
(* and inside an append its record is not on a line yet.                   *)
(***************************************************************************)
EXTENDS Journal, TLAPS

USE JournalAssumption

----------------------------------------------------------------------------
(* The file: what its operations return, for any set of records.           *)

\* A sequence over a set is a sequence over any larger one.
LEMMA SeqMonotonic ==
    ASSUME NEW S, NEW T, S \subseteq T, NEW s \in Seq(S)
    PROVE  s \in Seq(T)
OBVIOUS

LEMMA FilesMonotonic ==
    ASSUME NEW R, NEW Q, R \subseteq Q, NEW f \in Files(R)
    PROVE  f \in Files(Q)
<1>1. f.lines \in Seq(Q \cup {Malformed})
  BY SeqMonotonic, R \cup {Malformed} \subseteq Q \cup {Malformed} DEF Files
<1>2. QED
  BY <1>1 DEF Files

LEMMA AppendType ==
    ASSUME NEW R, NEW f \in Files(R), NEW r \in R
    PROVE  Append1(f, r) \in Files(R)
BY DEF Files, Append1, Tails

LEMMA TornType ==
    ASSUME NEW R, NEW f \in Files(R), NEW g \in TornAppends(f)
    PROVE  g \in Files(R) /\ g.lines = f.lines
BY DEF Files, TornAppends, Tails

LEMMA TruncateType ==
    ASSUME NEW R, NEW f \in Files(R)
    PROVE  /\ TruncateTail(f) \in Files(R)
           /\ TruncateTail(f).lines = f.lines
           /\ ~TrailingPartial(TruncateTail(f))
BY DEF Files, TruncateTail, TrailingPartial, Tails

\* A line gone bad leaves a file of the same length.
LEMMA DamageType ==
    ASSUME NEW R, NEW f \in Files(R), NEW i \in 1..Len(f.lines)
    PROVE  /\ [f EXCEPT !.lines[i] = Malformed] \in Files(R)
           /\ Len([f EXCEPT !.lines[i] = Malformed].lines) = Len(f.lines)
           /\ \A j \in 1..Len(f.lines) :
                  [f EXCEPT !.lines[i] = Malformed].lines[j] =
                      IF j = i THEN Malformed ELSE f.lines[j]
<1> DEFINE lines == [f.lines EXCEPT ![i] = Malformed]
           g == [f EXCEPT !.lines[i] = Malformed]
<1>1. f.lines \in Seq(R \cup {Malformed}) /\ f.tail \in Tails
  BY DEF Files
<1>2. /\ lines \in Seq(R \cup {Malformed})
      /\ Len(lines) = Len(f.lines)
      /\ \A j \in 1..Len(f.lines) :
             lines[j] = IF j = i THEN Malformed ELSE f.lines[j]
  <2> HIDE DEF g
  <2> QED
    BY <1>1
<1>3. g.lines = lines /\ g.tail = f.tail /\ g \in Files(R)
  <2>1. g = [f EXCEPT !.lines = lines]
    OBVIOUS
  <2> HIDE DEF lines, g
  <2>2. QED
    BY <1>1, <1>2, <2>1 DEF Files
<1>4. QED
  <2> HIDE DEF lines
  <2> QED
    BY <1>2, <1>3

\* What an append adds: one line, at the end.
LEMMA AppendLines ==
    ASSUME NEW R, NEW f \in Files(R), NEW r \in R
    PROVE  LET g == Append1(f, r)
           IN  /\ Len(g.lines) = Len(f.lines) + 1
               /\ \A i \in 1..Len(f.lines) : g.lines[i] = f.lines[i]
               /\ g.lines[Len(f.lines) + 1] =
                      IF TrailingPartial(f) THEN Malformed ELSE r
               /\ ~TrailingPartial(g)
BY DEF Files, Append1, TrailingPartial, Tails

----------------------------------------------------------------------------
(* Type correctness *)

\* Inside an append, the record has a number.
AppendIsCalled == pc \in {"appending", "logging_recovery"} => called > 0

TypeInv == TypeOK /\ AppendIsCalled

LEMMA TypeInvInvariant == Spec => []TypeInv
<1>1. Init => TypeInv
  BY DEF Init, TypeInv, TypeOK, AppendIsCalled, Files, EmptyFile, Tails, Points
<1>2. TypeInv /\ [Next]_vars => TypeInv'
  <2> SUFFICES ASSUME TypeInv, [Next]_vars PROVE TypeInv'
    OBVIOUS
  <2> USE DEF TypeInv, TypeOK, AppendIsCalled
  <2> DEFINE wider == 1..(called + 1)
  <2>0. file \in Files(wider) /\ returned \in SUBSET wider
    BY FilesMonotonic, 1..called \subseteq wider
  <2>1. CASE Open
    BY <2>1 DEF Open, Points
  <2>2. CASE SkipRecovery
    BY <2>2 DEF SkipRecovery, Points
  <2>3. CASE NothingToRecover
    BY <2>3 DEF NothingToRecover, Points
  <2>4. CASE Truncate
    <3>1. TruncateTail(file) \in Files(wider)
      BY <2>0, TruncateType
    <3>2. QED
      BY <2>0, <2>4, <3>1 DEF Truncate, Points
  <2>5. CASE RefuseCorruption
    BY <2>5 DEF RefuseCorruption, Points
  <2>6. CASE BeginAppend
    BY <2>0, <2>6 DEF BeginAppend, Points
  <2>7. CASE CompleteAppend
    <3>1. called \in 1..called
      BY <2>7 DEF CompleteAppend
    <3>2. Append1(file, called) \in Files(1..called)
      BY <3>1, AppendType
    <3>3. QED
      BY <2>7, <3>1, <3>2 DEF CompleteAppend, Points
  <2>8. CASE Crash
    <3>1. file' \in Files(1..called)
      <4>1. CASE pc \in {"appending", "logging_recovery"}
        <5>1. called \in 1..called
          BY <4>1
        <5>2. Append1(file, called) \in Files(1..called)
          BY <5>1, AppendType
        <5>3. \A g \in TornAppends(file) : g \in Files(1..called)
          BY TornType
        <5>4. QED
          BY <2>8, <4>1, <5>2, <5>3 DEF Crash
      <4>2. CASE pc \notin {"appending", "logging_recovery"}
        BY <2>8, <4>2 DEF Crash
      <4>3. QED
        BY <4>1, <4>2
    <3>2. QED
      BY <2>8, <3>1 DEF Crash, Points
  <2>9. CASE Damage
    <3>1. PICK i \in 1..Len(file.lines) : file' = [file EXCEPT !.lines[i] = Malformed]
      BY <2>9 DEF Damage
    <3>2. file' \in Files(1..called)
      BY <3>1, DamageType
    <3>3. QED
      BY <2>9, <3>2 DEF Damage
  <2>10. CASE UNCHANGED vars
    BY <2>10 DEF vars
  <2>11. QED
    BY <2>1, <2>2, <2>3, <2>4, <2>5, <2>6, <2>7, <2>8, <2>9, <2>10 DEF Next
<1>3. QED
  BY <1>1, <1>2, PTL DEF Spec

\* Type correctness of the journal model, for every bound.
THEOREM JournalTypeCorrect == Spec => []TypeOK
<1>1. TypeInv => TypeOK
  BY DEF TypeInv
<1>2. QED
  BY <1>1, TypeInvInvariant, PTL

----------------------------------------------------------------------------
(* The order of the lines, with or without recovery *)

\* Lines hold records that have been called, and the record inside an append
\* is not among them yet.
LinesAreCalled ==
    \A i \in 1..Len(file.lines) :
        file.lines[i] # Malformed =>
            /\ file.lines[i] <= called
            /\ pc \in {"appending", "logging_recovery"} => file.lines[i] < called

OrderInv == LinesAreCalled /\ LinesInCallOrder

\* The same lines under a count that has not fallen, with the writer outside
\* an append, inside the append it was in, or inside one just called.
LEMMA OrderKept ==
    ASSUME TypeInv, OrderInv,
           file'.lines = file.lines, called' \in Nat, called' >= called,
           \/ pc' \notin {"appending", "logging_recovery"}
           \/ called' > called
    PROVE  OrderInv'
<1>1. \A i \in 1..Len(file.lines) : file.lines[i] \in Nat \cup {Malformed}
  BY DEF TypeInv, TypeOK, Files
<1>2. LinesAreCalled'
  BY <1>1 DEF OrderInv, LinesAreCalled, TypeInv, TypeOK
<1>3. LinesInCallOrder'
  BY DEF OrderInv, LinesInCallOrder
<1>4. QED
  BY <1>2, <1>3 DEF OrderInv

\* An append puts its record behind all others.
LEMMA OrderAppended ==
    ASSUME TypeInv, OrderInv, pc \in {"appending", "logging_recovery"},
           file' = Append1(file, called), called' = called,
           pc' \notin {"appending", "logging_recovery"}
    PROVE  OrderInv'
<1>1. called \in 1..called /\ called \in Nat /\ file \in Files(1..called)
  BY DEF TypeInv, TypeOK, AppendIsCalled
<1> DEFINE n == Len(file.lines)
<1>2. /\ Len(file'.lines) = n + 1
      /\ \A i \in 1..n : file'.lines[i] = file.lines[i]
      /\ file'.lines[n + 1] \in {called, Malformed}
  BY <1>1, AppendLines
<1>3. n \in Nat /\ \A i \in 1..n : file.lines[i] \in Nat \cup {Malformed}
  BY <1>1 DEF Files
<1>4. \A i \in 1..n : file.lines[i] # Malformed => file.lines[i] < called
  BY DEF OrderInv, LinesAreCalled
<1> HIDE DEF n
<1>5. \A i \in 1..(n + 1) : i \in 1..n \/ i = n + 1
  BY <1>3
<1>6. LinesAreCalled'
  BY <1>1, <1>2, <1>3, <1>4, <1>5 DEF LinesAreCalled
<1>7. \A i, j \in 1..n :
          (i < j /\ file.lines[i] # Malformed /\ file.lines[j] # Malformed)
              => file.lines[i] < file.lines[j]
  BY DEF OrderInv, LinesInCallOrder, n
<1>8. LinesInCallOrder'
  <2> SUFFICES ASSUME NEW i \in 1..(n + 1), NEW j \in 1..(n + 1), i < j,
                      file'.lines[i] # Malformed, file'.lines[j] # Malformed
               PROVE  file'.lines[i] < file'.lines[j]
    BY <1>2 DEF LinesInCallOrder
  <2>1. i \in 1..n
    BY <1>3
  <2>2. CASE j \in 1..n
    BY <1>2, <1>7, <2>1, <2>2
  <2>3. CASE j = n + 1
    BY <1>2, <1>4, <2>1, <2>3
  <2>4. QED
    BY <1>5, <2>2, <2>3
<1>9. QED
  BY <1>6, <1>8 DEF OrderInv

\* A line gone bad takes a record out of the order.
LEMMA OrderDamaged ==
    ASSUME TypeInv, OrderInv, Damage
    PROVE  OrderInv'
<1>1. PICK i \in 1..Len(file.lines) : file' = [file EXCEPT !.lines[i] = Malformed]
  BY DEF Damage
<1>2. /\ Len(file'.lines) = Len(file.lines)
      /\ \A j \in 1..Len(file.lines) :
             file'.lines[j] = IF j = i THEN Malformed ELSE file.lines[j]
  BY <1>1, DamageType DEF TypeInv, TypeOK
<1>3. pc' = pc /\ called' = called
  BY DEF Damage
<1>4. LinesAreCalled'
  BY <1>2, <1>3 DEF OrderInv, LinesAreCalled
<1>5. LinesInCallOrder'
  BY <1>2 DEF OrderInv, LinesInCallOrder
<1>6. QED
  BY <1>4, <1>5 DEF OrderInv

LEMMA OrderInvInvariant == Spec => []OrderInv
<1>1. Init => OrderInv
  BY DEF Init, OrderInv, LinesAreCalled, LinesInCallOrder, EmptyFile
<1>2. TypeInv /\ OrderInv /\ [Next]_vars => OrderInv'
  <2> SUFFICES ASSUME TypeInv, OrderInv, [Next]_vars PROVE OrderInv'
    OBVIOUS
  <2>0. called \in Nat
    BY DEF TypeInv, TypeOK
  <2>1. CASE Open
    BY <2>0, <2>1, OrderKept DEF Open
  <2>2. CASE SkipRecovery
    BY <2>0, <2>2, OrderKept DEF SkipRecovery
  <2>3. CASE NothingToRecover
    BY <2>0, <2>3, OrderKept DEF NothingToRecover
  <2>4. CASE Truncate
    <3>1. file'.lines = file.lines
      BY <2>4, TruncateType DEF Truncate, TypeInv, TypeOK
    <3>2. QED
      BY <2>0, <2>4, <3>1, OrderKept DEF Truncate
  <2>5. CASE RefuseCorruption
    BY <2>0, <2>5, OrderKept DEF RefuseCorruption
  <2>6. CASE BeginAppend
    BY <2>0, <2>6, OrderKept DEF BeginAppend
  <2>7. CASE CompleteAppend
    BY <2>7, OrderAppended DEF CompleteAppend
  <2>8. CASE Crash
    <3>1. pc' \notin {"appending", "logging_recovery"} /\ called' = called
      BY <2>8 DEF Crash
    <3>2. \/ file' \in TornAppends(file)
          \/ file' = file
          \/ file' = Append1(file, called) /\ pc \in {"appending", "logging_recovery"}
      BY <2>8 DEF Crash
    <3>3. CASE file' \in TornAppends(file) \/ file' = file
      <4>1. file'.lines = file.lines
        BY <3>3, TornType DEF TypeInv, TypeOK
      <4>2. QED
        BY <2>0, <3>1, <4>1, OrderKept
    <3>4. CASE file' = Append1(file, called) /\ pc \in {"appending", "logging_recovery"}
      BY <3>1, <3>4, OrderAppended
    <3>5. QED
      BY <3>2, <3>3, <3>4
  <2>9. CASE Damage
    BY <2>9, OrderDamaged
  <2>10. CASE UNCHANGED vars
    BY <2>10 DEF vars, OrderInv, LinesAreCalled, LinesInCallOrder
  <2>11. QED
    BY <2>1, <2>2, <2>3, <2>4, <2>5, <2>6, <2>7, <2>8, <2>9, <2>10 DEF Next
<1>3. QED
  BY <1>1, <1>2, TypeInvInvariant, PTL DEF Spec

\* The journal is the history of the calls, whether its writers recover it or
\* not: its lines are in call order and no record is there twice.
THEOREM JournalOrdered == Spec => []LinesInCallOrder
<1>1. OrderInv => LinesInCallOrder
  BY DEF OrderInv
<1>2. QED
  BY <1>1, OrderInvInvariant, PTL

----------------------------------------------------------------------------
(* What recovery before the first append keeps *)

\* The journal of writers that recover it.  The boundary holds whatever goes
\* bad on disk, and carries the other two.
SafeInv == AppendsOnALineBoundary /\ NeverCorrupt /\ ReturnedRecordsAreKept

\* Nothing that keeps the lines and the damage breaks what they hold.
LEMMA SafeKept ==
    ASSUME SafeInv, file'.lines = file.lines, returned' = returned, damage' = damage,
           recovers' = recovers
    PROVE  NeverCorrupt' /\ ReturnedRecordsAreKept'
BY DEF SafeInv, NeverCorrupt, ReturnedRecordsAreKept, Readable

\* An append on a line boundary adds its record as a line.
LEMMA SafeAppended ==
    ASSUME TypeInv, SafeInv, pc \in {"appending", "logging_recovery"},
           file' = Append1(file, called), damage' = damage, recovers' = recovers,
           returned' \in {returned, returned \cup {called}}
    PROVE  SafeInv'
<1>0. CASE ~recovers
  BY <1>0 DEF SafeInv, AppendsOnALineBoundary, NeverCorrupt, ReturnedRecordsAreKept
<1> SUFFICES ASSUME recovers PROVE SafeInv'
  BY <1>0
<1>1. called \in 1..called /\ called \in Nat /\ file \in Files(1..called)
  BY DEF TypeInv, TypeOK, AppendIsCalled
<1>2. ~TrailingPartial(file)
  BY DEF SafeInv, AppendsOnALineBoundary
<1> DEFINE n == Len(file.lines)
<1>3. /\ Len(file'.lines) = n + 1
      /\ \A i \in 1..n : file'.lines[i] = file.lines[i]
      /\ file'.lines[n + 1] = called
      /\ ~TrailingPartial(file')
  BY <1>1, <1>2, AppendLines
<1>4. n \in Nat
  BY <1>1 DEF Files
<1>5. AppendsOnALineBoundary'
  BY <1>3 DEF AppendsOnALineBoundary
<1>6. NeverCorrupt'
  <2>1. damage = 0 => \A i \in 1..n : file.lines[i] # Malformed
    BY DEF SafeInv, NeverCorrupt, Readable
  <2> HIDE DEF n
  <2>2. \A i \in 1..(n + 1) : i \in 1..n \/ i = n + 1
    BY <1>4
  <2>3. QED
    BY <1>1, <1>3, <2>1, <2>2 DEF NeverCorrupt, Readable
<1>7. ReturnedRecordsAreKept'
  <2>1. damage = 0 => \A r \in returned : \E i \in 1..n : file.lines[i] = r
    BY DEF SafeInv, ReturnedRecordsAreKept
  <2> HIDE DEF n
  <2>2. n + 1 \in 1..(n + 1) /\ 1..n \subseteq 1..(n + 1)
    BY <1>4
  <2>3. QED
    BY <1>3, <2>1, <2>2 DEF ReturnedRecordsAreKept
<1>8. QED
  BY <1>5, <1>6, <1>7 DEF SafeInv

LEMMA SafeInvInvariant == Spec => []SafeInv
<1>1. Init => SafeInv
  BY DEF Init, SafeInv, AppendsOnALineBoundary, NeverCorrupt, ReturnedRecordsAreKept,
         Readable, EmptyFile
<1>2. TypeInv /\ SafeInv /\ [Next]_vars => SafeInv'
  <2> SUFFICES ASSUME TypeInv, SafeInv, [Next]_vars PROVE SafeInv'
    OBVIOUS
  <2> USE DEF SafeInv
  <2>1. CASE Open
    BY <2>1, SafeKept DEF Open, AppendsOnALineBoundary
  <2>2. CASE SkipRecovery
    BY <2>2 DEF SkipRecovery, AppendsOnALineBoundary, NeverCorrupt, ReturnedRecordsAreKept
  <2>3. CASE NothingToRecover
    BY <2>3, SafeKept DEF NothingToRecover, AppendsOnALineBoundary
  <2>4. CASE Truncate
    <3>1. file'.lines = file.lines /\ ~TrailingPartial(file')
      BY <2>4, TruncateType DEF Truncate, TypeInv, TypeOK
    <3>2. QED
      BY <2>4, <3>1, SafeKept DEF Truncate, AppendsOnALineBoundary
  <2>5. CASE RefuseCorruption
    BY <2>5, SafeKept DEF RefuseCorruption, AppendsOnALineBoundary
  <2>6. CASE BeginAppend
    BY <2>6, SafeKept DEF BeginAppend, AppendsOnALineBoundary
  <2>7. CASE CompleteAppend
    BY <2>7, SafeAppended DEF CompleteAppend
  <2>8. CASE Crash
    <3>1. pc' = "down" /\ returned' = returned /\ damage' = damage /\ recovers' = recovers
      BY <2>8 DEF Crash
    <3>2. \/ file' \in TornAppends(file) \/ file' = file
          \/ file' = Append1(file, called) /\ pc \in {"appending", "logging_recovery"}
      BY <2>8 DEF Crash
    <3>3. CASE file' \in TornAppends(file) \/ file' = file
      <4>1. file'.lines = file.lines
        BY <3>3, TornType DEF TypeInv, TypeOK
      <4>2. QED
        BY <3>1, <4>1, SafeKept DEF AppendsOnALineBoundary
    <3>4. CASE file' = Append1(file, called) /\ pc \in {"appending", "logging_recovery"}
      BY <3>1, <3>4, SafeAppended
    <3>5. QED
      BY <3>2, <3>3, <3>4
  <2>9. CASE Damage
    <3>1. damage' # 0
      BY <2>9 DEF Damage, TypeInv, TypeOK
    <3>2. file'.tail = file.tail /\ pc' = pc /\ recovers' = recovers
      BY <2>9 DEF Damage, TypeInv, TypeOK, Files
    <3>3. QED
      BY <3>1, <3>2 DEF AppendsOnALineBoundary, NeverCorrupt, ReturnedRecordsAreKept,
                        TrailingPartial
  <2>10. CASE UNCHANGED vars
    BY <2>10 DEF vars, AppendsOnALineBoundary, NeverCorrupt, ReturnedRecordsAreKept, Readable
  <2>11. QED
    BY <2>1, <2>2, <2>3, <2>4, <2>5, <2>6, <2>7, <2>8, <2>9, <2>10 DEF Next
<1>3. QED
  BY <1>1, <1>2, TypeInvInvariant, PTL DEF Spec

\* A journal whose writers recover it before they append never holds a
\* terminated line that does not decode, however many of them die and wherever.
THEOREM JournalNeverCorrupted == Spec => []NeverCorrupt
<1>1. SafeInv => NeverCorrupt
  BY DEF SafeInv
<1>2. QED
  BY <1>1, SafeInvInvariant, PTL

\* And every record whose append has returned stays on a line of its own.
THEOREM JournalKeepsReturnedRecords == Spec => []ReturnedRecordsAreKept
<1>1. SafeInv => ReturnedRecordsAreKept
  BY DEF SafeInv
<1>2. QED
  BY <1>1, SafeInvInvariant, PTL

\* Recovery never touches a file it finds corrupt (ADR-001, malformed
\* terminated records).
THEOREM JournalLeavesCorruptionAlone == Spec => CorruptionLeftAlone
<1>1. TypeInv /\ [Next]_vars =>
          [(pc \in {"down", "open"} /\ ~Readable(file) /\ damage' = damage)
              => UNCHANGED file]_vars
  <2> SUFFICES ASSUME TypeInv, [Next]_vars, pc \in {"down", "open"}, ~Readable(file),
                      damage' = damage
               PROVE  UNCHANGED file
    OBVIOUS
  <2> QED
    BY DEF Next, vars, Open, SkipRecovery, NothingToRecover, Truncate, RefuseCorruption,
           BeginAppend, CompleteAppend, Crash, Damage, TypeInv, TypeOK
<1>2. QED
  BY <1>1, TypeInvInvariant, PTL DEF Spec, CorruptionLeftAlone

=============================================================================
