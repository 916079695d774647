------------------------ MODULE PhysicalSessionsProofs ------------------------
(***************************************************************************)
(* Proofs about PhysicalSessions, for any number of slots, shards, session *)
(* directories and deaths.  Inv is inductive: what the process knows of    *)
(* the sessions of its slot (Position) keeps a second live session out of  *)
(* the slot, and the sources of the loop are the completed sessions, so    *)
(* the combination of them is complete.                                    *)
(***************************************************************************)
EXTENDS PhysicalSessions, FiniteSetTheorems, TLAPS

USE SessionAssumption

----------------------------------------------------------------------------
(* What each step does to the session directories *)

LEMMA IdRange == \A d \in Ids : d \in 0..MaxDirs /\ d # 0
BY DEF Ids

LEMMA NoDirectoryType == NoDirectory \in Directory
<1>1. 0 \in 0..Slots /\ 0 \in 0..Shards /\ 0 \in 0..MaxDirs
  OBVIOUS
<1>2. QED
  BY <1>1 DEF NoDirectory, Directory

LEMMA OneDirectory ==
    ASSUME dirs \in [Ids -> Directory], NEW d \in Ids, NEW r \in Directory,
           dirs' = [dirs EXCEPT ![d] = r]
    PROVE  /\ dirs' \in [Ids -> Directory]
           /\ dirs'[d] = r
           /\ \A e \in Ids : e # d => dirs'[e] = dirs[e]
OBVIOUS

LEMMA AnnounceUpdate ==
    ASSUME NEW r \in Directory, NEW d \in Ids
    PROVE  LET n == [r EXCEPT !.announced = @ \cup {d}]
           IN  /\ n \in Directory /\ n.announced = r.announced \cup {d}
               /\ n.status = r.status /\ n.slot = r.slot /\ n.shards = r.shards
               /\ n.broken = r.broken /\ n.dataset = r.dataset /\ n.parent = r.parent
               /\ n.replacement = r.replacement
BY DEF Directory, Ids

LEMMA MarkUpdate ==
    ASSUME NEW r \in Directory, NEW d \in Ids
    PROVE  LET n == [r EXCEPT !.status = "interrupted", !.replacement = d]
           IN  /\ n \in Directory /\ n.announced = r.announced
               /\ n.status = "interrupted" /\ n.slot = r.slot /\ n.shards = r.shards
               /\ n.broken = r.broken /\ n.dataset = r.dataset /\ n.parent = r.parent
               /\ n.replacement = d
<1>1. d \in 0..MaxDirs
  BY IdRange
<1>2. QED
  BY <1>1 DEF Directory

LEMMA CreateUpdate ==
    ASSUME NEW s \in 1..Slots, NEW d \in 0..MaxDirs
    PROVE  LET n == [NoDirectory EXCEPT !.status = "active", !.slot = s, !.parent = d]
           IN  /\ n \in Directory /\ n.status = "active" /\ n.slot = s /\ n.parent = d
               /\ n.shards = 0 /\ n.replacement = 0 /\ n.announced = {}
               /\ n.dataset = "absent"
<1>1. s \in 0..Slots /\ 0 \in 0..Shards /\ 0 \in 0..MaxDirs
  OBVIOUS
<1>2. QED
  BY <1>1 DEF Directory, NoDirectory

LEMMA ShardUpdate ==
    ASSUME NEW r \in Directory, r.shards < Shards
    PROVE  LET n == [r EXCEPT !.shards = @ + 1]
           IN  /\ n \in Directory /\ n.announced = r.announced
               /\ n.status = r.status /\ n.slot = r.slot /\ n.parent = r.parent
               /\ n.dataset = r.dataset /\ n.replacement = r.replacement
<1>1. r.shards + 1 \in 0..Shards
  BY DEF Directory
<1>2. QED
  BY <1>1 DEF Directory

LEMMA BrokenUpdate ==
    ASSUME NEW r \in Directory
    PROVE  LET n == [r EXCEPT !.broken = TRUE]
           IN  /\ n \in Directory /\ n.announced = r.announced
               /\ n.status = r.status /\ n.slot = r.slot /\ n.parent = r.parent
               /\ n.dataset = r.dataset /\ n.replacement = r.replacement
               /\ n.shards = r.shards
BY DEF Directory

LEMMA DatasetUpdate ==
    ASSUME NEW r \in Directory, NEW s \in {"active", "ok", "torn"}
    PROVE  LET n == [r EXCEPT !.dataset = s]
           IN  /\ n \in Directory /\ n.announced = r.announced
               /\ n.status = r.status /\ n.slot = r.slot /\ n.parent = r.parent
               /\ n.dataset = s /\ n.replacement = r.replacement
               /\ n.shards = r.shards /\ n.broken = r.broken
BY DEF Directory

LEMMA CompleteUpdate ==
    ASSUME NEW r \in Directory
    PROVE  LET n == [r EXCEPT !.status = "completed"]
           IN  /\ n \in Directory /\ n.announced = r.announced
               /\ n.status = "completed" /\ n.slot = r.slot /\ n.parent = r.parent
               /\ n.dataset = r.dataset /\ n.replacement = r.replacement
               /\ n.shards = r.shards /\ n.broken = r.broken
BY DEF Directory

----------------------------------------------------------------------------
(* Type correctness *)

\* The slot and the directories a process works on.
Working ==
    /\ pc # "idle" => slot \in 1..Slots
    /\ pc \in {"mark", "create", "acquire", "manifest", "complete", "refresh"} => dir \in Ids
    /\ pc \in {"interrupt", "mark"} => replaced \in Ids

TypeInv == TypeOK /\ Working

LEMMA LeaveType ==
    ASSUME NEW result \in {"none", "completed", "error"}, Leave(result)
    PROVE  /\ pc' \in Points /\ slot' \in 0..Slots /\ dir' \in 0..MaxDirs
           /\ replaced' \in 0..MaxDirs /\ sources' \in [1..Slots -> 0..MaxDirs]
           /\ outcome' \in {"none", "completed", "error"}
           /\ Working'
BY DEF Leave, Points, Working

LEMMA CollectType ==
    ASSUME TypeInv, pc # "idle", NEW d \in Ids, Collect(d)
    PROVE  /\ pc' \in Points /\ slot' \in 0..Slots /\ dir' \in 0..MaxDirs
           /\ replaced' \in 0..MaxDirs /\ sources' \in [1..Slots -> 0..MaxDirs]
           /\ Working'
BY DEF Collect, Points, Working, TypeInv, TypeOK, Ids

LEMMA InitType == Init => TypeInv
<1> SUFFICES ASSUME Init PROVE TypeInv
  OBVIOUS
<1>1. dirs \in [Ids -> Directory]
  BY NoDirectoryType DEF Init
<1>2. /\ slot \in 0..Slots /\ dir \in 0..MaxDirs /\ replaced \in 0..MaxDirs
      /\ sources \in [1..Slots -> 0..MaxDirs]
  BY DEF Init
<1>3. /\ combined \in SUBSET Rows /\ combinedBroken \in BOOLEAN /\ crashes \in Nat
      /\ manifest \in {"absent", "torn", "ok"} /\ pc \in Points
      /\ outcome \in {"none", "completed", "error"} /\ Working
  BY DEF Init, Points, Working
<1>4. QED
  BY <1>1, <1>2, <1>3 DEF TypeInv, TypeOK

LEMMA SessionType == TypeInv /\ Session => TypeInv'
<1> SUFFICES ASSUME TypeInv, Session PROVE TypeInv'
  OBVIOUS
<1> USE DEF TypeInv, TypeOK, Points, files
<1>1. CASE PickFresh
  BY <1>1 DEF PickFresh, Working, Ids
<1>2. CASE PickCompleted
  <2>1. PICK d \in Existing(slot) :
           /\ IF dirs[d].dataset = "ok"
              THEN Collect(d) /\ UNCHANGED outcome
              ELSE Leave("error")
           /\ pc = "pick" /\ UNCHANGED <<files, crashes>>
    BY <1>2 DEF PickCompleted
  <2>2. d \in Ids
    BY DEF Existing, InSlot
  <2>3. QED
    BY <2>1, <2>2, CollectType, LeaveType
<1>3. CASE PickIncomplete
  <2>1. replaced' \in Ids
    BY <1>3 DEF PickIncomplete, Existing, InSlot
  <2>2. QED
    BY <1>3, <2>1 DEF PickIncomplete, Working, Ids
<1>4. CASE Interrupt
  <2>1. CASE pc' = "mark"
    <3> DEFINE r == [dirs[replaced] EXCEPT !.announced = @ \cup {dir'}]
    <3>1. /\ pc = "interrupt" /\ dir' \in Ids /\ dirs' = [dirs EXCEPT ![replaced] = r]
          /\ UNCHANGED <<slot, replaced, sources, outcome>>
      BY <1>4, <2>1 DEF Interrupt, Leave
    <3>2. replaced \in Ids /\ r \in Directory
      BY <3>1, AnnounceUpdate DEF Working
    <3> HIDE DEF r
    <3>3. dirs' \in [Ids -> Directory]
      BY <3>1, <3>2, OneDirectory
    <3>4. QED
      BY <1>4, <2>1, <3>1, <3>2, <3>3 DEF Interrupt, Working, Ids
  <2>2. CASE pc' # "mark"
    <3>1. Leave("error") /\ UNCHANGED dirs
      BY <1>4, <2>2 DEF Interrupt
    <3>2. QED
      BY <1>4, <3>1, LeaveType DEF Interrupt
  <2>3. QED
    BY <2>1, <2>2
<1>5. CASE Mark
  <2> DEFINE r == [dirs[replaced] EXCEPT !.status = "interrupted", !.replacement = dir]
  <2>1. pc = "mark" /\ replaced \in Ids /\ dir \in Ids
    BY <1>5 DEF Mark, Working
  <2>2. dirs' = [dirs EXCEPT ![replaced] = r]
    BY <1>5, <2>1 DEF Mark
  <2>3. r \in Directory
    BY <2>1, MarkUpdate
  <2> HIDE DEF r
  <2>4. dirs' \in [Ids -> Directory]
    BY <2>1, <2>2, <2>3, OneDirectory
  <2>5. QED
    BY <1>5, <2>1, <2>4 DEF Mark, Working
<1>6. CASE Create
  <2> DEFINE r == [NoDirectory EXCEPT !.status = "active", !.slot = slot, !.parent = replaced]
  <2>1. pc = "create" /\ dir \in Ids /\ slot \in 1..Slots
    BY <1>6 DEF Create, Working
  <2>2. dirs' = [dirs EXCEPT ![dir] = r] /\ r \in Directory
    BY <1>6, <2>1, CreateUpdate DEF Create
  <2> HIDE DEF r
  <2>3. dirs' \in [Ids -> Directory]
    BY <2>1, <2>2, OneDirectory
  <2>4. QED
    BY <1>6, <2>1, <2>3 DEF Create, Working
<1>7. CASE AcquireShard
  <2> DEFINE r == [dirs[dir] EXCEPT !.shards = @ + 1]
  <2>1. pc = "acquire" /\ dir \in Ids
    BY <1>7 DEF AcquireShard, Working
  <2>2. dirs' = [dirs EXCEPT ![dir] = r] /\ r \in Directory
    BY <1>7, <2>1, ShardUpdate DEF AcquireShard
  <2> HIDE DEF r
  <2>3. dirs' \in [Ids -> Directory]
    BY <2>1, <2>2, OneDirectory
  <2>4. QED
    BY <1>7, <2>1, <2>3 DEF AcquireShard, Working
<1>8. CASE EndAcquisition
  BY <1>8 DEF EndAcquisition, Working
<1>9. CASE WriteManifest
  <2> DEFINE s == IF pc = "manifest" THEN "active" ELSE "ok"
             r == [dirs[dir] EXCEPT !.dataset = s]
  <2>1. pc \in {"manifest", "refresh"} /\ dir \in Ids
    BY <1>9 DEF WriteManifest, Working
  <2>2. dirs' = [dirs EXCEPT ![dir] = r] /\ r \in Directory
    BY <1>9, <2>1, DatasetUpdate DEF WriteManifest
  <2> HIDE DEF r
  <2>3. dirs' \in [Ids -> Directory]
    BY <2>1, <2>2, OneDirectory
  <2>4. QED
    BY <1>9, <2>1, <2>3, CollectType DEF WriteManifest, Working
<1>10. CASE Complete
  <2> DEFINE r == [dirs[dir] EXCEPT !.status = "completed"]
  <2>1. pc = "complete" /\ dir \in Ids
    BY <1>10 DEF Complete, Working
  <2>2. dirs' = [dirs EXCEPT ![dir] = r] /\ r \in Directory
    BY <1>10, <2>1, CompleteUpdate DEF Complete
  <2> HIDE DEF r
  <2>3. dirs' \in [Ids -> Directory]
    BY <2>1, <2>2, OneDirectory
  <2>4. QED
    BY <1>10, <2>1, <2>3 DEF Complete, Working
<1>11. QED
  BY <1>1, <1>2, <1>3, <1>4, <1>5, <1>6, <1>7, <1>8, <1>9, <1>10 DEF Session

LEMMA CombinationType == TypeInv /\ Combination => TypeInv'
<1> SUFFICES ASSUME TypeInv, Combination PROVE TypeInv'
  OBVIOUS
<1> USE DEF TypeInv, TypeOK, files
<1>1. CASE Combine
  BY <1>1, LeaveType DEF Combine, Working, Points
<1>2. CASE CopyShard
  <2>1. combined' \in SUBSET Rows
    BY <1>2 DEF CopyShard, SourceRows
  <2>2. QED
    BY <1>2, <2>1 DEF CopyShard, Working
<1>3. CASE AllCopied
  BY <1>3 DEF AllCopied, Working, Points
<1>4. CASE Publish
  BY <1>4, LeaveType DEF Publish
<1>5. QED
  BY <1>1, <1>2, <1>3, <1>4 DEF Combination

\* What a death leaves of the directory that was being written.
LEMMA CrashDirectories ==
    ASSUME TypeInv, Crash
    PROVE  \/ dirs' = dirs
           \/ /\ pc = "acquire" /\ dirs[dir].shards < Shards
              /\ dirs' = [dirs EXCEPT ![dir] = [dirs[dir] EXCEPT !.broken = TRUE]]
           \/ /\ pc \in {"manifest", "refresh"}
              /\ dirs' = [dirs EXCEPT ![dir] = [dirs[dir] EXCEPT !.dataset = "torn"]]
<1>1. CrashDirs
  BY DEF Crash
<1>2. CASE pc = "acquire" /\ dirs[dir].shards < Shards
  BY <1>1, <1>2 DEF CrashDirs
<1>3. CASE pc \in {"manifest", "refresh"}
  BY <1>1, <1>3 DEF CrashDirs
<1>4. CASE ~(pc = "acquire" /\ dirs[dir].shards < Shards) /\ pc \notin {"manifest", "refresh"}
  BY <1>1, <1>4 DEF CrashDirs
<1>5. QED
  BY <1>2, <1>3, <1>4

LEMMA CrashType == TypeInv /\ Crash => TypeInv'
<1> SUFFICES ASSUME TypeInv, Crash PROVE TypeInv'
  OBVIOUS
<1>1. dirs' \in [Ids -> Directory]
  <2>1. pc \in {"acquire", "manifest", "refresh"} => dir \in Ids
    BY DEF TypeInv, Working
  <2>2. dirs \in [Ids -> Directory]
    BY DEF TypeInv, TypeOK
  <2>3. CASE dirs' = dirs
    BY <2>2, <2>3
  <2>4. CASE dirs' # dirs
    <3>1. PICK r : /\ r \in {[dirs[dir] EXCEPT !.broken = TRUE], [dirs[dir] EXCEPT !.dataset = "torn"]}
                  /\ dirs' = [dirs EXCEPT ![dir] = r] /\ dir \in Ids
      BY <2>1, <2>4, CrashDirectories
    <3>2. dirs[dir] \in Directory
      BY <2>2, <3>1
    <3> DEFINE b == [dirs[dir] EXCEPT !.broken = TRUE]
               t == [dirs[dir] EXCEPT !.dataset = "torn"]
    <3>3. b \in Directory
      BY <3>2, BrokenUpdate
    <3>4. t \in Directory
      BY <3>2, DatasetUpdate
    <3> HIDE DEF b, t
    <3>5. r \in Directory
      BY <3>1, <3>3, <3>4 DEF b, t
    <3>6. QED
      BY <2>2, <3>1, <3>5, OneDirectory
  <2>5. QED
    BY <2>3, <2>4
<1>2. /\ Leave("error") /\ combined' = combined /\ crashes' = crashes + 1
      /\ manifest' \in {manifest, IF pc = "publish" THEN "torn" ELSE manifest}
      /\ combinedBroken' \in {combinedBroken, combinedBroken \/
                               (pc = "copy" /\ ~(SourceRows \subseteq combined))}
  BY DEF Crash
<1>3. combinedBroken' \in BOOLEAN
  BY <1>2 DEF TypeInv, TypeOK
<1>4. manifest' \in {"absent", "torn", "ok"} /\ crashes' \in Nat /\ combined' \in SUBSET Rows
  BY <1>2 DEF TypeInv, TypeOK
<1>5. QED
  BY <1>1, <1>2, <1>3, <1>4, LeaveType DEF TypeInv, TypeOK

LEMMA NextType == TypeInv /\ [Next]_vars => TypeInv'
<1> SUFFICES ASSUME TypeInv, [Next]_vars PROVE TypeInv'
  OBVIOUS
<1>1. CASE Start
  BY <1>1 DEF Start, TypeInv, TypeOK, Working, Points, files
<1>2. CASE UNCHANGED vars
  BY <1>2 DEF vars, TypeInv, TypeOK, Working
<1>3. QED
  BY <1>1, <1>2, SessionType, CombinationType, CrashType DEF Next

\* Every reachable state is well typed; in particular no session has more shards
\* than it was planned with.
THEOREM SessionsTypeCorrect == Spec => []TypeOK
<1>1. TypeInv => TypeOK
  BY DEF TypeInv
<1>2. QED
  BY <1>1, InitType, NextType, PTL DEF Spec

----------------------------------------------------------------------------
(* The sessions of a slot *)

Live(d) == Active(d) \/ Completed(d)
Present(d) == dirs[d].status # "absent"

\* What the process at its point of the loop knows of the session it works on
\* and of the one it replaces.
AtInterrupt ==
    /\ Present(replaced) /\ ~Completed(replaced) /\ dirs[replaced].slot = slot
    /\ \A e \in Ids : Live(e) /\ dirs[e].slot = slot => e = replaced

AtCreate ==
    /\ \A e \in Ids : Live(e) => dirs[e].slot # slot
    /\ replaced # 0 =>
        /\ Interrupted(replaced) /\ dirs[replaced].slot = slot
        /\ dirs[replaced].replacement # 0 /\ dir \in dirs[replaced].announced

Position ==
    /\ pc \in {"idle", "pick"} => replaced = 0
    /\ pc \in {"interrupt", "mark"} => AtInterrupt
    /\ pc \in {"mark", "create"} => dirs[dir].status = "absent"
    /\ pc = "mark" => dir \in dirs[replaced].announced
    /\ pc = "create" => AtCreate
    /\ pc \in {"acquire", "manifest", "complete"} => Active(dir) /\ dirs[dir].slot = slot
    /\ pc \in {"manifest", "complete"} => dirs[dir].shards = Shards
    /\ pc = "complete" => dirs[dir].dataset # "absent"
    /\ pc = "refresh" => Completed(dir) /\ dirs[dir].slot = slot

\* One live session per slot, acquired in full when it is completed.
SlotsInv ==
    /\ \A d \in Ids : Present(d) => dirs[d].slot \in 1..Slots
    /\ \A d, e \in Ids : Live(d) /\ Live(e) /\ dirs[d].slot = dirs[e].slot => d = e
    /\ \A d \in Ids : Completed(d) => dirs[d].shards = Shards

SessionInv == Position /\ SlotsInv /\ ParentsAnnounceReplacements /\ CompletedHasManifest

\* The sources are completed sessions of their slots, and the loop has them all
\* when it ends.
SourcesInv ==
    /\ \A s \in 1..Slots : sources[s] # 0 =>
        Completed(sources[s]) /\ dirs[sources[s]].slot = s
    /\ pc # "idle" => \A s \in 1..(slot - 1) : sources[s] # 0
    /\ pc \in {"combine", "copy", "publish"} => \A s \in 1..Slots : sources[s] # 0

\* What the combination has taken from them.
Copied ==
    /\ pc = "publish" => SourceRows \subseteq combined
    /\ manifest = "ok" =>
        \A s \in 1..Slots : \E d \in Ids : Completed(d) /\ dirs[d].slot = s

CombinedInv == Copied /\ CombinedIsOneSessionPerSlot

----------------------------------------------------------------------------
(* What a step does to the sessions on disk *)

\* A step that starts, interrupts and completes no session.
Keeps ==
    \A d \in Ids :
        /\ dirs'[d].status = dirs[d].status /\ dirs'[d].slot = dirs[d].slot
        /\ dirs'[d].parent = dirs[d].parent /\ dirs'[d].replacement = dirs[d].replacement
        /\ dirs[d].announced \subseteq dirs'[d].announced
        /\ dirs[d].dataset # "absent" => dirs'[d].dataset # "absent"
        /\ dirs[d].status # "active" =>
            dirs'[d].shards = dirs[d].shards /\ dirs'[d].broken = dirs[d].broken

Untouched(d) == \A e \in Ids : e # d => dirs'[e] = dirs[e]

LEMMA SameDirs == ASSUME dirs' = dirs PROVE Keeps
BY DEF Keeps

LEMMA InterruptEffect ==
    ASSUME TypeInv, Interrupt
    PROVE  /\ pc = "interrupt" /\ replaced \in Ids /\ Keeps
           /\ UNCHANGED <<combined, manifest>>
           /\ \/ Leave("error")
              \/ /\ pc' = "mark" /\ dir' \in Ids /\ dirs'[dir'].status = "absent"
                 /\ dir' \in dirs'[replaced].announced
                 /\ UNCHANGED <<slot, replaced, sources>>
<1>1. pc = "interrupt" /\ replaced \in Ids /\ dirs \in [Ids -> Directory]
      /\ UNCHANGED <<combined, manifest>>
  BY DEF Interrupt, TypeInv, TypeOK, Working
<1>2. CASE dirs[replaced].broken
  BY <1>1, <1>2, SameDirs DEF Interrupt
<1>3. CASE ~dirs[replaced].broken
  <2> DEFINE r == [dirs[replaced] EXCEPT !.announced = @ \cup {dir'}]
  <2>1. /\ dir' \in Ids /\ IsFresh(dir') /\ dirs' = [dirs EXCEPT ![replaced] = r]
        /\ pc' = "mark" /\ UNCHANGED <<slot, replaced, sources>>
    BY <1>3 DEF Interrupt
  <2>2. /\ r \in Directory /\ r.announced = dirs[replaced].announced \cup {dir'}
        /\ r.status = dirs[replaced].status /\ r.slot = dirs[replaced].slot
        /\ r.shards = dirs[replaced].shards /\ r.dataset = dirs[replaced].dataset
        /\ r.broken = dirs[replaced].broken
        /\ r.parent = dirs[replaced].parent /\ r.replacement = dirs[replaced].replacement
    BY <1>1, <2>1, AnnounceUpdate
  <2> HIDE DEF r
  <2>3. dirs'[replaced] = r /\ Untouched(replaced)
    BY <1>1, <2>1, <2>2, OneDirectory DEF Untouched
  <2>4. Keeps
    BY <2>2, <2>3 DEF Keeps, Untouched
  <2>5. dirs[dir'].status = "absent"
    BY <2>1 DEF IsFresh, Unused
  <2>6. QED
    BY <1>1, <2>1, <2>2, <2>3, <2>4, <2>5 DEF Keeps
<1>4. QED
  BY <1>2, <1>3

LEMMA MarkEffect ==
    ASSUME TypeInv, Mark
    PROVE  /\ pc = "mark" /\ replaced \in Ids /\ dir \in Ids /\ Untouched(replaced)
           /\ pc' = "create" /\ UNCHANGED <<slot, dir, replaced, sources, combined, manifest>>
           /\ dirs'[replaced].status = "interrupted" /\ dirs'[replaced].replacement = dir
           /\ dirs'[replaced].slot = dirs[replaced].slot
           /\ dirs'[replaced].parent = dirs[replaced].parent
           /\ dirs'[replaced].announced = dirs[replaced].announced
           /\ dirs'[replaced].shards = dirs[replaced].shards
           /\ dirs'[replaced].broken = dirs[replaced].broken
<1> DEFINE r == [dirs[replaced] EXCEPT !.status = "interrupted", !.replacement = dir]
<1>1. /\ pc = "mark" /\ replaced \in Ids /\ dir \in Ids /\ dirs \in [Ids -> Directory]
      /\ pc' = "create" /\ UNCHANGED <<slot, dir, replaced, sources, combined, manifest>>
  BY DEF Mark, TypeInv, TypeOK, Working
<1>2. dirs' = [dirs EXCEPT ![replaced] = r]
  BY <1>1 DEF Mark
<1>3. /\ r \in Directory /\ r.status = "interrupted" /\ r.replacement = dir
      /\ r.slot = dirs[replaced].slot /\ r.parent = dirs[replaced].parent
      /\ r.announced = dirs[replaced].announced
      /\ r.shards = dirs[replaced].shards /\ r.broken = dirs[replaced].broken
  <2>1. dirs[replaced] \in Directory /\ dir \in Ids
    BY <1>1
  <2>2. QED
    BY <2>1, MarkUpdate, Zenon
<1> HIDE DEF r
<1>4. dirs'[replaced] = r /\ Untouched(replaced)
  BY <1>1, <1>2, <1>3, OneDirectory DEF Untouched
<1>5. QED
  BY <1>1, <1>3, <1>4

LEMMA CreateEffect ==
    ASSUME TypeInv, Create
    PROVE  /\ pc = "create" /\ dir \in Ids /\ slot \in 1..Slots /\ Untouched(dir)
           /\ pc' = "acquire" /\ UNCHANGED <<slot, dir, replaced, sources, combined, manifest>>
           /\ dirs'[dir].status = "active" /\ dirs'[dir].slot = slot
           /\ dirs'[dir].parent = replaced
<1> DEFINE r == [NoDirectory EXCEPT !.status = "active", !.slot = slot, !.parent = replaced]
<1>1. /\ pc = "create" /\ dir \in Ids /\ slot \in 1..Slots /\ dirs \in [Ids -> Directory]
      /\ replaced \in 0..MaxDirs
      /\ pc' = "acquire" /\ UNCHANGED <<slot, dir, replaced, sources, combined, manifest>>
  BY DEF Create, TypeInv, TypeOK, Working
<1>2. dirs' = [dirs EXCEPT ![dir] = r]
  BY DEF Create
<1>3. r \in Directory /\ r.status = "active" /\ r.slot = slot /\ r.parent = replaced
  <2>1. slot \in 0..Slots /\ 0 \in 0..Shards /\ 0 \in 0..MaxDirs
    BY <1>1
  <2>2. QED
    BY <1>1, <2>1 DEF NoDirectory, Directory
<1> HIDE DEF r
<1>4. dirs'[dir] = r /\ Untouched(dir)
  BY <1>1, <1>2, <1>3, OneDirectory DEF Untouched
<1>5. QED
  BY <1>1, <1>3, <1>4

LEMMA AcquireEffect ==
    ASSUME TypeInv, AcquireShard, Active(dir)
    PROVE  /\ pc = "acquire" /\ Keeps
           /\ UNCHANGED <<pc, slot, dir, replaced, sources, combined, manifest>>
<1> DEFINE r == [dirs[dir] EXCEPT !.shards = @ + 1]
<1>1. /\ pc = "acquire" /\ dir \in Ids /\ dirs \in [Ids -> Directory]
      /\ dirs' = [dirs EXCEPT ![dir] = r]
      /\ UNCHANGED <<pc, slot, dir, replaced, sources, combined, manifest>>
  BY DEF AcquireShard, TypeInv, TypeOK, Working
<1>2. /\ r \in Directory /\ r.status = dirs[dir].status /\ r.slot = dirs[dir].slot
      /\ r.parent = dirs[dir].parent /\ r.replacement = dirs[dir].replacement
      /\ r.announced = dirs[dir].announced /\ r.dataset = dirs[dir].dataset
  BY <1>1, ShardUpdate DEF AcquireShard
<1> HIDE DEF r
<1>3. dirs'[dir] = r /\ Untouched(dir)
  BY <1>1, <1>2, OneDirectory DEF Untouched
<1>4. QED
  BY <1>1, <1>2, <1>3 DEF Keeps, Untouched, Active

LEMMA WriteEffect ==
    ASSUME TypeInv, WriteManifest
    PROVE  /\ dir \in Ids /\ Keeps /\ dirs'[dir].dataset # "absent"
           /\ dirs'[dir].shards = dirs[dir].shards /\ UNCHANGED <<combined, manifest>>
           /\ \/ /\ pc = "manifest" /\ pc' = "complete"
                 /\ UNCHANGED <<slot, dir, replaced, sources>>
              \/ pc = "refresh" /\ Collect(dir)
<1> DEFINE s == IF pc = "manifest" THEN "active" ELSE "ok"
           r == [dirs[dir] EXCEPT !.dataset = s]
<1>1. /\ dir \in Ids /\ dirs \in [Ids -> Directory] /\ UNCHANGED <<combined, manifest>>
      /\ dirs' = [dirs EXCEPT ![dir] = r]
      /\ \/ /\ pc = "manifest" /\ pc' = "complete"
            /\ UNCHANGED <<slot, dir, replaced, sources>>
         \/ pc = "refresh" /\ Collect(dir)
  BY DEF WriteManifest, TypeInv, TypeOK, Working
<1>0. s \in {"active", "ok", "torn"} /\ s # "absent"
  OBVIOUS
<1> HIDE DEF s
<1>2. /\ r \in Directory /\ r.status = dirs[dir].status /\ r.slot = dirs[dir].slot
      /\ r.parent = dirs[dir].parent /\ r.replacement = dirs[dir].replacement
      /\ r.announced = dirs[dir].announced /\ r.dataset # "absent"
      /\ r.shards = dirs[dir].shards /\ r.broken = dirs[dir].broken
  <2>1. dirs[dir] \in Directory
    BY <1>1
  <2>2. /\ r \in Directory /\ r.announced = dirs[dir].announced
        /\ r.status = dirs[dir].status /\ r.slot = dirs[dir].slot
        /\ r.parent = dirs[dir].parent /\ r.dataset = s
        /\ r.replacement = dirs[dir].replacement
        /\ r.shards = dirs[dir].shards /\ r.broken = dirs[dir].broken
    BY <2>1, <1>0, DatasetUpdate
  <2>3. s # "absent"
    BY <1>0
  <2>4. QED
    BY <2>2, <2>3
<1> HIDE DEF r
<1>3. dirs'[dir] = r /\ Untouched(dir)
  BY <1>1, <1>2, OneDirectory DEF Untouched
<1>4. Keeps
  BY <1>2, <1>3 DEF Keeps, Untouched
<1>5. QED
  BY <1>1, <1>2, <1>3, <1>4

LEMMA CompleteEffect ==
    ASSUME TypeInv, Complete
    PROVE  /\ pc = "complete" /\ dir \in Ids /\ Untouched(dir)
           /\ pc' = "refresh" /\ UNCHANGED <<slot, dir, replaced, sources, combined, manifest>>
           /\ dirs'[dir].status = "completed" /\ dirs'[dir].slot = dirs[dir].slot
           /\ dirs'[dir].parent = dirs[dir].parent /\ dirs'[dir].shards = dirs[dir].shards
           /\ dirs'[dir].dataset = dirs[dir].dataset
<1> DEFINE r == [dirs[dir] EXCEPT !.status = "completed"]
<1>1. /\ pc = "complete" /\ dir \in Ids /\ dirs \in [Ids -> Directory]
      /\ pc' = "refresh" /\ UNCHANGED <<slot, dir, replaced, sources, combined, manifest>>
      /\ dirs' = [dirs EXCEPT ![dir] = r]
  BY DEF Complete, TypeInv, TypeOK, Working
<1>2. /\ r \in Directory /\ r.status = "completed" /\ r.slot = dirs[dir].slot
      /\ r.parent = dirs[dir].parent /\ r.shards = dirs[dir].shards
      /\ r.dataset = dirs[dir].dataset
  BY <1>1, CompleteUpdate
<1> HIDE DEF r
<1>3. dirs'[dir] = r /\ Untouched(dir)
  BY <1>1, <1>2, OneDirectory DEF Untouched
<1>4. QED
  BY <1>1, <1>2, <1>3

LEMMA CrashEffect ==
    ASSUME TypeInv, SessionInv, Crash
    PROVE  Keeps /\ Leave("error") /\ combined' = combined
           /\ (manifest' = "ok" => manifest = "ok")
<1>1. dirs \in [Ids -> Directory] /\ (pc \in {"acquire", "manifest", "refresh"} => dir \in Ids)
  BY DEF TypeInv, TypeOK, Working
<1>2. Leave("error") /\ combined' = combined /\ (manifest' = "ok" => manifest = "ok")
  BY DEF Crash
<1>3. CASE dirs' = dirs
  BY <1>2, <1>3, SameDirs
<1>4. CASE dirs' # dirs
  <2> DEFINE b == [dirs[dir] EXCEPT !.broken = TRUE]
             t == [dirs[dir] EXCEPT !.dataset = "torn"]
  <2>1. PICK r : /\ r \in {b, t} /\ dirs' = [dirs EXCEPT ![dir] = r] /\ dir \in Ids
                 /\ r = b /\ r # t => dirs[dir].status = "active"
    BY <1>1, <1>4, CrashDirectories DEF SessionInv, Position, Active
  <2>2. dirs[dir] \in Directory
    BY <1>1, <2>1
  <2>3. /\ b \in Directory /\ b.status = dirs[dir].status /\ b.slot = dirs[dir].slot
        /\ b.parent = dirs[dir].parent /\ b.replacement = dirs[dir].replacement
        /\ b.announced = dirs[dir].announced /\ b.dataset = dirs[dir].dataset
        /\ b.shards = dirs[dir].shards
    BY <2>2, BrokenUpdate
  <2>4. /\ t \in Directory /\ t.status = dirs[dir].status /\ t.slot = dirs[dir].slot
        /\ t.parent = dirs[dir].parent /\ t.replacement = dirs[dir].replacement
        /\ t.announced = dirs[dir].announced /\ t.dataset = "torn"
        /\ t.shards = dirs[dir].shards /\ t.broken = dirs[dir].broken
    BY <2>2, DatasetUpdate
  <2> HIDE DEF b, t
  <2>5. r \in Directory
    BY <2>1, <2>3, <2>4
  <2>6. dirs'[dir] = r /\ Untouched(dir)
    BY <1>1, <2>1, <2>5, OneDirectory DEF Untouched
  <2>7. Keeps
    BY <2>1, <2>3, <2>4, <2>6 DEF Keeps, Untouched
  <2>8. QED
    BY <1>2, <2>7
<1>5. QED
  BY <1>3, <1>4

----------------------------------------------------------------------------
(* The session of a slot is found by precedence *)

LEMMA ExistingSessions ==
    ASSUME TypeInv, slot \in 1..Slots
    PROVE  /\ Existing(slot) = {} => \A e \in Ids : Present(e) => dirs[e].slot # slot
           /\ \A d \in Existing(slot) :
                /\ d \in Ids /\ Present(d) /\ dirs[d].slot = slot
                /\ ~Completed(d) => \A e \in Ids : Completed(e) => dirs[e].slot # slot
                /\ Interrupted(d) => \A e \in Ids : Live(e) => dirs[e].slot # slot
<1> DEFINE W(i) == {d \in InSlot(slot) : dirs[d].status = Precedence[i]}
           J == {j \in 1..3 : \A k \in 1..(j - 1) : W(k) = {}}
<1>1. Existing(slot) = UNION {W(i) : i \in J}
  BY DEF Existing
<1>2. /\ W(1) = {d \in InSlot(slot) : dirs[d].status = "completed"}
      /\ W(2) = {d \in InSlot(slot) : dirs[d].status = "active"}
      /\ W(3) = {d \in InSlot(slot) : dirs[d].status = "interrupted"}
  BY DEF Precedence
<1>3. \A i \in J : i \in 1..3 /\ (i # 1 => W(1) = {}) /\ (i = 3 => W(2) = {})
  <2> SUFFICES ASSUME NEW i \in J
               PROVE  i \in 1..3 /\ (i # 1 => W(1) = {}) /\ (i = 3 => W(2) = {})
    OBVIOUS
  <2>1. i \in 1..3 /\ \A k \in 1..(i - 1) : W(k) = {}
    OBVIOUS
  <2> HIDE DEF W, J
  <2>2. i # 1 => 1 \in 1..(i - 1)
    BY <2>1
  <2>3. i = 3 => 2 \in 1..(i - 1)
    BY <2>1
  <2>4. QED
    BY <2>1, <2>2, <2>3
<1>4. /\ 1 \in J
      /\ W(1) = {} => 2 \in J
      /\ W(1) = {} /\ W(2) = {} => 3 \in J
  <2> HIDE DEF W
  <2>1. 1..(1 - 1) = {} /\ 1..(2 - 1) = {1} /\ 1..(3 - 1) = {1, 2}
    OBVIOUS
  <2>2. QED
    BY <2>1
<1>5. \A d \in InSlot(slot) : d \in Ids /\ Present(d) /\ dirs[d].slot = slot
  BY DEF InSlot, Present
<1>6. \A d \in Ids : Present(d) /\ dirs[d].slot = slot =>
        d \in InSlot(slot) /\ dirs[d].status \in {"completed", "active", "interrupted"}
  BY DEF InSlot, Present, TypeInv, TypeOK, Directory
<1>7. \A i \in J : W(i) \subseteq Existing(slot)
  BY <1>1
<1> HIDE DEF J
<1>8. ASSUME Existing(slot) = {}
      PROVE  \A e \in Ids : Present(e) => dirs[e].slot # slot
  <2>1. W(1) = {}
    BY <1>4, <1>7, <1>8
  <2>2. W(2) = {}
    BY <1>4, <1>7, <1>8, <2>1
  <2>3. W(3) = {}
    BY <1>4, <1>7, <1>8, <2>1, <2>2
  <2>4. QED
    BY <1>2, <1>6, <2>1, <2>2, <2>3
<1>9. ASSUME NEW d \in Existing(slot)
      PROVE  /\ d \in Ids /\ Present(d) /\ dirs[d].slot = slot
             /\ ~Completed(d) => \A e \in Ids : Completed(e) => dirs[e].slot # slot
             /\ Interrupted(d) => \A e \in Ids : Live(e) => dirs[e].slot # slot
  <2>1. PICK i \in J : d \in W(i)
    BY <1>1
  <2>2. d \in InSlot(slot)
    BY <2>1
  <2>3. ~Completed(d) => i # 1
    BY <1>2, <2>1 DEF Completed
  <2>4. Interrupted(d) => i = 3
    BY <1>2, <1>3, <2>1 DEF Interrupted
  <2>5. ~Completed(d) => W(1) = {}
    BY <1>3, <2>3
  <2>6. Interrupted(d) => W(1) = {} /\ W(2) = {}
    BY <1>3, <2>4
  <2>7. W(1) = {} => \A e \in Ids : Completed(e) => dirs[e].slot # slot
    BY <1>2, <1>6 DEF Completed, Present
  <2>8. W(2) = {} => \A e \in Ids : Active(e) => dirs[e].slot # slot
    BY <1>2, <1>6 DEF Active, Present
  <2>9. QED
    BY <1>5, <2>2, <2>5, <2>6, <2>7, <2>8 DEF Live
<1>10. QED
  BY <1>8, <1>9

----------------------------------------------------------------------------
(* One live session per slot, and what its parents say *)

\* The directory a session names as its parent is an interrupted one that announces it.
LEMMA ParentFacts ==
    ASSUME TypeInv, SessionInv, NEW d \in Ids,
           dirs[d].status # "absent", dirs[d].parent # 0
    PROVE  \E p \in Ids : /\ p = dirs[d].parent /\ dirs[p].status = "interrupted"
                          /\ dirs[p].replacement # 0 /\ d \in dirs[p].announced
                          /\ dirs[p].slot = dirs[d].slot
<1>1. dirs[d].parent \in Ids
  <2>1. dirs[d] \in Directory
    BY DEF TypeInv, TypeOK
  <2>2. QED
    BY <2>1 DEF Directory, Ids
<1>2. QED
  BY <1>1 DEF SessionInv, ParentsAnnounceReplacements

LEMMA KeepsSessions ==
    ASSUME TypeInv, SessionInv, Keeps
    PROVE  SlotsInv' /\ ParentsAnnounceReplacements' /\ CompletedHasManifest'
<1>1. SlotsInv'
  <2>1. SlotsInv
    BY DEF SessionInv
  <2>2. \A d \in Ids : dirs'[d].status = dirs[d].status /\ dirs'[d].slot = dirs[d].slot
    BY DEF Keeps
  <2>3. \A d \in Ids : Completed(d) => dirs'[d].shards = dirs[d].shards
    BY DEF Keeps, Completed
  <2>4. QED
    BY <2>1, <2>2, <2>3 DEF SlotsInv, Present, Live, Active, Completed
<1>2. ParentsAnnounceReplacements'
  <2> SUFFICES ASSUME NEW d \in Ids, dirs'[d].status # "absent", dirs'[d].parent # 0
               PROVE  /\ dirs'[dirs'[d].parent].status = "interrupted"
                      /\ dirs'[dirs'[d].parent].replacement # 0
                      /\ d \in dirs'[dirs'[d].parent].announced
                      /\ dirs'[dirs'[d].parent].slot = dirs'[d].slot
    BY DEF ParentsAnnounceReplacements
  <2>1. dirs[d].status # "absent" /\ dirs[d].parent # 0 /\ dirs'[d].parent = dirs[d].parent
        /\ dirs'[d].slot = dirs[d].slot
    BY DEF Keeps
  <2>2. PICK p \in Ids : /\ p = dirs[d].parent /\ dirs[p].status = "interrupted"
                       /\ dirs[p].replacement # 0 /\ d \in dirs[p].announced
                       /\ dirs[p].slot = dirs[d].slot
    BY <2>1, ParentFacts
  <2>3. /\ dirs'[p].status = "interrupted" /\ dirs'[p].replacement # 0
        /\ d \in dirs'[p].announced /\ dirs'[p].slot = dirs[d].slot
    BY <2>2 DEF Keeps
  <2>4. QED
    BY <2>1, <2>2, <2>3
<1>3. CompletedHasManifest'
  BY DEF SessionInv, CompletedHasManifest, Keeps, Completed
<1>4. QED
  BY <1>1, <1>2, <1>3

LEMMA LeavePosition == ASSUME NEW result, Leave(result) PROVE Position'
BY DEF Leave, Position

LEMMA CollectPosition == ASSUME NEW d, Collect(d) PROVE Position'
BY DEF Collect, Position

LEMMA InitSessions == Init => SessionInv
BY DEF Init, SessionInv, Position, SlotsInv, ParentsAnnounceReplacements,
       CompletedHasManifest, NoDirectory, Present, Live, Active, Completed
LEMMA PickSessions ==
    ASSUME TypeInv, SessionInv, PickFresh \/ PickCompleted \/ PickIncomplete
    PROVE  Keeps /\ Position'
<1>1. pc = "pick" /\ slot \in 1..Slots /\ replaced = 0
  BY DEF PickFresh, PickCompleted, PickIncomplete, TypeInv, Working, SessionInv, Position
<1>2. dirs' = dirs /\ Keeps
  BY SameDirs DEF PickFresh, PickCompleted, PickIncomplete, files
<1>3. CASE PickFresh
  <2>1. /\ pc' = "create" /\ dir' \in Ids /\ slot' = slot /\ replaced' = 0
        /\ dirs[dir'].status = "absent" /\ Existing(slot) = {}
    BY <1>1, <1>3 DEF PickFresh, IsFresh, Unused
  <2>2. AtCreate'
    BY <1>1, <1>2, <2>1, ExistingSessions
       DEF AtCreate, Live, Active, Completed, Present
  <2>3. QED
    BY <1>2, <2>1, <2>2 DEF Position
<1>4. CASE PickCompleted
  <2>1. Leave("error") \/ \E d \in Existing(slot) : Collect(d)
    BY <1>4 DEF PickCompleted
  <2>2. QED
    BY <1>2, <2>1, LeavePosition, CollectPosition
<1>5. CASE PickIncomplete
  <2>1. PICK d \in Existing(slot) : ~Completed(d) /\ replaced' = d
    BY <1>5 DEF PickIncomplete, Completed
  <2>2. /\ d \in Ids /\ Present(d) /\ dirs[d].slot = slot
        /\ \A e \in Ids : Completed(e) => dirs[e].slot # slot
        /\ Interrupted(d) => \A e \in Ids : Live(e) => dirs[e].slot # slot
    BY <1>1, <2>1, ExistingSessions
  <2>3. Active(d) \/ Interrupted(d)
    BY <2>1, <2>2 DEF Present, Active, Interrupted, Completed, TypeInv, TypeOK, Directory
  <2>4. \A e \in Ids : Live(e) /\ dirs[e].slot = slot => e = d
    BY <2>2, <2>3 DEF SessionInv, SlotsInv, Live
  <2>5. pc' = "interrupt" /\ slot' = slot
    BY <1>5 DEF PickIncomplete
  <2>6. AtInterrupt'
    BY <1>2, <2>1, <2>2, <2>4, <2>5
       DEF AtInterrupt, Present, Live, Active, Completed
  <2>7. QED
    BY <1>2, <2>5, <2>6 DEF Position
<1>6. QED
  BY <1>2, <1>3, <1>4, <1>5

LEMMA InterruptSessions ==
    ASSUME TypeInv, SessionInv, Interrupt
    PROVE  Keeps /\ Position'
<1>1. CASE Leave("error")
  BY <1>1, InterruptEffect, LeavePosition
<1>2. CASE ~Leave("error")
  <2>1. /\ pc = "interrupt" /\ replaced \in Ids /\ Keeps
        /\ pc' = "mark" /\ dir' \in Ids /\ dirs'[dir'].status = "absent"
        /\ dir' \in dirs'[replaced].announced
        /\ UNCHANGED <<slot, replaced, sources>>
    BY <1>2, InterruptEffect
  <2>2. AtInterrupt
    BY <2>1 DEF SessionInv, Position
  <2>3. AtInterrupt'
    BY <2>1, <2>2 DEF AtInterrupt, Keeps, Present, Live, Active, Completed
  <2>4. QED
    BY <2>1, <2>3 DEF Position
<1>3. QED
  BY <1>1, <1>2

LEMMA MarkSessions ==
    ASSUME TypeInv, SessionInv, Mark
    PROVE  SessionInv'
<1>1. /\ pc = "mark" /\ replaced \in Ids /\ dir \in Ids /\ Untouched(replaced)
      /\ pc' = "create" /\ UNCHANGED <<slot, dir, replaced, sources, combined, manifest>>
      /\ dirs'[replaced].status = "interrupted" /\ dirs'[replaced].replacement = dir
      /\ dirs'[replaced].slot = dirs[replaced].slot
      /\ dirs'[replaced].parent = dirs[replaced].parent
      /\ dirs'[replaced].announced = dirs[replaced].announced
  BY MarkEffect
<1>2. /\ AtInterrupt /\ dirs[dir].status = "absent" /\ dir \in dirs[replaced].announced
      /\ dir # 0 /\ dir # replaced
  BY <1>1, IdRange DEF SessionInv, Position, AtInterrupt, Present
<1>3. AtCreate'
  BY <1>1, <1>2 DEF AtInterrupt, AtCreate, Untouched, Live, Active, Completed, Interrupted
<1>4. Position'
  BY <1>1, <1>2, <1>3 DEF Position, Untouched
<1>5. \A d \in Ids :
        /\ dirs'[d].slot = dirs[d].slot /\ dirs'[d].parent = dirs[d].parent
        /\ dirs'[d].announced = dirs[d].announced
        /\ dirs'[d].status = "absent" <=> dirs[d].status = "absent"
        /\ d # replaced => dirs'[d] = dirs[d]
  BY <1>1, <1>2 DEF Untouched, AtInterrupt, Present
<1>6. SlotsInv'
  BY <1>1, <1>5 DEF SessionInv, SlotsInv, Present, Live, Active, Completed
<1>7. ParentsAnnounceReplacements'
  <2> SUFFICES ASSUME NEW d \in Ids, dirs'[d].status # "absent", dirs'[d].parent # 0
               PROVE  /\ dirs'[dirs'[d].parent].status = "interrupted"
                      /\ dirs'[dirs'[d].parent].replacement # 0
                      /\ d \in dirs'[dirs'[d].parent].announced
                      /\ dirs'[dirs'[d].parent].slot = dirs'[d].slot
    BY DEF ParentsAnnounceReplacements
  <2>1. dirs[d].status # "absent" /\ dirs[d].parent # 0 /\ dirs'[d].parent = dirs[d].parent
    BY <1>5
  <2>2. PICK p \in Ids : /\ p = dirs[d].parent /\ dirs[p].status = "interrupted"
                       /\ dirs[p].replacement # 0 /\ d \in dirs[p].announced
                       /\ dirs[p].slot = dirs[d].slot
    BY <2>1, ParentFacts
  <2>3. /\ dirs'[p].status = "interrupted" /\ dirs'[p].replacement # 0
        /\ d \in dirs'[p].announced /\ dirs'[p].slot = dirs[d].slot
    BY <1>1, <1>2, <1>5, <2>2
  <2>4. QED
    BY <1>5, <2>1, <2>2, <2>3
<1>8. CompletedHasManifest'
  BY <1>1, <1>5 DEF SessionInv, CompletedHasManifest, Completed
<1>9. QED
  BY <1>4, <1>6, <1>7, <1>8 DEF SessionInv

LEMMA CreateSessions ==
    ASSUME TypeInv, SessionInv, Create
    PROVE  SessionInv'
<1>1. /\ pc = "create" /\ dir \in Ids /\ slot \in 1..Slots /\ Untouched(dir)
      /\ pc' = "acquire" /\ UNCHANGED <<slot, dir, replaced, sources, combined, manifest>>
      /\ dirs'[dir].status = "active" /\ dirs'[dir].slot = slot
      /\ dirs'[dir].parent = replaced
  BY CreateEffect
<1>2. AtCreate /\ dirs[dir].status = "absent"
  BY <1>1 DEF SessionInv, Position
<1>3. Position'
  BY <1>1 DEF Position, Active
<1>4. SlotsInv'
  <2>1. \A d \in Ids : dirs'[d].status # "absent" => dirs'[d].slot \in 1..Slots
    BY <1>1 DEF SessionInv, SlotsInv, Present, Untouched
  <2>2. \A e \in Ids : e # dir /\ Live(e)' => Live(e) /\ dirs'[e].slot = dirs[e].slot
                                        /\ dirs'[e].slot # slot
    BY <1>1, <1>2 DEF AtCreate, Untouched, Live, Active, Completed
  <2>3. \A d, e \in Ids : Live(d)' /\ Live(e)' /\ dirs'[d].slot = dirs'[e].slot => d = e
    BY <1>1, <2>2 DEF SessionInv, SlotsInv
  <2>4. \A d \in Ids : dirs'[d].status = "completed" => dirs'[d].shards = Shards
    BY <1>1 DEF SessionInv, SlotsInv, Completed, Untouched
  <2>5. QED
    BY <2>1, <2>3, <2>4 DEF SlotsInv, Present, Completed
<1>5. ParentsAnnounceReplacements'
  <2> SUFFICES ASSUME NEW d \in Ids, dirs'[d].status # "absent", dirs'[d].parent # 0
               PROVE  /\ dirs'[dirs'[d].parent].status = "interrupted"
                      /\ dirs'[dirs'[d].parent].replacement # 0
                      /\ d \in dirs'[dirs'[d].parent].announced
                      /\ dirs'[dirs'[d].parent].slot = dirs'[d].slot
    BY DEF ParentsAnnounceReplacements
  <2>1. CASE d = dir
    <3>1. replaced \in Ids /\ replaced # dir
      BY <1>1, <1>2, <2>1 DEF TypeInv, TypeOK, Ids, AtCreate, Interrupted
    <3>2. QED
      BY <1>1, <1>2, <2>1, <3>1 DEF AtCreate, Interrupted, Untouched
  <2>2. CASE d # dir
    <3>1. dirs'[d] = dirs[d]
      BY <1>1, <2>2 DEF Untouched
    <3>2. PICK p \in Ids : /\ p = dirs[d].parent /\ dirs[p].status = "interrupted"
                         /\ dirs[p].replacement # 0 /\ d \in dirs[p].announced
                         /\ dirs[p].slot = dirs[d].slot
      BY <3>1, ParentFacts
    <3>3. dirs'[p] = dirs[p]
      BY <1>1, <1>2, <3>2 DEF Untouched
    <3>4. QED
      BY <3>1, <3>2, <3>3
  <2>3. QED
    BY <2>1, <2>2
<1>6. CompletedHasManifest'
  BY <1>1 DEF SessionInv, CompletedHasManifest, Completed, Untouched
<1>7. QED
  BY <1>3, <1>4, <1>5, <1>6 DEF SessionInv

LEMMA AcquisitionSessions ==
    ASSUME TypeInv, SessionInv, AcquireShard \/ EndAcquisition \/ WriteManifest
    PROVE  Keeps /\ Position'
<1>1. CASE AcquireShard
  <2>1. pc = "acquire" /\ Active(dir) /\ dirs[dir].slot = slot /\ dir \in Ids
    BY <1>1 DEF AcquireShard, SessionInv, Position, TypeInv, Working
  <2>2. Keeps /\ UNCHANGED <<pc, slot, dir, replaced, sources, combined, manifest>>
    BY <1>1, <2>1, AcquireEffect
  <2>3. QED
    BY <2>1, <2>2 DEF Position, Keeps, Active
<1>2. CASE EndAcquisition
  <2>1. /\ pc = "acquire" /\ Active(dir) /\ dirs[dir].slot = slot /\ dirs[dir].shards = Shards
        /\ pc' = "manifest" /\ dirs' = dirs /\ UNCHANGED <<slot, dir, replaced>>
    BY <1>2 DEF EndAcquisition, SessionInv, Position, files
  <2>2. QED
    BY <2>1, SameDirs DEF Position, Active
<1>3. CASE WriteManifest
  <2>1. /\ dir \in Ids /\ Keeps /\ dirs'[dir].dataset # "absent"
        /\ dirs'[dir].shards = dirs[dir].shards
        /\ \/ /\ pc = "manifest" /\ pc' = "complete"
              /\ UNCHANGED <<slot, dir, replaced, sources>>
           \/ pc = "refresh" /\ Collect(dir)
    BY <1>3, WriteEffect
  <2>2. CASE pc = "refresh" /\ Collect(dir)
    BY <2>1, <2>2, CollectPosition
  <2>3. CASE pc = "manifest" /\ pc' = "complete" /\ UNCHANGED <<slot, dir, replaced, sources>>
    <3>1. Active(dir) /\ dirs[dir].slot = slot /\ dirs[dir].shards = Shards
      BY <2>3 DEF SessionInv, Position
    <3>2. QED
      BY <2>1, <2>3, <3>1 DEF Position, Keeps, Active
  <2>4. QED
    BY <2>1, <2>2, <2>3
<1>4. QED
  BY <1>1, <1>2, <1>3

LEMMA CompleteSessions ==
    ASSUME TypeInv, SessionInv, Complete
    PROVE  SessionInv'
<1>1. /\ pc = "complete" /\ dir \in Ids /\ Untouched(dir)
      /\ pc' = "refresh" /\ UNCHANGED <<slot, dir, replaced, sources, combined, manifest>>
      /\ dirs'[dir].status = "completed" /\ dirs'[dir].slot = dirs[dir].slot
      /\ dirs'[dir].parent = dirs[dir].parent /\ dirs'[dir].shards = dirs[dir].shards
      /\ dirs'[dir].dataset = dirs[dir].dataset
  BY CompleteEffect
<1>2. /\ Active(dir) /\ dirs[dir].slot = slot /\ dirs[dir].shards = Shards
      /\ dirs[dir].dataset # "absent"
  BY <1>1 DEF SessionInv, Position
<1>3. Position'
  BY <1>1, <1>2 DEF Position, Completed
<1>4. \A d \in Ids :
        /\ dirs'[d].slot = dirs[d].slot /\ dirs'[d].parent = dirs[d].parent
        /\ Live(d)' <=> Live(d)
        /\ dirs'[d].status = "absent" <=> dirs[d].status = "absent"
  BY <1>1, <1>2 DEF Untouched, Active, Completed, Live
<1>5. SlotsInv'
  BY <1>1, <1>2, <1>4 DEF SessionInv, SlotsInv, Present, Completed, Untouched
<1>6. ParentsAnnounceReplacements'
  <2> SUFFICES ASSUME NEW d \in Ids, dirs'[d].status # "absent", dirs'[d].parent # 0
               PROVE  /\ dirs'[dirs'[d].parent].status = "interrupted"
                      /\ dirs'[dirs'[d].parent].replacement # 0
                      /\ d \in dirs'[dirs'[d].parent].announced
                      /\ dirs'[dirs'[d].parent].slot = dirs'[d].slot
    BY DEF ParentsAnnounceReplacements
  <2>1. dirs[d].status # "absent" /\ dirs[d].parent # 0 /\ dirs'[d].parent = dirs[d].parent
        /\ dirs'[d].slot = dirs[d].slot
    BY <1>4
  <2>2. PICK p \in Ids : /\ p = dirs[d].parent /\ dirs[p].status = "interrupted"
                       /\ dirs[p].replacement # 0 /\ d \in dirs[p].announced
                       /\ dirs[p].slot = dirs[d].slot
    BY <2>1, ParentFacts
  <2>3. dirs'[p] = dirs[p]
    BY <1>1, <1>2, <2>2 DEF Untouched, Active
  <2>4. QED
    BY <2>1, <2>2, <2>3
<1>7. CompletedHasManifest'
  BY <1>1, <1>2 DEF SessionInv, CompletedHasManifest, Completed, Untouched
<1>8. QED
  BY <1>3, <1>5, <1>6, <1>7 DEF SessionInv

LEMMA CombinationKeeps ==
    ASSUME TypeInv, Combination
    PROVE  dirs' = dirs /\ Keeps /\ Position'
<1>1. dirs' = dirs
  BY DEF Combination, Combine, CopyShard, AllCopied, Publish, files
<1>2. CASE \E result \in {"completed", "error"} : Leave(result)
  BY <1>1, <1>2, LeavePosition, SameDirs
<1>3. CASE pc' \in {"copy", "publish"}
  BY <1>1, <1>3, SameDirs DEF Position
<1>4. QED
  BY <1>2, <1>3 DEF Combination, Combine, CopyShard, AllCopied, Publish

LEMMA NextSessions ==
    ASSUME TypeInv, SessionInv, [Next]_vars
    PROVE  SessionInv'
<1>1. CASE Start
  <2>1. dirs' = dirs /\ pc' = "pick" /\ replaced' = replaced
    BY <1>1 DEF Start, files
  <2>2. pc = "idle" /\ Position'
    BY <1>1, <2>1 DEF Start, SessionInv, Position
  <2>3. QED
    BY <2>1, <2>2, SameDirs, KeepsSessions DEF SessionInv
<1>2. CASE PickFresh \/ PickCompleted \/ PickIncomplete
  BY <1>2, PickSessions, KeepsSessions DEF SessionInv
<1>3. CASE Interrupt
  BY <1>3, InterruptSessions, KeepsSessions DEF SessionInv
<1>4. CASE AcquireShard \/ EndAcquisition \/ WriteManifest
  BY <1>4, AcquisitionSessions, KeepsSessions DEF SessionInv
<1>5. CASE Combination
  BY <1>5, CombinationKeeps, KeepsSessions DEF SessionInv
<1>6. CASE Crash
  BY <1>6, CrashEffect, LeavePosition, KeepsSessions DEF SessionInv
<1>7. CASE UNCHANGED vars
  <2>1. Keeps /\ Position'
    BY <1>7, SameDirs DEF vars, SessionInv, Position, AtInterrupt, AtCreate,
          Present, Live, Active, Completed, Interrupted
  <2>2. QED
    BY <2>1, KeepsSessions DEF SessionInv
<1>8. QED
  BY <1>1, <1>2, <1>3, <1>4, <1>5, <1>6, <1>7, MarkSessions, CreateSessions,
     CompleteSessions DEF Next, Session

----------------------------------------------------------------------------
(* The combined dataset *)

LEMMA InitCombined == Init => SourcesInv /\ CombinedInv
BY DEF Init, SourcesInv, CombinedInv, Copied, CombinedIsOneSessionPerSlot

\* A completed session stays what it is; only Complete adds one.
Stays ==
    \A d \in Ids : Completed(d) =>
        dirs'[d].status = "completed" /\ dirs'[d].slot = dirs[d].slot

NoneCompletes ==
    \A d \in Ids : dirs'[d].status = "completed" => Completed(d)

LEMMA KeepsStays == ASSUME Keeps PROVE Stays /\ NoneCompletes
BY DEF Keeps, Stays, NoneCompletes, Completed

LEMMA StepStays ==
    ASSUME TypeInv, SessionInv, [Next]_vars
    PROVE  Stays /\ (NoneCompletes \/ Complete)
<1>1. CASE Start \/ UNCHANGED vars
  BY <1>1, SameDirs, KeepsStays DEF Start, vars, files
<1>2. CASE PickFresh \/ PickCompleted \/ PickIncomplete
  BY <1>2, PickSessions, KeepsStays
<1>3. CASE Interrupt
  BY <1>3, InterruptSessions, KeepsStays
<1>4. CASE AcquireShard \/ EndAcquisition \/ WriteManifest
  BY <1>4, AcquisitionSessions, KeepsStays
<1>5. CASE Combination
  BY <1>5, CombinationKeeps, KeepsStays
<1>6. CASE Crash
  BY <1>6, CrashEffect, KeepsStays
<1>7. CASE Mark
  <2>1. /\ pc = "mark" /\ replaced \in Ids /\ Untouched(replaced)
        /\ dirs'[replaced].status = "interrupted"
    BY <1>7, MarkEffect
  <2>2. ~Completed(replaced)
    BY <2>1 DEF SessionInv, Position, AtInterrupt
  <2>3. QED
    BY <2>1, <2>2 DEF Stays, NoneCompletes, Untouched, Completed
<1>8. CASE Create
  <2>1. /\ pc = "create" /\ dir \in Ids /\ Untouched(dir) /\ dirs'[dir].status = "active"
    BY <1>8, CreateEffect
  <2>2. dirs[dir].status = "absent"
    BY <2>1 DEF SessionInv, Position
  <2>3. QED
    BY <2>1, <2>2 DEF Stays, NoneCompletes, Untouched, Completed
<1>9. CASE Complete
  BY <1>9, CompleteEffect DEF Stays, Untouched, Completed
<1>10. QED
  BY <1>1, <1>2, <1>3, <1>4, <1>5, <1>6, <1>7, <1>8, <1>9 DEF Next, Session

\* When every slot has a completed session there is none left to complete.
LEMMA AllComplete ==
    ASSUME TypeInv, SessionInv, Copied, Complete
    PROVE  manifest # "ok"
<1>1. pc = "complete" /\ dir \in Ids /\ slot \in 1..Slots
  BY CompleteEffect DEF TypeInv, Working
<1>2. Active(dir) /\ dirs[dir].slot = slot
  BY <1>1 DEF SessionInv, Position
<1>3. ASSUME manifest = "ok" PROVE FALSE
  <2>1. PICK e \in Ids : Completed(e) /\ dirs[e].slot = slot
    BY <1>1, <1>3 DEF Copied
  <2>2. e = dir
    BY <1>1, <1>2, <2>1 DEF SessionInv, SlotsInv, Live
  <2>3. QED
    BY <1>2, <2>1, <2>2 DEF Active, Completed
<1>4. QED
  BY <1>3

\* How a step moves the loop on.
LEMMA LoopStep ==
    ASSUME TypeInv, SessionInv, [Next]_vars
    PROVE  \/ /\ sources' = [s \in 1..Slots |-> 0] /\ pc' = "idle" /\ slot' = 0
           \/ \E d \in Ids : /\ pc \notin {"idle", "combine", "copy", "publish"}
                             /\ Completed(d) /\ dirs[d].slot = slot /\ Collect(d)
           \/ /\ sources' = sources /\ slot' = slot
              /\ pc = pc' \/ (pc # "idle" /\ pc' \notin {"combine", "copy", "publish"})
           \/ /\ pc = "idle" /\ pc' = "pick" /\ sources' = sources /\ slot' = 1
           \/ /\ pc \in {"combine", "copy"} /\ pc' \in {"copy", "publish"}
              /\ sources' = sources /\ slot' = slot
<1>1. CASE Start
  BY <1>1 DEF Start
<1>2. CASE PickFresh \/ PickIncomplete \/ Mark \/ Create \/ AcquireShard \/ EndAcquisition
           \/ Complete
  BY <1>2 DEF PickFresh, PickIncomplete, Mark, Create, AcquireShard, EndAcquisition, Complete
<1>3. CASE PickCompleted
  <2>1. PICK d \in Existing(slot) :
            pc = "pick" /\ Completed(d) /\ (Collect(d) \/ Leave("error"))
    BY <1>3 DEF PickCompleted, Completed
  <2>2. d \in Ids /\ dirs[d].slot = slot
    BY <2>1 DEF Existing, InSlot
  <2>3. QED
    BY <2>1, <2>2 DEF Leave
<1>4. CASE Interrupt
  BY <1>4, InterruptEffect DEF Leave
<1>5. CASE WriteManifest
  <2>1. /\ dir \in Ids
        /\ \/ /\ pc = "manifest" /\ pc' = "complete"
              /\ UNCHANGED <<slot, dir, replaced, sources>>
           \/ pc = "refresh" /\ Collect(dir)
    BY <1>5, WriteEffect
  <2>2. pc = "refresh" => Completed(dir) /\ dirs[dir].slot = slot
    BY DEF SessionInv, Position
  <2>3. QED
    BY <2>1, <2>2
<1>6. CASE Combination
  BY <1>6 DEF Combination, Combine, CopyShard, AllCopied, Publish, Leave
<1>7. CASE Crash
  BY <1>7 DEF Crash, Leave
<1>8. CASE UNCHANGED vars
  BY <1>8 DEF vars
<1>9. QED
  BY <1>1, <1>2, <1>3, <1>4, <1>5, <1>6, <1>7, <1>8 DEF Next, Session

LEMMA NextSources ==
    ASSUME TypeInv, SessionInv, SourcesInv, [Next]_vars
    PROVE  SourcesInv'
<1>1. Stays
  BY StepStays
<1>2. \A s \in 1..Slots : sources[s] # 0 => sources[s] \in Ids
  BY DEF TypeInv, TypeOK, Ids
<1>3. \A s \in 1..Slots : sources[s] # 0 =>
        dirs'[sources[s]].status = "completed" /\ dirs'[sources[s]].slot = s
  BY <1>1, <1>2 DEF SourcesInv, Stays
<1>4. CASE sources' = [s \in 1..Slots |-> 0] /\ pc' = "idle" /\ slot' = 0
  BY <1>4 DEF SourcesInv
<1>5. CASE \E d \in Ids : /\ pc \notin {"idle", "combine", "copy", "publish"}
                          /\ Completed(d) /\ dirs[d].slot = slot /\ Collect(d)
  <2>1. PICK d \in Ids : /\ pc \notin {"idle", "combine", "copy", "publish"}
                         /\ Completed(d) /\ dirs[d].slot = slot /\ Collect(d)
    BY <1>5
  <2>2. slot \in 1..Slots /\ sources \in [1..Slots -> 0..MaxDirs]
    BY <2>1 DEF TypeInv, TypeOK, Working
  <2>3. sources' = [sources EXCEPT ![slot] = d]
    BY <2>1 DEF Collect
  <2>4. sources'[slot] = d /\ d # 0 /\ \A s \in 1..Slots : s # slot => sources'[s] = sources[s]
    BY <2>2, <2>3 DEF Ids
  <2>5. \A s \in 1..slot : sources'[s] # 0
    BY <2>1, <2>2, <2>4 DEF SourcesInv
  <2>6. \A s \in 1..Slots : sources'[s] # 0 =>
            dirs'[sources'[s]].status = "completed" /\ dirs'[sources'[s]].slot = s
    BY <1>1, <1>3, <2>1, <2>4 DEF Stays
  <2>7. CASE slot < Slots
    <3>1. slot' = slot + 1 /\ pc' = "pick"
      BY <2>1, <2>7 DEF Collect
    <3>2. \A s \in 1..(slot' - 1) : sources'[s] # 0
      BY <2>2, <2>5, <3>1
    <3>3. QED
      BY <2>6, <3>1, <3>2 DEF SourcesInv, Completed
  <2>8. CASE ~(slot < Slots)
    <3>1. slot' = slot /\ pc' = "combine" /\ slot = Slots
      BY <2>1, <2>2, <2>8 DEF Collect
    <3>2. \A s \in 1..Slots : sources'[s] # 0
      BY <2>5, <3>1
    <3>3. \A s \in 1..(slot' - 1) : sources'[s] # 0
      BY <2>2, <3>1, <3>2
    <3>4. QED
      BY <2>6, <3>1, <3>2, <3>3 DEF SourcesInv, Completed
  <2>9. QED
    BY <2>7, <2>8
<1>6. CASE /\ sources' = sources /\ slot' = slot
           /\ pc = pc' \/ (pc # "idle" /\ pc' \notin {"combine", "copy", "publish"})
  BY <1>3, <1>6 DEF SourcesInv, Completed
<1>7. CASE pc = "idle" /\ pc' = "pick" /\ sources' = sources /\ slot' = 1
  BY <1>3, <1>7 DEF SourcesInv, Completed
<1>8. CASE /\ pc \in {"combine", "copy"} /\ pc' \in {"copy", "publish"}
           /\ sources' = sources /\ slot' = slot
  BY <1>3, <1>8 DEF SourcesInv, Completed
<1>9. QED
  BY <1>4, <1>5, <1>6, <1>7, <1>8, LoopStep

\* The shards of the sources are those of completed sessions, all of them once
\* every slot has its source.
LEMMA RowsOfSources ==
    ASSUME TypeInv, SessionInv, SourcesInv
    PROVE  /\ \A r \in SourceRows : r \in Rows /\ Completed(r[1])
           /\ (\A s \in 1..Slots : sources[s] # 0) =>
                SourceRows = {r \in Rows : Completed(r[1])}
<1>1. \A s \in 1..Slots : sources[s] # 0 => sources[s] \in Ids /\ Completed(sources[s])
  BY DEF TypeInv, TypeOK, Ids, SourcesInv
<1>2. \A r \in SourceRows : r \in Rows /\ Completed(r[1])
  BY <1>1 DEF SourceRows, SourceDirs
<1>3. ASSUME \A s \in 1..Slots : sources[s] # 0, NEW r \in Rows, Completed(r[1])
      PROVE  r \in SourceRows
  <2>1. r[1] \in Ids /\ r[2] \in 1..Shards
    BY <1>3 DEF Rows
  <2>2. dirs[r[1]].slot \in 1..Slots /\ dirs[r[1]].shards = Shards
    BY <1>3, <2>1 DEF SessionInv, SlotsInv, Present, Completed
  <2>3. sources[dirs[r[1]].slot] = r[1]
    BY <1>1, <1>3, <2>1, <2>2 DEF SessionInv, SlotsInv, SourcesInv, Live
  <2>4. r[1] \in SourceDirs
    BY <1>3, <2>2, <2>3 DEF SourceDirs
  <2>5. QED
    BY <1>3, <2>1, <2>2, <2>4 DEF SourceRows
<1>4. QED
  BY <1>2, <1>3

\* What a step does to the combined dataset.
LEMMA CombinedStep ==
    ASSUME TypeInv, SessionInv, [Next]_vars
    PROVE  /\ combined' = combined \/ \E rows \in SUBSET SourceRows : combined' = combined \cup rows
           /\ manifest' = "ok" => \/ manifest = "ok"
                                  \/ pc = "publish" /\ UNCHANGED <<dirs, combined>>
           /\ pc' = "publish" => \/ AllCopied
                                 \/ pc = "publish" /\ UNCHANGED <<dirs, combined, sources>>
<1>1. CASE Start
  BY <1>1 DEF Start, files
<1>2. CASE PickFresh \/ PickIncomplete \/ Mark \/ Create \/ EndAcquisition \/ Complete
  BY <1>2 DEF PickFresh, PickIncomplete, Mark, Create, EndAcquisition, Complete, files
<1>3. CASE AcquireShard
  BY <1>3 DEF AcquireShard
<1>4. CASE PickCompleted
  BY <1>4 DEF PickCompleted, Collect, Leave, files
<1>5. CASE Interrupt
  BY <1>5, InterruptEffect DEF Leave
<1>6. CASE WriteManifest
  BY <1>6, WriteEffect DEF Collect
<1>7. CASE Combine
  BY <1>7 DEF Combine, Leave, files
<1>8. CASE CopyShard
  <2>1. PICK rows \in SUBSET (SourceRows \ combined) : combined' = combined \cup rows
    BY <1>8 DEF CopyShard
  <2>2. pc = "copy" /\ pc' = pc /\ manifest' = manifest
    BY <1>8 DEF CopyShard
  <2>3. QED
    BY <2>1, <2>2
<1>9. CASE AllCopied
  BY <1>9 DEF AllCopied, files
<1>10. CASE Publish
  BY <1>10 DEF Publish, Leave
<1>11. CASE Crash
  BY <1>11, CrashEffect DEF Leave
<1>12. CASE UNCHANGED vars
  BY <1>12 DEF vars
<1>13. QED
  BY <1>1, <1>2, <1>3, <1>4, <1>5, <1>6, <1>7, <1>8, <1>9, <1>10, <1>11, <1>12
     DEF Next, Session, Combination

LEMMA NextCombined ==
    ASSUME TypeInv, SessionInv, SourcesInv, CombinedInv, [Next]_vars, combined' \in SUBSET Rows
    PROVE  CombinedInv'
<1>1. \A r \in combined : r \in Rows /\ r[1] \in Ids /\ Completed(r[1])
  BY DEF TypeInv, TypeOK, Rows, CombinedInv, CombinedIsOneSessionPerSlot
<1>2. \A r \in combined' : r \in Rows /\ r[1] \in Ids /\ Completed(r[1])
  BY <1>1, CombinedStep, RowsOfSources DEF Rows
<1>3. combined \subseteq combined'
  BY CombinedStep
<1>4. Stays
  BY StepStays
<1>5. \A r \in combined' : dirs'[r[1]].status = "completed"
  BY <1>2, <1>4 DEF Stays
<1>6. pc' = "publish" => SourceRows' \subseteq combined'
  <2>1. CASE AllCopied
    BY <2>1 DEF AllCopied, SourceRows, SourceDirs, files
  <2>2. CASE pc = "publish" /\ UNCHANGED <<dirs, combined, sources>>
    BY <2>2 DEF CombinedInv, Copied, SourceRows, SourceDirs
  <2>3. QED
    BY <2>1, <2>2, CombinedStep
<1>7. ASSUME manifest' = "ok"
      PROVE  /\ \A s \in 1..Slots : \E d \in Ids : dirs'[d].status = "completed" /\ dirs'[d].slot = s
             /\ combined' = {r \in Rows : dirs'[r[1]].status = "completed"}
  <2>1. CASE manifest = "ok"
    <3>1. \A s \in 1..Slots : \E d \in Ids : Completed(d) /\ dirs[d].slot = s
      BY <2>1 DEF CombinedInv, Copied
    <3>2. combined = {r \in Rows : Completed(r[1])}
      BY <2>1 DEF CombinedInv, CombinedIsOneSessionPerSlot
    <3>3. NoneCompletes
      BY <2>1, StepStays, AllComplete DEF CombinedInv
    <3>4. \A r \in Rows : dirs'[r[1]].status = "completed" => r \in combined'
      BY <1>3, <3>2, <3>3 DEF NoneCompletes, Rows
    <3>5. QED
      BY <1>2, <1>4, <1>5, <3>1, <3>4 DEF Stays
  <2>2. CASE pc = "publish" /\ UNCHANGED <<dirs, combined>>
    <3>1. \A s \in 1..Slots : sources[s] # 0
      BY <2>2 DEF SourcesInv
    <3>2. SourceRows = {r \in Rows : Completed(r[1])} /\ SourceRows \subseteq combined
      BY <2>2, <3>1, RowsOfSources DEF CombinedInv, Copied
    <3>3. combined = {r \in Rows : Completed(r[1])}
      BY <1>1, <3>2
    <3>4. \A s \in 1..Slots : sources[s] \in Ids /\ Completed(sources[s]) /\ dirs[sources[s]].slot = s
      BY <3>1 DEF TypeInv, TypeOK, Ids, SourcesInv
    <3>5. QED
      BY <2>2, <3>3, <3>4 DEF Completed
  <2>3. QED
    BY <1>7, <2>1, <2>2, CombinedStep
<1>8. QED
  BY <1>5, <1>6, <1>7 DEF CombinedInv, Copied, CombinedIsOneSessionPerSlot, Completed

----------------------------------------------------------------------------
(* The theorems *)

Inv == TypeInv /\ SessionInv /\ SourcesInv /\ CombinedInv

LEMMA InvCorrect == Spec => []Inv
<1>1. Init => Inv
  BY InitType, InitSessions, InitCombined DEF Inv
<1>2. Inv /\ [Next]_vars => Inv'
  <2> SUFFICES ASSUME Inv, [Next]_vars PROVE Inv'
    OBVIOUS
  <2>1. TypeInv'
    BY NextType DEF Inv
  <2>2. combined' \in SUBSET Rows
    BY <2>1 DEF TypeInv, TypeOK
  <2>3. QED
    BY <2>1, <2>2, NextSessions, NextSources, NextCombined DEF Inv
<1>3. QED
  BY <1>1, <1>2, PTL DEF Spec

\* A slot never has two sessions that are active or completed, whenever the
\* process dies and however often the condition is materialized again.
THEOREM SessionsOneLivePerSlot == Spec => []OneLiveSessionPerSlot
<1>1. Inv => OneLiveSessionPerSlot
  <2> SUFFICES ASSUME Inv, NEW s \in 1..Slots
               PROVE  Cardinality({d \in InSlot(s) : Active(d) \/ Completed(d)}) <= 1
    BY DEF OneLiveSessionPerSlot
  <2> DEFINE L == {d \in InSlot(s) : Active(d) \/ Completed(d)}
  <2>1. \A d, e \in L : d = e
    BY DEF Inv, SessionInv, SlotsInv, Live, InSlot
  <2> HIDE DEF L
  <2>2. CASE L = {}
    BY <2>2, FS_EmptySet DEF L
  <2>3. CASE L # {}
    <3>1. PICK d : L = {d}
      BY <2>1, <2>3
    <3>2. QED
      BY <3>1, FS_Singleton DEF L
  <2>4. QED
    BY <2>2, <2>3
<1>2. QED
  BY <1>1, InvCorrect, PTL

\* The session a replacement names as its parent announced the replacement, is
\* of the same slot and stays excluded.
THEOREM SessionsParentsAnnounce == Spec => []ParentsAnnounceReplacements
<1>1. Inv => ParentsAnnounceReplacements
  BY DEF Inv, SessionInv
<1>2. QED
  BY <1>1, InvCorrect, PTL

\* A session that is completed on disk has been given its manifest.
THEOREM SessionsCompletedHaveManifest == Spec => []CompletedHasManifest
<1>1. Inv => CompletedHasManifest
  BY DEF Inv, SessionInv
<1>2. QED
  BY <1>1, InvCorrect, PTL

\* The combined dataset takes shards of completed sessions only, and holds all
\* of them, one session for every slot, when it is published.
THEOREM SessionsCombineOnePerSlot == Spec => []CombinedIsOneSessionPerSlot
<1>1. Inv => CombinedIsOneSessionPerSlot
  BY DEF Inv, CombinedInv
<1>2. QED
  BY <1>1, InvCorrect, PTL

\* What an interrupted session left on disk no later step changes.
THEOREM SessionsInterruptedFrozen == Spec => InterruptedIsFrozen
<1>1. ASSUME Inv, [Next]_vars, NEW d \in Ids, Interrupted(d)
      PROVE  /\ dirs'[d].status = "interrupted" /\ dirs'[d].shards = dirs[d].shards
             /\ dirs'[d].broken = dirs[d].broken
  <2> USE <1>1 DEF Inv
  <2>1. Keeps => /\ dirs'[d].status = "interrupted" /\ dirs'[d].shards = dirs[d].shards
                 /\ dirs'[d].broken = dirs[d].broken
    BY DEF Keeps, Interrupted
  <2>2. CASE Start \/ UNCHANGED vars
    BY <2>1, <2>2, SameDirs DEF Start, vars, files
  <2>3. CASE PickFresh \/ PickCompleted \/ PickIncomplete
    BY <2>1, <2>3, PickSessions
  <2>4. CASE Interrupt
    BY <2>1, <2>4, InterruptSessions
  <2>5. CASE AcquireShard \/ EndAcquisition \/ WriteManifest
    BY <2>1, <2>5, AcquisitionSessions
  <2>6. CASE Combination
    BY <2>1, <2>6, CombinationKeeps
  <2>7. CASE Crash
    BY <2>1, <2>7, CrashEffect
  <2>8. CASE Mark
    BY <2>8, MarkEffect DEF Untouched, Interrupted
  <2>9. CASE Create
    <3>1. pc = "create" /\ dirs[dir].status = "absent"
      BY <2>9, CreateEffect DEF SessionInv, Position
    <3>2. QED
      BY <2>9, <3>1, CreateEffect DEF Untouched, Interrupted
  <2>10. CASE Complete
    <3>1. dirs[dir].status = "active"
      BY <2>10, CompleteEffect DEF SessionInv, Position, Active
    <3>2. QED
      BY <2>10, <3>1, CompleteEffect DEF Untouched, Interrupted
  <2>11. QED
    BY <2>2, <2>3, <2>4, <2>5, <2>6, <2>7, <2>8, <2>9, <2>10 DEF Next, Session
<1>2. Inv /\ [Next]_vars => [\A d \in Ids : Interrupted(d) =>
                              /\ dirs'[d].status = "interrupted"
                              /\ dirs'[d].shards = dirs[d].shards
                              /\ dirs'[d].broken = dirs[d].broken]_vars
  BY <1>1
<1>3. QED
  BY <1>2, InvCorrect, PTL DEF Spec, InterruptedIsFrozen

\* The slots of a condition stay sound, for any number of slots, shards and
\* deaths: the four facts about sessions and their combination at once.
THEOREM SessionsSlotsSound == Spec => []SlotsAreSound
BY SessionsOneLivePerSlot, SessionsParentsAnnounce, SessionsCompletedHaveManifest,
   SessionsCombineOnePerSlot, PTL DEF SlotsAreSound

=============================================================================
