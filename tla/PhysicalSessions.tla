--------------------------- MODULE PhysicalSessions ---------------------------
(***************************************************************************)
(* One acquired condition of a Phase 1A campaign: _materialize_session     *)
(* fills every slot of the condition with a session acquired in a          *)
(* directory of its own, and combine_datasets merges the sessions.  The    *)
(* functions are called again on the same condition directory after the    *)
(* process died: an incomplete session is then never continued but         *)
(* replaced by a sibling with a new allocation.  A shard that was being    *)
(* finalized at a death may leave a payload that does not validate;        *)
(* session.json is written atomically, dataset.json is not.  dataset.json  *)
(* embeds the session's record and is written twice: while the record      *)
(* still says active, and again once it says completed.                    *)
(***************************************************************************)
EXTENDS Naturals, FiniteSets

CONSTANTS
    Slots,         \* session_count
    Shards,        \* shards of one session
    MaxDirs,       \* bound on session ids
    MaxCrashes

ASSUME SessionAssumption ==
    /\ Slots \in Nat \ {0}
    /\ Shards \in Nat \ {0}
    /\ MaxDirs \in Nat
    /\ MaxCrashes \in Nat

VARIABLES
    dirs,          \* the session directories, by id
    combined,      \* the rows in the shards of the combined dataset
    combinedBroken,\* TRUE when one of its payloads does not validate
    manifest,      \* dataset.json of the combined dataset
    pc,
    slot,          \* session_index of the loop
    dir,           \* id of the session being worked on
    replaced,      \* id of the session it replaces, 0 when it replaces none
    sources,       \* the directories the loop has collected, by slot
    outcome,
    crashes

files == <<dirs, combined, combinedBroken, manifest>>
vars == <<dirs, combined, combinedBroken, manifest, pc, slot, dir, replaced,
          sources, outcome, crashes>>

Ids == 1..MaxDirs

\* replacement is recovery_replacement_session_id, announced the ids that
\* acquisition_session_interrupted events of the directory's journal name;
\* dataset is what dataset.json holds, "active" when the record it embeds still
\* has that status and load_dataset refuses it as incomplete.
Directory ==
    [status : {"absent", "active", "interrupted", "completed"},
     slot : 0..Slots, shards : 0..Shards, broken : BOOLEAN,
     dataset : {"absent", "torn", "active", "ok"}, parent : 0..MaxDirs,
     replacement : 0..MaxDirs, announced : SUBSET Ids]

NoDirectory ==
    [status |-> "absent", slot |-> 0, shards |-> 0, broken |-> FALSE,
     dataset |-> "absent", parent |-> 0, replacement |-> 0, announced |-> {}]

Rows == Ids \X (1..Shards)

Points == {"idle", "pick", "interrupt", "mark", "create", "acquire", "manifest",
           "complete", "refresh", "combine", "copy", "publish"}

Init ==
    /\ dirs = [d \in Ids |-> NoDirectory]
    /\ combined = {}
    /\ combinedBroken = FALSE
    /\ manifest = "absent"
    /\ pc = "idle"
    /\ slot = 0
    /\ dir = 0
    /\ replaced = 0
    /\ sources = [s \in 1..Slots |-> 0]
    /\ outcome = "none"
    /\ crashes = 0

----------------------------------------------------------------------------

Leave(result) ==
    /\ pc' = "idle"
    /\ slot' = 0
    /\ dir' = 0
    /\ replaced' = 0
    /\ sources' = [s \in 1..Slots |-> 0]
    /\ outcome' = result

\* A uuid names no session before it is drawn.
Unused(d) == dirs[d].status = "absent" /\ \A e \in Ids : d \notin dirs[e].announced

IsFresh(d) == Unused(d) /\ \A e \in 1..(d - 1) : ~Unused(e)

Start ==
    /\ pc = "idle"
    /\ pc' = "pick"
    /\ slot' = 1
    /\ UNCHANGED <<files, dir, replaced, sources, outcome, crashes>>

Precedence == <<"completed", "active", "interrupted">>

InSlot(s) == {d \in Ids : dirs[d].status # "absent" /\ dirs[d].slot = s}

\* _existing_session_for_index: the candidates of the first status that has
\* any.  Of several the one with the greatest name is taken, and names are
\* random.
Existing(s) ==
    LET WithStatus(i) == {d \in InSlot(s) : dirs[d].status = Precedence[i]}
    IN  UNION {WithStatus(i) : i \in {j \in 1..3 : \A k \in 1..(j - 1) : WithStatus(k) = {}}}

\* The slot is done: its directory is a source, and the loop goes on.
Collect(d) ==
    /\ sources' = [sources EXCEPT ![slot] = d]
    /\ dir' = 0
    /\ replaced' = 0
    /\ IF slot < Slots
       THEN slot' = slot + 1 /\ pc' = "pick"
       ELSE slot' = slot /\ pc' = "combine"

PickFresh ==
    /\ pc = "pick"
    /\ Existing(slot) = {}
    /\ \E d \in Ids : IsFresh(d) /\ dir' = d
    /\ pc' = "create"
    /\ UNCHANGED <<files, slot, replaced, sources, outcome, crashes>>

\* A completed session is loaded, which fails when its dataset.json is torn or
\* embeds the record of before the session was complete.
PickCompleted ==
    /\ pc = "pick"
    /\ \E d \in Existing(slot) :
        /\ dirs[d].status = "completed"
        /\ IF dirs[d].dataset = "ok"
           THEN Collect(d) /\ UNCHANGED outcome
           ELSE Leave("error")
    /\ UNCHANGED <<files, crashes>>

PickIncomplete ==
    /\ pc = "pick"
    /\ \E d \in Existing(slot) :
        /\ dirs[d].status # "completed"
        /\ replaced' = d
    /\ pc' = "interrupt"
    /\ UNCHANGED <<files, slot, dir, sources, outcome, crashes>>

\* Recovery of an incomplete session: its shards are counted, which fails when
\* one does not validate, then the decision is journalled.
Interrupt ==
    /\ pc = "interrupt"
    /\ IF dirs[replaced].broken
       THEN Leave("error") /\ UNCHANGED dirs
       ELSE \E d \in Ids :
                /\ IsFresh(d)
                /\ dir' = d
                /\ dirs' = [dirs EXCEPT ![replaced].announced = @ \cup {d}]
                /\ pc' = "mark"
                /\ UNCHANGED <<slot, replaced, sources, outcome>>
    /\ UNCHANGED <<combined, combinedBroken, manifest, crashes>>

\* Mutant: the decision stays in the journal only.
MarkNothing ==
    /\ pc = "mark"
    /\ pc' = "create"
    /\ UNCHANGED <<files, slot, dir, replaced, sources, outcome, crashes>>

\* session.json of the incomplete session names its replacement.
Mark ==
    /\ pc = "mark"
    /\ dirs' = [dirs EXCEPT ![replaced].status = "interrupted",
                            ![replaced].replacement = dir]
    /\ pc' = "create"
    /\ UNCHANGED <<combined, combinedBroken, manifest, slot, dir, replaced,
                   sources, outcome, crashes>>

\* Mutant: the session it replaces is taken up again.
ContinueReplaced ==
    /\ pc = "create"
    /\ dir' = IF replaced = 0 THEN dir ELSE replaced
    /\ dirs' = [dirs EXCEPT ![dir'] =
                    [@ EXCEPT !.status = "active", !.slot = slot]]
    /\ pc' = "acquire"
    /\ UNCHANGED <<combined, combinedBroken, manifest, slot, replaced,
                   sources, outcome, crashes>>

\* A new allocation, and the session.json that records it as active.
Create ==
    /\ pc = "create"
    /\ dirs' = [dirs EXCEPT ![dir] = [NoDirectory EXCEPT !.status = "active",
                                          !.slot = slot, !.parent = replaced]]
    /\ pc' = "acquire"
    /\ UNCHANGED <<combined, combinedBroken, manifest, slot, dir, replaced,
                   sources, outcome, crashes>>

AcquireShard ==
    /\ pc = "acquire"
    /\ dirs[dir].shards < Shards
    /\ dirs' = [dirs EXCEPT ![dir].shards = @ + 1]
    /\ UNCHANGED <<combined, combinedBroken, manifest, pc, slot, dir, replaced,
                   sources, outcome, crashes>>

EndAcquisition ==
    /\ pc = "acquire"
    /\ dirs[dir].shards = Shards
    /\ pc' = "manifest"
    /\ UNCHANGED <<files, slot, dir, replaced, sources, outcome, crashes>>

\* write_dataset_manifest, before and after session.json says completed.
WriteManifest ==
    /\ pc \in {"manifest", "refresh"}
    /\ dirs' = [dirs EXCEPT ![dir].dataset = IF pc = "manifest" THEN "active" ELSE "ok"]
    /\ IF pc = "manifest"
       THEN pc' = "complete" /\ UNCHANGED <<slot, dir, replaced, sources>>
       ELSE Collect(dir)
    /\ UNCHANGED <<combined, combinedBroken, manifest, outcome, crashes>>

\* Mutant: the session is complete as soon as its samples are.
CompleteFirst ==
    /\ pc \in {"manifest", "complete"}
    /\ dirs' = [dirs EXCEPT ![dir].status = "completed"]
    /\ pc' = "refresh"
    /\ UNCHANGED <<combined, combinedBroken, manifest, slot, dir, replaced,
                   sources, outcome, crashes>>

Complete ==
    /\ pc = "complete"
    /\ dirs' = [dirs EXCEPT ![dir].status = "completed"]
    /\ pc' = "refresh"
    /\ UNCHANGED <<combined, combinedBroken, manifest, slot, dir, replaced,
                   sources, outcome, crashes>>

----------------------------------------------------------------------------
(* combine_datasets *)

SourceDirs == {sources[s] : s \in 1..Slots} \ {0}

SourceRows == {r \in Rows : r[1] \in SourceDirs /\ r[2] <= dirs[r[1]].shards}

\* The sources are loaded, and the shards an earlier combination left.
Combine ==
    /\ pc = "combine"
    /\ IF combinedBroken \/ \E d \in SourceDirs : dirs[d].dataset # "ok"
       THEN Leave("error")
       ELSE pc' = "copy" /\ UNCHANGED <<slot, dir, replaced, sources, outcome>>
    /\ UNCHANGED <<files, crashes>>

\* One shard of rows the combined dataset does not have yet.  Rows are sorted
\* by random session ids, so any may be the next ones.
CopyShard ==
    /\ pc = "copy"
    /\ \E rows \in SUBSET (SourceRows \ combined) :
        /\ rows # {}
        /\ combined' = combined \cup rows
    /\ UNCHANGED <<dirs, combinedBroken, manifest, pc, slot, dir, replaced,
                   sources, outcome, crashes>>

AllCopied ==
    /\ pc = "copy"
    /\ SourceRows \subseteq combined
    /\ pc' = "publish"
    /\ UNCHANGED <<files, slot, dir, replaced, sources, outcome, crashes>>

Publish ==
    /\ pc = "publish"
    /\ manifest' = "ok"
    /\ Leave("completed")
    /\ UNCHANGED <<dirs, combined, combinedBroken, crashes>>

----------------------------------------------------------------------------

CrashDirs ==
    CASE pc = "acquire" /\ dirs[dir].shards < Shards ->
            dirs' \in {dirs, [dirs EXCEPT ![dir].broken = TRUE]}
      [] pc \in {"manifest", "refresh"} ->
            dirs' \in {dirs, [dirs EXCEPT ![dir].dataset = "torn"]}
      [] OTHER -> dirs' = dirs

\* The process dies, or an exception from the backend ends it.
Crash ==
    /\ pc # "idle"
    /\ crashes < MaxCrashes
    /\ crashes' = crashes + 1
    /\ CrashDirs
    /\ combinedBroken' \in {combinedBroken, combinedBroken \/
                               (pc = "copy" /\ ~(SourceRows \subseteq combined))}
    /\ manifest' \in {manifest, IF pc = "publish" THEN "torn" ELSE manifest}
    /\ Leave("error")
    /\ UNCHANGED combined

Session == PickFresh \/ PickCompleted \/ PickIncomplete \/ Interrupt \/ Mark
           \/ Create \/ AcquireShard \/ EndAcquisition \/ WriteManifest \/ Complete

Combination == Combine \/ CopyShard \/ AllCopied \/ Publish

Next == Start \/ Session \/ Combination \/ Crash

Spec == Init /\ [][Next]_vars

\* The condition is materialized again until that succeeds.
Retry == outcome # "completed" /\ Start

FairSpec == Spec /\ WF_vars(Session \/ Combination) /\ WF_vars(Retry)

----------------------------------------------------------------------------

TypeOK ==
    /\ dirs \in [Ids -> Directory]
    /\ combined \in SUBSET Rows
    /\ combinedBroken \in BOOLEAN
    /\ manifest \in {"absent", "torn", "ok"}
    /\ pc \in Points
    /\ slot \in 0..Slots
    /\ dir \in 0..MaxDirs
    /\ replaced \in 0..MaxDirs
    /\ sources \in [1..Slots -> 0..MaxDirs]
    /\ outcome \in {"none", "completed", "error"}
    /\ crashes \in Nat

Active(d) == dirs[d].status = "active"
Interrupted(d) == dirs[d].status = "interrupted"
Completed(d) == dirs[d].status = "completed"

\* A slot has at most one session that is not excluded as interrupted, so a
\* restart at any point never brings two allocations into one slot
\* (_existing_session_for_index, its precedence rule).
OneLiveSessionPerSlot ==
    \A s \in 1..Slots :
        Cardinality({d \in InSlot(s) : Active(d) \/ Completed(d)}) <= 1

\* ADR-009: an explicit parent-session relationship.  The session a replacement
\* names as its parent is of the same slot, announced the replacement in its
\* journal, and stays out of the campaign.
ParentsAnnounceReplacements ==
    \A d \in Ids :
        (dirs[d].status # "absent" /\ dirs[d].parent # 0) =>
            LET parent == dirs[dirs[d].parent]
            IN  /\ parent.status = "interrupted"
                /\ parent.replacement # 0
                /\ d \in parent.announced
                /\ parent.slot = dirs[d].slot

\* Only completed sessions enter the combined dataset, one for every slot, and
\* once it has a manifest it holds all their rows and no others.
CombinedIsOneSessionPerSlot ==
    /\ \A r \in combined : Completed(r[1])
    /\ manifest = "ok" =>
        combined = {r \in Rows : Completed(r[1])}

\* "completed session unexpectedly reached recovery path": the error in
\* _materialize_session is never raised, because a session is completed on
\* disk only after its manifest is, whenever the process dies.
CompletedHasManifest ==
    \A d \in Ids : Completed(d) => dirs[d].dataset # "absent"

\* The slots of a condition stay sound through any deaths: one live session in
\* each, every replacement announced by the session it replaces, and a combined
\* dataset made of the completed sessions alone (_materialize_acquired_condition).
SlotsAreSound ==
    /\ OneLiveSessionPerSlot
    /\ ParentsAnnounceReplacements
    /\ CombinedIsOneSessionPerSlot
    /\ CompletedHasManifest

\* What an interrupted session left is immutable: no later process adds to its
\* shards or makes it part of the campaign again.
InterruptedIsFrozen ==
    [][\A d \in Ids : Interrupted(d) =>
        /\ dirs'[d].status = "interrupted"
        /\ dirs'[d].shards = dirs[d].shards
        /\ dirs'[d].broken = dirs[d].broken]_vars

\* A death between session.json and the second dataset.json, or in either write
\* of dataset.json, leaves a completed session that load_dataset refuses, and
\* nothing writes its dataset.json again.
Unloadable(d) == Completed(d) /\ dirs[d].dataset \in {"torn", "active"}

\* What stops every later attempt: a payload that does not validate, in an
\* incomplete session or in the combined dataset, or an unloadable session.
Stuck ==
    \/ combinedBroken
    \/ \E d \in Ids : (Active(d) \/ Interrupted(d)) /\ dirs[d].broken
    \/ \E d \in Ids : Unloadable(d)

\* Finitely many deaths do not keep the condition from being materialized,
\* unless one of them left it stuck for good: between the two writes of
\* dataset.json a session is unloadable only for a while.
Materializes == <>(outcome = "completed") \/ <>[]Stuck

\* phase1a.py, _materialize_session: "Acquire one genuine session into its own
\* crash-safe source directory."  Whenever no process works on the condition,
\* a session that is recorded as completed can be loaded.  A death between the
\* write of session.json and the refresh of dataset.json refutes it.
CompletedSessionsLoad ==
    pc = "idle" => \A d \in Ids : Completed(d) => dirs[d].dataset = "ok"

=============================================================================
