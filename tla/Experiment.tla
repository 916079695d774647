------------------------------ MODULE Experiment ------------------------------
(***************************************************************************)
(* One preregistered worker-03 experiment in a directory ("outer") and the *)
(* two acquisition directories below it.  run_preregistered_worker03_      *)
(* experiment drives the outer lifecycle and calls                         *)
(* acquire_worker03_fragmented on the nested directories, each with a      *)
(* lifecycle of its own; acquire_worker03_fragmented may also be called    *)
(* directly.  A transition of ExperimentStateMachine appends an event and  *)
(* then replaces the state file; the process may die between any two       *)
(* writes and somebody may call again.                                     *)
(***************************************************************************)
EXTENDS JournalFile, FiniteSets

CONSTANTS
    Configs,       \* validated configurations
    Hash(_),       \* the protocol hash of a configuration
    Inventories,   \* host inventories a process may observe
    Matched,       \* those whose target_match is "matched"
    Shards,        \* packet shards of one acquisition
    None,
    MaxCalls, MaxCrashes, MaxDeviations

ASSUME ExperimentAssumption ==
    /\ Matched \subseteq Inventories
    /\ Shards \in Nat \ {0}
    /\ {MaxCalls, MaxCrashes, MaxDeviations} \subseteq Nat
    /\ None \notin Configs \cup Inventories
    /\ None \notin {"reference", "controlled"}

\* EXPERIMENT_STATES
States ==
    <<"planned", "protocol_frozen", "inventory_verified", "reference_acquisition",
      "controlled_acquisition", "evidence_finalized", "split_frozen", "training",
      "validation_selection", "test_evaluation", "decision">>

Rank(state) == CHOOSE i \in 1..Len(States) : States[i] = state

StateNames == {States[i] : i \in 1..Len(States)}

ASSUME EventAssumption == Malformed \notin StateNames \cup {"protocol_deviation"}

Roots == {"outer", "reference", "controlled"}

Phases == {"reference", "controlled"}

VARIABLES
    life,          \* experiment-state.json of every root
    events,        \* experiment-events.jsonl
    config,        \* config.json
    protocol,      \* the configuration protocol.json was frozen with
    inventory,     \* inventory.json
    shards,        \* packet shards, each with the call that wrote it
    temporary,     \* TRUE when an unfinished packet shard is there
    manifest,      \* packet-dataset.json: the call that wrote it, its phase and configuration
    results,       \* the other artifacts of the outer experiment
    pc,
    proc,          \* the process's memory
    evaluations,   \* how often the test partition has been evaluated, an observation
    used           \* how often each bounded event has happened

files == <<life, events, config, protocol, inventory, shards, temporary, manifest, results>>
vars == <<files, pc, proc, evaluations, used>>

Calls == 1..MaxCalls

\* reference and evidence are the calls whose datasets the fingerprints are of.
Life ==
    [state : StateNames \cup {"absent"}, hash : {Hash(c) : c \in Configs} \cup {None},
     count : Nat, reference : Calls \cup {0}, evidence : Calls \cup {0},
     split : BOOLEAN, tested : BOOLEAN]

NoLife == [state |-> "absent", hash |-> None, count |-> 0, reference |-> 0,
           evidence |-> 0, split |-> FALSE, tested |-> FALSE]

Manifest == [call : Calls, phase : Phases, config : Configs]

ASSUME NoManifestAssumption == None \notin Manifest

Results == {"residualizer", "split", "torn_split", "decision", "report"}

Points == {"idle", "open", "freeze", "protocol", "event", "state", "inventory", "begin",
           "packets", "write", "deviation", "fingerprint", "return", "residualize",
           "evidence", "split", "splitFingerprint", "tournament", "mark", "decision",
           "report"}

Process ==
    [driver : {"run", "acquire"}, phase : Phases \cup {None}, at : Roots,
     config : Configs \cup {None}, inventory : Inventories \cup {None},
     goal : StateNames \cup {None}, written : 0..Shards, mem : [Roots -> Life]]

NoProcess ==
    [driver |-> "run", phase |-> None, at |-> "outer", config |-> None,
     inventory |-> None, goal |-> None, written |-> 0, mem |-> [x \in Roots |-> NoLife]]

Init ==
    /\ life = [x \in Roots |-> NoLife]
    /\ events = [x \in Roots |-> EmptyFile]
    /\ config = [x \in Roots |-> None]
    /\ protocol = [x \in Roots |-> None]
    /\ inventory = [x \in Roots |-> None]
    /\ shards = [x \in Roots |-> {}]
    /\ temporary = [x \in Roots |-> FALSE]
    /\ manifest = [x \in Roots |-> None]
    /\ results = {}
    /\ pc = "idle"
    /\ proc = NoProcess
    /\ evaluations = 0
    /\ used = [calls |-> 0, crashes |-> 0, deviations |-> 0]

----------------------------------------------------------------------------

\* The directory the process works on.
here == proc.at

State == proc.mem[here].state

\* The whole experiment, rather than the acquisition of one directory.
Running == proc.driver = "run" /\ here = "outer"

Goto(point) == pc' = point /\ UNCHANGED proc

End == pc' = "idle" /\ proc' = NoProcess

\* lifecycle.transition(goal) is what the process does next.
Transition(goal) == pc' = "event" /\ proc' = [proc EXCEPT !.goal = goal]

\* run_preregistered_worker03_experiment(config, output), or
\* acquire_worker03_fragmented(config, output, phase).
Call(driver, phase, c, i) ==
    /\ pc = "idle"
    /\ used.calls < MaxCalls
    /\ used' = [used EXCEPT !.calls = @ + 1]
    /\ proc' = [NoProcess EXCEPT !.driver = driver, !.phase = phase,
                                 !.config = c, !.inventory = i]
    /\ pc' = "open"
    /\ UNCHANGED <<files, evaluations>>

\* What comes first for a lifecycle in this state.
Entry(state) ==
    CASE state = "planned" -> "freeze"
      [] state = "protocol_frozen" -> "inventory"
      [] OTHER -> "begin"

\* ExperimentStateMachine.__init__
Open ==
    /\ pc = "open"
    /\ \/ /\ life[here].state = "absent"
          /\ life' = [life EXCEPT ![here] = [NoLife EXCEPT !.state = "planned",
                                                        !.hash = Hash(proc.config)]]
          /\ proc' = [proc EXCEPT !.mem[here] = life'[here]]
          /\ pc' = Entry("planned")
       \/ /\ life[here].state # "absent"
          /\ life[here].hash = Hash(proc.config)
          /\ proc' = [proc EXCEPT !.mem[here] = life[here]]
          /\ pc' = Entry(life[here].state)
          /\ UNCHANGED life
       \/ /\ life[here].state # "absent"
          /\ life[here].hash # Hash(proc.config)
          /\ End
          /\ UNCHANGED life
    /\ UNCHANGED <<events, config, protocol, inventory, shards, temporary, manifest,
                   results, evaluations, used>>

\* freeze_protocol replaces config.json ...
WriteConfig ==
    /\ pc = "freeze"
    /\ config' = [config EXCEPT ![here] = proc.config]
    /\ Goto("protocol")
    /\ UNCHANGED <<life, events, protocol, inventory, shards, temporary, manifest,
                   results, evaluations, used>>

\* ... and writes protocol.json unless one of the same hash is there.
WriteProtocol ==
    /\ pc = "protocol"
    /\ IF protocol[here] # None /\ Hash(protocol[here]) # Hash(proc.config)
       THEN End /\ UNCHANGED protocol
       ELSE /\ protocol' = [protocol EXCEPT
                               ![here] = IF @ = None THEN proc.config ELSE @]
            /\ Transition("protocol_frozen")
    /\ UNCHANGED <<life, events, config, inventory, shards, temporary, manifest,
                   results, evaluations, used>>

----------------------------------------------------------------------------
(* ExperimentStateMachine.transition *)

Follows(goal) == Rank(goal) = Rank(State) + 1

Record(event) ==
    /\ events' = [events EXCEPT ![here] = Append1(@, event)]
    /\ proc' = [proc EXCEPT !.mem[here].count = @ + 1]

\* Mutant: the event is counted but not written.
CountEvent ==
    /\ pc = "event"
    /\ IF Follows(proc.goal)
       THEN proc' = [proc EXCEPT !.mem[here].count = @ + 1] /\ pc' = "state"
       ELSE End
    /\ UNCHANGED <<files, evaluations, used>>

\* _append, or the exception of a transition that is not allowed.
AppendEvent ==
    /\ pc = "event"
    /\ IF Follows(proc.goal)
       THEN Record(proc.goal) /\ pc' = "state"
       ELSE End /\ UNCHANGED events
    /\ UNCHANGED <<life, config, protocol, inventory, shards, temporary, manifest,
                   results, evaluations, used>>

\* Where the process goes on, and the transition that comes at once.
After(goal) ==
    CASE goal = "protocol_frozen" -> "inventory"
      [] goal = "inventory_verified" -> "begin"
      [] goal = "reference_acquisition" ->
            IF Running THEN "open" ELSE IF proc.phase = "controlled" THEN "event" ELSE "packets"
      [] goal = "controlled_acquisition" -> IF Running THEN "open" ELSE "packets"
      [] goal = "evidence_finalized" -> IF Running THEN "split" ELSE "return"
      [] goal = "split_frozen" -> "event"
      [] goal = "training" -> "tournament"
      [] goal = "validation_selection" -> "mark"
      [] goal = "test_evaluation" -> "event"
      [] goal = "decision" -> "decision"

NextGoal(goal) == IF After(goal) = "event" THEN States[Rank(goal) + 1] ELSE None

\* The nested acquisition an outer transition starts.
Nested(goal) ==
    CASE Running /\ goal = "reference_acquisition" -> "reference"
      [] Running /\ goal = "controlled_acquisition" -> "controlled"
      [] OTHER -> None

\* The state file is replaced atomically.
StoreState ==
    /\ pc = "state"
    /\ LET stored == [proc.mem[here] EXCEPT !.state = proc.goal]
           nested == Nested(proc.goal)
       IN  /\ life' = [life EXCEPT ![here] = stored]
           /\ proc' = [proc EXCEPT
                          !.mem[here] = stored,
                          !.goal = NextGoal(@),
                          !.at = IF nested = None THEN @ ELSE nested,
                          !.phase = IF nested = None THEN @ ELSE nested,
                          !.written = 0]
    /\ pc' = After(proc.goal)
    /\ UNCHANGED <<events, config, protocol, inventory, shards, temporary, manifest,
                   results, evaluations, used>>

----------------------------------------------------------------------------
(* From the protocol to the evidence *)

VerifyInventory ==
    /\ pc = "inventory"
    /\ IF proc.inventory \in Matched /\ inventory[here] \in {None, proc.inventory}
       THEN /\ inventory' = [inventory EXCEPT ![here] = proc.inventory]
            /\ Transition("inventory_verified")
       ELSE End /\ UNCHANGED inventory
    /\ UNCHANGED <<life, events, config, protocol, shards, temporary, manifest,
                   results, evaluations, used>>

\* Mutant: an experiment that stopped after the evidence was split goes on there.
BeginWhereItStopped ==
    /\ pc = "begin"
    /\ \/ /\ State = "inventory_verified"
          /\ Transition("reference_acquisition")
       \/ /\ ~Running
          /\ State \in {"reference_acquisition", "controlled_acquisition"}
          /\ Goto("packets")
       \/ /\ State = "training"
          /\ Goto("tournament")
       \/ /\ State \notin {"inventory_verified", "training"}
          /\ Running \/ State \notin {"reference_acquisition", "controlled_acquisition"}
          /\ End
    /\ UNCHANGED <<files, evaluations, used>>

\* The complete experiment starts from inventory_verified only; an acquisition
\* also goes on in one of the two acquisition states.
Begin ==
    /\ pc = "begin"
    /\ \/ /\ State = "inventory_verified"
          /\ Transition("reference_acquisition")
       \/ /\ ~Running
          /\ State \in {"reference_acquisition", "controlled_acquisition"}
          /\ Goto("packets")
       \/ /\ State # "inventory_verified"
          /\ Running \/ State \notin {"reference_acquisition", "controlled_acquisition"}
          /\ End
    /\ UNCHANGED <<files, evaluations, used>>

\* record_deviation of a noncompliant excitation: the event ...
Deviate ==
    /\ pc = "packets"
    /\ used.deviations < MaxDeviations
    /\ used' = [used EXCEPT !.deviations = @ + 1]
    /\ Record("protocol_deviation")
    /\ pc' = "deviation"
    /\ UNCHANGED <<life, config, protocol, inventory, shards, temporary, manifest,
                   results, evaluations>>

\* ... and the state file, before it raises.
StoreDeviation ==
    /\ pc = "deviation"
    /\ life' = [life EXCEPT ![here] = proc.mem[here]]
    /\ End
    /\ UNCHANGED <<events, config, protocol, inventory, shards, temporary, manifest,
                   results, evaluations, used>>

\* Mutant: only what a death left behind is looked for.
HasTemporary == temporary[here]

\* packet-dataset.json, or any packet-shard-*.jsonl, finished or temporary.
Populated == manifest[here] # None \/ shards[here] # {} \/ temporary[here]

\* write_fragmented_packet_dataset, its check of the directory.
OpenDataset ==
    /\ pc = "packets"
    /\ IF Populated THEN End ELSE Goto("write")
    /\ UNCHANGED <<files, evaluations, used>>

\* PacketShardWriter.finalize: the sidecar, then the payload's name.
WriteShard ==
    /\ pc = "write"
    /\ proc.written < Shards
    /\ shards' = [shards EXCEPT ![here] = @ \cup {<<used.calls, proc.written + 1>>}]
    /\ proc' = [proc EXCEPT !.written = @ + 1]
    /\ UNCHANGED <<life, events, config, protocol, inventory, temporary, manifest,
                   results, pc, evaluations, used>>

WriteManifest ==
    /\ pc = "write"
    /\ proc.written = Shards
    /\ manifest' = [manifest EXCEPT ![here] = [call |-> used.calls, phase |-> proc.phase,
                                            config |-> proc.config]]
    /\ Goto("fingerprint")
    /\ UNCHANGED <<life, events, config, protocol, inventory, shards, temporary,
                   results, evaluations, used>>

Slot(phase) == IF phase = "reference" THEN "reference" ELSE "evidence"

\* set_fingerprint refuses to replace a fingerprint by another one.
SetFingerprint(slot, fingerprint) ==
    LET set == [proc.mem[here] EXCEPT ![slot] = fingerprint]
    IN  /\ proc.mem[here][slot] \in {0, fingerprint}
        /\ life' = [life EXCEPT ![here] = set]

Fingerprint ==
    /\ pc = "fingerprint"
    /\ LET slot == Slot(proc.phase) IN
        IF proc.mem[here][slot] \in {0, manifest[here].call}
        THEN /\ SetFingerprint(slot, manifest[here].call)
             /\ proc' = [proc EXCEPT
                            !.mem[here] = life'[here],
                            !.goal = IF proc.phase = "controlled"
                                     THEN "evidence_finalized" ELSE None]
             /\ pc' = IF proc.phase = "controlled" THEN "event" ELSE "return"
        ELSE End /\ UNCHANGED life
    /\ UNCHANGED <<events, config, protocol, inventory, shards, temporary, manifest,
                   results, evaluations, used>>

\* acquire_worker03_fragmented returns, to the outer experiment if it called it.
Return ==
    /\ pc = "return"
    /\ IF proc.driver = "acquire"
       THEN End
       ELSE /\ proc' = [proc EXCEPT !.at = "outer"]
            /\ pc' = IF here = "reference" THEN "residualize" ELSE "evidence"
    /\ UNCHANGED <<files, evaluations, used>>

----------------------------------------------------------------------------
(* From the evidence to the decision, in the outer directory *)

\* The residualizer is fitted on the reference packets, residualizer.json written.
Residualize ==
    /\ pc = "residualize"
    /\ results' = results \cup {"residualizer"}
    /\ Transition("controlled_acquisition")
    /\ UNCHANGED <<life, events, config, protocol, inventory, shards, temporary,
                   manifest, evaluations, used>>

FinalizeEvidence ==
    /\ pc = "evidence"
    /\ SetFingerprint("evidence", manifest["controlled"].call)
    /\ proc' = [proc EXCEPT !.mem[here] = life'[here], !.goal = "evidence_finalized"]
    /\ pc' = "event"
    /\ UNCHANGED <<events, config, protocol, inventory, shards, temporary, manifest,
                   results, evaluations, used>>

\* split.json, written in place.
WriteSplit ==
    /\ pc = "split"
    /\ results' = results \cup {"split"}
    /\ Goto("splitFingerprint")
    /\ UNCHANGED <<life, events, config, protocol, inventory, shards, temporary,
                   manifest, evaluations, used>>

FreezeSplit ==
    /\ pc = "splitFingerprint"
    /\ life' = [life EXCEPT ![here] = [proc.mem[here] EXCEPT !.split = TRUE]]
    /\ proc' = [proc EXCEPT !.mem[here] = life'[here], !.goal = "split_frozen"]
    /\ pc' = "event"
    /\ UNCHANGED <<events, config, protocol, inventory, shards, temporary, manifest,
                   results, evaluations, used>>

\* execute_receiver_tournament, which evaluates the selected candidate.
Tournament ==
    /\ pc = "tournament"
    /\ evaluations' = evaluations + 1
    /\ Transition("validation_selection")
    /\ UNCHANGED <<files, used>>

\* mark_test_evaluated; the flag reaches the file with the transition.
MarkTestEvaluated ==
    /\ pc = "mark"
    /\ IF State = "validation_selection" /\ ~proc.mem[here].tested
       THEN /\ proc' = [proc EXCEPT !.mem[here].tested = TRUE, !.goal = "test_evaluation"]
            /\ pc' = "event"
       ELSE End
    /\ UNCHANGED <<files, evaluations, used>>

WriteDecision ==
    /\ pc = "decision"
    /\ results' = results \cup {"decision"}
    /\ Goto("report")
    /\ UNCHANGED <<life, events, config, protocol, inventory, shards, temporary,
                   manifest, evaluations, used>>

WriteReport ==
    /\ pc = "report"
    /\ results' = results \cup {"report"}
    /\ End
    /\ UNCHANGED <<life, events, config, protocol, inventory, shards, temporary,
                   manifest, evaluations, used>>

----------------------------------------------------------------------------

\* The process dies, or an exception ends it: an event may be torn or on disk, a
\* packet shard unfinished, split.json torn.
Crash ==
    /\ pc # "idle"
    /\ used.crashes < MaxCrashes
    /\ used' = [used EXCEPT !.crashes = @ + 1]
    /\ events' \in IF pc = "packets" \/ (pc = "event" /\ Follows(proc.goal))
                   THEN {[events EXCEPT ![here] = f] : f \in TornAppends(events[here])}
                   ELSE {events}
    /\ temporary' \in {temporary} \cup
          IF pc = "write" /\ proc.written < Shards
          THEN {[temporary EXCEPT ![here] = TRUE]} ELSE {}
    /\ results' \in {results} \cup
          IF pc = "split" THEN {results \cup {"torn_split"}} ELSE {}
    /\ End
    /\ UNCHANGED <<life, config, protocol, inventory, shards, manifest, evaluations>>

Lifecycle == Open \/ WriteConfig \/ WriteProtocol \/ AppendEvent \/ StoreState

Acquisition == VerifyInventory \/ Begin \/ Deviate \/ StoreDeviation \/ OpenDataset
               \/ WriteShard \/ WriteManifest \/ Fingerprint \/ Return

Evaluation == Residualize \/ FinalizeEvidence \/ WriteSplit \/ FreezeSplit
              \/ Tournament \/ MarkTestEvaluated \/ WriteDecision \/ WriteReport

Run == \E c \in Configs, i \in Inventories : Call("run", None, c, i)

Acquire == \E p \in Phases, c \in Configs, i \in Inventories : Call("acquire", p, c, i)

Next == Run \/ Acquire \/ Lifecycle \/ Acquisition \/ Evaluation \/ Crash

Spec == Init /\ [][Next]_vars

----------------------------------------------------------------------------

TypeOK ==
    /\ life \in [Roots -> Life]
    /\ events \in [Roots -> Files(StateNames \cup {"protocol_deviation"})]
    /\ config \in [Roots -> Configs \cup {None}]
    /\ protocol \in [Roots -> Configs \cup {None}]
    /\ inventory \in [Roots -> Inventories \cup {None}]
    /\ shards \in [Roots -> SUBSET (Calls \X (1..Shards))]
    /\ temporary \in [Roots -> BOOLEAN]
    /\ manifest \in [Roots -> Manifest \cup {None}]
    /\ results \subseteq Results
    /\ pc \in Points
    /\ proc \in Process
    /\ evaluations \in Nat
    /\ used \in [calls : Nat, crashes : Nat, deviations : Nat]

Lines(x) == {events[x].lines[i] : i \in 1..Len(events[x].lines)}

\* ADR-018: the lifecycle is persisted as an event stream and a state artifact.
\* The two agree after every death: the stream is at most one transition ahead
\* of the state file, and every transition up to the state is in the stream,
\* unless a partial record swallowed it.
StateAgreesWithEvents ==
    \A x \in Roots : life[x].state # "absent" =>
        LET rank == Rank(life[x].state) IN
        /\ \A s \in Lines(x) \cap StateNames : Rank(s) <= rank + 1
        /\ Readable(events[x]) => \A k \in 2..rank : States[k] \in Lines(x)

\* The event_count of the state file never counts an event that is not in the
\* stream, and misses at most one for every death (_append counts in memory).
EventsCounted ==
    pc = "idle" => \A x \in Roots :
        /\ life[x].count <= Len(events[x].lines)
        /\ Len(events[x].lines) <= life[x].count + used.crashes

\* execute_receiver_tournament: "The test partition is touched exactly once",
\* and ADR-018: "test evaluation is one-shot", through every death and call.
TestEvaluatedOnce == evaluations <= 1

\* A packet dataset with a manifest consists of the shards of one acquisition:
\* nothing a dead process left is mixed in (write_fragmented_packet_dataset).
DatasetOfOneAcquisition ==
    \A x \in Roots : manifest[x] # None =>
        /\ shards[x] = {manifest[x].call} \X (1..Shards)
        /\ ~temporary[x]

\* A published packet dataset is immutable, whoever calls next
\* (test_fragmented_packet_dataset_round_trip_is_immutable).
EvidenceImmutable ==
    [][\A x \in Roots : manifest[x] # None =>
            /\ manifest'[x] = manifest[x]
            /\ shards'[x] = shards[x]]_vars

\* A dataset is acquired under the protocol its directory was frozen with,
\* although the caller that froze it and the one that acquires may differ in
\* everything else (ExperimentStateMachine.__init__, freeze_protocol).
DatasetUnderFrozenProtocol ==
    \A x \in Roots : manifest[x] # None =>
        /\ Hash(manifest[x].config) = Hash(protocol[x])
        /\ Hash(protocol[x]) = life[x].hash

\* The fingerprints of a lifecycle are those of datasets of the right phase, in
\* its own directory or, for the outer experiment, in the nested one.
FingerprintsOfDatasets ==
    \A x \in Roots :
        /\ life[x].reference # 0 =>
                /\ manifest[x] # None
                /\ manifest[x].call = life[x].reference
                /\ manifest[x].phase = "reference"
        /\ life[x].evidence # 0 =>
                \E y \in {x, "controlled"} :
                    /\ manifest[y] # None
                    /\ manifest[y].call = life[x].evidence
                    /\ manifest[y].phase = "controlled"

\* decision.json exists only for an experiment whose lifecycle says so on disk,
\* with the frozen split, the residualizer fitted on unlabelled reference
\* packets, and both datasets acquired by the call that decided.
DecisionRestsOnEvidence ==
    "decision" \in results =>
        /\ life["outer"].state = "decision"
        /\ life["outer"].tested /\ life["outer"].split
        /\ {"residualizer", "split"} \subseteq results /\ "torn_split" \notin results
        /\ manifest["reference"] # None /\ manifest["controlled"] # None
        /\ manifest["reference"].phase = "reference"
        /\ manifest["reference"].call = manifest["controlled"].call
        /\ life["outer"].evidence = manifest["controlled"].call

\* ADR-018, the record of an experiment: event stream, state file, packet
\* datasets, fingerprints and decision describe one another, at every point
\* where a process may die or another may call.
RecordRestsOnEvidence ==
    /\ StateAgreesWithEvents
    /\ EventsCounted
    /\ DatasetOfOneAcquisition
    /\ DatasetUnderFrozenProtocol
    /\ FingerprintsOfDatasets
    /\ DecisionRestsOnEvidence

=============================================================================
