--------------------------- MODULE ExperimentProofs ---------------------------
(***************************************************************************)
(* Proofs about Experiment, for any configurations, protocol hash,         *)
(* inventories, size of an acquisition, and number of calls, deaths and    *)
(* deviations.                                                             *)
(***************************************************************************)
EXTENDS Experiment, TLAPS

USE ExperimentAssumption DEF here

----------------------------------------------------------------------------
(* The operations on an event stream (see JournalProofs)                   *)

LEMMA AppendType ==
    ASSUME NEW R, NEW f \in Files(R), NEW r \in R
    PROVE  Append1(f, r) \in Files(R)
BY DEF Files, Append1, Tails

LEMMA TornType ==
    ASSUME NEW R, NEW f \in Files(R), NEW g \in TornAppends(f)
    PROVE  g \in Files(R) /\ g.lines = f.lines
BY DEF Files, TornAppends, Tails

\* What an append adds: one line, at the end.
LEMMA AppendLines ==
    ASSUME NEW R, NEW f \in Files(R), NEW r \in R
    PROVE  LET g == Append1(f, r)
           IN  /\ Len(g.lines) = Len(f.lines) + 1
               /\ \A i \in 1..Len(f.lines) : g.lines[i] = f.lines[i]
               /\ g.lines[Len(f.lines) + 1] =
                      IF TrailingPartial(f) THEN Malformed ELSE r
               /\ ~TrailingPartial(g)
BY DEF Files, Append1, TrailingPartial, Tails

----------------------------------------------------------------------------
(* The order of the states *)

LEMMA RankOf == Len(States) = 11 /\ \A i \in 1..11 : Rank(States[i]) = i
<1>1. Len(States) = 11
  BY DEF States
<1>2. \A i, j \in 1..11 : States[i] = States[j] => i = j
  BY DEF States
<1>3. QED
  BY <1>1, <1>2 DEF Rank

LEMMA StateNamesAre ==
    StateNames = {"planned", "protocol_frozen", "inventory_verified",
                  "reference_acquisition", "controlled_acquisition",
                  "evidence_finalized", "split_frozen", "training",
                  "validation_selection", "test_evaluation", "decision"}
<1>1. Len(States) = 11
  BY DEF States
<1>2. QED
  BY <1>1 DEF StateNames, States

LEMMA Ranks ==
    /\ Rank("planned") = 1                 /\ Rank("protocol_frozen") = 2
    /\ Rank("inventory_verified") = 3      /\ Rank("reference_acquisition") = 4
    /\ Rank("controlled_acquisition") = 5  /\ Rank("evidence_finalized") = 6
    /\ Rank("split_frozen") = 7            /\ Rank("training") = 8
    /\ Rank("validation_selection") = 9    /\ Rank("test_evaluation") = 10
    /\ Rank("decision") = 11
<1>1. /\ States[1] = "planned"                 /\ States[2] = "protocol_frozen"
      /\ States[3] = "inventory_verified"      /\ States[4] = "reference_acquisition"
      /\ States[5] = "controlled_acquisition"  /\ States[6] = "evidence_finalized"
      /\ States[7] = "split_frozen"            /\ States[8] = "training"
      /\ States[9] = "validation_selection"    /\ States[10] = "test_evaluation"
      /\ States[11] = "decision"
  BY DEF States
<1>2. QED
  BY <1>1, RankOf

\* The transitions that come at once.
LEMMA NextGoalIs ==
    ASSUME NEW goal \in StateNames \ {"planned"}
    PROVE  /\ NextGoal(goal) \in StateNames \cup {None}
           /\ After(goal) = "event" =>
                /\ NextGoal(goal) \in {"controlled_acquisition", "training", "decision"}
                /\ goal = "reference_acquisition" => NextGoal(goal) = "controlled_acquisition"
<1>1. /\ States[5] = "controlled_acquisition" /\ States[8] = "training"
      /\ States[11] = "decision"
  BY DEF States
<1>2. After(goal) = "event" =>
         goal \in {"reference_acquisition", "split_frozen", "test_evaluation"}
  BY StateNamesAre DEF After
<1>3. QED
  BY <1>1, <1>2, Ranks, StateNamesAre DEF NextGoal

----------------------------------------------------------------------------
(* Updates of the process's memory *)

LEMMA FingerprintUpdate ==
    ASSUME NEW m \in Life, NEW c \in Calls, NEW slot \in {"reference", "evidence"}
    PROVE  LET n == [m EXCEPT ![slot] = c]
           IN  n \in Life /\ n.state = m.state /\ n.hash = m.hash
BY DEF Life

LEMMA StateUpdate ==
    ASSUME NEW m \in Life, NEW s \in StateNames
    PROVE  LET n == [m EXCEPT !.state = s]
           IN  n \in Life /\ n.state = s /\ n.hash = m.hash
BY DEF Life

LEMMA FlagUpdate ==
    ASSUME NEW m \in Life
    PROVE  LET n == [m EXCEPT !.split = TRUE]
           IN  n \in Life /\ n.state = m.state /\ n.hash = m.hash
BY DEF Life

LEMMA TestedUpdate ==
    ASSUME NEW m \in Life
    PROVE  LET n == [m EXCEPT !.tested = TRUE]
           IN  n \in Life /\ n.state = m.state /\ n.hash = m.hash
BY DEF Life

\* An event counted in memory.
LEMMA CountUpdate ==
    ASSUME NEW p \in Process, NEW x \in Roots
    PROVE  LET q == [p EXCEPT !.mem[x].count = @ + 1]
           IN  /\ q \in Process
               /\ \A y \in Roots : q.mem[y].state = p.mem[y].state /\ q.mem[y].hash = p.mem[y].hash
               /\ q.driver = p.driver /\ q.phase = p.phase /\ q.at = p.at
               /\ q.config = p.config /\ q.inventory = p.inventory
               /\ q.goal = p.goal /\ q.written = p.written
<1> DEFINE m == [p.mem[x] EXCEPT !.count = @ + 1]
           q == [p EXCEPT !.mem[x].count = @ + 1]
<1>1. p.mem \in [Roots -> Life]
  BY DEF Process
<1>2. m \in Life /\ m.state = p.mem[x].state /\ m.hash = p.mem[x].hash
  BY <1>1 DEF Life
<1>3. q = [p EXCEPT !.mem[x] = m]
  OBVIOUS
<1> HIDE DEF m, q
<1>4. /\ q \in Process /\ q.mem = [p.mem EXCEPT ![x] = m]
      /\ q.driver = p.driver /\ q.phase = p.phase /\ q.at = p.at
      /\ q.config = p.config /\ q.inventory = p.inventory
      /\ q.goal = p.goal /\ q.written = p.written
  BY <1>2, <1>3 DEF Process
<1>5. \A y \in Roots : q.mem[y].state = p.mem[y].state /\ q.mem[y].hash = p.mem[y].hash
  BY <1>1, <1>2, <1>4
<1>6. QED
  BY <1>4, <1>5 DEF q

----------------------------------------------------------------------------
(* Type correctness *)

\* The transitions of an acquisition, whoever started it.
AcquisitionGoals ==
    {"protocol_frozen", "inventory_verified", "reference_acquisition",
     "controlled_acquisition", "evidence_finalized"}

\* Where the process is: an acquisition of its own stays in the experiment's
\* directory, a nested one has the phase its directory is named for, and only
\* the whole experiment goes beyond the evidence.
Whereabouts ==
    /\ pc # "idle" => /\ proc.config \in Configs
                      /\ proc.inventory \in Inventories
                      /\ used.calls \in Calls
    /\ proc.driver = "acquire" => here = "outer" /\ proc.phase \in Phases
    /\ here # "outer" => proc.phase = here
    /\ pc \in {"packets", "deviation", "write", "fingerprint", "return"} => ~Running
    /\ pc \in {"residualize", "evidence", "split", "splitFingerprint", "tournament",
               "mark", "decision", "report"} => Running
    /\ pc \in {"event", "state"} => proc.goal \in StateNames \ {"planned"}
    /\ pc \in {"event", "state"} /\ ~Running => proc.goal \in AcquisitionGoals

\* The manifests whose fingerprints are about to be set exist.
Published ==
    /\ pc = "fingerprint" => manifest[here] # None
    /\ pc = "return" /\ here # "outer" => manifest[here] # None
    /\ pc \in {"event", "state"} /\ proc.goal = "evidence_finalized" /\ here # "outer"
          => manifest[here] # None
    /\ pc = "evidence" => manifest["controlled"] # None

TypeInv == TypeOK /\ Whereabouts /\ Published


LEMMA NoProcessType == NoProcess \in Process /\ NoProcess.driver = "run" /\ NoProcess.at = "outer"
                       /\ NoProcess.written = 0
<1>1. NoLife \in Life
  BY DEF NoLife, Life
<1>2. [x \in Roots |-> NoLife] \in [Roots -> Life]
  BY <1>1
<1>3. QED
  BY <1>2 DEF NoProcess, Process, Roots

\* What holds after a process has ended.
LEMMA EndType ==
    ASSUME End
    PROVE  /\ pc' \in Points /\ proc' \in Process
           /\ Whereabouts' /\ Published'
BY NoProcessType DEF End, Points, Whereabouts, Published, Running

LEMMA InitType == Init => TypeInv
<1> SUFFICES ASSUME Init PROVE TypeInv
  OBVIOUS
<1>1. NoLife \in Life
  BY DEF NoLife, Life
<1>2. EmptyFile \in Files(StateNames \cup {"protocol_deviation"})
  BY DEF EmptyFile, Files, Tails
<1>3. Whereabouts /\ Published
  BY NoProcessType DEF Init, Whereabouts, Published, Running
<1>4. QED
  BY <1>1, <1>2, <1>3, NoProcessType DEF Init, TypeInv, TypeOK, Points, Results

LEMMA CallType ==
    ASSUME TypeInv, Run \/ Acquire
    PROVE  TypeInv'
<1>1. PICK d \in {"run", "acquire"}, p \in Phases \cup {None}, c \in Configs, i \in Inventories :
         Call(d, p, c, i) /\ (d = "acquire" => p \in Phases)
  BY DEF Run, Acquire
<1>2. /\ proc' \in Process /\ proc'.driver = d /\ proc'.phase = p /\ proc'.at = "outer"
      /\ proc'.config = c /\ proc'.inventory = i
  BY <1>1, NoProcessType DEF Call, Process
<1>3. used' \in [calls : Nat, crashes : Nat, deviations : Nat] /\ used'.calls \in Calls
  BY <1>1 DEF Call, TypeInv, TypeOK, Calls
<1>4. pc' = "open"
  BY <1>1 DEF Call
<1>5. Whereabouts' /\ Published'
  BY <1>1, <1>2, <1>3, <1>4 DEF Whereabouts, Published
<1>6. QED
  BY <1>1, <1>2, <1>3, <1>4, <1>5 DEF Call, TypeInv, TypeOK, files, Points

LEMMA LifecycleType ==
    ASSUME TypeInv, Lifecycle
    PROVE  TypeInv'
<1> USE DEF TypeInv, TypeOK, Points
<1>0. here \in Roots /\ proc.mem[here] \in Life /\ proc \in Process
  BY DEF Process
<1>1. CASE Open
  <2>1. CASE pc' = "idle"
    <3>1. End /\ UNCHANGED life
      BY <1>1, <2>1 DEF Open, Entry
    <3>2. QED
      BY <1>1, <3>1, EndType DEF Open
  <2>2. CASE pc' # "idle"
    <3>1. life'[here] \in Life /\ life' \in [Roots -> Life]
      <4>1. [NoLife EXCEPT !.state = "planned", !.hash = Hash(proc.config)] \in Life
        BY <1>1, StateNamesAre DEF Open, NoLife, Life, Whereabouts
      <4>2. QED
        BY <1>0, <1>1, <2>2, <4>1 DEF Open, End
    <3>2. proc' = [proc EXCEPT !.mem[here] = life'[here]]
      BY <1>1, <2>2 DEF Open, End
    <3>3. /\ proc' \in Process /\ proc'.at = here /\ proc'.driver = proc.driver
          /\ proc'.phase = proc.phase /\ proc'.config = proc.config
          /\ proc'.inventory = proc.inventory
      BY <1>0, <3>1, <3>2 DEF Process
    <3>4. pc' \in {"freeze", "inventory", "begin"} /\ pc = "open"
      BY <1>1, <2>2 DEF Open, Entry, End
    <3>5. Whereabouts' /\ Published'
      BY <1>1, <3>3, <3>4 DEF Whereabouts, Published, Open
    <3>6. QED
      BY <1>1, <3>1, <3>3, <3>4, <3>5 DEF Open
  <2>3. QED
    BY <2>1, <2>2
<1>2. CASE WriteConfig
  BY <1>0, <1>2 DEF WriteConfig, Goto, Whereabouts, Published, Running
<1>3. CASE WriteProtocol
  <2>1. CASE pc' = "idle"
    <3>1. End /\ UNCHANGED protocol
      BY <1>3, <2>1 DEF WriteProtocol, Transition
    <3>2. QED
      BY <1>3, <3>1, EndType DEF WriteProtocol
  <2>2. CASE pc' # "idle"
    <3>1. /\ proc' \in Process /\ proc'.at = here /\ proc'.driver = proc.driver
          /\ proc'.phase = proc.phase /\ proc'.config = proc.config
          /\ proc'.inventory = proc.inventory /\ proc'.goal = "protocol_frozen"
      BY <1>0, <1>3, <2>2, StateNamesAre DEF WriteProtocol, Transition, Process, End
    <3>2. protocol' \in [Roots -> Configs \cup {None}] /\ pc' = "event"
      BY <1>0, <1>3, <2>2 DEF WriteProtocol, Transition, Whereabouts, End
    <3>3. Whereabouts' /\ Published'
      BY <1>3, <3>1, <3>2, StateNamesAre
      DEF Whereabouts, Published, WriteProtocol, AcquisitionGoals
    <3>4. QED
      BY <1>3, <3>1, <3>2, <3>3 DEF WriteProtocol
  <2>3. QED
    BY <2>1, <2>2
<1>4. CASE AppendEvent
  <2>1. CASE pc' = "idle"
    <3>1. End /\ UNCHANGED events
      BY <1>4, <2>1 DEF AppendEvent
    <3>2. QED
      BY <1>4, <3>1, EndType DEF AppendEvent
  <2>2. CASE pc' # "idle"
    <3>1. /\ pc = "event" /\ pc' = "state" /\ Record(proc.goal)
      BY <1>4, <2>2 DEF AppendEvent, End
    <3>2. events' \in [Roots -> Files(StateNames \cup {"protocol_deviation"})]
      BY <1>0, <3>1, AppendType DEF Record, Whereabouts
    <3>3. /\ proc' \in Process /\ proc'.at = here /\ proc'.driver = proc.driver
          /\ proc'.phase = proc.phase /\ proc'.config = proc.config
          /\ proc'.inventory = proc.inventory /\ proc'.goal = proc.goal
      BY <1>0, <3>1, CountUpdate DEF Record
    <3>4. Whereabouts' /\ Published'
      BY <1>4, <3>1, <3>3 DEF Whereabouts, Published, AppendEvent, Running
    <3>5. QED
      BY <1>4, <3>1, <3>2, <3>3, <3>4 DEF AppendEvent
  <2>3. QED
    BY <2>1, <2>2
<1>5. CASE StoreState
  <2> DEFINE stored == [proc.mem[here] EXCEPT !.state = proc.goal]
             nested == Nested(proc.goal)
  <2>1. pc = "state" /\ pc' = After(proc.goal) /\ proc.goal \in StateNames \ {"planned"}
    BY <1>5 DEF StoreState, Whereabouts
  <2>2. stored \in Life /\ life' = [life EXCEPT ![here] = stored]
    BY <1>0, <1>5, <2>1, StateUpdate DEF StoreState
  <2>3. nested \in {"reference", "controlled", None}
    BY DEF Nested
  <2>4. /\ proc' \in Process /\ proc'.driver = proc.driver
        /\ proc'.at = (IF nested = None THEN here ELSE nested)
        /\ proc'.phase = (IF nested = None THEN proc.phase ELSE nested)
        /\ proc'.config = proc.config /\ proc'.inventory = proc.inventory
        /\ proc'.goal = NextGoal(proc.goal)
    <3>1. proc' = [proc EXCEPT !.mem[here] = stored, !.goal = NextGoal(@),
                               !.at = IF nested = None THEN @ ELSE nested,
                               !.phase = IF nested = None THEN @ ELSE nested, !.written = 0]
      BY <1>5 DEF StoreState
    <3> HIDE DEF stored, nested
    <3>2. NextGoal(proc.goal) \in StateNames \cup {None}
      BY <2>1, NextGoalIs
    <3>3. 0 \in 0..Shards
      OBVIOUS
    <3> DEFINE mem == [proc.mem EXCEPT ![here] = stored]
               at == IF nested = None THEN here ELSE nested
               phase == IF nested = None THEN proc.phase ELSE nested
    <3>4. mem \in [Roots -> Life] /\ at \in Roots /\ phase \in Phases \cup {None}
      BY <1>0, <2>2, <2>3 DEF Process, Roots, Phases
    <3>5. proc' = [proc EXCEPT !.mem = mem, !.goal = NextGoal(proc.goal), !.at = at,
                               !.phase = phase, !.written = 0]
      BY <1>0, <3>1 DEF Process
    <3> HIDE DEF mem, at, phase
    <3>6. /\ proc' \in Process /\ proc'.driver = proc.driver /\ proc'.at = at
          /\ proc'.phase = phase /\ proc'.config = proc.config
          /\ proc'.inventory = proc.inventory /\ proc'.goal = NextGoal(proc.goal)
      BY <1>0, <3>2, <3>3, <3>4, <3>5 DEF Process
    <3>7. QED
      BY <3>6 DEF at, phase
  <2>5. pc' \in Points
    BY <2>1, StateNamesAre DEF After
  <2>6. Whereabouts'
    <3>1. CASE Running
      <4>1. CASE proc.goal \in {"reference_acquisition", "controlled_acquisition"}
        BY <1>5, <2>1, <2>4, <3>1, <4>1 DEF Nested, After, Whereabouts, Running, StoreState, Phases
      <4>2. CASE proc.goal \notin {"reference_acquisition", "controlled_acquisition"}
        <5>1. nested = None
          BY <4>2 DEF Nested
        <5>2. pc' # "open" /\ pc' \notin {"packets", "deviation", "write", "fingerprint", "return"}
          BY <2>1, <3>1, <4>2, StateNamesAre DEF After
        <5>3. pc' = "event" => proc'.goal \in StateNames \ {"planned"}
          BY <2>1, <2>4, NextGoalIs, StateNamesAre
        <5>4. Running'
          BY <2>4, <3>1, <5>1 DEF Running
        <5>5. pc' # "state"
          BY <2>1, StateNamesAre DEF After
        <5>6. QED
          BY <1>5, <2>1, <2>4, <5>1, <5>2, <5>3, <5>4, <5>5 DEF Whereabouts, StoreState
      <4>3. QED
        BY <4>1, <4>2
    <3>2. CASE ~Running
      <4>1. nested = None /\ proc.goal \in AcquisitionGoals
        BY <2>1, <3>2 DEF Nested, Whereabouts
      <4>2. pc' \in {"inventory", "begin", "event", "packets", "return"}
        BY <2>1, <3>2, <4>1 DEF After, AcquisitionGoals
      <4>3. pc' = "event" => proc'.goal = "controlled_acquisition"
        BY <2>1, <2>4, <3>2, <4>1, NextGoalIs DEF After, AcquisitionGoals
      <4>4. ~Running'
        BY <2>4, <3>2, <4>1 DEF Running
      <4>5. QED
        BY <1>5, <2>1, <2>4, <4>1, <4>2, <4>3, <4>4, StateNamesAre
        DEF Whereabouts, StoreState, AcquisitionGoals
    <3>3. QED
      BY <3>1, <3>2
  <2>7. Published'
    <3>1. pc' \notin {"fingerprint", "evidence", "state"}
      BY <2>1, StateNamesAre DEF After
    <3>2. pc' = "event" => proc'.goal # "evidence_finalized"
      BY <2>1, <2>4, NextGoalIs
    <3>3. pc' = "return" => proc.goal = "evidence_finalized" /\ nested = None
      BY <2>1, StateNamesAre DEF After, Nested
    <3>4. QED
      BY <1>5, <2>1, <2>4, <3>1, <3>2, <3>3 DEF Published, StoreState
  <2>8. life' \in [Roots -> Life]
    <3> HIDE DEF stored
    <3>1. QED
      BY <1>0, <2>2
  <2>9. QED
    BY <1>5, <2>4, <2>5, <2>6, <2>7, <2>8 DEF StoreState
<1>6. QED
  BY <1>1, <1>2, <1>3, <1>4, <1>5 DEF Lifecycle

\* A step that changes nothing but the point the process has reached, between
\* points no transition is pending at.
LEMMA GotoType ==
    ASSUME TypeInv, NEW point \in Points \ {"event", "state", "return", "fingerprint", "evidence"},
           Goto(point), UNCHANGED used, pc # "idle",
           point \in {"packets", "write"} => ~Running,
           point \in {"splitFingerprint", "report"} => Running,
           point \notin {"residualize", "split", "tournament", "mark", "decision", "deviation"}
    PROVE  pc' \in Points /\ proc' \in Process /\ Whereabouts' /\ Published'
BY DEF TypeInv, TypeOK, Goto, Whereabouts, Published, Running

\* A step that announces a transition.
LEMMA TransitionType ==
    ASSUME TypeInv, NEW goal \in AcquisitionGoals \cup {"validation_selection"},
           Transition(goal), UNCHANGED used, pc # "idle",
           goal # "evidence_finalized",
           goal = "validation_selection" => Running
    PROVE  pc' \in Points /\ proc' \in Process /\ Whereabouts' /\ Published'
<1>1. goal \in StateNames \ {"planned"}
  BY StateNamesAre DEF AcquisitionGoals
<1>2. /\ proc' \in Process /\ proc'.driver = proc.driver /\ proc'.phase = proc.phase
      /\ proc'.at = here /\ proc'.config = proc.config
      /\ proc'.inventory = proc.inventory /\ proc'.goal = goal /\ pc' = "event"
  BY <1>1 DEF TypeInv, TypeOK, Transition, Process
<1>3. QED
  BY <1>1, <1>2 DEF TypeInv, Whereabouts, Published, Running, Points

LEMMA AcquisitionType ==
    ASSUME TypeInv, Acquisition
    PROVE  TypeInv'
<1> USE DEF TypeInv, TypeOK
<1>0. here \in Roots /\ proc.mem[here] \in Life /\ proc \in Process
  BY DEF Process
<1>1. CASE VerifyInventory
  <2>1. CASE pc' = "idle"
    <3>1. End /\ UNCHANGED inventory
      BY <1>1, <2>1 DEF VerifyInventory, Transition
    <3>2. QED
      BY <1>1, <3>1, EndType DEF VerifyInventory
  <2>2. CASE pc' # "idle"
    <3>1. Transition("inventory_verified") /\ proc.inventory \in Inventories
      BY <1>1, <2>2 DEF VerifyInventory, End, Whereabouts
    <3>2. inventory' \in [Roots -> Inventories \cup {None}]
      BY <1>0, <1>1, <2>2, <3>1 DEF VerifyInventory, End
    <3>3. pc' \in Points /\ proc' \in Process /\ Whereabouts' /\ Published'
      BY <1>1, <3>1, TransitionType DEF VerifyInventory, AcquisitionGoals
    <3>4. QED
      BY <1>1, <3>2, <3>3 DEF VerifyInventory
  <2>3. QED
    BY <2>1, <2>2
<1>2. CASE Begin
  <2>1. CASE Transition("reference_acquisition")
    <3>1. pc' \in Points /\ proc' \in Process /\ Whereabouts' /\ Published'
      BY <1>2, <2>1, TransitionType DEF Begin, AcquisitionGoals
    <3>2. QED
      BY <1>2, <3>1 DEF Begin, files
  <2>2. CASE ~Running /\ Goto("packets")
    <3>1. pc' \in Points /\ proc' \in Process /\ Whereabouts' /\ Published'
      BY <1>2, <2>2, GotoType DEF Begin, Points
    <3>2. QED
      BY <1>2, <3>1 DEF Begin, files
  <2>3. CASE End
    BY <1>2, <2>3, EndType DEF Begin, files
  <2>4. QED
    BY <1>2, <2>1, <2>2, <2>3 DEF Begin
<1>3. CASE Deviate
  <2>1. events' \in [Roots -> Files(StateNames \cup {"protocol_deviation"})]
    BY <1>0, <1>3, AppendType DEF Deviate, Record
  <2>2. /\ proc' \in Process /\ proc'.at = here /\ proc'.driver = proc.driver
        /\ proc'.phase = proc.phase /\ proc'.config = proc.config
        /\ proc'.inventory = proc.inventory
    BY <1>0, <1>3, CountUpdate DEF Deviate, Record
  <2>3. used' \in [calls : Nat, crashes : Nat, deviations : Nat] /\ used'.calls = used.calls
    BY <1>3 DEF Deviate
  <2>4. pc = "packets" /\ pc' = "deviation"
    BY <1>3 DEF Deviate
  <2>5. Whereabouts' /\ Published'
    BY <2>2, <2>3, <2>4 DEF Whereabouts, Published, Running
  <2>6. QED
    BY <1>3, <2>1, <2>2, <2>3, <2>4, <2>5 DEF Deviate, Points
<1>4. CASE StoreDeviation
  BY <1>0, <1>4, EndType DEF StoreDeviation
<1>5. CASE OpenDataset
  <2>1. CASE End
    BY <1>5, <2>1, EndType DEF OpenDataset, files
  <2>2. CASE Goto("write")
    <3>1. pc' \in Points /\ proc' \in Process /\ Whereabouts' /\ Published'
      BY <1>5, <2>2, GotoType DEF OpenDataset, Points, Whereabouts
    <3>2. QED
      BY <1>5, <3>1 DEF OpenDataset, files
  <2>3. QED
    BY <1>5, <2>1, <2>2 DEF OpenDataset
<1>6. CASE WriteShard
  <2>1. /\ pc = "write" /\ pc' = "write" /\ used.calls \in Calls
        /\ proc.written \in 0..Shards /\ proc.written < Shards
    BY <1>0, <1>6 DEF WriteShard, Whereabouts, Process
  <2>2. /\ proc' \in Process /\ proc'.at = here /\ proc'.driver = proc.driver
        /\ proc'.phase = proc.phase /\ proc'.config = proc.config
        /\ proc'.inventory = proc.inventory
    <3>1. proc.written + 1 \in 0..Shards
      BY <2>1
    <3>2. QED
      BY <1>0, <1>6, <3>1 DEF WriteShard, Process
  <2>3. shards' \in [Roots -> SUBSET (Calls \X (1..Shards))]
    <3>1. <<used.calls, proc.written + 1>> \in Calls \X (1..Shards)
      BY <2>1
    <3>2. QED
      BY <1>0, <1>6, <3>1 DEF WriteShard
  <2>4. Whereabouts' /\ Published'
    BY <1>6, <2>1, <2>2 DEF Whereabouts, Published, Running, WriteShard
  <2>5. QED
    BY <1>6, <2>2, <2>3, <2>4 DEF WriteShard
<1>7. CASE WriteManifest
  <2> DEFINE published == [call |-> used.calls, phase |-> proc.phase, config |-> proc.config]
  <2>1. proc.phase \in Phases
    BY <1>0, <1>7 DEF WriteManifest, Whereabouts, Running, Process, Roots, Phases
  <2>2. published \in Manifest /\ published # None
    BY <1>7, <2>1, NoManifestAssumption DEF WriteManifest, Manifest, Whereabouts
  <2>3. manifest' = [manifest EXCEPT ![here] = published]
    BY <1>7 DEF WriteManifest
  <2> HIDE DEF published
  <2>4. manifest' \in [Roots -> Manifest \cup {None}] /\ manifest'[here] # None
    BY <1>0, <2>2, <2>3
  <2>5. Whereabouts' /\ Published'
    BY <1>7, <2>4 DEF Whereabouts, Published, Running, WriteManifest, Goto
  <2>6. QED
    BY <1>7, <2>4, <2>5 DEF WriteManifest, Goto, Points
<1>8. CASE Fingerprint
  <2> DEFINE slot == Slot(proc.phase)
             set == [proc.mem[here] EXCEPT ![slot] = manifest[here].call]
  <2>1. CASE pc' = "idle"
    <3>1. End /\ UNCHANGED life
      BY <1>8, <2>1 DEF Fingerprint
    <3>2. QED
      BY <1>8, <3>1, EndType DEF Fingerprint
  <2>2. CASE pc' # "idle"
    <3>1. slot \in {"reference", "evidence"} /\ manifest[here].call \in Calls
      BY <1>0, <1>8 DEF Slot, Fingerprint, Published, Manifest
    <3>2. set \in Life
      BY <1>0, <3>1, FingerprintUpdate
    <3>3. /\ life' = [life EXCEPT ![here] = set]
          /\ proc' = [proc EXCEPT !.mem[here] = life'[here],
                                  !.goal = IF proc.phase = "controlled"
                                           THEN "evidence_finalized" ELSE None]
          /\ pc' = IF proc.phase = "controlled" THEN "event" ELSE "return"
          /\ pc = "fingerprint"
      BY <1>8, <2>2 DEF Fingerprint, SetFingerprint, End
    <3> HIDE DEF set, slot
    <3>4. life' \in [Roots -> Life] /\ life'[here] \in Life
      BY <1>0, <3>2, <3>3
    <3>5. /\ proc' \in Process /\ proc'.at = here /\ proc'.driver = proc.driver
          /\ proc'.phase = proc.phase /\ proc'.config = proc.config
          /\ proc'.inventory = proc.inventory
          /\ proc.phase = "controlled" => proc'.goal = "evidence_finalized"
      BY <1>0, <3>3, <3>4, StateNamesAre DEF Process
    <3>6. Whereabouts' /\ Published'
      BY <1>8, <3>3, <3>5, StateNamesAre
      DEF Whereabouts, Published, Running, Fingerprint, AcquisitionGoals
    <3>7. QED
      BY <1>8, <3>3, <3>4, <3>5, <3>6 DEF Fingerprint, Points
  <2>3. QED
    BY <2>1, <2>2
<1>9. CASE Return
  <2>1. CASE proc.driver = "acquire"
    BY <1>9, <2>1, EndType DEF Return, files
  <2>2. CASE proc.driver # "acquire"
    <3>1. /\ proc.driver = "run" /\ here \in {"reference", "controlled"}
          /\ manifest[here] # None
      BY <1>0, <1>9, <2>2 DEF Return, Whereabouts, Published, Running, Process, Roots
    <3>2. /\ proc' \in Process /\ proc'.at = "outer" /\ proc'.driver = proc.driver
          /\ proc'.phase = proc.phase /\ proc'.config = proc.config
          /\ proc'.inventory = proc.inventory
      BY <1>0, <1>9, <2>2 DEF Return, Process, Roots
    <3>3. pc = "return" /\ pc' = IF here = "reference" THEN "residualize" ELSE "evidence"
      BY <1>9, <2>2 DEF Return
    <3>4. Whereabouts' /\ Published'
      BY <1>9, <3>1, <3>2, <3>3 DEF Whereabouts, Published, Running, Return, files
    <3>5. QED
      BY <1>9, <3>2, <3>3, <3>4 DEF Return, files, Points
  <2>3. QED
    BY <2>1, <2>2
<1>10. QED
  BY <1>1, <1>2, <1>3, <1>4, <1>5, <1>6, <1>7, <1>8, <1>9 DEF Acquisition

LEMMA EvaluationType ==
    ASSUME TypeInv, Evaluation
    PROVE  TypeInv'
<1> USE DEF TypeInv, TypeOK
<1>0. here \in Roots /\ proc.mem[here] \in Life /\ proc \in Process
  BY DEF Process
<1>1. CASE Residualize
  <2>1. pc' \in Points /\ proc' \in Process /\ Whereabouts' /\ Published'
    BY <1>1, TransitionType DEF Residualize, AcquisitionGoals
  <2>2. QED
    BY <1>1, <2>1 DEF Residualize, Results
<1>2. CASE FinalizeEvidence
  <2> DEFINE set == [proc.mem[here] EXCEPT !["evidence"] = manifest["controlled"].call]
  <2>1. manifest["controlled"].call \in Calls
    BY <1>2 DEF FinalizeEvidence, Published, Manifest, Roots
  <2>2. set \in Life
    BY <1>0, <2>1, FingerprintUpdate
  <2>3. /\ life' = [life EXCEPT ![here] = set]
        /\ proc' = [proc EXCEPT !.mem[here] = life'[here], !.goal = "evidence_finalized"]
    BY <1>2 DEF FinalizeEvidence, SetFingerprint
  <2> HIDE DEF set
  <2>4. life' \in [Roots -> Life] /\ life'[here] \in Life
    BY <1>0, <2>2, <2>3
  <2>5. /\ proc' \in Process /\ proc'.at = here /\ proc'.driver = proc.driver
        /\ proc'.phase = proc.phase /\ proc'.config = proc.config
        /\ proc'.inventory = proc.inventory /\ proc'.goal = "evidence_finalized"
    BY <1>0, <2>3, <2>4, StateNamesAre DEF Process
  <2>6. Whereabouts' /\ Published'
    BY <1>2, <2>5, StateNamesAre DEF Whereabouts, Published, Running, FinalizeEvidence
  <2>7. QED
    BY <1>2, <2>4, <2>5, <2>6 DEF FinalizeEvidence, Points
<1>3. CASE WriteSplit
  <2>1. pc' \in Points /\ proc' \in Process /\ Whereabouts' /\ Published'
    BY <1>3, GotoType DEF WriteSplit, Points, Whereabouts
  <2>2. QED
    BY <1>3, <2>1 DEF WriteSplit, Results
<1>4. CASE FreezeSplit
  <2> DEFINE set == [proc.mem[here] EXCEPT !.split = TRUE]
  <2>1. set \in Life
    BY <1>0, FlagUpdate
  <2>2. /\ life' = [life EXCEPT ![here] = set]
        /\ proc' = [proc EXCEPT !.mem[here] = life'[here], !.goal = "split_frozen"]
    BY <1>4 DEF FreezeSplit
  <2> HIDE DEF set
  <2>3. life' \in [Roots -> Life] /\ life'[here] \in Life
    BY <1>0, <2>1, <2>2
  <2>4. /\ proc' \in Process /\ proc'.at = here /\ proc'.driver = proc.driver
        /\ proc'.phase = proc.phase /\ proc'.config = proc.config
        /\ proc'.inventory = proc.inventory /\ proc'.goal = "split_frozen"
    BY <1>0, <2>2, <2>3, StateNamesAre DEF Process
  <2>5. Whereabouts' /\ Published'
    BY <1>4, <2>4, StateNamesAre DEF Whereabouts, Published, Running, FreezeSplit
  <2>6. QED
    BY <1>4, <2>3, <2>4, <2>5 DEF FreezeSplit, Points
<1>5. CASE Tournament
  <2>1. pc' \in Points /\ proc' \in Process /\ Whereabouts' /\ Published'
    BY <1>5, TransitionType DEF Tournament, Whereabouts
  <2>2. evaluations' \in Nat
    BY <1>5 DEF Tournament
  <2>3. UNCHANGED <<life, events, config, protocol, inventory, shards, temporary,
                    manifest, results, used>>
    BY <1>5 DEF Tournament, files
  <2>4. QED
    BY <2>1, <2>2, <2>3
<1>6. CASE MarkTestEvaluated
  <2>1. CASE pc' = "idle"
    <3>1. End
      BY <1>6, <2>1 DEF MarkTestEvaluated
    <3>2. QED
      BY <1>6, <3>1, EndType DEF MarkTestEvaluated, files
  <2>2. CASE pc' # "idle"
    <3>1. proc' = [proc EXCEPT !.mem[here].tested = TRUE, !.goal = "test_evaluation"]
          /\ pc' = "event" /\ pc = "mark"
      BY <1>6, <2>2 DEF MarkTestEvaluated, End
    <3>2. /\ proc' \in Process /\ proc'.at = here /\ proc'.driver = proc.driver
          /\ proc'.phase = proc.phase /\ proc'.config = proc.config
          /\ proc'.inventory = proc.inventory /\ proc'.goal = "test_evaluation"
      <4> DEFINE m == [proc.mem[here] EXCEPT !.tested = TRUE]
      <4>1. m \in Life
        BY <1>0, TestedUpdate
      <4>2. proc' = [proc EXCEPT !.mem[here] = m, !.goal = "test_evaluation"]
        BY <3>1
      <4> HIDE DEF m
      <4>3. QED
        BY <1>0, <4>1, <4>2, StateNamesAre DEF Process
    <3>3. Whereabouts' /\ Published'
      BY <1>6, <3>1, <3>2, StateNamesAre
      DEF Whereabouts, Published, Running, MarkTestEvaluated
    <3>4. QED
      BY <1>6, <3>1, <3>2, <3>3 DEF MarkTestEvaluated, files, Points
  <2>3. QED
    BY <2>1, <2>2
<1>7. CASE WriteDecision
  <2>1. pc' \in Points /\ proc' \in Process /\ Whereabouts' /\ Published'
    BY <1>7, GotoType DEF WriteDecision, Points, Whereabouts
  <2>2. QED
    BY <1>7, <2>1 DEF WriteDecision, Results
<1>8. CASE WriteReport
  BY <1>8, EndType DEF WriteReport, Results
<1>9. QED
  BY <1>1, <1>2, <1>3, <1>4, <1>5, <1>6, <1>7, <1>8 DEF Evaluation

LEMMA CrashType ==
    ASSUME TypeInv, Crash
    PROVE  TypeInv'
<1> USE DEF TypeInv, TypeOK
<1>0. here \in Roots
  BY DEF Process
<1>1. events' \in [Roots -> Files(StateNames \cup {"protocol_deviation"})]
  <2>1. CASE events' = events
    BY <2>1
  <2>2. CASE events' # events
    <3>1. PICK f \in TornAppends(events[here]) : events' = [events EXCEPT ![here] = f]
      BY <2>2 DEF Crash
    <3>2. f \in Files(StateNames \cup {"protocol_deviation"})
      BY <1>0, TornType
    <3>3. QED
      BY <1>0, <3>1, <3>2
  <2>3. QED
    BY <2>1, <2>2
<1>2. temporary' \in [Roots -> BOOLEAN] /\ results' \subseteq Results
  BY <1>0 DEF Crash, Results
<1>3. used' \in [calls : Nat, crashes : Nat, deviations : Nat]
  BY DEF Crash
<1>4. pc' \in Points /\ proc' \in Process /\ Whereabouts' /\ Published'
  BY EndType DEF Crash
<1>5. QED
  BY <1>1, <1>2, <1>3, <1>4 DEF Crash

LEMMA NextType == TypeInv /\ [Next]_vars => TypeInv'
<1> SUFFICES ASSUME TypeInv, [Next]_vars PROVE TypeInv'
  OBVIOUS
<1>1. CASE UNCHANGED vars
  BY <1>1 DEF vars, files, TypeInv, TypeOK, Whereabouts, Published, Running
<1>2. QED
  BY <1>1, CallType, LifecycleType, AcquisitionType, EvaluationType, CrashType DEF Next

\* Every reachable state is well typed; in particular no transition is ever taken
\* towards a state that does not exist, and every fingerprint is of a call.
THEOREM ExperimentTypeCorrect == Spec => []TypeOK
<1>1. TypeInv => TypeOK
  BY DEF TypeInv
<1>2. QED
  BY <1>1, InitType, NextType, PTL DEF Spec

----------------------------------------------------------------------------
(* Packet datasets *)

\* While shards are written there is no manifest, and the directory holds what
\* this call has written and nothing else.
Writing ==
    /\ pc \in {"open", "begin", "packets"} => proc.written = 0
    /\ pc = "write" => /\ manifest[here] = None /\ ~temporary[here]
                       /\ shards[here] = {used.calls} \X (1..proc.written)

DatasetInv == TypeInv /\ Writing /\ DatasetOfOneAcquisition

LEMMA DatasetInit == Init => DatasetInv
BY InitType, NoProcessType
DEF Init, DatasetInv, Writing, DatasetOfOneAcquisition

\* One shard more.
LEMMA ShardWritten ==
    ASSUME NEW c, NEW n \in Nat
    PROVE  ({c} \X (1..n)) \cup {<<c, n + 1>>} = {c} \X (1..(n + 1))
<1>1. \A i : i \in 1..(n + 1) <=> i \in 1..n \/ i = n + 1
  OBVIOUS
<1>2. ASSUME NEW e PROVE e \in {c} \X (1..(n + 1)) <=> e \in {c} \X (1..n) \/ e = <<c, n + 1>>
  BY <1>1
<1>3. QED
  BY <1>2

\* Steps that leave the packet stores alone.
LEMMA StoresUnchanged ==
    ASSUME DatasetInv, UNCHANGED <<shards, temporary, manifest>>,
           pc' # "write", pc' \in {"open", "begin", "packets"} => proc'.written = 0
    PROVE  Writing' /\ DatasetOfOneAcquisition'
BY DEF DatasetInv, Writing, DatasetOfOneAcquisition

LEMMA DatasetNext == DatasetInv /\ [Next]_vars => DatasetInv'
<1> SUFFICES ASSUME DatasetInv, [Next]_vars PROVE Writing' /\ DatasetOfOneAcquisition'
  BY NextType DEF DatasetInv
<1>0. /\ here \in Roots /\ proc \in Process /\ proc.written \in Nat
      /\ DOMAIN shards = Roots /\ DOMAIN manifest = Roots /\ DOMAIN temporary = Roots
  BY DEF DatasetInv, TypeInv, TypeOK, Process
<1>1. CASE Run \/ Acquire
  <2>1. PICK d \in {"run", "acquire"}, p \in Phases \cup {None}, c \in Configs, i \in Inventories :
           Call(d, p, c, i)
    BY <1>1 DEF Run, Acquire
  <2>2. proc'.written = 0
    BY <2>1, NoProcessType DEF Call, Process
  <2>3. pc' = "open" /\ UNCHANGED <<shards, temporary, manifest>>
    BY <2>1 DEF Call, files
  <2>4. QED
    BY <2>2, <2>3, StoresUnchanged
<1>2. CASE Open
  <2>1. pc' \in {"idle", "freeze", "inventory"} \/ (pc' = "begin" /\ proc'.written = 0)
    <3>1. CASE End
      BY <3>1 DEF End
    <3>2. CASE proc' = [proc EXCEPT !.mem[here] = life'[here]]
      <4>1. proc'.written = proc.written /\ proc.written = 0
        BY <1>0, <1>2, <3>2 DEF Open, DatasetInv, Writing, Process
      <4>2. pc' \in {"idle", "freeze", "inventory", "begin"}
        BY <1>2 DEF Open, Entry, End
      <4>3. QED
        BY <4>1, <4>2
    <3>3. QED
      BY <1>2, <3>1, <3>2 DEF Open
  <2>2. QED
    BY <1>2, <2>1, StoresUnchanged DEF Open
<1>3. CASE StoreState
  <2>1. pc = "state" /\ proc.goal \in StateNames \ {"planned"}
    BY <1>3 DEF StoreState, DatasetInv, TypeInv, Whereabouts
  <2>2. proc'.written = 0 /\ pc' # "write"
    BY <1>0, <1>3, <2>1, StateNamesAre DEF StoreState, Process, After
  <2>3. QED
    BY <1>3, <2>2, StoresUnchanged DEF StoreState
<1>4. CASE OpenDataset
  <2>1. CASE End
    BY <1>4, <2>1, StoresUnchanged DEF OpenDataset, files, End
  <2>2. CASE ~Populated /\ Goto("write")
    <3>1. /\ manifest[here] = None /\ shards[here] = {} /\ ~temporary[here]
          /\ proc.written = 0
      BY <1>4, <2>2 DEF OpenDataset, Populated, DatasetInv, Writing
    <3>2. {used.calls} \X (1..0) = {}
      OBVIOUS
    <3>3. UNCHANGED <<proc, shards, temporary, manifest, used>> /\ pc' = "write"
      BY <1>4, <2>2 DEF OpenDataset, Goto, files
    <3>4. QED
      BY <3>1, <3>2, <3>3 DEF DatasetInv, Writing, DatasetOfOneAcquisition
  <2>3. QED
    BY <1>4, <2>1, <2>2 DEF OpenDataset
<1>5. CASE WriteShard
  <2>1. /\ pc = "write" /\ pc' = "write" /\ UNCHANGED <<manifest, temporary, used>>
        /\ proc'.at = here /\ proc'.written = proc.written + 1
        /\ shards' = [shards EXCEPT ![here] = @ \cup {<<used.calls, proc.written + 1>>}]
    BY <1>0, <1>5 DEF WriteShard, Process
  <2>2. shards'[here] = {used.calls} \X (1..(proc.written + 1))
    BY <1>0, <2>1, ShardWritten DEF DatasetInv, Writing
  <2>3. DatasetOfOneAcquisition'
    BY <1>0, <2>1 DEF DatasetInv, Writing, DatasetOfOneAcquisition
  <2>4. QED
    BY <2>1, <2>2, <2>3 DEF DatasetInv, Writing
<1>6. CASE WriteManifest
  <2>1. /\ pc = "write" /\ pc' = "fingerprint" /\ proc.written = Shards
        /\ UNCHANGED <<shards, temporary>>
    BY <1>6 DEF WriteManifest, Goto
  <2>2. manifest'[here].call = used.calls /\ \A x \in Roots \ {here} : manifest'[x] = manifest[x]
    BY <1>0, <1>6 DEF WriteManifest
  <2>3. DatasetOfOneAcquisition'
    BY <2>1, <2>2 DEF DatasetInv, Writing, DatasetOfOneAcquisition
  <2>4. QED
    BY <2>1, <2>3 DEF Writing
<1>7. CASE Crash
  <2>1. pc' = "idle" /\ UNCHANGED <<shards, manifest>>
    BY <1>7 DEF Crash, End
  <2>2. \A x \in Roots : manifest[x] # None => temporary'[x] = temporary[x]
    BY <1>0, <1>7 DEF Crash, DatasetInv, Writing
  <2>3. QED
    BY <2>1, <2>2 DEF DatasetInv, Writing, DatasetOfOneAcquisition
<1>8. CASE Begin
  BY <1>8, StoresUnchanged DEF Begin, Transition, Goto, End, files, DatasetInv, Writing
<1>9. CASE \/ WriteConfig \/ WriteProtocol \/ AppendEvent \/ VerifyInventory \/ Deviate
           \/ StoreDeviation \/ Fingerprint \/ Return \/ Evaluation
  <2>1. pc' \notin {"open", "begin", "packets", "write"}
    BY <1>9 DEF WriteConfig, WriteProtocol, AppendEvent, VerifyInventory, Deviate,
       StoreDeviation, Fingerprint, Return, Evaluation, Residualize, FinalizeEvidence,
       WriteSplit, FreezeSplit, Tournament, MarkTestEvaluated, WriteDecision, WriteReport,
       Goto, Transition, End
  <2>2. UNCHANGED <<shards, temporary, manifest>>
    BY <1>9 DEF WriteConfig, WriteProtocol, AppendEvent, VerifyInventory, Deviate,
       StoreDeviation, Fingerprint, Return, Evaluation, Residualize, FinalizeEvidence,
       WriteSplit, FreezeSplit, Tournament, MarkTestEvaluated, WriteDecision, WriteReport,
       files
  <2>3. QED
    BY <2>1, <2>2, StoresUnchanged
<1>10. CASE UNCHANGED vars
  BY <1>10 DEF vars, files, DatasetInv, Writing, DatasetOfOneAcquisition
<1>11. QED
  BY <1>1, <1>2, <1>3, <1>4, <1>5, <1>6, <1>7, <1>8, <1>9, <1>10
  DEF Next, Lifecycle, Acquisition

\* A packet dataset with a manifest is the work of one acquisition, through any
\* number of deaths and calls.
THEOREM ExperimentDatasetOfOneAcquisition == Spec => []DatasetOfOneAcquisition
<1>1. DatasetInv => DatasetOfOneAcquisition
  BY DEF DatasetInv
<1>2. QED
  BY <1>1, DatasetInit, DatasetNext, PTL DEF Spec

\* No step changes a dataset that has a manifest.
LEMMA DatasetKept ==
    ASSUME DatasetInv, [Next]_vars, NEW x \in Roots, manifest[x] # None
    PROVE  manifest'[x] = manifest[x] /\ shards'[x] = shards[x]
<1>0. DOMAIN shards = Roots /\ DOMAIN manifest = Roots
  BY DEF DatasetInv, TypeInv, TypeOK
<1>1. CASE WriteShard \/ WriteManifest
  BY <1>0, <1>1 DEF WriteShard, WriteManifest, DatasetInv, Writing
<1>2. CASE ~(WriteShard \/ WriteManifest)
  <2>1. UNCHANGED <<shards, manifest>>
    BY <1>2 DEF Next, Run, Acquire, Call, Lifecycle, Open, WriteConfig, WriteProtocol,
       AppendEvent, StoreState, Acquisition, VerifyInventory, Begin, Deviate,
       StoreDeviation, OpenDataset, Fingerprint, Return, Evaluation, Residualize,
       FinalizeEvidence, WriteSplit, FreezeSplit, Tournament, MarkTestEvaluated,
       WriteDecision, WriteReport, Crash, files, vars
  <2>2. QED
    BY <2>1
<1>3. QED
  BY <1>1, <1>2

\* A published packet dataset never changes again.
THEOREM ExperimentEvidenceImmutable == Spec => EvidenceImmutable
<1>1. DatasetInv /\ [Next]_vars =>
         \A x \in Roots : manifest[x] # None => /\ manifest'[x] = manifest[x]
                                                /\ shards'[x] = shards[x]
  BY DatasetKept
<1>2. QED
  BY <1>1, DatasetInit, DatasetNext, PTL DEF Spec, EvidenceImmutable

----------------------------------------------------------------------------
(* The protocol of a dataset *)

\* The memory of a process has the state and the protocol hash its directory has,
\* and the directory of the whole experiment keeps them during a nested call.
Synchronized ==
    /\ pc \notin {"idle", "open"} => /\ proc.mem[here].state = life[here].state
                                     /\ proc.mem[here].hash = life[here].hash
    /\ here # "outer" => /\ proc.mem["outer"].state = life["outer"].state
                         /\ proc.mem["outer"].hash = life["outer"].hash

SyncInv == TypeInv /\ Synchronized

LEMMA SyncInit == Init => SyncInv
BY InitType, NoProcessType DEF Init, SyncInv, Synchronized

LEMMA EndSync ==
    ASSUME End
    PROVE  Synchronized'
BY NoProcessType DEF End, Synchronized

\* A lifecycle, stored in memory and in its file.
LEMMA StoredSync ==
    ASSUME SyncInv, NEW m \in Life,
           life' = [life EXCEPT ![here] = m], proc'.at = here,
           proc'.mem = [proc.mem EXCEPT ![here] = m]
    PROVE  Synchronized'
BY DEF SyncInv, TypeInv, TypeOK, Process, Synchronized, Roots

\* Memory that keeps state and hash, and a file that does.
LEMMA KeptSync ==
    ASSUME SyncInv, UNCHANGED life, pc \notin {"idle", "open"}, proc'.at = here,
           \A x \in Roots : /\ proc'.mem[x].state = proc.mem[x].state
                            /\ proc'.mem[x].hash = proc.mem[x].hash
    PROVE  Synchronized'
BY DEF SyncInv, TypeInv, TypeOK, Process, Synchronized, Roots

LEMMA SyncNext == SyncInv /\ [Next]_vars => SyncInv'
<1> SUFFICES ASSUME SyncInv, [Next]_vars PROVE Synchronized'
  BY NextType DEF SyncInv
<1>0. /\ here \in Roots /\ proc \in Process /\ proc.mem \in [Roots -> Life]
      /\ proc.mem[here] \in Life /\ life \in [Roots -> Life]
  BY DEF SyncInv, TypeInv, TypeOK, Process
<1>1. CASE Run \/ Acquire
  <2>1. PICK d \in {"run", "acquire"}, p \in Phases \cup {None}, c \in Configs, i \in Inventories :
           Call(d, p, c, i)
    BY <1>1 DEF Run, Acquire
  <2>2. proc'.at = "outer" /\ pc' = "open"
    BY <2>1, NoProcessType DEF Call, Process
  <2>3. QED
    BY <2>2 DEF Synchronized
<1>2. CASE Open
  <2>1. CASE pc' = "idle"
    BY <1>2, <2>1, EndSync DEF Open, Entry
  <2>2. CASE pc' # "idle"
    <3>1. pc = "open" /\ proc' = [proc EXCEPT !.mem[here] = life'[here]]
      BY <1>2, <2>2 DEF Open, End
    <3>2. proc'.at = here /\ proc'.mem = [proc.mem EXCEPT ![here] = life'[here]]
      BY <1>0, <3>1 DEF Process
    <3>3. \A x \in Roots : x # here => life'[x] = life[x]
      BY <1>0, <1>2, <2>2 DEF Open, End
    <3>4. QED
      BY <1>0, <3>1, <3>2, <3>3 DEF SyncInv, Synchronized, Roots
  <2>3. QED
    BY <2>1, <2>2
<1>3. CASE AppendEvent \/ Deviate
  <2>1. CASE End
    BY <2>1, EndSync
  <2>2. CASE \E e : Record(e)
    <3>1. PICK e : Record(e)
      BY <2>2
    <3>2. /\ proc'.at = here
          /\ \A x \in Roots : proc'.mem[x].state = proc.mem[x].state
                              /\ proc'.mem[x].hash = proc.mem[x].hash
      BY <1>0, <3>1, CountUpdate DEF Record
    <3>3. UNCHANGED life /\ pc \notin {"idle", "open"}
      BY <1>3 DEF AppendEvent, Deviate
    <3>4. QED
      BY <3>2, <3>3, KeptSync
  <2>3. QED
    BY <1>3, <2>1, <2>2 DEF AppendEvent, Deviate
<1>4. CASE StoreState
  <2> DEFINE stored == [proc.mem[here] EXCEPT !.state = proc.goal]
             nested == Nested(proc.goal)
  <2>1. pc = "state" /\ pc' = After(proc.goal) /\ proc.goal \in StateNames \ {"planned"}
    BY <1>4 DEF StoreState, SyncInv, TypeInv, Whereabouts
  <2>2. stored \in Life /\ life' = [life EXCEPT ![here] = stored]
    BY <1>0, <1>4, <2>1, StateUpdate DEF StoreState
  <2>3. proc' = [proc EXCEPT !.mem[here] = stored, !.goal = NextGoal(@),
                             !.at = IF nested = None THEN @ ELSE nested,
                             !.phase = IF nested = None THEN @ ELSE nested, !.written = 0]
    BY <1>4 DEF StoreState
  <2>4. nested # None => here = "outer" /\ pc' = "open"
    BY <2>1 DEF Nested, Running, After
  <2> HIDE DEF stored, nested
  <2>5. /\ proc'.mem = [proc.mem EXCEPT ![here] = stored]
        /\ proc'.at = (IF nested = None THEN here ELSE nested)
    BY <1>0, <2>3 DEF Process
  <2>6. CASE nested = None
    BY <2>2, <2>5, <2>6, StoredSync
  <2>7. CASE nested # None
    BY <1>0, <2>2, <2>4, <2>5, <2>7 DEF Synchronized
  <2>8. QED
    BY <2>6, <2>7
<1>5. CASE StoreDeviation \/ WriteReport
  BY <1>5, EndSync DEF StoreDeviation, WriteReport
<1>6. CASE Fingerprint
  <2> DEFINE slot == Slot(proc.phase)
             set == [proc.mem[here] EXCEPT ![slot] = manifest[here].call]
  <2>1. CASE pc' = "idle"
    BY <1>6, <2>1, EndSync DEF Fingerprint
  <2>2. CASE pc' # "idle"
    <3>1. slot \in {"reference", "evidence"} /\ manifest[here].call \in Calls
      BY <1>0, <1>6 DEF Slot, Fingerprint, SyncInv, TypeInv, TypeOK, Published, Manifest
    <3>2. set \in Life
      BY <1>0, <3>1, FingerprintUpdate
    <3>3. /\ life' = [life EXCEPT ![here] = set]
          /\ proc' = [proc EXCEPT !.mem[here] = life'[here],
                                  !.goal = IF proc.phase = "controlled"
                                           THEN "evidence_finalized" ELSE None]
      BY <1>6, <2>2 DEF Fingerprint, SetFingerprint, End
    <3> HIDE DEF set, slot
    <3>4. life'[here] = set
      BY <1>0, <3>3
    <3>5. proc'.at = here /\ proc'.mem = [proc.mem EXCEPT ![here] = set]
      BY <1>0, <3>3, <3>4 DEF Process
    <3>6. QED
      BY <3>2, <3>3, <3>5, StoredSync
  <2>3. QED
    BY <2>1, <2>2
<1>7. CASE FinalizeEvidence
  <2> DEFINE set == [proc.mem[here] EXCEPT !["evidence"] = manifest["controlled"].call]
  <2>1. manifest["controlled"].call \in Calls
    BY <1>7 DEF FinalizeEvidence, SyncInv, TypeInv, TypeOK, Published, Manifest, Roots
  <2>2. set \in Life
    BY <1>0, <2>1, FingerprintUpdate
  <2>3. /\ life' = [life EXCEPT ![here] = set]
        /\ proc' = [proc EXCEPT !.mem[here] = life'[here], !.goal = "evidence_finalized"]
    BY <1>7 DEF FinalizeEvidence, SetFingerprint
  <2> HIDE DEF set
  <2>4. life'[here] = set
    BY <1>0, <2>3
  <2>5. proc'.at = here /\ proc'.mem = [proc.mem EXCEPT ![here] = set]
    BY <1>0, <2>3, <2>4 DEF Process
  <2>6. QED
    BY <2>2, <2>3, <2>5, StoredSync
<1>8. CASE FreezeSplit
  <2> DEFINE set == [proc.mem[here] EXCEPT !.split = TRUE]
  <2>1. set \in Life
    BY <1>0, FlagUpdate
  <2>2. /\ life' = [life EXCEPT ![here] = set]
        /\ proc' = [proc EXCEPT !.mem[here] = life'[here], !.goal = "split_frozen"]
    BY <1>8 DEF FreezeSplit
  <2> HIDE DEF set
  <2>3. life'[here] = set
    BY <1>0, <2>2
  <2>4. proc'.at = here /\ proc'.mem = [proc.mem EXCEPT ![here] = set]
    BY <1>0, <2>2, <2>3 DEF Process
  <2>5. QED
    BY <2>1, <2>2, <2>4, StoredSync
<1>9. CASE MarkTestEvaluated
  <2>1. CASE pc' = "idle"
    BY <1>9, <2>1, EndSync DEF MarkTestEvaluated
  <2>2. CASE pc' # "idle"
    <3> DEFINE m == [proc.mem[here] EXCEPT !.tested = TRUE]
    <3>1. m \in Life /\ m.state = proc.mem[here].state /\ m.hash = proc.mem[here].hash
      BY <1>0, TestedUpdate
    <3>2. proc' = [proc EXCEPT !.mem[here] = m, !.goal = "test_evaluation"]
      BY <1>9, <2>2 DEF MarkTestEvaluated, End
    <3> HIDE DEF m
    <3>3. proc'.at = here /\ proc'.mem = [proc.mem EXCEPT ![here] = m]
      BY <1>0, <3>2 DEF Process
    <3>4. \A x \in Roots : proc'.mem[x].state = proc.mem[x].state
                           /\ proc'.mem[x].hash = proc.mem[x].hash
      BY <1>0, <3>1, <3>3
    <3>5. QED
      BY <1>9, <3>3, <3>4, KeptSync DEF MarkTestEvaluated, files
  <2>3. QED
    BY <2>1, <2>2
<1>10. CASE Return
  <2>1. CASE proc.driver = "acquire"
    BY <1>10, <2>1, EndSync DEF Return
  <2>2. CASE proc.driver # "acquire"
    <3>1. proc'.at = "outer" /\ proc'.mem = proc.mem /\ UNCHANGED life
      BY <1>0, <1>10, <2>2 DEF Return, Process, files
    <3>2. here # "outer"
      BY <1>0, <1>10, <2>2 DEF Return, SyncInv, TypeInv, Whereabouts, Running, Process
    <3>3. QED
      BY <3>1, <3>2 DEF SyncInv, Synchronized
  <2>3. QED
    BY <2>1, <2>2
<1>11. CASE Crash
  BY <1>11, EndSync DEF Crash
<1>12. CASE \/ WriteConfig \/ WriteProtocol \/ VerifyInventory \/ Begin \/ OpenDataset
            \/ WriteShard \/ WriteManifest \/ Residualize \/ WriteSplit \/ Tournament
            \/ WriteDecision
  <2>1. UNCHANGED life /\ pc \notin {"idle", "open"}
    BY <1>12 DEF WriteConfig, WriteProtocol, VerifyInventory, Begin, OpenDataset, WriteShard,
       WriteManifest, Residualize, WriteSplit, Tournament, WriteDecision, files
  <2>2. End \/ (proc'.at = here /\ proc'.mem = proc.mem)
    BY <1>0, <1>12 DEF WriteConfig, WriteProtocol, VerifyInventory, Begin, OpenDataset,
       WriteShard, WriteManifest, Residualize, WriteSplit, Tournament, WriteDecision,
       Goto, Transition, Process
  <2>3. QED
    BY <2>1, <2>2, EndSync, KeptSync
<1>13. CASE UNCHANGED vars
  BY <1>13 DEF vars, files, SyncInv, Synchronized
<1>14. QED
  BY <1>1, <1>2, <1>3, <1>4, <1>5, <1>6, <1>7, <1>8, <1>9, <1>10, <1>11, <1>12, <1>13
  DEF Next, Lifecycle, Acquisition, Evaluation

\* Only a transition or the creation of a lifecycle changes the state of one, and
\* only its creation the protocol hash.
LEMMA LifecycleKept ==
    ASSUME SyncInv, [Next]_vars, ~Open, ~StoreState, NEW x \in Roots
    PROVE  life'[x].state = life[x].state /\ life'[x].hash = life[x].hash
<1>0. /\ here \in Roots /\ proc.mem[here] \in Life /\ life \in [Roots -> Life]
  BY DEF SyncInv, TypeInv, TypeOK, Process
<1>1. CASE UNCHANGED life
  BY <1>1
<1>2. CASE StoreDeviation
  BY <1>0, <1>2 DEF StoreDeviation, SyncInv, Synchronized
<1>3. CASE Fingerprint /\ life' # life
  <2> DEFINE slot == Slot(proc.phase)
             set == [proc.mem[here] EXCEPT ![slot] = manifest[here].call]
  <2>1. slot \in {"reference", "evidence"} /\ manifest[here].call \in Calls
    BY <1>0, <1>3 DEF Slot, Fingerprint, SyncInv, TypeInv, TypeOK, Published, Manifest
  <2>2. /\ set.state = proc.mem[here].state /\ set.hash = proc.mem[here].hash
    BY <1>0, <2>1, FingerprintUpdate
  <2>3. life' = [life EXCEPT ![here] = set] /\ pc = "fingerprint"
    BY <1>3 DEF Fingerprint, SetFingerprint
  <2> HIDE DEF set
  <2>4. QED
    BY <1>0, <2>2, <2>3 DEF SyncInv, Synchronized
<1>4. CASE FinalizeEvidence
  <2> DEFINE set == [proc.mem[here] EXCEPT !["evidence"] = manifest["controlled"].call]
  <2>1. manifest["controlled"].call \in Calls
    BY <1>4 DEF FinalizeEvidence, SyncInv, TypeInv, TypeOK, Published, Manifest, Roots
  <2>2. /\ set.state = proc.mem[here].state /\ set.hash = proc.mem[here].hash
    BY <1>0, <2>1, FingerprintUpdate
  <2>3. life' = [life EXCEPT ![here] = set] /\ pc = "evidence"
    BY <1>4 DEF FinalizeEvidence, SetFingerprint
  <2> HIDE DEF set
  <2>4. QED
    BY <1>0, <2>2, <2>3 DEF SyncInv, Synchronized
<1>5. CASE FreezeSplit
  <2> DEFINE set == [proc.mem[here] EXCEPT !.split = TRUE]
  <2>1. /\ set.state = proc.mem[here].state /\ set.hash = proc.mem[here].hash
    BY <1>0, FlagUpdate
  <2>2. life' = [life EXCEPT ![here] = set] /\ pc = "splitFingerprint"
    BY <1>5 DEF FreezeSplit
  <2> HIDE DEF set
  <2>3. QED
    BY <1>0, <2>1, <2>2 DEF SyncInv, Synchronized
<1>6. UNCHANGED life \/ StoreDeviation \/ (Fingerprint /\ life' # life)
      \/ FinalizeEvidence \/ FreezeSplit
  BY DEF Next, Run, Acquire, Call, Lifecycle, WriteConfig, WriteProtocol, AppendEvent,
     Acquisition, VerifyInventory, Begin, Deviate, OpenDataset, WriteShard, WriteManifest,
     Return, Evaluation, Residualize, WriteSplit, Tournament, MarkTestEvaluated,
     WriteDecision, WriteReport, Crash, files, vars
<1>7. QED
  BY <1>1, <1>2, <1>3, <1>4, <1>5, <1>6

\* The protocol of a directory has the hash of its lifecycle, and whoever works
\* there has a configuration with that hash.
Frozen ==
    /\ \A x \in Roots :
          /\ protocol[x] # None => life[x].state # "absent" /\ Hash(protocol[x]) = life[x].hash
          /\ life[x].state \notin {"absent", "planned"} => protocol[x] # None
          /\ manifest[x] # None => protocol[x] # None /\ Hash(manifest[x].config) = life[x].hash
    /\ pc \notin {"idle", "open"} => life[here].state # "absent"
                                   /\ life[here].hash = Hash(proc.config)
    /\ pc \notin {"idle", "open", "freeze", "protocol"} => protocol[here] # None
    /\ here # "outer" => /\ life["outer"].state # "absent"
                         /\ life["outer"].hash = Hash(proc.config)
                         /\ protocol["outer"] # None

FrozenInv == SyncInv /\ Frozen

LEMMA FrozenInit == Init => FrozenInv
BY SyncInit, NoProcessType DEF Init, FrozenInv, Frozen, NoLife

LEMMA FrozenNext == FrozenInv /\ [Next]_vars => FrozenInv'
<1> SUFFICES ASSUME FrozenInv, [Next]_vars PROVE Frozen'
  BY SyncNext DEF FrozenInv
<1>0. /\ here \in Roots /\ "outer" \in Roots /\ proc \in Process /\ life \in [Roots -> Life]
      /\ DOMAIN protocol = Roots /\ DOMAIN manifest = Roots /\ DOMAIN life = Roots
  BY DEF FrozenInv, SyncInv, TypeInv, TypeOK, Process, Roots
<1>1. CASE Open
  <2>1. /\ pc = "open" /\ UNCHANGED <<protocol, manifest>>
    BY <1>1 DEF Open
  <2>2. CASE pc' = "idle"
    <3>1. End /\ UNCHANGED life
      BY <1>1, <2>2 DEF Open, Entry
    <3>2. QED
      BY <2>1, <3>1, NoProcessType DEF End, FrozenInv, Frozen
  <2>3. CASE pc' # "idle"
    <3>1. proc' = [proc EXCEPT !.mem[here] = life'[here]]
      BY <1>1, <2>3 DEF Open, End
    <3>2. proc'.at = here /\ proc'.config = proc.config
      BY <1>0, <3>1 DEF Process
    <3> DEFINE planned == [NoLife EXCEPT !.state = "planned", !.hash = Hash(proc.config)]
    <3>a. planned.state = "planned" /\ planned.hash = Hash(proc.config)
      BY DEF NoLife
    <3>b. \/ life[here].state = "absent" /\ life' = [life EXCEPT ![here] = planned]
          \/ /\ life[here].state # "absent" /\ life[here].hash = Hash(proc.config)
             /\ life' = life
      BY <1>1, <2>3 DEF Open, End
    <3> HIDE DEF planned
    <3>3. life'[here].state # "absent" /\ life'[here].hash = Hash(proc.config)
      BY <1>0, <3>a, <3>b
    <3>4. \A x \in Roots : life'[x] # life[x] =>
             x = here /\ life[x].state = "absent" /\ life'[x].state = "planned"
      BY <1>0, <3>a, <3>b
    <3>5. \A x \in Roots :
             /\ protocol[x] # None => life'[x].state # "absent" /\ Hash(protocol[x]) = life'[x].hash
             /\ life'[x].state \notin {"absent", "planned"} => protocol[x] # None
             /\ manifest[x] # None => protocol[x] # None /\ Hash(manifest[x].config) = life'[x].hash
      BY <3>4 DEF FrozenInv, Frozen
    <3>6. pc' # "freeze" => protocol[here] # None
      BY <1>0, <1>1, <2>3, <3>5, <3>3 DEF Open, End, Entry
    <3>7. here # "outer" => life'["outer"] = life["outer"]
      BY <1>0, <3>4
    <3>8. QED
      BY <2>1, <3>2, <3>3, <3>5, <3>6, <3>7 DEF FrozenInv, Frozen
  <2>4. QED
    BY <2>2, <2>3
<1>2. CASE StoreState
  <2> DEFINE stored == [proc.mem[here] EXCEPT !.state = proc.goal]
             nested == Nested(proc.goal)
  <2>1. pc = "state" /\ pc' = After(proc.goal) /\ proc.goal \in StateNames \ {"planned"}
        /\ UNCHANGED <<protocol, manifest>>
    BY <1>2 DEF StoreState, FrozenInv, SyncInv, TypeInv, Whereabouts
  <2>2. /\ life' = [life EXCEPT ![here] = stored]
        /\ stored.state = proc.goal /\ stored.hash = life[here].hash
    <3>1. proc.mem[here] \in Life
      BY <1>0 DEF Process
    <3>2. stored.hash = proc.mem[here].hash /\ stored.state = proc.goal
      BY <2>1, <3>1, StateUpdate
    <3>3. proc.mem[here].hash = life[here].hash
      BY <2>1 DEF FrozenInv, SyncInv, Synchronized
    <3>4. QED
      BY <1>2, <3>2, <3>3 DEF StoreState
  <2>3. proc' = [proc EXCEPT !.mem[here] = stored, !.goal = NextGoal(@),
                             !.at = IF nested = None THEN @ ELSE nested,
                             !.phase = IF nested = None THEN @ ELSE nested, !.written = 0]
    BY <1>2 DEF StoreState
  <2>4. nested # None => here = "outer" /\ pc' = "open"
    BY <2>1 DEF Nested, Running, After
  <2> HIDE DEF stored, nested
  <2>5. /\ proc'.config = proc.config
        /\ proc'.at = (IF nested = None THEN here ELSE nested)
    BY <1>0, <2>3 DEF Process
  <2>6. proc.goal # "absent"
    BY <2>1, StateNamesAre
  <2>7. /\ life'[here].state # "absent" /\ life'[here].hash = Hash(proc.config)
        /\ protocol[here] # None
    BY <1>0, <2>1, <2>2, <2>6 DEF FrozenInv, Frozen
  <2>8. \A x \in Roots : x # here => life'[x] = life[x]
    BY <1>0, <2>2
  <2>9. \A x \in Roots :
             /\ protocol[x] # None => life'[x].state # "absent" /\ Hash(protocol[x]) = life'[x].hash
             /\ life'[x].state \notin {"absent", "planned"} => protocol[x] # None
             /\ manifest[x] # None => protocol[x] # None /\ Hash(manifest[x].config) = life'[x].hash
    <3>1. life'[here].hash = life[here].hash
      BY <1>0, <2>2
    <3>2. QED
      BY <2>7, <2>8, <3>1 DEF FrozenInv, Frozen
  <2>10. CASE nested = None
    BY <1>0, <2>1, <2>5, <2>7, <2>8, <2>9, <2>10 DEF FrozenInv, Frozen
  <2>11. CASE nested # None
    BY <2>1, <2>4, <2>5, <2>7, <2>9, <2>11 DEF Frozen
  <2>12. QED
    BY <2>10, <2>11
<1>3. CASE ~Open /\ ~StoreState
  <2>0. \A x \in Roots : life'[x].state = life[x].state /\ life'[x].hash = life[x].hash
    BY <1>3, LifecycleKept DEF FrozenInv
  <2>1. CASE WriteProtocol
    <3>1. CASE pc' = "idle"
      <4>1. End /\ UNCHANGED <<protocol, manifest>>
        BY <2>1, <3>1 DEF WriteProtocol, Transition
      <4>2. QED
        BY <2>0, <4>1, NoProcessType DEF End, FrozenInv, Frozen
    <3>2. CASE pc' # "idle"
      <4>1. /\ protocol[here] = None \/ Hash(protocol[here]) = Hash(proc.config)
            /\ protocol' = [protocol EXCEPT ![here] = IF @ = None THEN proc.config ELSE @]
            /\ Transition("protocol_frozen") /\ UNCHANGED manifest /\ pc = "protocol"
        BY <2>1, <3>2 DEF WriteProtocol, End
      <4>2. proc'.at = here /\ proc'.config = proc.config
        BY <1>0, <4>1 DEF Transition, Process
      <4>3. proc.config # None
        BY <4>1 DEF FrozenInv, SyncInv, TypeInv, Whereabouts
      <4>4. /\ protocol'[here] # None /\ Hash(protocol'[here]) = Hash(proc.config)
            /\ \A x \in Roots : x # here => protocol'[x] = protocol[x]
        BY <1>0, <4>1, <4>3
      <4>5. life[here].state # "absent" /\ life[here].hash = Hash(proc.config)
        BY <4>1 DEF FrozenInv, Frozen
      <4>6. QED
        BY <1>0, <2>0, <4>1, <4>2, <4>4, <4>5 DEF FrozenInv, Frozen
    <3>3. QED
      BY <3>1, <3>2
  <2>2. CASE WriteManifest
    <3>1. /\ pc = "write" /\ pc' = "fingerprint" /\ UNCHANGED <<proc, protocol>>
      BY <2>2 DEF WriteManifest, Goto
    <3>2. manifest'[here].config = proc.config /\ \A x \in Roots : x # here => manifest'[x] = manifest[x]
      BY <1>0, <2>2 DEF WriteManifest
    <3>3. QED
      BY <1>0, <2>0, <3>1, <3>2 DEF FrozenInv, Frozen
  <2>3. CASE Return
    <3>1. UNCHANGED <<protocol, manifest>> /\ pc = "return"
      BY <2>3 DEF Return, files
    <3>2. CASE proc.driver = "acquire"
      BY <2>0, <2>3, <3>1, <3>2, NoProcessType DEF Return, End, FrozenInv, Frozen
    <3>3. CASE proc.driver # "acquire"
      <4>1. proc'.at = "outer" /\ proc'.config = proc.config
        BY <1>0, <2>3, <3>3 DEF Return, Process
      <4>2. here # "outer"
        BY <1>0, <3>1, <3>3 DEF FrozenInv, SyncInv, TypeInv, Whereabouts, Running, Process
      <4>3. QED
        BY <1>0, <2>0, <3>1, <4>1, <4>2 DEF FrozenInv, Frozen
    <3>4. QED
      BY <3>2, <3>3
  <2>4. CASE Run \/ Acquire
    <3>1. PICK d \in {"run", "acquire"}, p \in Phases \cup {None}, c \in Configs, i \in Inventories :
             Call(d, p, c, i)
      BY <2>4 DEF Run, Acquire
    <3>2. proc'.at = "outer" /\ pc' = "open" /\ UNCHANGED <<protocol, manifest>>
      BY <3>1, NoProcessType DEF Call, Process, files
    <3>3. QED
      BY <2>0, <3>2 DEF FrozenInv, Frozen
  <2>5. CASE WriteConfig
    <3>1. /\ pc = "freeze" /\ pc' = "protocol" /\ UNCHANGED <<proc, protocol, manifest>>
      BY <2>5 DEF WriteConfig, Goto
    <3>2. QED
      BY <1>0, <2>0, <3>1 DEF FrozenInv, Frozen
  <2>6. CASE ~(WriteProtocol \/ WriteManifest \/ Return \/ Run \/ Acquire \/ WriteConfig)
    <3>1. UNCHANGED <<protocol, manifest>>
      BY <1>3, <2>6 DEF Next, Lifecycle, AppendEvent, Acquisition, VerifyInventory, Begin,
         Deviate, StoreDeviation, OpenDataset, WriteShard, Fingerprint, Evaluation,
         Residualize, FinalizeEvidence, WriteSplit, FreezeSplit, Tournament,
         MarkTestEvaluated, WriteDecision, WriteReport, Crash, files, vars
    <3>2. \/ End
          \/ UNCHANGED <<pc, proc>>
          \/ /\ pc \notin {"idle", "open", "freeze", "protocol"}
             /\ proc'.at = here /\ proc'.config = proc.config
      <4>1. CASE AppendEvent \/ Deviate
        <5>1. End \/ \E e : Record(e)
          BY <4>1 DEF AppendEvent, Deviate
        <5>2. ASSUME NEW e, Record(e) PROVE proc'.at = here /\ proc'.config = proc.config
          BY <1>0, <5>2, CountUpdate DEF Record
        <5>3. pc \in {"event", "packets"}
          BY <4>1 DEF AppendEvent, Deviate
        <5>4. QED
          BY <5>1, <5>2, <5>3
      <4>2. CASE ~(AppendEvent \/ Deviate)
        BY <1>0, <1>3, <2>6, <4>2 DEF Next, Lifecycle, Acquisition, VerifyInventory, Begin,
           StoreDeviation, OpenDataset, WriteShard, Fingerprint, Evaluation,
           Residualize, FinalizeEvidence, WriteSplit, FreezeSplit, Tournament,
           MarkTestEvaluated, WriteDecision, WriteReport, Crash, vars, Goto, Transition,
           Process
      <4>3. QED
        BY <4>1, <4>2
    <3>3. CASE End
      BY <2>0, <3>1, <3>3, NoProcessType DEF End, FrozenInv, Frozen
    <3>4. CASE ~End
      BY <1>0, <2>0, <3>1, <3>2, <3>4 DEF FrozenInv, Frozen
    <3>5. QED
      BY <3>3, <3>4
  <2>7. QED
    BY <2>1, <2>2, <2>3, <2>4, <2>5, <2>6
<1>4. QED
  BY <1>1, <1>2, <1>3

\* A dataset is acquired under the protocol its directory was frozen with, for
\* any hash: nothing is assumed of the configurations that share one.
THEOREM ExperimentDatasetUnderFrozenProtocol == Spec => []DatasetUnderFrozenProtocol
<1>1. FrozenInv => DatasetUnderFrozenProtocol
  BY DEF FrozenInv, Frozen, DatasetUnderFrozenProtocol
<1>2. QED
  BY <1>1, FrozenInit, FrozenNext, PTL DEF Spec

----------------------------------------------------------------------------
(* The test partition *)

\* The states an experiment can only be in once training has been announced.
Late == {"training", "validation_selection", "test_evaluation", "decision"}

\* An evaluation leaves a state nothing leads back from.
Evaluated ==
    /\ evaluations # 0 => evaluations = 1 /\ life["outer"].state \in Late
    /\ pc = "state" => Rank(proc.goal) = Rank(State) + 1
    /\ pc = "tournament" => evaluations = 0 /\ life["outer"].state = "training"

EvaluatedInv == SyncInv /\ Evaluated

LEMMA EvaluatedInit == Init => EvaluatedInv
BY SyncInit DEF Init, EvaluatedInv, Evaluated

\* Ranks beyond a late state belong to late states.
LEMMA LateIsClosed ==
    ASSUME NEW s \in Late, NEW t \in StateNames, Rank(t) = Rank(s) + 1
    PROVE  t \in Late /\ t # "training"
BY Ranks, StateNamesAre DEF Late

LEMMA EvaluatedNext == EvaluatedInv /\ [Next]_vars => EvaluatedInv'
<1> SUFFICES ASSUME EvaluatedInv, [Next]_vars PROVE Evaluated'
  BY SyncNext DEF EvaluatedInv
<1>0. /\ here \in Roots /\ "outer" \in Roots /\ proc \in Process /\ life \in [Roots -> Life]
      /\ proc.mem[here] \in Life /\ evaluations \in Nat
  BY DEF EvaluatedInv, SyncInv, TypeInv, TypeOK, Process, Roots
<1>1. CASE Open
  <2>1. UNCHANGED evaluations /\ pc' \notin {"state", "tournament"}
    BY <1>1 DEF Open, Entry, End
  <2>2. life'["outer"] # life["outer"] => life["outer"].state = "absent"
    BY <1>0, <1>1 DEF Open
  <2>3. QED
    BY <2>1, <2>2 DEF EvaluatedInv, Evaluated, Late
<1>2. CASE StoreState
  <2>1. /\ pc = "state" /\ pc' = After(proc.goal) /\ proc.goal \in StateNames \ {"planned"}
        /\ Rank(proc.goal) = Rank(State) + 1 /\ State = life[here].state
        /\ UNCHANGED evaluations
    BY <1>2 DEF StoreState, EvaluatedInv, Evaluated, SyncInv, Synchronized, TypeInv,
                Whereabouts, State
  <2>2. life'[here].state = proc.goal /\ \A x \in Roots : x # here => life'[x] = life[x]
    <3> DEFINE stored == [proc.mem[here] EXCEPT !.state = proc.goal]
    <3>1. life' = [life EXCEPT ![here] = stored]
      BY <1>2 DEF StoreState
    <3>2. stored.state = proc.goal
      BY <1>0, <2>1, StateUpdate
    <3> HIDE DEF stored
    <3>3. QED
      BY <1>0, <3>1, <3>2
  <2>3. evaluations # 0 => evaluations = 1 /\ life'["outer"].state \in Late
    BY <1>0, <2>1, <2>2, LateIsClosed DEF EvaluatedInv, Evaluated
  <2>4. pc' = "tournament" => evaluations = 0 /\ life'["outer"].state = "training"
    <3>1. SUFFICES ASSUME pc' = "tournament"
                   PROVE  evaluations = 0 /\ life'["outer"].state = "training"
      OBVIOUS
    <3>2. proc.goal = "training"
      BY <2>1, <3>1, StateNamesAre DEF After
    <3>3. here = "outer"
      BY <2>1, <3>2 DEF EvaluatedInv, SyncInv, TypeInv, Whereabouts, AcquisitionGoals, Running
    <3>4. QED
      BY <2>1, <2>2, <3>2, <3>3, LateIsClosed DEF EvaluatedInv, Evaluated
  <2>5. pc' # "state"
    BY <2>1, StateNamesAre DEF After
  <2>6. QED
    BY <2>1, <2>3, <2>4, <2>5 DEF Evaluated
<1>3. CASE AppendEvent
  <2>1. UNCHANGED <<life, evaluations>> /\ pc' # "tournament"
    BY <1>3 DEF AppendEvent, End
  <2>2. pc' = "state" => Rank(proc'.goal) = Rank(proc'.mem[proc'.at].state) + 1
    <3>1. SUFFICES ASSUME pc' = "state"
                   PROVE  Rank(proc'.goal) = Rank(proc'.mem[proc'.at].state) + 1
      OBVIOUS
    <3>2. Follows(proc.goal) /\ Record(proc.goal)
      BY <1>3, <3>1 DEF AppendEvent, End
    <3>3. proc'.goal = proc.goal /\ proc'.at = here /\ proc'.mem[here].state = State
      BY <1>0, <3>2, CountUpdate DEF Record, State
    <3>4. QED
      BY <3>2, <3>3 DEF Follows
  <2>3. QED
    BY <2>1, <2>2 DEF EvaluatedInv, Evaluated, State
<1>4. CASE Tournament
  <2>1. /\ pc = "tournament" /\ pc' = "event" /\ evaluations' = evaluations + 1
        /\ UNCHANGED life
    BY <1>4 DEF Tournament, Transition, files
  <2>2. QED
    BY <2>1 DEF EvaluatedInv, Evaluated, Late
<1>5. CASE UNCHANGED vars
  BY <1>5 DEF vars, files, EvaluatedInv, Evaluated, State
<1>6. CASE ~Open /\ ~StoreState /\ ~AppendEvent /\ ~Tournament /\ ~UNCHANGED vars
  <2>1. life'["outer"].state = life["outer"].state
    BY <1>0, <1>6, LifecycleKept DEF EvaluatedInv
  <2>2. UNCHANGED evaluations /\ pc' \notin {"state", "tournament"}
    BY <1>6 DEF Next, Run, Acquire, Call, Lifecycle, WriteConfig, WriteProtocol, Acquisition,
       VerifyInventory, Begin, Deviate, StoreDeviation, OpenDataset, WriteShard,
       WriteManifest, Fingerprint, Return, Evaluation, Residualize, FinalizeEvidence,
       WriteSplit, FreezeSplit, MarkTestEvaluated, WriteDecision, WriteReport, Crash,
       Goto, Transition, End, vars
  <2>3. QED
    BY <2>1, <2>2 DEF EvaluatedInv, Evaluated
<1>7. QED
  BY <1>1, <1>2, <1>3, <1>4, <1>5, <1>6

\* The test partition is evaluated at most once, however often the experiment is
\* called and wherever it dies.
THEOREM ExperimentTestEvaluatedOnce == Spec => []TestEvaluatedOnce
<1>1. EvaluatedInv => TestEvaluatedOnce
  BY DEF EvaluatedInv, Evaluated, SyncInv, TypeInv, TypeOK, TestEvaluatedOnce
<1>2. QED
  BY <1>1, EvaluatedInit, EvaluatedNext, PTL DEF Spec

----------------------------------------------------------------------------
(* What the process remembers of a lifecycle, beyond its state and hash    *)

\* A flag of the file is never missing in memory, fingerprints are the same.
Recalls(m, l) ==
    /\ m.reference = l.reference /\ m.evidence = l.evidence
    /\ l.split => m.split
    /\ l.tested => m.tested

\* The event that has been appended and not yet stored.
Ahead(x) == IF x = here /\ pc \in {"state", "deviation"} THEN 1 ELSE 0

Remembered ==
    /\ pc \notin {"idle", "open"} =>
          /\ Recalls(proc.mem[here], life[here])
          /\ proc.mem[here].count = life[here].count + Ahead(here)
    /\ here # "outer" =>
          /\ Recalls(proc.mem["outer"], life["outer"])
          /\ proc.mem["outer"].count = life["outer"].count
    /\ pc \in {"event", "state"} /\ proc.goal = "test_evaluation" => proc.mem[here].tested

MemoryInv == SyncInv /\ Remembered

\* What a stored fingerprint leaves.
LEMMA FingerprintKeeps ==
    ASSUME NEW m \in Life, NEW c \in Calls, NEW slot \in {"reference", "evidence"}
    PROVE  LET n == [m EXCEPT ![slot] = c]
           IN  /\ n[slot] = c
               /\ \A other \in {"reference", "evidence"} \ {slot} : n[other] = m[other]
               /\ n.count = m.count /\ n.split = m.split /\ n.tested = m.tested
BY DEF Life

\* What a stored state leaves.
LEMMA StateKeeps ==
    ASSUME NEW m \in Life, NEW s \in StateNames
    PROVE  LET n == [m EXCEPT !.state = s]
           IN  /\ n.reference = m.reference /\ n.evidence = m.evidence
               /\ n.count = m.count /\ n.split = m.split /\ n.tested = m.tested
BY DEF Life

LEMMA SplitKeeps ==
    ASSUME NEW m \in Life
    PROVE  LET n == [m EXCEPT !.split = TRUE]
           IN  /\ n.reference = m.reference /\ n.evidence = m.evidence
               /\ n.count = m.count /\ n.split = TRUE /\ n.tested = m.tested
BY DEF Life

\* What counting an event leaves.
LEMMA CountKeeps ==
    ASSUME NEW p \in Process, NEW x \in Roots
    PROVE  LET q == [p EXCEPT !.mem[x].count = @ + 1]
           IN  /\ q.mem[x].count = p.mem[x].count + 1
               /\ \A y \in Roots \ {x} : q.mem[y].count = p.mem[y].count
               /\ \A y \in Roots :
                     /\ q.mem[y].reference = p.mem[y].reference
                     /\ q.mem[y].evidence = p.mem[y].evidence
                     /\ q.mem[y].split = p.mem[y].split
                     /\ q.mem[y].tested = p.mem[y].tested
<1> DEFINE m == [p.mem[x] EXCEPT !.count = @ + 1]
           q == [p EXCEPT !.mem[x].count = @ + 1]
<1>1. p.mem \in [Roots -> Life]
  BY DEF Process
<1>2. /\ m.count = p.mem[x].count + 1
      /\ m.reference = p.mem[x].reference /\ m.evidence = p.mem[x].evidence
      /\ m.split = p.mem[x].split /\ m.tested = p.mem[x].tested
  BY <1>1 DEF Life
<1>3. q = [p EXCEPT !.mem[x] = m]
  OBVIOUS
<1> HIDE DEF m, q
<1>4. q.mem = [p.mem EXCEPT ![x] = m]
  BY <1>3 DEF Process
<1>5. QED
  BY <1>1, <1>2, <1>4 DEF q

\* The fingerprint of a dataset is set in a lifecycle.
LEMMA FingerprintStep ==
    ASSUME TypeInv, Fingerprint \/ FinalizeEvidence, ~End
    PROVE  \E slot \in {"reference", "evidence"}, x \in Roots :
              LET set == [proc.mem[here] EXCEPT ![slot] = manifest[x].call]
              IN  /\ \/ pc = "fingerprint" /\ slot = Slot(proc.phase) /\ x = here
                     \/ pc = "evidence" /\ slot = "evidence" /\ x = "controlled" /\ here = "outer"
                  /\ manifest[x] \in Manifest /\ manifest[x].call \in Calls
                  /\ set \in Life
                  /\ life' = [life EXCEPT ![here] = set]
                  /\ proc'.mem = [proc.mem EXCEPT ![here] = set] /\ proc'.at = here
                  /\ proc'.driver = proc.driver
                  /\ pc' \in {"event", "return"}
                  /\ pc' = "event" => proc'.goal = "evidence_finalized"
<1>0. /\ here \in Roots /\ proc \in Process /\ proc.mem \in [Roots -> Life]
      /\ proc.mem[here] \in Life /\ life \in [Roots -> Life]
  BY DEF TypeInv, TypeOK, Process
<1>1. CASE Fingerprint
  <2> DEFINE slot == Slot(proc.phase)
             set == [proc.mem[here] EXCEPT ![slot] = manifest[here].call]
  <2>1. /\ slot \in {"reference", "evidence"} /\ pc = "fingerprint"
        /\ manifest[here] \in Manifest /\ manifest[here].call \in Calls
    BY <1>0, <1>1 DEF Slot, Fingerprint, TypeInv, TypeOK, Published, Manifest
  <2>2. set \in Life
    BY <1>0, <2>1, FingerprintUpdate
  <2>3. life' = [life EXCEPT ![here] = set]
    BY <1>1 DEF Fingerprint, SetFingerprint
  <2>4. /\ proc' = [proc EXCEPT !.mem[here] = life'[here],
                               !.goal = IF proc.phase = "controlled"
                                        THEN "evidence_finalized" ELSE None]
        /\ pc' = IF proc.phase = "controlled" THEN "event" ELSE "return"
    BY <1>1 DEF Fingerprint
  <2> HIDE DEF set
  <2>5. life'[here] = set
    BY <1>0, <2>3
  <2>6. /\ proc'.mem = [proc.mem EXCEPT ![here] = set] /\ proc'.at = here
        /\ proc'.driver = proc.driver
        /\ pc' = "event" => proc'.goal = "evidence_finalized"
    BY <1>0, <2>4, <2>5 DEF Process
  <2>7. QED
    BY <1>0, <2>1, <2>2, <2>3, <2>4, <2>6 DEF set
<1>2. CASE FinalizeEvidence
  <2> DEFINE set == [proc.mem[here] EXCEPT !["evidence"] = manifest["controlled"].call]
  <2>1. /\ pc = "evidence" /\ here = "outer" /\ pc' = "event"
        /\ manifest["controlled"] \in Manifest /\ manifest["controlled"].call \in Calls
    BY <1>2 DEF FinalizeEvidence, TypeInv, TypeOK, Whereabouts, Running, Published, Manifest, Roots
  <2>2. set \in Life
    BY <1>0, <2>1, FingerprintUpdate
  <2>3. life' = [life EXCEPT ![here] = set]
    BY <1>2 DEF FinalizeEvidence, SetFingerprint
  <2>4. proc' = [proc EXCEPT !.mem[here] = life'[here], !.goal = "evidence_finalized"]
    BY <1>2 DEF FinalizeEvidence
  <2> HIDE DEF set
  <2>5. life'[here] = set
    BY <1>0, <2>3
  <2>6. /\ proc'.mem = [proc.mem EXCEPT ![here] = set] /\ proc'.at = here
        /\ proc'.driver = proc.driver /\ proc'.goal = "evidence_finalized"
    BY <1>0, <2>4, <2>5 DEF Process
  <2>7. "controlled" \in Roots
    BY DEF Roots
  <2>8. QED
    BY <2>1, <2>2, <2>3, <2>6, <2>7 DEF set
<1>3. QED
  BY <1>1, <1>2

LEMMA EndMemory ==
    ASSUME End
    PROVE  Remembered'
BY NoProcessType DEF End, Remembered

\* Steps that neither read nor write a lifecycle.
LEMMA KeptMemory ==
    ASSUME MemoryInv, UNCHANGED life, proc'.mem = proc.mem, proc'.at = here,
           pc \notin {"idle", "open", "state", "deviation"}, pc' \notin {"state", "deviation"},
           pc' = "event" => proc'.goal # "test_evaluation"
    PROVE  Remembered'
BY DEF MemoryInv, Remembered, Ahead, Recalls

\* A lifecycle that is the same in memory and in its file.
LEMMA StoredMemory ==
    ASSUME MemoryInv, NEW m \in Life,
           life'[here] = m, \A y \in Roots : y # here => life'[y] = life[y],
           proc'.mem = [proc.mem EXCEPT ![here] = m],
           \/ proc'.at = here
           \/ here = "outer" /\ pc' = "open",
           pc' \notin {"state", "deviation"},
           pc' = "event" => proc'.goal # "test_evaluation"
    PROVE  Remembered'
<1>1. here \in Roots /\ "outer" \in Roots /\ proc.mem \in [Roots -> Life] /\ m.count \in Nat
  BY DEF MemoryInv, SyncInv, TypeInv, TypeOK, Process, Roots, Life
<1>2. proc'.mem[here] = m /\ \A y \in Roots : y # here => proc'.mem[y] = proc.mem[y]
  BY <1>1
<1>3. QED
  BY <1>1, <1>2 DEF MemoryInv, Remembered, Recalls, Ahead

LEMMA MemoryInit == Init => MemoryInv
BY SyncInit, NoProcessType DEF Init, MemoryInv, Remembered

LEMMA MemoryNext == MemoryInv /\ [Next]_vars => MemoryInv'
<1> SUFFICES ASSUME MemoryInv, [Next]_vars PROVE Remembered'
  BY SyncNext DEF MemoryInv
<1>0. /\ here \in Roots /\ "outer" \in Roots /\ proc \in Process
      /\ proc.mem \in [Roots -> Life] /\ proc.mem[here] \in Life /\ life \in [Roots -> Life]
  BY DEF MemoryInv, SyncInv, TypeInv, TypeOK, Process, Roots
<1>1. CASE Run \/ Acquire
  <2>1. PICK d \in {"run", "acquire"}, p \in Phases \cup {None}, c \in Configs, i \in Inventories :
           Call(d, p, c, i)
    BY <1>1 DEF Run, Acquire
  <2>2. proc'.at = "outer" /\ pc' = "open"
    BY <2>1, NoProcessType DEF Call, Process
  <2>3. QED
    BY <2>2 DEF Remembered
<1>2. CASE Open
  <2>1. CASE End
    BY <2>1, EndMemory
  <2>2. CASE ~End
    <3> DEFINE planned == [NoLife EXCEPT !.state = "planned", !.hash = Hash(proc.config)]
    <3>1. \/ life[here].state = "absent" /\ life' = [life EXCEPT ![here] = planned]
          \/ life' = life
      BY <1>2, <2>2 DEF Open
    <3>2. \A y \in Roots : y # here => life'[y] = life[y]
      <4> HIDE DEF planned
      <4> QED BY <1>0, <3>1
    <3>3. proc' = [proc EXCEPT !.mem[here] = life'[here]]
      BY <1>2, <2>2 DEF Open
    <3>4. proc'.mem = [proc.mem EXCEPT ![here] = life'[here]] /\ proc'.at = here
      BY <1>0, <3>3 DEF Process
    <3>5. pc' \in {"freeze", "inventory", "begin"}
      BY <1>2, <2>2 DEF Open, Entry
    <3>6. life'[here] \in Life
      BY <1>0, NextType DEF MemoryInv, SyncInv, TypeInv, TypeOK
    <3>7. QED
      BY <3>2, <3>4, <3>5, <3>6, StoredMemory
  <2>3. QED
    BY <2>1, <2>2
<1>3. CASE StoreState
  <2> DEFINE stored == [proc.mem[here] EXCEPT !.state = proc.goal]
             nested == Nested(proc.goal)
  <2>1. pc = "state" /\ pc' = After(proc.goal) /\ proc.goal \in StateNames \ {"planned"}
    BY <1>3 DEF StoreState, MemoryInv, SyncInv, TypeInv, Whereabouts
  <2>2. stored \in Life
    BY <1>0, <2>1, StateUpdate
  <2>3. life' = [life EXCEPT ![here] = stored]
    BY <1>3 DEF StoreState
  <2>4. proc' = [proc EXCEPT !.mem[here] = stored, !.goal = NextGoal(@),
                             !.at = IF nested = None THEN @ ELSE nested,
                             !.phase = IF nested = None THEN @ ELSE nested, !.written = 0]
    BY <1>3 DEF StoreState
  <2>5. nested # None => here = "outer" /\ pc' = "open"
    BY <2>1 DEF Nested, Running, After
  <2>6. pc' \notin {"state", "deviation"}
    BY <2>1, StateNamesAre DEF After
  <2>7. pc' = "event" => NextGoal(proc.goal) # "test_evaluation"
    BY <2>1, NextGoalIs
  <2> HIDE DEF stored, nested
  <2>8. /\ proc'.mem = [proc.mem EXCEPT ![here] = stored]
        /\ proc'.at = (IF nested = None THEN here ELSE nested)
        /\ proc'.goal = NextGoal(proc.goal)
    BY <1>0, <2>4 DEF Process
  <2>9. life'[here] = stored /\ \A y \in Roots : y # here => life'[y] = life[y]
    BY <1>0, <2>3
  <2>10. QED
    BY <2>2, <2>5, <2>6, <2>7, <2>8, <2>9, StoredMemory
<1>4. CASE AppendEvent \/ Deviate
  <2>1. UNCHANGED life /\ pc \in {"event", "packets"}
    BY <1>4 DEF AppendEvent, Deviate
  <2>2. CASE End
    BY <2>2, EndMemory
  <2>3. CASE ~End
    <3>1. /\ proc' = [proc EXCEPT !.mem[here].count = @ + 1]
          /\ pc' = (IF pc = "event" THEN "state" ELSE "deviation")
      BY <1>4, <2>3 DEF AppendEvent, Deviate, Record
    <3>2. proc'.at = here /\ proc'.goal = proc.goal
      BY <1>0, <3>1, CountUpdate
    <3>3. /\ proc'.mem[here].count = proc.mem[here].count + 1
          /\ \A y \in Roots \ {here} : proc'.mem[y].count = proc.mem[y].count
          /\ \A y \in Roots :
                /\ proc'.mem[y].reference = proc.mem[y].reference
                /\ proc'.mem[y].evidence = proc.mem[y].evidence
                /\ proc'.mem[y].split = proc.mem[y].split
                /\ proc'.mem[y].tested = proc.mem[y].tested
      BY <1>0, <3>1, CountKeeps
    <3>4. proc.mem[here].count = life[here].count /\ life[here].count \in Nat
      BY <1>0, <2>1 DEF MemoryInv, Remembered, Ahead, Life
    <3>5. Ahead(here)' = 1
      BY <3>1, <3>2 DEF Ahead
    <3>6. /\ Recalls(proc.mem[here], life[here]) => Recalls(proc'.mem[here], life[here])
          /\ Recalls(proc.mem["outer"], life["outer"]) => Recalls(proc'.mem["outer"], life["outer"])
      BY <1>0, <3>3 DEF Recalls
    <3>7. pc' \in {"event", "state"} => pc = "event"
      BY <2>1, <3>1
    <3>8. QED
      BY <1>0, <2>1, <3>2, <3>3, <3>4, <3>5, <3>6, <3>7 DEF MemoryInv, Remembered
  <2>4. QED
    BY <2>2, <2>3
<1>5. CASE Fingerprint \/ FinalizeEvidence
  <2>1. CASE End
    BY <2>1, EndMemory
  <2>2. CASE ~End
    <3>1. PICK set \in Life :
             /\ life' = [life EXCEPT ![here] = set]
             /\ proc'.mem = [proc.mem EXCEPT ![here] = set] /\ proc'.at = here
             /\ pc' \in {"event", "return"}
             /\ pc' = "event" => proc'.goal = "evidence_finalized"
      BY <1>5, <2>2, FingerprintStep DEF MemoryInv, SyncInv
    <3>2. life'[here] = set /\ \A y \in Roots : y # here => life'[y] = life[y]
      BY <1>0, <3>1
    <3>3. QED
      BY <3>1, <3>2, StoredMemory
  <2>3. QED
    BY <2>1, <2>2
<1>6. CASE FreezeSplit
  <2> DEFINE set == [proc.mem[here] EXCEPT !.split = TRUE]
  <2>1. set \in Life
    BY <1>0, FlagUpdate
  <2>2. life' = [life EXCEPT ![here] = set]
    BY <1>6 DEF FreezeSplit
  <2> HIDE DEF set
  <2>3. life'[here] = set /\ \A y \in Roots : y # here => life'[y] = life[y]
    BY <1>0, <2>2
  <2>4. /\ proc'.mem = [proc.mem EXCEPT ![here] = set] /\ proc'.at = here
        /\ pc' = "event" /\ proc'.goal = "split_frozen"
    BY <1>0, <1>6, <2>3 DEF FreezeSplit, Process
  <2>5. QED
    BY <2>1, <2>3, <2>4, StoredMemory
<1>7. CASE Return
  <2>1. pc = "return" /\ UNCHANGED life
    BY <1>7 DEF Return, files
  <2>2. CASE End
    BY <2>2, EndMemory
  <2>3. CASE ~End
    <3>1. proc'.at = "outer" /\ proc'.mem = proc.mem /\ pc' \in {"residualize", "evidence"}
      BY <1>0, <1>7, <2>3 DEF Return, Process
    <3>2. here # "outer"
      BY <1>0, <1>7, <2>1, <2>3 DEF Return, MemoryInv, SyncInv, TypeInv, Whereabouts, Running, Process
    <3>3. life["outer"].count \in Nat
      BY <1>0 DEF Life
    <3>4. QED
      BY <2>1, <3>1, <3>2, <3>3 DEF MemoryInv, Remembered, Ahead
  <2>4. QED
    BY <2>2, <2>3
<1>8. CASE MarkTestEvaluated
  <2>1. UNCHANGED life /\ pc = "mark"
    BY <1>8 DEF MarkTestEvaluated, files
  <2>2. CASE End
    BY <2>2, EndMemory
  <2>3. CASE ~End
    <3> DEFINE m == [proc.mem[here] EXCEPT !.tested = TRUE]
    <3>1. proc' = [proc EXCEPT !.mem[here].tested = TRUE, !.goal = "test_evaluation"] /\ pc' = "event"
      BY <1>8, <2>3 DEF MarkTestEvaluated
    <3>2. proc'.mem = [proc.mem EXCEPT ![here] = m] /\ proc'.at = here
      BY <1>0, <3>1 DEF Process
    <3>3. /\ m.tested /\ m.count = proc.mem[here].count /\ m.split = proc.mem[here].split
          /\ m.reference = proc.mem[here].reference /\ m.evidence = proc.mem[here].evidence
      BY <1>0 DEF Life
    <3> HIDE DEF m
    <3>4. proc'.mem[here] = m /\ \A y \in Roots : y # here => proc'.mem[y] = proc.mem[y]
      BY <1>0, <3>2
    <3>5. Ahead(here)' = 0 /\ Ahead(here) = 0
      BY <2>1, <3>1 DEF Ahead
    <3>6. QED
      BY <1>0, <2>1, <3>1, <3>2, <3>3, <3>4, <3>5 DEF MemoryInv, Remembered, Recalls
  <2>4. QED
    BY <2>2, <2>3
<1>9. CASE Crash \/ StoreDeviation \/ WriteReport
  BY <1>9, EndMemory DEF Crash, StoreDeviation, WriteReport
<1>10. CASE \/ WriteConfig \/ WriteProtocol \/ VerifyInventory \/ Begin \/ OpenDataset
            \/ WriteShard \/ WriteManifest \/ Residualize \/ WriteSplit \/ Tournament
            \/ WriteDecision
  <2>1. UNCHANGED life
    BY <1>10 DEF WriteConfig, WriteProtocol, VerifyInventory, Begin, OpenDataset, WriteShard,
       WriteManifest, Residualize, WriteSplit, Tournament, WriteDecision, files
  <2>2. pc \notin {"idle", "open", "state", "deviation"} /\ pc' \notin {"state", "deviation"}
    BY <1>10 DEF WriteConfig, WriteProtocol, VerifyInventory, Begin, OpenDataset, WriteShard,
       WriteManifest, Residualize, WriteSplit, Tournament, WriteDecision, Goto, Transition, End
  <2>3. CASE End
    BY <2>3, EndMemory
  <2>4. CASE ~End
    <3>1. \/ UNCHANGED proc /\ pc' # "event"
          \/ \E goal \in {"protocol_frozen", "inventory_verified", "reference_acquisition",
                          "controlled_acquisition", "validation_selection"} :
                proc' = [proc EXCEPT !.goal = goal]
          \/ proc' = [proc EXCEPT !.written = @ + 1] /\ pc' = "write"
      BY <1>10, <2>4 DEF WriteConfig, WriteProtocol, VerifyInventory, Begin, OpenDataset,
         WriteShard, WriteManifest, Residualize, WriteSplit, Tournament, WriteDecision,
         Goto, Transition
    <3>2. /\ proc'.mem = proc.mem /\ proc'.at = here
          /\ pc' = "event" => proc'.goal # "test_evaluation"
      BY <1>0, <3>1 DEF Process
    <3>3. QED
      BY <2>1, <2>2, <3>2, KeptMemory
  <2>5. QED
    BY <2>3, <2>4
<1>11. CASE UNCHANGED vars
  BY <1>11 DEF vars, files, MemoryInv, Remembered, Recalls, Ahead
<1>12. QED
  BY <1>1, <1>2, <1>3, <1>4, <1>5, <1>6, <1>7, <1>8, <1>9, <1>10, <1>11
  DEF Next, Lifecycle, Acquisition, Evaluation

\* The state file after a transition.
LEMMA StoreStep ==
    ASSUME TypeInv, StoreState
    PROVE  /\ pc = "state" /\ pc' = After(proc.goal) /\ proc.goal \in StateNames \ {"planned"}
           /\ life'[here].state = proc.goal
           /\ life'[here].count = proc.mem[here].count
           /\ life'[here].reference = proc.mem[here].reference
           /\ life'[here].evidence = proc.mem[here].evidence
           /\ life'[here].split = proc.mem[here].split
           /\ life'[here].tested = proc.mem[here].tested
           /\ \A x \in Roots : x # here => life'[x] = life[x]
           /\ proc'.driver = proc.driver /\ proc'.goal = NextGoal(proc.goal)
           /\ proc'.at = (IF Nested(proc.goal) = None THEN here ELSE Nested(proc.goal))
           /\ UNCHANGED <<events, config, protocol, inventory, shards, temporary, manifest,
                          results, evaluations, used>>
<1> DEFINE stored == [proc.mem[here] EXCEPT !.state = proc.goal]
           nested == Nested(proc.goal)
<1>0. /\ here \in Roots /\ proc \in Process /\ proc.mem[here] \in Life /\ life \in [Roots -> Life]
  BY DEF TypeInv, TypeOK, Process
<1>1. /\ pc = "state" /\ pc' = After(proc.goal) /\ proc.goal \in StateNames \ {"planned"}
      /\ UNCHANGED <<events, config, protocol, inventory, shards, temporary, manifest,
                     results, evaluations, used>>
  BY DEF StoreState, TypeInv, Whereabouts
<1>2. stored.state = proc.goal
  BY <1>0, <1>1, StateUpdate
<1>3. /\ stored.reference = proc.mem[here].reference /\ stored.evidence = proc.mem[here].evidence
      /\ stored.count = proc.mem[here].count /\ stored.split = proc.mem[here].split
      /\ stored.tested = proc.mem[here].tested
  BY <1>0, <1>1, StateKeeps
<1>4. life' = [life EXCEPT ![here] = stored]
  BY DEF StoreState
<1>5. proc' = [proc EXCEPT !.mem[here] = stored, !.goal = NextGoal(@),
                           !.at = IF nested = None THEN @ ELSE nested,
                           !.phase = IF nested = None THEN @ ELSE nested, !.written = 0]
  BY DEF StoreState
<1> HIDE DEF stored, nested
<1>6. /\ proc'.driver = proc.driver /\ proc'.goal = NextGoal(proc.goal)
      /\ proc'.at = (IF nested = None THEN here ELSE nested)
  BY <1>0, <1>5 DEF Process
<1>7. life'[here] = stored /\ \A x \in Roots : x # here => life'[x] = life[x]
  BY <1>0, <1>4
<1>8. QED
  BY <1>1, <1>2, <1>3, <1>6, <1>7 DEF nested

----------------------------------------------------------------------------
(* The event stream *)

\* The stream and the state file, also between the two writes of a transition
\* and before a lifecycle exists.
Booked ==
    /\ StateAgreesWithEvents
    /\ \A x \in Roots :
          /\ life[x].state = "absent" => events[x].lines = <<>>
          /\ life[x].count + Ahead(x) <= Len(events[x].lines)
          /\ Len(events[x].lines) <= life[x].count + Ahead(x) + used.crashes
    /\ pc = "state" /\ Readable(events[here]) => proc.goal \in Lines(here)

BookInv == MemoryInv /\ EvaluatedInv /\ Frozen /\ Booked

\* What an append adds to the lines, in a file of this model's events.
LEMMA LinesAppended ==
    ASSUME NEW R, NEW f \in Files(R), NEW r \in R
    PROVE  LET g == Append1(f, r)
           IN  /\ Len(g.lines) = Len(f.lines) + 1
               /\ {g.lines[i] : i \in 1..Len(g.lines)} =
                     {f.lines[i] : i \in 1..Len(f.lines)}
                        \cup {IF TrailingPartial(f) THEN Malformed ELSE r}
               /\ Readable(g) => Readable(f) /\ ~TrailingPartial(f)
<1> DEFINE g == Append1(f, r)
           last == IF TrailingPartial(f) THEN Malformed ELSE r
<1>a. Len(f.lines) \in Nat
  BY DEF Files
<1>1. /\ Len(g.lines) = Len(f.lines) + 1
      /\ \A i \in 1..Len(f.lines) : g.lines[i] = f.lines[i]
      /\ g.lines[Len(f.lines) + 1] = last
  BY AppendLines
<1> HIDE DEF g, last
<1>2. \A i : i \in 1..Len(g.lines) <=> i \in 1..Len(f.lines) \/ i = Len(f.lines) + 1
  BY <1>1, <1>a
<1>3. ASSUME NEW e
      PROVE  (\E i \in 1..Len(g.lines) : e = g.lines[i])
                <=> (\E i \in 1..Len(f.lines) : e = f.lines[i]) \/ e = last
  BY <1>1, <1>2
<1>4. {g.lines[i] : i \in 1..Len(g.lines)} = {f.lines[i] : i \in 1..Len(f.lines)} \cup {last}
  BY <1>3
<1>5. Readable(g) => Readable(f) /\ ~TrailingPartial(f)
  BY <1>1, <1>2, <1>a DEF Readable, last
<1>6. QED
  BY <1>1, <1>4, <1>5 DEF g, last

\* A state is the one its rank says.
LEMMA StateOfRank ==
    ASSUME NEW s \in StateNames
    PROVE  Rank(s) \in 1..11 /\ States[Rank(s)] = s
<1>1. PICK i \in 1..11 : s = States[i]
  BY RankOf DEF StateNames
<1>2. QED
  BY <1>1, RankOf

\* StateAgreesWithEvents, of one lifecycle.
Agrees(x) ==
    life[x].state # "absent" =>
        /\ \A s \in Lines(x) \cap StateNames : Rank(s) <= Rank(life[x].state) + 1
        /\ Readable(events[x]) => \A k \in 2..Rank(life[x].state) : States[k] \in Lines(x)

Within(x) ==
    /\ life[x].state = "absent" => events[x].lines = <<>>
    /\ life[x].count + Ahead(x) <= Len(events[x].lines)
    /\ Len(events[x].lines) <= life[x].count + Ahead(x) + used.crashes

LEMMA BookedIs ==
    Booked <=> /\ \A x \in Roots : Agrees(x) /\ Within(x)
               /\ pc = "state" /\ Readable(events[here]) => proc.goal \in Lines(here)
BY DEF Booked, StateAgreesWithEvents, Agrees, Within

LEMMA BookedWas ==
    Booked' <=> /\ \A x \in Roots : Agrees(x)' /\ Within(x)'
                /\ pc' = "state" /\ Readable(events[here])' => proc'.goal \in Lines(here)'
BY DEF Booked, StateAgreesWithEvents, Agrees, Within

\* A lifecycle whose stream, state and count stay.
LEMMA AgreesKept ==
    ASSUME NEW x, Agrees(x), events'[x].lines = events[x].lines,
           life'[x].state = life[x].state
    PROVE  Agrees(x)'
BY DEF Agrees, Lines, Readable

LEMMA WithinKept ==
    ASSUME NEW x, Within(x), events'[x].lines = events[x].lines,
           life'[x].state = life[x].state, life'[x].count = life[x].count,
           Ahead(x)' = Ahead(x), used'.crashes = used.crashes
    PROVE  Within(x)'
BY DEF Within

LEMMA KeptBook ==
    ASSUME BookInv, UNCHANGED events, used'.crashes = used.crashes,
           \A x \in Roots : life'[x].state = life[x].state /\ life'[x].count = life[x].count,
           {pc, pc'} \cap {"state", "deviation"} = {}
    PROVE  Booked'
<1>1. \A x \in Roots : Ahead(x)' = Ahead(x)
  BY DEF Ahead
<1>2. \A x \in Roots : Agrees(x)' /\ Within(x)'
  BY <1>1, AgreesKept, WithinKept, BookedIs DEF BookInv
<1>3. QED
  BY <1>2, BookedWas

LEMMA BookInit == Init => BookInv
<1> SUFFICES ASSUME Init PROVE BookInv
  OBVIOUS
<1>1. MemoryInv /\ EvaluatedInv /\ Frozen
  BY MemoryInit, EvaluatedInit, FrozenInit DEF FrozenInv
<1>2. \A x \in Roots : life[x].state = "absent" /\ life[x].count = 0 /\ events[x].lines = <<>>
  BY DEF Init, NoLife, EmptyFile
<1>3. pc = "idle" /\ used.crashes = 0
  BY DEF Init
<1>4. \A x \in Roots : Agrees(x) /\ Within(x)
  BY <1>2, <1>3 DEF Agrees, Within, Ahead
<1>5. QED
  BY <1>1, <1>3, <1>4, BookedIs DEF BookInv

LEMMA BookNext == BookInv /\ [Next]_vars => BookInv'
<1> SUFFICES ASSUME BookInv, [Next]_vars PROVE Booked'
  BY MemoryNext, EvaluatedNext, FrozenNext DEF BookInv, MemoryInv, FrozenInv, EvaluatedInv
<1> DEFINE R == StateNames \cup {"protocol_deviation"}
<1>h. PICK root \in Roots : root = here
  BY DEF BookInv, MemoryInv, SyncInv, TypeInv, TypeOK, Process
<1>t. /\ here \in Roots /\ proc \in Process /\ proc.mem[here] \in Life /\ life \in [Roots -> Life]
      /\ events \in [Roots -> Files(R)] /\ used.crashes \in Nat
  BY DEF BookInv, MemoryInv, SyncInv, TypeInv, TypeOK, Process
<1>c. \A x \in Roots : life[x].count \in Nat
  BY <1>t DEF Life
<1>l. \A x \in Roots : Len(events[x].lines) \in Nat
  <2>1. \A f \in Files(R) : Len(f.lines) \in Nat
    BY DEF Files
  <2>2. QED
    BY <1>t, <2>1
<1>0. /\ here \in Roots /\ proc \in Process /\ proc.mem[here] \in Life /\ life \in [Roots -> Life]
      /\ events \in [Roots -> Files(R)] /\ used.crashes \in Nat
      /\ \A x \in Roots : Len(events[x].lines) \in Nat /\ life[x].count \in Nat
  BY <1>t, <1>c, <1>l
<1>b. /\ \A x \in Roots : Agrees(x) /\ Within(x)
      /\ pc = "state" /\ Readable(events[here]) => proc.goal \in Lines(here)
  BY BookedIs DEF BookInv
<1>1. CASE Open
  <2>1. UNCHANGED <<events, used>> /\ {pc, pc'} \cap {"state", "deviation"} = {}
    BY <1>h, <1>1 DEF Open, Entry, End
  <2>2. CASE UNCHANGED life
    BY <2>1, <2>2, KeptBook
  <2>3. CASE ~UNCHANGED life
    <3> DEFINE planned == [NoLife EXCEPT !.state = "planned", !.hash = Hash(proc.config)]
    <3>1. planned.state = "planned" /\ planned.count = 0
      BY DEF NoLife
    <3>2. life[root].state = "absent" /\ life' = [life EXCEPT ![root] = planned]
      BY <1>h, <1>1, <2>3 DEF Open
    <3> HIDE DEF planned
    <3>3. life'[root].state = "planned" /\ life'[root].count = 0
          /\ \A x \in Roots : x # root => life'[x] = life[x]
      BY <1>h, <1>0, <3>1, <3>2
    <3>4. events[root].lines = <<>> /\ Lines(root) = {}
      BY <1>h, <1>0, <1>b, <3>2 DEF Within, Lines
    <3>5. \A x \in Roots : Ahead(x)' = 0 /\ Ahead(x) = 0
      BY <1>h, <2>1 DEF Ahead
    <3>6. Agrees(root)'
      BY <2>1, <3>3, <3>4, Ranks DEF Agrees, Lines
    <3>7. Within(root)'
      BY <1>h, <1>0, <2>1, <3>3, <3>4, <3>5 DEF Within
    <3>8. ASSUME NEW x \in Roots, x # root PROVE Agrees(x)' /\ Within(x)'
      BY <1>h, <1>b, <2>1, <3>3, <3>5, <3>8, AgreesKept, WithinKept
    <3>9. QED
      BY <2>1, <3>6, <3>7, <3>8, BookedWas
  <2>4. QED
    BY <2>2, <2>3
<1>2. CASE StoreState
  <2>1. /\ pc = "state" /\ pc' = After(proc.goal) /\ proc.goal \in StateNames \ {"planned"}
        /\ life'[root].state = proc.goal /\ life'[root].count = proc.mem[root].count
        /\ \A x \in Roots : x # root => life'[x] = life[x]
        /\ UNCHANGED <<events, used>>
    BY <1>h, <1>2, StoreStep DEF BookInv, MemoryInv, SyncInv
  <2>2. pc' \notin {"state", "deviation"}
    BY <2>1, StateNamesAre DEF After
  <2>3. /\ Rank(proc.goal) = Rank(life[root].state) + 1
        /\ life[root].state \in StateNames
        /\ proc.mem[root].count = life[root].count + 1
    BY <1>h, <1>0, <2>1 DEF BookInv, EvaluatedInv, Evaluated, SyncInv, Synchronized, State, Frozen, Life,
       MemoryInv, Remembered, Ahead
  <2>4. Ahead(root) = 1 /\ \A x \in Roots : Ahead(x)' = 0 /\ (x # root => Ahead(x) = 0)
    BY <1>h, <2>1, <2>2 DEF Ahead
  <2>5. Within(root)'
    BY <1>h, <1>0, <1>b, <2>1, <2>3, <2>4, StateNamesAre DEF Within
  <2>6. Agrees(root)'
    <3>1. Lines(root)' = Lines(root) /\ Readable(events[root])' = Readable(events[root])
      BY <2>1 DEF Lines
    <3>2. Rank(life[root].state) \in 1..11 /\ Rank(proc.goal) \in 1..11
          /\ States[Rank(proc.goal)] = proc.goal
      BY <2>1, <2>3, StateOfRank
    <3>3. \A s \in Lines(root) \cap StateNames : Rank(s) <= Rank(proc.goal) + 1
      <4>1. \A s \in Lines(root) \cap StateNames : Rank(s) \in 1..11 /\ Rank(s) <= Rank(life[root].state) + 1
        BY <1>h, <1>0, <1>b, <2>3, StateNamesAre, StateOfRank DEF Agrees
      <4>2. QED
        BY <2>3, <3>2, <4>1
    <3>4. Readable(events[root]) => \A k \in 2..Rank(proc.goal) : States[k] \in Lines(root)
      <4>1. SUFFICES ASSUME Readable(events[root]), NEW k \in 2..Rank(proc.goal)
                     PROVE  States[k] \in Lines(root)
        OBVIOUS
      <4>2. CASE k = Rank(proc.goal)
        BY <1>h, <1>b, <2>1, <3>2, <4>1, <4>2
      <4>3. CASE k # Rank(proc.goal)
        <5>1. k \in 2..Rank(life[root].state)
          BY <2>3, <3>2, <4>3
        <5>2. QED
          BY <1>h, <1>0, <1>b, <2>3, <4>1, <5>1, StateNamesAre DEF Agrees
      <4>4. QED
        BY <4>2, <4>3
    <3>5. QED
      BY <2>1, <3>1, <3>3, <3>4 DEF Agrees
  <2>7. ASSUME NEW x \in Roots, x # root PROVE Agrees(x)' /\ Within(x)'
    BY <1>h, <1>b, <2>1, <2>4, <2>7, AgreesKept, WithinKept
  <2>8. QED
    BY <2>2, <2>5, <2>6, <2>7, BookedWas
<1>3. CASE AppendEvent \/ Deviate
  <2>1. CASE End
    <3>1. UNCHANGED <<life, events>> /\ used'.crashes = used.crashes /\ pc \in {"event", "packets"}
      BY <1>h, <1>3, <2>1 DEF AppendEvent, Deviate, End
    <3>2. QED
      BY <2>1, <3>1, KeptBook DEF End
  <2>2. CASE ~End
    <3> DEFINE event == IF pc = "event" THEN proc.goal ELSE "protocol_deviation"
    <3>1. /\ UNCHANGED life /\ used'.crashes = used.crashes
          /\ pc \in {"event", "packets"}
          /\ pc' = (IF pc = "event" THEN "state" ELSE "deviation")
          /\ pc = "event" => Follows(proc.goal)
          /\ events' = [events EXCEPT ![root] = Append1(@, event)]
          /\ proc' = [proc EXCEPT !.mem[root].count = @ + 1]
      BY <1>h, <1>0, <1>3, <2>2 DEF AppendEvent, Deviate, Record, BookInv, MemoryInv, SyncInv, TypeInv, TypeOK
    <3>2. event \in R /\ (pc = "event" => event \in StateNames) /\ event # Malformed
      BY <3>1, EventAssumption DEF BookInv, MemoryInv, SyncInv, TypeInv, Whereabouts
    <3>3. proc'.at = root /\ proc'.goal = proc.goal
      BY <1>h, <1>0, <3>1, CountUpdate
    <3>4. life[root].state # "absent" /\ life[root].state \in StateNames /\ State = life[root].state
      BY <1>h, <1>0, <3>1 DEF BookInv, Frozen, MemoryInv, SyncInv, Synchronized, State, Life
    <3> HIDE DEF event
    <3>5. /\ events'[root] = Append1(events[root], event)
          /\ \A x \in Roots : x # root => events'[x] = events[x]
      BY <1>h, <1>0, <3>1
    <3> DEFINE last == IF TrailingPartial(events[root]) THEN Malformed ELSE event
    <3>6. /\ Len(events'[root].lines) = Len(events[root].lines) + 1
          /\ Lines(root)' = Lines(root) \cup {last}
          /\ Readable(events'[root]) => Readable(events[root]) /\ last = event
      <4> DEFINE g == Append1(events[root], event)
      <4>1. /\ Len(g.lines) = Len(events[root].lines) + 1
            /\ {g.lines[i] : i \in 1..Len(g.lines)} =
                  {events[root].lines[i] : i \in 1..Len(events[root].lines)} \cup {last}
            /\ Readable(g) => Readable(events[root]) /\ ~TrailingPartial(events[root])
        BY <1>h, <1>0, <3>2, LinesAppended
      <4> HIDE DEF g
      <4>2. events'[root] = g
        BY <3>5 DEF g
      <4>3. Lines(root)' = {g.lines[i] : i \in 1..Len(g.lines)}
        BY <4>2 DEF Lines
      <4>4. QED
        BY <4>1, <4>2, <4>3 DEF Lines
    <3>7. Ahead(root)' = 1 /\ Ahead(root) = 0
          /\ \A x \in Roots : x # root => Ahead(x)' = 0 /\ Ahead(x) = 0
      BY <1>h, <3>1, <3>3 DEF Ahead
    <3>8. Within(root)'
      <4>1. /\ life[root].count <= Len(events[root].lines)
            /\ Len(events[root].lines) <= life[root].count + used.crashes
        BY <1>h, <1>0, <1>b, <3>7 DEF Within
      <4>2. /\ life[root].count + 1 <= Len(events'[root].lines)
            /\ Len(events'[root].lines) <= life[root].count + 1 + used.crashes
        <5> DEFINE n == Len(events[root].lines)
                   c == life[root].count
        <5>1. n \in Nat /\ c \in Nat /\ used.crashes \in Nat
          BY <1>0
        <5>2. c <= n /\ n <= c + used.crashes /\ Len(events'[root].lines) = n + 1
          BY <3>6, <4>1
        <5> HIDE DEF n, c
        <5>3. c + 1 <= n + 1 /\ n + 1 <= c + 1 + used.crashes
          BY <5>1, <5>2
        <5>4. QED
          BY <5>2, <5>3 DEF c
      <4>3. QED
        BY <1>h, <3>1, <3>4, <3>7, <4>2 DEF Within
    <3>9. Agrees(root)'
      <4>1. last \in StateNames => Rank(last) = Rank(life[root].state) + 1
        <5>1. last \in StateNames => last = proc.goal /\ pc = "event"
          BY StateNamesAre, EventAssumption DEF last, event
        <5>2. QED
          BY <3>1, <3>4, <5>1 DEF Follows
      <4> HIDE DEF last
      <4>2. Rank(life[root].state) \in 1..11
        BY <3>4, StateOfRank
      <4>3. \A s \in Lines(root)' \cap StateNames : Rank(s) <= Rank(life[root].state) + 1
        BY <1>h, <1>0, <1>b, <3>4, <3>6, <4>1, <4>2 DEF Agrees
      <4>4. Readable(events'[root]) => \A k \in 2..Rank(life[root].state) : States[k] \in Lines(root)'
        BY <1>h, <1>0, <1>b, <3>4, <3>6 DEF Agrees
      <4>5. QED
        BY <3>1, <4>3, <4>4 DEF Agrees
    <3>10. ASSUME NEW x \in Roots, x # root PROVE Agrees(x)' /\ Within(x)'
      BY <1>h, <1>b, <3>1, <3>5, <3>7, <3>10, AgreesKept, WithinKept
    <3>11. pc' = "state" /\ Readable(events[here])' => proc'.goal \in Lines(here)'
      BY <3>1, <3>3, <3>6 DEF event
    <3>12. QED
      BY <3>8, <3>9, <3>10, <3>11, BookedWas
  <2>3. QED
    BY <2>1, <2>2
<1>4. CASE StoreDeviation
  <2>1. /\ life' = [life EXCEPT ![root] = proc.mem[root]] /\ UNCHANGED <<events, used>>
        /\ pc = "deviation" /\ pc' = "idle"
    BY <1>h, <1>4 DEF StoreDeviation, End
  <2>2. /\ life'[root].count = life[root].count + 1 /\ life'[root].state = life[root].state
        /\ \A x \in Roots : x # root => life'[x] = life[x]
    BY <1>h, <1>0, <2>1 DEF BookInv, MemoryInv, Remembered, Ahead, SyncInv, Synchronized
  <2>3. Ahead(root) = 1 /\ \A x \in Roots : Ahead(x)' = 0 /\ (x # root => Ahead(x) = 0)
    BY <1>h, <2>1 DEF Ahead
  <2>4. Within(root)'
    BY <1>h, <1>0, <1>b, <2>1, <2>2, <2>3 DEF Within
  <2>5. Agrees(root)'
    BY <1>h, <1>0, <1>b, <2>1, <2>2, AgreesKept
  <2>6. ASSUME NEW x \in Roots, x # root PROVE Agrees(x)' /\ Within(x)'
    BY <1>h, <1>b, <2>1, <2>2, <2>3, <2>6, AgreesKept, WithinKept
  <2>7. QED
    BY <2>1, <2>4, <2>5, <2>6, BookedWas
<1>5. CASE Fingerprint \/ FinalizeEvidence
  <2>1. UNCHANGED <<events, used>> /\ {pc, pc'} \cap {"state", "deviation"} = {}
    BY <1>h, <1>5 DEF Fingerprint, FinalizeEvidence, End
  <2>2. CASE End
    <3>1. UNCHANGED life
      BY <1>h, <1>5, <2>2 DEF Fingerprint, FinalizeEvidence, End
    <3>2. QED
      BY <2>1, <3>1, KeptBook
  <2>3. CASE ~End
    <3>1. PICK slot \in {"reference", "evidence"}, x \in Roots :
             /\ pc \in {"fingerprint", "evidence"} /\ manifest[x].call \in Calls
             /\ life' = [life EXCEPT ![root] = [proc.mem[root] EXCEPT ![slot] = manifest[x].call]]
      BY <1>h, <1>5, <2>3, FingerprintStep DEF BookInv, MemoryInv, SyncInv
    <3> DEFINE set == [proc.mem[root] EXCEPT ![slot] = manifest[x].call]
    <3>2. set.state = proc.mem[root].state /\ set.count = proc.mem[root].count
      BY <1>h, <1>0, <3>1, FingerprintUpdate, FingerprintKeeps
    <3>3. /\ proc.mem[root].state = life[root].state /\ proc.mem[root].count = life[root].count
      BY <1>h, <1>0, <3>1 DEF BookInv, MemoryInv, Remembered, Ahead, SyncInv, Synchronized
    <3>4. life' = [life EXCEPT ![root] = set]
      BY <3>1
    <3> HIDE DEF set
    <3>5. \A y \in Roots : life'[y].state = life[y].state /\ life'[y].count = life[y].count
      BY <1>h, <1>0, <3>2, <3>3, <3>4
    <3>6. QED
      BY <2>1, <3>5, KeptBook
  <2>4. QED
    BY <2>2, <2>3
<1>6. CASE FreezeSplit
  <2> DEFINE set == [proc.mem[root] EXCEPT !.split = TRUE]
  <2>1. set.state = proc.mem[root].state /\ set.count = proc.mem[root].count
    BY <1>h, <1>0, FlagUpdate, SplitKeeps
  <2>2. life' = [life EXCEPT ![root] = set] /\ pc = "splitFingerprint" /\ pc' = "event"
        /\ UNCHANGED <<events, used>>
    BY <1>h, <1>6 DEF FreezeSplit
  <2>3. proc.mem[root].state = life[root].state /\ proc.mem[root].count = life[root].count
    BY <1>h, <1>0, <2>2 DEF BookInv, MemoryInv, Remembered, Ahead, SyncInv, Synchronized
  <2> HIDE DEF set
  <2>4. \A y \in Roots : life'[y].state = life[y].state /\ life'[y].count = life[y].count
    BY <1>h, <1>0, <2>1, <2>2, <2>3
  <2>5. QED
    BY <2>2, <2>4, KeptBook
<1>7. CASE Crash
  <2>1. pc' = "idle" /\ UNCHANGED life /\ used'.crashes = used.crashes + 1
    BY <1>h, <1>0, <1>7 DEF Crash, End, BookInv, MemoryInv, SyncInv, TypeInv, TypeOK
  <2>2. \/ events' = events
        \/ \E f \in TornAppends(events[root]) : events' = [events EXCEPT ![root] = f]
    BY <1>h, <1>7 DEF Crash
  <2>3. \A x \in Roots : events'[x].lines = events[x].lines
    BY <1>h, <1>0, <2>2, TornType
  <2>4. \A x \in Roots : Ahead(x)' = 0 /\ Ahead(x) \in {0, 1}
    BY <1>h, <2>1 DEF Ahead
  <2>5. \A x \in Roots : Within(x)'
    <3>1. SUFFICES ASSUME NEW x \in Roots PROVE Within(x)'
      OBVIOUS
    <3>2. Len(events[x].lines) <= life[x].count + Ahead(x) + used.crashes
          /\ life[x].count + Ahead(x) <= Len(events[x].lines)
      BY <1>b DEF Within
    <3>3. Len(events[x].lines) <= life[x].count + 0 + (used.crashes + 1)
          /\ life[x].count + 0 <= Len(events[x].lines)
      <4> DEFINE n == Len(events[x].lines)
                 c == life[x].count
                 a == Ahead(x)
      <4>1. n \in Nat /\ c \in Nat /\ used.crashes \in Nat /\ a \in {0, 1}
        BY <1>0, <2>4
      <4>2. n <= c + a + used.crashes /\ c + a <= n
        BY <3>2
      <4> HIDE DEF n, c, a
      <4>3. n <= c + 0 + (used.crashes + 1) /\ c + 0 <= n
        BY <4>1, <4>2
      <4>4. QED
        BY <4>3 DEF n, c
    <3>4. QED
      BY <1>b, <2>1, <2>3, <2>4, <3>3 DEF Within
  <2>6. \A x \in Roots : Agrees(x)'
    BY <1>h, <1>b, <2>1, <2>3, AgreesKept
  <2>7. QED
    BY <2>1, <2>5, <2>6, BookedWas
<1>8. CASE \/ Run \/ Acquire \/ WriteConfig \/ WriteProtocol \/ VerifyInventory \/ Begin
           \/ OpenDataset \/ WriteShard \/ WriteManifest \/ Return \/ Residualize \/ WriteSplit
           \/ Tournament \/ MarkTestEvaluated \/ WriteDecision \/ WriteReport
  <2>1. UNCHANGED <<life, events>> /\ used'.crashes = used.crashes
    BY <1>h, <1>8 DEF Run, Acquire, Call, WriteConfig, WriteProtocol, VerifyInventory, Begin,
       OpenDataset, WriteShard, WriteManifest, Return, Residualize, WriteSplit, Tournament,
       MarkTestEvaluated, WriteDecision, WriteReport, files, BookInv, MemoryInv, SyncInv,
       TypeInv, TypeOK
  <2>2. {pc, pc'} \cap {"state", "deviation"} = {}
    BY <1>h, <1>8 DEF Run, Acquire, Call, WriteConfig, WriteProtocol, VerifyInventory, Begin,
       OpenDataset, WriteShard, WriteManifest, Return, Residualize, WriteSplit, Tournament,
       MarkTestEvaluated, WriteDecision, WriteReport, Goto, Transition, End
  <2>3. QED
    BY <2>1, <2>2, KeptBook
<1>9. CASE UNCHANGED vars
  <2>1. UNCHANGED <<life, events, proc, pc, used>>
    BY <1>h, <1>9 DEF vars, files
  <2>2. \A x \in Roots : Agrees(x)' /\ Within(x)'
    BY <1>h, <1>b, <2>1 DEF Agrees, Within, Lines, Ahead
  <2>3. QED
    BY <1>h, <1>b, <2>1, <2>2, BookedWas DEF Lines
<1>10. QED
  BY <1>h, <1>1, <1>2, <1>3, <1>4, <1>5, <1>6, <1>7, <1>8, <1>9
  DEF Next, Lifecycle, Acquisition, Evaluation

\* State file and event stream tell the same story after any number of deaths.
THEOREM ExperimentBooksAgree == Spec => [](StateAgreesWithEvents /\ EventsCounted)
<1>1. BookInv => StateAgreesWithEvents /\ EventsCounted
  <2> SUFFICES ASSUME BookInv PROVE StateAgreesWithEvents /\ EventsCounted
    OBVIOUS
  <2>1. StateAgreesWithEvents /\ \A x \in Roots : Within(x)
    BY BookedIs DEF BookInv, Booked
  <2>2. pc = "idle" => \A x \in Roots : Ahead(x) = 0
    BY DEF Ahead
  <2>3. used.crashes \in Nat /\ \A x \in Roots : life[x].count \in Nat
    BY DEF BookInv, MemoryInv, SyncInv, TypeInv, TypeOK, Life
  <2>4. QED
    BY <2>1, <2>2, <2>3 DEF Within, EventsCounted
<1>2. QED
  BY <1>1, BookInit, BookNext, PTL DEF Spec

----------------------------------------------------------------------------
(* The fingerprints *)

\* A dataset has the phase of the acquisition that wrote it, and packets are
\* written in the two acquisition states only.
Phased ==
    /\ \A x \in Phases : manifest[x] # None => manifest[x].phase = x
    /\ pc = "fingerprint" => manifest[here].phase = proc.phase
    /\ pc \in {"packets", "deviation", "write", "fingerprint"} =>
          State \in {"reference_acquisition", "controlled_acquisition"}

FingerprintInv == MemoryInv /\ DatasetInv /\ EvaluatedInv /\ Phased /\ FingerprintsOfDatasets

\* FingerprintsOfDatasets, of one lifecycle.
FingerprintsAt(x) ==
    /\ life[x].reference # 0 =>
          /\ manifest[x] # None
          /\ manifest[x].call = life[x].reference
          /\ manifest[x].phase = "reference"
    /\ life[x].evidence # 0 =>
          \E y \in {x, "controlled"} :
             /\ manifest[y] # None
             /\ manifest[y].call = life[x].evidence
             /\ manifest[y].phase = "controlled"

LEMMA FingerprintsAre == FingerprintsOfDatasets <=> \A x \in Roots : FingerprintsAt(x)
BY DEF FingerprintsOfDatasets, FingerprintsAt

LEMMA FingerprintsWere ==
    FingerprintsOfDatasets' <=> \A x \in Roots : FingerprintsAt(x)'
BY DEF FingerprintsOfDatasets, FingerprintsAt

\* A lifecycle whose fingerprints stay.
LEMMA FingerprintsKept ==
    ASSUME NEW x \in Roots, FingerprintsAt(x),
           \A y \in Roots : manifest[y] # None => manifest'[y] = manifest[y],
           life'[x].reference = life[x].reference, life'[x].evidence = life[x].evidence
    PROVE  FingerprintsAt(x)'
BY DEF FingerprintsAt, Roots

\* Steps that leave the lifecycles' data alone.
LEMMA DataKept ==
    ASSUME MemoryInv, [Next]_vars, ~Open, ~Fingerprint, ~FinalizeEvidence, ~FreezeSplit,
           NEW x \in Roots
    PROVE  /\ life'[x].reference = life[x].reference /\ life'[x].evidence = life[x].evidence
           /\ life[x].split => life'[x].split
           /\ life[x].tested => life'[x].tested
<1>0. here \in Roots /\ life \in [Roots -> Life]
  BY DEF MemoryInv, SyncInv, TypeInv, TypeOK, Process
<1>1. CASE UNCHANGED life
  BY <1>1
<1>2. CASE StoreDeviation
  BY <1>0, <1>2 DEF StoreDeviation, MemoryInv, Remembered, Recalls
<1>3. CASE StoreState
  <2>1. /\ pc = "state"
        /\ life'[here].reference = proc.mem[here].reference
        /\ life'[here].evidence = proc.mem[here].evidence
        /\ life'[here].split = proc.mem[here].split
        /\ life'[here].tested = proc.mem[here].tested
        /\ \A y \in Roots : y # here => life'[y] = life[y]
    BY <1>3, StoreStep DEF MemoryInv, SyncInv
  <2>2. QED
    BY <2>1 DEF MemoryInv, Remembered, Recalls
<1>4. UNCHANGED life \/ StoreDeviation \/ StoreState
  BY DEF Next, Run, Acquire, Call, Lifecycle, WriteConfig, WriteProtocol, AppendEvent,
     Acquisition, VerifyInventory, Begin, Deviate, OpenDataset, WriteShard, WriteManifest,
     Return, Evaluation, Residualize, WriteSplit, Tournament, MarkTestEvaluated,
     WriteDecision, WriteReport, Crash, files, vars
<1>5. QED
  BY <1>1, <1>2, <1>3, <1>4

LEMMA FingerprintInit == Init => FingerprintInv
<1> SUFFICES ASSUME Init PROVE FingerprintInv
  OBVIOUS
<1>1. \A x \in Roots : FingerprintsAt(x)
  BY DEF Init, NoLife, FingerprintsAt
<1>2. Phased
  BY DEF Init, Phased, Phases, Roots
<1>3. QED
  BY <1>1, <1>2, MemoryInit, DatasetInit, EvaluatedInit, FingerprintsAre DEF FingerprintInv

LEMMA PhasedNext ==
    ASSUME FingerprintInv, [Next]_vars
    PROVE  Phased'
<1>0. /\ here \in Roots /\ proc \in Process /\ DOMAIN manifest = Roots
      /\ proc.mem \in [Roots -> Life] /\ proc.mem[here] \in Life
  BY DEF FingerprintInv, DatasetInv, TypeInv, TypeOK, Process
<1>1. \A x \in Phases : manifest'[x] # None => manifest'[x].phase = x
  <2>1. CASE WriteManifest
    <3>1. manifest'[here].phase = proc.phase /\ \A x \in Roots : x # here => manifest'[x] = manifest[x]
      BY <1>0, <2>1 DEF WriteManifest
    <3>2. here # "outer" => proc.phase = here
      BY DEF FingerprintInv, DatasetInv, TypeInv, Whereabouts
    <3>3. QED
      BY <3>1, <3>2 DEF FingerprintInv, Phased, Phases, Roots
  <2>2. CASE ~WriteManifest
    <3>1. UNCHANGED manifest
      BY <2>2 DEF Next, Run, Acquire, Call, Lifecycle, Open, WriteConfig, WriteProtocol,
         AppendEvent, StoreState, Acquisition, VerifyInventory, Begin, Deviate,
         StoreDeviation, OpenDataset, WriteShard, Fingerprint, Return, Evaluation,
         Residualize, FinalizeEvidence, WriteSplit, FreezeSplit, Tournament,
         MarkTestEvaluated, WriteDecision, WriteReport, Crash, files, vars
    <3>2. QED
      BY <3>1 DEF FingerprintInv, Phased
  <2>3. QED
    BY <2>1, <2>2
<1>2. CASE pc' \notin {"packets", "deviation", "write", "fingerprint"}
  BY <1>1, <1>2 DEF Phased
<1>3. CASE pc' \in {"packets", "deviation", "write", "fingerprint"}
  <2>1. \/ StoreState \/ Begin \/ Deviate \/ OpenDataset \/ WriteShard \/ WriteManifest
        \/ UNCHANGED vars
    BY <1>3 DEF Next, Run, Acquire, Call, Lifecycle, Open, Entry, WriteConfig, WriteProtocol,
       AppendEvent, Acquisition, VerifyInventory, StoreDeviation, Fingerprint, Return,
       Evaluation, Residualize, FinalizeEvidence, WriteSplit, FreezeSplit, Tournament,
       MarkTestEvaluated, WriteDecision, WriteReport, Crash, Goto, Transition, End
  <2>2. CASE StoreState
    <3>1. /\ pc' = After(proc.goal) /\ proc.goal \in StateNames \ {"planned"}
          /\ proc'.at = (IF Nested(proc.goal) = None THEN here ELSE Nested(proc.goal))
      BY <2>2, StoreStep DEF FingerprintInv, DatasetInv
    <3>2. pc' = "packets" /\ proc.goal \in {"reference_acquisition", "controlled_acquisition"}
      BY <1>3, <3>1, StateNamesAre DEF After
    <3>3. ~Running
      BY <3>1, <3>2, StateNamesAre DEF After
    <3>4. proc'.at = here
      BY <3>1, <3>3 DEF Nested
    <3>5. proc'.mem[here].state = proc.goal
      <4> DEFINE stored == [proc.mem[here] EXCEPT !.state = proc.goal]
                 nested == Nested(proc.goal)
      <4>1. proc' = [proc EXCEPT !.mem[here] = stored, !.goal = NextGoal(@),
                                 !.at = IF nested = None THEN @ ELSE nested,
                                 !.phase = IF nested = None THEN @ ELSE nested, !.written = 0]
        BY <2>2 DEF StoreState
      <4>2. stored.state = proc.goal
        BY <1>0, <3>1, StateUpdate
      <4> HIDE DEF stored, nested
      <4>3. QED
        BY <1>0, <4>1, <4>2 DEF Process
    <3>6. QED
      BY <1>1, <3>2, <3>4, <3>5 DEF Phased, State
  <2>3. CASE Begin
    <3>1. UNCHANGED proc /\ pc' = "packets"
          /\ State \in {"reference_acquisition", "controlled_acquisition"}
      BY <1>3, <2>3 DEF Begin, Goto, Transition, End
    <3>2. QED
      BY <1>1, <3>1 DEF Phased, State
  <2>4. CASE Deviate
    <3>1. pc = "packets" /\ pc' = "deviation" /\ proc' = [proc EXCEPT !.mem[here].count = @ + 1]
      BY <2>4 DEF Deviate, Record
    <3>2. proc'.at = here /\ proc'.mem[here].state = proc.mem[here].state
      BY <1>0, <3>1, CountUpdate
    <3>3. QED
      BY <1>1, <3>1, <3>2 DEF Phased, State, FingerprintInv
  <2>5. CASE OpenDataset
    <3>1. pc = "packets" /\ UNCHANGED proc /\ pc' = "write"
      BY <1>3, <2>5 DEF OpenDataset, Goto, End
    <3>2. QED
      BY <1>1, <3>1 DEF Phased, State, FingerprintInv
  <2>6. CASE WriteShard
    <3>1. pc = "write" /\ pc' = "write" /\ proc'.mem = proc.mem /\ proc'.at = here
      BY <1>0, <2>6 DEF WriteShard, Process
    <3>2. QED
      BY <1>1, <3>1 DEF Phased, State, FingerprintInv
  <2>7. CASE WriteManifest
    <3>1. pc = "write" /\ UNCHANGED proc /\ manifest'[here].phase = proc.phase
      BY <1>0, <2>7 DEF WriteManifest, Goto
    <3>2. QED
      BY <1>1, <3>1 DEF Phased, State, FingerprintInv
  <2>8. CASE UNCHANGED vars
    BY <2>8 DEF vars, files, Phased, State, FingerprintInv
  <2>9. QED
    BY <2>1, <2>2, <2>3, <2>4, <2>5, <2>6, <2>7, <2>8
<1>4. QED
  BY <1>2, <1>3

LEMMA FingerprintNext == FingerprintInv /\ [Next]_vars => FingerprintInv'
<1> SUFFICES ASSUME FingerprintInv, [Next]_vars PROVE FingerprintsOfDatasets'
  BY PhasedNext, MemoryNext, DatasetNext, EvaluatedNext DEF FingerprintInv
<1>h. PICK root \in Roots : root = here
  BY DEF FingerprintInv, DatasetInv, TypeInv, TypeOK, Process
<1>0. life \in [Roots -> Life] /\ proc.mem[root] \in Life
  BY <1>h DEF FingerprintInv, DatasetInv, TypeInv, TypeOK, Process
<1>1. \A x \in Roots : manifest[x] # None => manifest'[x] = manifest[x]
  BY DatasetKept DEF FingerprintInv
<1>2. \A x \in Roots : FingerprintsAt(x)
  BY FingerprintsAre DEF FingerprintInv
<1>3. CASE \A x \in Roots : /\ life'[x].reference = life[x].reference
                            /\ life'[x].evidence = life[x].evidence
  BY <1>1, <1>2, <1>3, FingerprintsKept, FingerprintsWere
<1>4. CASE Open /\ ~UNCHANGED life
  <2> DEFINE planned == [NoLife EXCEPT !.state = "planned", !.hash = Hash(proc.config)]
  <2>1. planned.reference = 0 /\ planned.evidence = 0
    BY DEF NoLife
  <2>2. life' = [life EXCEPT ![root] = planned]
    BY <1>h, <1>4 DEF Open
  <2> HIDE DEF planned
  <2>3. FingerprintsAt(root)'
    BY <1>0, <2>1, <2>2 DEF FingerprintsAt
  <2>4. ASSUME NEW x \in Roots, x # root PROVE FingerprintsAt(x)'
    <3>1. life'[x] = life[x]
      BY <1>0, <2>2, <2>4
    <3>2. QED
      BY <1>1, <1>2, <3>1, FingerprintsKept
  <2>5. QED
    BY <2>3, <2>4, FingerprintsWere
<1>5. CASE (Fingerprint \/ FinalizeEvidence) /\ ~End
  <2>1. PICK slot \in {"reference", "evidence"}, y \in Roots :
           LET set == [proc.mem[here] EXCEPT ![slot] = manifest[y].call]
           IN  /\ \/ pc = "fingerprint" /\ slot = Slot(proc.phase) /\ y = here
                  \/ pc = "evidence" /\ slot = "evidence" /\ y = "controlled" /\ here = "outer"
               /\ manifest[y] \in Manifest /\ manifest[y].call \in Calls
               /\ set \in Life
               /\ life' = [life EXCEPT ![here] = set]
               /\ proc'.mem = [proc.mem EXCEPT ![here] = set] /\ proc'.at = here
               /\ proc'.driver = proc.driver
               /\ pc' \in {"event", "return"}
               /\ pc' = "event" => proc'.goal = "evidence_finalized"
    BY <1>5, FingerprintStep DEF FingerprintInv, DatasetInv
  <2> DEFINE c == manifest[y].call
             set == [proc.mem[root] EXCEPT ![slot] = c]
  <2>2. manifest[y] # None
    BY <2>1, NoManifestAssumption
  <2>3. \/ pc = "fingerprint" /\ slot = Slot(proc.phase) /\ y = root
        \/ pc = "evidence" /\ slot = "evidence" /\ y = "controlled"
    BY <1>h, <2>1
  <2>4. manifest[y].phase = IF slot = "reference" THEN "reference" ELSE "controlled"
    <3>1. CASE pc = "fingerprint"
      <4>1. proc.phase \in Phases
        BY <1>h, <3>1 DEF FingerprintInv, DatasetInv, TypeInv, TypeOK, Process, Whereabouts, Running, Phases, Roots
      <4>2. manifest[y].phase = proc.phase
        BY <1>h, <2>3, <3>1 DEF FingerprintInv, Phased
      <4>3. QED
        BY <2>3, <3>1, <4>1, <4>2 DEF Slot, Phases
    <3>2. CASE pc = "evidence"
      BY <2>2, <2>3, <3>2 DEF FingerprintInv, Phased, Phases
    <3>3. QED
      BY <2>3, <3>1, <3>2
  <2>5. c \in Calls /\ life' = [life EXCEPT ![root] = set]
    BY <1>h, <2>1
  <2>6. /\ set[slot] = c
        /\ \A other \in {"reference", "evidence"} \ {slot} : set[other] = proc.mem[root][other]
    BY <1>0, <2>5, FingerprintKeeps
  <2>7. /\ proc.mem[root].reference = life[root].reference
        /\ proc.mem[root].evidence = life[root].evidence
    BY <1>h, <2>3 DEF FingerprintInv, MemoryInv, Remembered, Recalls
  <2> HIDE DEF set, c
  <2>8. life'[root] = set /\ \A x \in Roots : x # root => life'[x] = life[x]
    BY <1>0, <2>5
  <2>9. ASSUME NEW x \in Roots, x # root PROVE FingerprintsAt(x)'
    BY <1>1, <1>2, <2>8, <2>9, FingerprintsKept
  <2>10. manifest'[y] = manifest[y]
    BY <1>1, <2>2
  <2>11. CASE slot = "reference"
    <3>1. y = root /\ set.reference = c /\ set.evidence = life[root].evidence
      BY <2>3, <2>6, <2>7, <2>11
    <3>2. FingerprintsAt(root)
      BY <1>2
    <3>3. \A z \in {root, "controlled"} : manifest[z] # None => manifest'[z] = manifest[z]
      BY <1>1 DEF Roots
    <3>4. FingerprintsAt(root)'
      BY <2>2, <2>4, <2>8, <2>10, <2>11, <3>1, <3>2, <3>3 DEF FingerprintsAt, c
    <3>5. QED
      BY <2>9, <3>4, FingerprintsWere
  <2>12. CASE slot = "evidence"
    <3>1. set.evidence = c /\ set.reference = life[root].reference
      BY <2>6, <2>7, <2>12
    <3>2. FingerprintsAt(root)
      BY <1>2
    <3>3. y \in {root, "controlled"}
      BY <2>3
    <3>4. FingerprintsAt(root)'
      BY <1>1, <2>2, <2>4, <2>8, <2>10, <2>12, <3>1, <3>2, <3>3 DEF FingerprintsAt, c
    <3>5. QED
      BY <2>9, <3>4, FingerprintsWere
  <2>13. QED
    BY <2>11, <2>12
<1>6. CASE (Fingerprint \/ FinalizeEvidence) /\ End
  <2>1. UNCHANGED life
    BY <1>6 DEF Fingerprint, FinalizeEvidence, End
  <2>2. QED
    BY <1>3, <2>1
<1>7. CASE FreezeSplit
  <2> DEFINE set == [proc.mem[root] EXCEPT !.split = TRUE]
  <2>1. set.reference = proc.mem[root].reference /\ set.evidence = proc.mem[root].evidence
    BY <1>0, SplitKeeps
  <2>2. life' = [life EXCEPT ![root] = set] /\ pc = "splitFingerprint"
    BY <1>h, <1>7 DEF FreezeSplit
  <2>3. /\ proc.mem[root].reference = life[root].reference
        /\ proc.mem[root].evidence = life[root].evidence
    BY <1>h, <2>2 DEF FingerprintInv, MemoryInv, Remembered, Recalls
  <2> HIDE DEF set
  <2>4. \A x \in Roots : /\ life'[x].reference = life[x].reference
                         /\ life'[x].evidence = life[x].evidence
    BY <1>0, <2>1, <2>2, <2>3
  <2>5. QED
    BY <1>3, <2>4
<1>8. CASE ~Open /\ ~Fingerprint /\ ~FinalizeEvidence /\ ~FreezeSplit
  BY <1>3, <1>8, DataKept DEF FingerprintInv
<1>9. CASE UNCHANGED life
  BY <1>3, <1>9
<1>10. QED
  BY <1>4, <1>5, <1>6, <1>7, <1>8, <1>9

\* A fingerprint in a state file is that of a published dataset of its phase.
THEOREM ExperimentFingerprintsOfDatasets == Spec => []FingerprintsOfDatasets
<1>1. FingerprintInv => FingerprintsOfDatasets
  BY DEF FingerprintInv
<1>2. QED
  BY <1>1, FingerprintInit, FingerprintNext, PTL DEF Spec

----------------------------------------------------------------------------
(* The decision *)

\* The process's transition, in the outer directory.
Heading(goals) == here = "outer" /\ pc \in {"event", "state"} /\ proc.goal \in goals

Early == {"absent", "planned", "protocol_frozen", "inventory_verified"}

OfThisCall(x) == manifest[x] # None /\ manifest[x].call = used.calls

ReferenceDone == OfThisCall("reference") /\ "residualizer" \in results

EvidenceDone ==
    /\ ReferenceDone /\ OfThisCall("controlled")
    /\ life["outer"].evidence = used.calls

SplitDone == EvidenceDone /\ "split" \in results /\ life["outer"].split

\* Where the complete experiment is once it has announced the reference acquisition.
AtReference == here = "reference" \/ pc = "residualize"

AtControlled ==
    \/ here = "controlled" \/ pc = "evidence"
    \/ Running /\ Heading({"controlled_acquisition"})

AtEvidence ==
    \/ pc \in {"split", "splitFingerprint"}
    \/ Running /\ Heading({"evidence_finalized"})

AtTest ==
    \/ pc \in {"tournament", "mark"}
    \/ Heading({"split_frozen", "training", "validation_selection", "test_evaluation"})

AtDecision == pc \in {"decision", "report"} \/ Heading({"decision"})

\* A nested acquisition whose dataset has been published.
NestedDone ==
    /\ here # "outer"
    /\ \/ pc \in {"fingerprint", "return"}
       \/ pc \in {"event", "state"} /\ proc.goal = "evidence_finalized"

\* What the complete experiment has done at every point of its way, in one call:
\* it starts from inventory_verified only, so that nothing of an earlier call is
\* among the results.
Staged ==
    /\ life["outer"].state \in Early => results = {}
    /\ AtReference \/ AtControlled \/ AtEvidence \/ AtTest \/ AtDecision =>
          /\ life["outer"].state \notin Early
          /\ "torn_split" \notin results
          /\ "decision" \in results => pc = "report"
    /\ NestedDone => OfThisCall(here)
    /\ pc = "residualize" => OfThisCall("reference")
    /\ AtControlled => ReferenceDone
    /\ pc = "evidence" => OfThisCall("controlled")
    /\ AtEvidence => EvidenceDone
    /\ pc = "splitFingerprint" => "split" \in results
    /\ AtTest => SplitDone
    /\ AtDecision => SplitDone /\ life["outer"].tested
    /\ pc \in {"decision", "report"} => life["outer"].state = "decision"

StagedInv == FingerprintInv /\ Frozen /\ Staged /\ DecisionRestsOnEvidence

\* The complete experiment, from the reference acquisition to its report.
InStage == AtReference \/ AtControlled \/ AtEvidence \/ AtTest \/ AtDecision

\* Steps that leave the results, and the data of the outer lifecycle, alone.
DataSame ==
    /\ UNCHANGED results
    /\ life'["outer"].state = life["outer"].state
    /\ life'["outer"].evidence = life["outer"].evidence
    /\ life["outer"].split => life'["outer"].split
    /\ life["outer"].tested => life'["outer"].tested
    /\ \A x \in Phases : manifest[x] # None => manifest'[x] = manifest[x]

LEMMA DecisionKept ==
    ASSUME DecisionRestsOnEvidence, DataSame
    PROVE  DecisionRestsOnEvidence'
BY DEF DecisionRestsOnEvidence, DataSame, Phases

\* What has been done in this call stays done.
LEMMA DoneKept ==
    ASSUME DataSame, used'.calls = used.calls
    PROVE  /\ \A x \in Phases : OfThisCall(x) => OfThisCall(x)'
           /\ ReferenceDone => ReferenceDone'
           /\ EvidenceDone => EvidenceDone'
           /\ SplitDone => SplitDone'
BY DEF DataSame, OfThisCall, ReferenceDone, EvidenceDone, SplitDone, Phases

\* The points at which the complete experiment is in no stage.
LEMMA Unstaged ==
    ASSUME proc'.at = "outer",
           pc' \notin {"residualize", "evidence", "split", "splitFingerprint", "tournament",
                       "mark", "decision", "report"},
           pc' \in {"event", "state"} =>
              proc'.goal \in {"protocol_frozen", "inventory_verified", "reference_acquisition"}
    PROVE  ~InStage'
BY DEF InStage, AtReference, AtControlled, AtEvidence, AtTest, AtDecision, Heading

\* An acquisition of its own is in none.
LEMMA AcquisitionUnstaged ==
    ASSUME TypeInv', proc'.at = "outer", proc'.driver # "run"
    PROVE  ~InStage'
BY DEF TypeInv, TypeOK, Process, Whereabouts, AcquisitionGoals, InStage, AtReference,
   AtControlled, AtEvidence, AtTest, AtDecision, Heading, Running

LEMMA EndUnstaged ==
    ASSUME End
    PROVE  proc'.at = "outer" /\ ~InStage'
<1>1. proc'.at = "outer" /\ pc' = "idle"
  BY NoProcessType DEF End
<1>2. QED
  BY <1>1, Unstaged

\* Steps that stay where they are, or head for the reference acquisition.
LEMMA SameStage ==
    ASSUME proc'.at = here, proc'.driver = proc.driver,
           pc' \notin {"residualize", "evidence", "split", "splitFingerprint", "tournament",
                       "mark", "decision", "report"},
           pc' \in {"event", "state"} =>
              \/ proc'.goal \in {"protocol_frozen", "inventory_verified", "reference_acquisition"}
              \/ here # "outer"
              \/ pc \in {"event", "state"} /\ proc'.goal = proc.goal
    PROVE  /\ AtReference' => AtReference
           /\ AtControlled' => AtControlled
           /\ AtEvidence' => AtEvidence
           /\ AtTest' => AtTest
           /\ AtDecision' => AtDecision
BY DEF AtReference, AtControlled, AtEvidence, AtTest, AtDecision, Heading, Running

\* Steps that end in no stage.
LEMMA LeaveStage ==
    ASSUME StagedInv, proc'.at = "outer", ~InStage', DataSame
    PROVE  Staged' /\ DecisionRestsOnEvidence'
BY DecisionKept
DEF StagedInv, Staged, DataSame, NestedDone, InStage, AtReference, AtControlled, AtEvidence, AtTest,
    AtDecision

\* Steps within a stage.
LEMMA KeepStage ==
    ASSUME StagedInv, DataSame, used'.calls = used.calls, pc # "report",
           AtReference' => AtReference, AtControlled' => AtControlled,
           AtEvidence' => AtEvidence, AtTest' => AtTest, AtDecision' => AtDecision,
           pc' \notin {"residualize", "evidence", "splitFingerprint", "decision", "report"},
           NestedDone' => OfThisCall(here)'
    PROVE  Staged' /\ DecisionRestsOnEvidence'
<1>1. DecisionRestsOnEvidence'
  BY DecisionKept DEF StagedInv
<1>2. InStage' => InStage
  BY DEF InStage
<1>3. Staged'
  BY <1>2, DoneKept DEF StagedInv, Staged, DataSame, InStage
<1>4. QED
  BY <1>1, <1>3

LEMMA StagedInit == Init => StagedInv
BY FingerprintInit, FrozenInit, NoProcessType
DEF Init, FrozenInv, StagedInv, Staged, DecisionRestsOnEvidence, AtReference, AtControlled, AtEvidence,
    AtTest, AtDecision, Heading, NestedDone

\* The state file after a transition of the outer directory.
LEMMA OuterStep ==
    ASSUME StagedInv, StoreState, here = "outer"
    PROVE  /\ pc = "state" /\ pc' = After(proc.goal) /\ proc.goal \in StateNames \ {"planned"}
           /\ life["outer"].state \in StateNames
           /\ Rank(proc.goal) = Rank(life["outer"].state) + 1
           /\ life'["outer"].state = proc.goal
           /\ life'["outer"].evidence = life["outer"].evidence
           /\ life["outer"].split => life'["outer"].split
           /\ life["outer"].tested => life'["outer"].tested
           /\ proc.goal = "test_evaluation" => life'["outer"].tested
           /\ proc'.driver = proc.driver /\ proc'.goal = NextGoal(proc.goal)
           /\ proc'.at = (IF Nested(proc.goal) = None THEN "outer" ELSE Nested(proc.goal))
           /\ UNCHANGED <<manifest, results, used>>
<1>0. here \in Roots /\ life[here] \in Life /\ proc.mem[here] \in Life
  BY DEF StagedInv, FingerprintInv, DatasetInv, TypeInv, TypeOK, Process
<1>1. /\ pc = "state" /\ pc' = After(proc.goal) /\ proc.goal \in StateNames \ {"planned"}
      /\ life'[here].state = proc.goal
      /\ life'[here].evidence = proc.mem[here].evidence
      /\ life'[here].split = proc.mem[here].split
      /\ life'[here].tested = proc.mem[here].tested
      /\ proc'.driver = proc.driver /\ proc'.goal = NextGoal(proc.goal)
      /\ proc'.at = (IF Nested(proc.goal) = None THEN here ELSE Nested(proc.goal))
      /\ UNCHANGED <<manifest, results, used>>
  BY StoreStep DEF StagedInv, FingerprintInv, DatasetInv
<1>2. Recalls(proc.mem[here], life[here])
      /\ (proc.goal = "test_evaluation" => proc.mem[here].tested)
  BY <1>1 DEF StagedInv, FingerprintInv, MemoryInv, Remembered
<1>3. Rank(proc.goal) = Rank(State) + 1 /\ State = life[here].state
  BY <1>1 DEF StagedInv, FingerprintInv, EvaluatedInv, Evaluated, SyncInv, Synchronized, State
<1>4. life[here].state # "absent"
  BY <1>0, <1>1, <1>3 DEF StagedInv, Frozen
<1>5. life[here].state \in StateNames
  BY <1>0, <1>4 DEF Life
<1>6. QED
  BY <1>1, <1>2, <1>3, <1>5 DEF Recalls

\* The state a transition comes from.
LEMMA Predecessors ==
    ASSUME NEW s \in StateNames, NEW t \in StateNames, Rank(t) = Rank(s) + 1
    PROVE  /\ s # "decision"
           /\ t \in {"protocol_frozen", "inventory_verified", "reference_acquisition"}
                => s \in Early
           /\ t \in Early => s \in Early
BY Ranks, StateNamesAre DEF Early

LEMMA StageStore ==
    ASSUME StagedInv, [Next]_vars, StoreState
    PROVE  Staged' /\ DecisionRestsOnEvidence'
<1>1. CASE here # "outer"
  <2>1. /\ pc = "state" /\ pc' = After(proc.goal) /\ proc.goal \in StateNames \ {"planned"}
        /\ \A x \in Roots : x # here => life'[x] = life[x]
        /\ proc'.driver = proc.driver /\ proc'.goal = NextGoal(proc.goal)
        /\ proc'.at = (IF Nested(proc.goal) = None THEN here ELSE Nested(proc.goal))
        /\ UNCHANGED <<manifest, results, used>>
    BY StoreStep DEF StagedInv, FingerprintInv, DatasetInv
  <2>2. ~Running /\ proc.goal \in AcquisitionGoals
    BY <1>1, <2>1 DEF Running, StagedInv, FingerprintInv, DatasetInv, TypeInv, Whereabouts
  <2>3. proc'.at = here
    BY <2>1, <2>2 DEF Nested
  <2>4. pc' \in {"inventory", "begin", "event", "packets", "return"}
    BY <2>1, <2>2 DEF After, AcquisitionGoals
  <2>5. pc' = "event" => proc'.goal # "evidence_finalized"
    BY <2>1, NextGoalIs
  <2>6. pc' = "return" => proc.goal = "evidence_finalized"
    BY <2>1, <2>2 DEF After, AcquisitionGoals
  <2>7. DataSame
    BY <1>1, <2>1 DEF DataSame, Roots
  <2>8. NestedDone' => NestedDone
    BY <1>1, <2>1, <2>4, <2>5, <2>6 DEF NestedDone
  <2>9. NestedDone' => OfThisCall(here)'
    BY <2>1, <2>3, <2>8 DEF StagedInv, Staged, OfThisCall
  <2>10. QED
    BY <1>1, <2>1, <2>3, <2>4, <2>7, <2>9, SameStage, KeepStage
<1>2. CASE here = "outer"
  <2>1. /\ pc = "state" /\ pc' = After(proc.goal) /\ proc.goal \in StateNames \ {"planned"}
        /\ life["outer"].state \in StateNames
        /\ Rank(proc.goal) = Rank(life["outer"].state) + 1
        /\ life'["outer"].state = proc.goal
        /\ life'["outer"].evidence = life["outer"].evidence
        /\ life["outer"].split => life'["outer"].split
        /\ life["outer"].tested => life'["outer"].tested
        /\ proc.goal = "test_evaluation" => life'["outer"].tested
        /\ proc'.driver = proc.driver /\ proc'.goal = NextGoal(proc.goal)
        /\ proc'.at = (IF Nested(proc.goal) = None THEN "outer" ELSE Nested(proc.goal))
        /\ UNCHANGED <<manifest, results, used>>
    BY <1>2, OuterStep
  <2>2. /\ life["outer"].state # "decision"
        /\ proc.goal \in {"protocol_frozen", "inventory_verified", "reference_acquisition"}
              => life["outer"].state \in Early
        /\ proc.goal \in Early => life["outer"].state \in Early
    BY <2>1, Predecessors
  <2>3. "decision" \notin results /\ DecisionRestsOnEvidence'
    BY <2>1, <2>2 DEF StagedInv, DecisionRestsOnEvidence
  <2>4. life'["outer"].state \in Early => results' = {}
    BY <2>1, <2>2 DEF StagedInv, Staged
  <2>5. CASE proc.driver # "run"
    <3>1. proc'.at = "outer"
      BY <2>1, <2>5 DEF Nested, Running
    <3>2. ~InStage'
      BY <2>1, <2>5, <3>1, NextType, AcquisitionUnstaged DEF StagedInv, FingerprintInv, DatasetInv
    <3>3. QED
      BY <2>3, <2>4, <3>1, <3>2 DEF Staged, InStage, AtReference, AtControlled, AtEvidence,
         AtTest, AtDecision, NestedDone
  <2>6. CASE proc.driver = "run"
    <3>1. Running
      BY <1>2, <2>6 DEF Running
    <3>2. CASE proc.goal \in {"protocol_frozen", "inventory_verified"}
      <4>1. proc'.at = "outer" /\ pc' \in {"inventory", "begin"}
        BY <2>1, <3>2 DEF Nested, After
      <4>2. ~InStage'
        BY <4>1, Unstaged
      <4>3. QED
        BY <2>3, <2>4, <4>1, <4>2 DEF Staged, InStage, AtReference, AtControlled, AtEvidence,
           AtTest, AtDecision, NestedDone
    <3>3. CASE proc.goal = "reference_acquisition"
      <4>1. proc'.at = "reference" /\ pc' = "open"
        BY <2>1, <3>1, <3>3 DEF Nested, After
      <4>2. results' = {} /\ life'["outer"].state \notin Early
        BY <2>1, <2>2, <3>3 DEF StagedInv, Staged, Early
      <4>3. QED
        BY <2>3, <4>1, <4>2 DEF Staged, AtReference, AtControlled, AtEvidence, AtTest,
           AtDecision, Heading, Running, NestedDone
    <3>4. CASE proc.goal = "controlled_acquisition"
      <4>1. proc'.at = "controlled" /\ pc' = "open"
        BY <2>1, <3>1, <3>4 DEF Nested, After
      <4>2. ReferenceDone /\ "torn_split" \notin results
        BY <1>2, <2>1, <3>1, <3>4 DEF StagedInv, Staged, AtControlled, Heading
      <4>3. ReferenceDone' /\ life'["outer"].state \notin Early
        BY <2>1, <3>4, <4>2 DEF ReferenceDone, OfThisCall, Early
      <4>4. QED
        BY <2>1, <2>3, <4>1, <4>2, <4>3 DEF Staged, AtReference, AtControlled, AtEvidence, AtTest,
           AtDecision, Heading, Running, NestedDone
    <3>5. CASE proc.goal \notin {"protocol_frozen", "inventory_verified",
                                 "reference_acquisition", "controlled_acquisition"}
      <4>1. proc'.at = "outer"
        BY <2>1, <3>5 DEF Nested
      <4>2. life'["outer"].state \notin Early
        BY <2>1, <3>5, StateNamesAre DEF Early
      <4>3. AtEvidence \/ AtTest \/ AtDecision
        BY <1>2, <2>1, <3>1, <3>5, StateNamesAre DEF AtEvidence, AtTest, AtDecision, Heading
      <4>4. EvidenceDone /\ "torn_split" \notin results
        BY <4>3 DEF StagedInv, Staged, SplitDone
      <4>5. EvidenceDone'
        BY <2>1, <4>4 DEF EvidenceDone, ReferenceDone, OfThisCall
      <4>6. CASE proc.goal = "evidence_finalized"
        <5>1. pc' = "split"
          BY <2>1, <3>1, <4>6 DEF After
        <5>2. QED
          BY <2>1, <2>3, <4>1, <4>2, <4>4, <4>5, <5>1 DEF Staged, AtReference, AtControlled,
             AtEvidence, AtTest, AtDecision, Heading, Running, NestedDone
      <4>7. CASE proc.goal # "evidence_finalized"
        <5>1. SplitDone
          BY <1>2, <2>1, <3>5, <4>7, StateNamesAre DEF StagedInv, Staged, AtTest, AtDecision, Heading
        <5>2. SplitDone'
          BY <2>1, <4>5, <5>1 DEF SplitDone
        <5>3. CASE proc.goal \in {"split_frozen", "training", "validation_selection"}
          <6>1. \/ pc' = "event" /\ proc'.goal = "training"
                \/ pc' \in {"tournament", "mark"}
            <7>1. proc.goal = "split_frozen" => NextGoal(proc.goal) = "training"
              BY Ranks DEF NextGoal, After, States
            <7>2. QED
              BY <2>1, <5>3, <7>1 DEF After
          <6>2. QED
            BY <2>1, <2>3, <4>1, <4>2, <4>4, <4>5, <5>2, <6>1 DEF Staged, AtReference, AtControlled,
               AtEvidence, AtTest, AtDecision, Heading, Running, NestedDone
        <5>4. CASE proc.goal = "test_evaluation"
          <6>1. NextGoal(proc.goal) = "decision"
            BY <5>4, Ranks DEF NextGoal, After, States
          <6>2. pc' = "event" /\ proc'.goal = "decision" /\ life'["outer"].tested
            BY <2>1, <5>4, <6>1 DEF After
          <6>3. QED
            BY <2>1, <2>3, <4>1, <4>2, <4>4, <4>5, <5>2, <6>2 DEF Staged, AtReference, AtControlled,
               AtEvidence, AtTest, AtDecision, Heading, Running, NestedDone
        <5>5. CASE proc.goal = "decision"
          <6>1. pc' = "decision" /\ life'["outer"].tested /\ life'["outer"].state = "decision"
            BY <1>2, <2>1, <5>5 DEF After, StagedInv, Staged, AtDecision, Heading
          <6>2. QED
            BY <2>1, <2>3, <4>1, <4>2, <4>4, <4>5, <5>2, <6>1 DEF Staged, AtReference, AtControlled,
               AtEvidence, AtTest, AtDecision, Heading, Running, NestedDone
        <5>6. QED
          BY <2>1, <3>5, <4>7, <5>3, <5>4, <5>5, StateNamesAre
      <4>8. QED
        BY <4>6, <4>7
    <3>6. QED
      BY <3>2, <3>3, <3>4, <3>5
  <2>7. QED
    BY <2>5, <2>6
<1>3. QED
  BY <1>1, <1>2

\* The steps of an acquisition and of a lifecycle that publish nothing.
LEMMA StageKept ==
    ASSUME StagedInv, [Next]_vars, ~End, UNCHANGED <<results, used>>,
           life'["outer"] = life["outer"],
           \/ Open \/ WriteConfig \/ WriteProtocol \/ VerifyInventory \/ Begin \/ OpenDataset
           \/ WriteShard \/ AppendEvent
    PROVE  Staged' /\ DecisionRestsOnEvidence'
<1>0. here \in Roots /\ proc \in Process
  BY DEF StagedInv, FingerprintInv, DatasetInv, TypeInv, TypeOK, Process
<1>1. DataSame
  BY DatasetKept DEF DataSame, Phases, Roots, StagedInv, FingerprintInv
<1>2. /\ pc # "report"
      /\ pc' \notin {"residualize", "evidence", "split", "splitFingerprint", "tournament",
                     "mark", "decision", "report", "fingerprint", "return"}
  BY DEF Open, Entry, WriteConfig, WriteProtocol, VerifyInventory, Begin, OpenDataset, WriteShard,
     AppendEvent, Goto, Transition, End
<1>3. /\ proc'.at = here /\ proc'.driver = proc.driver
      /\ pc' \in {"event", "state"} =>
            \/ proc'.goal \in {"protocol_frozen", "inventory_verified", "reference_acquisition"}
            \/ pc \in {"event", "state"} /\ proc'.goal = proc.goal
  <2>1. CASE AppendEvent
    <3>1. pc = "event" /\ proc' = [proc EXCEPT !.mem[here].count = @ + 1]
      BY <2>1 DEF AppendEvent, Record
    <3>2. QED
      BY <1>0, <3>1, CountUpdate
  <2>2. CASE Open
    <3>1. proc' = [proc EXCEPT !.mem[here] = life'[here]] /\ pc' \in {"freeze", "inventory", "begin"}
      BY <2>2 DEF Open, Entry
    <3>2. QED
      BY <1>0, <3>1 DEF Process
  <2>3. CASE ~AppendEvent /\ ~Open
    <3>1. \/ UNCHANGED proc /\ pc' \notin {"event", "state"}
          \/ \E goal \in {"protocol_frozen", "inventory_verified", "reference_acquisition"} :
                proc' = [proc EXCEPT !.goal = goal]
          \/ proc' = [proc EXCEPT !.written = @ + 1] /\ pc' = "write"
      BY <2>3 DEF WriteConfig, WriteProtocol, VerifyInventory, Begin, OpenDataset, WriteShard,
         Goto, Transition
    <3>2. QED
      BY <1>0, <3>1 DEF Process
  <2>4. QED
    BY <2>1, <2>2, <2>3
<1>4. NestedDone' => OfThisCall(here)'
  <2>1. NestedDone' => NestedDone
    BY <1>2, <1>3 DEF NestedDone
  <2>2. here \in Phases /\ OfThisCall(here) => OfThisCall(here)'
    BY <1>1, <1>3 DEF OfThisCall, DataSame
  <2>3. QED
    BY <1>0, <2>1, <2>2 DEF StagedInv, Staged, NestedDone, Roots, Phases
<1>5. QED
  BY <1>1, <1>2, <1>3, <1>4, SameStage, KeepStage

\* A process that ends without a result.
LEMMA StageEnd ==
    ASSUME StagedInv, End, DataSame
    PROVE  Staged' /\ DecisionRestsOnEvidence'
BY EndUnstaged, LeaveStage

LEMMA StagedNext == StagedInv /\ [Next]_vars => StagedInv'
<1> SUFFICES ASSUME StagedInv, [Next]_vars PROVE Staged' /\ DecisionRestsOnEvidence'
  BY FingerprintNext, FrozenNext DEF StagedInv, FrozenInv, FingerprintInv, MemoryInv
<1>0. /\ here \in Roots /\ "outer" \in Roots /\ proc \in Process /\ proc.mem \in [Roots -> Life]
      /\ life \in [Roots -> Life]
  BY DEF StagedInv, FingerprintInv, DatasetInv, TypeInv, TypeOK, Process, Roots
<1>m. \A x \in Phases : manifest[x] # None => manifest'[x] = manifest[x]
  BY DatasetKept DEF Phases, Roots, StagedInv, FingerprintInv
<1>d. UNCHANGED results /\ life'["outer"] = life["outer"] => DataSame
  BY <1>m DEF DataSame
<1>1. CASE Run \/ Acquire
  <2>1. PICK d \in {"run", "acquire"}, p \in Phases \cup {None}, c \in Configs, i \in Inventories :
           Call(d, p, c, i)
    BY <1>1 DEF Run, Acquire
  <2>2. proc'.at = "outer" /\ pc' = "open" /\ UNCHANGED <<life, results>>
    BY <2>1, NoProcessType DEF Call, Process, files
  <2>3. QED
    BY <1>d, <2>2, Unstaged, LeaveStage
<1>2. CASE Open
  <2>1. UNCHANGED <<results, used>>
    BY <1>2 DEF Open
  <2>2. CASE life'["outer"] = life["outer"]
    BY <1>2, <1>d, <2>1, <2>2, StageEnd, StageKept
  <2>3. CASE life'["outer"] # life["outer"]
    <3>1. /\ here = "outer" /\ life["outer"].state = "absent"
          /\ proc' = [proc EXCEPT !.mem[here] = life'[here]] /\ pc' = "freeze"
      BY <1>0, <1>2, <2>3 DEF Open, Entry
    <3>2. proc'.at = "outer"
      BY <1>0, <3>1 DEF Process
    <3>3. ~InStage'
      BY <3>1, <3>2, Unstaged
    <3>4. results' = {}
      BY <2>1, <3>1 DEF StagedInv, Staged, Early
    <3>5. QED
      BY <3>1, <3>2, <3>3, <3>4 DEF Staged, InStage, AtReference, AtControlled, AtEvidence,
         AtTest, AtDecision, NestedDone, DecisionRestsOnEvidence
  <2>4. QED
    BY <2>2, <2>3
<1>3. CASE StoreState
  BY <1>3, StageStore
<1>4. CASE WriteConfig \/ WriteProtocol \/ VerifyInventory \/ Begin \/ OpenDataset
           \/ WriteShard \/ AppendEvent
  <2>1. UNCHANGED <<results, life, used>>
    BY <1>4 DEF WriteConfig, WriteProtocol, VerifyInventory, Begin, OpenDataset, WriteShard,
       AppendEvent, files
  <2>2. QED
    BY <1>4, <1>d, <2>1, StageEnd, StageKept
<1>5. CASE Deviate
  <2>1. UNCHANGED <<results, life>> /\ pc = "packets" /\ pc' = "deviation"
        /\ used'.calls = used.calls /\ proc' = [proc EXCEPT !.mem[here].count = @ + 1]
    BY <1>5 DEF Deviate, Record, StagedInv, FingerprintInv, DatasetInv, TypeInv, TypeOK
  <2>2. proc'.at = here /\ proc'.driver = proc.driver /\ proc'.goal = proc.goal
    BY <1>0, <2>1, CountUpdate
  <2>3. ~NestedDone'
    BY <2>1 DEF NestedDone
  <2>4. QED
    BY <1>d, <2>1, <2>2, <2>3, SameStage, KeepStage
<1>6. CASE StoreDeviation
  <2>1. life' = [life EXCEPT ![here] = proc.mem[here]] /\ UNCHANGED results /\ End
        /\ pc = "deviation"
    BY <1>6 DEF StoreDeviation
  <2>2. life'["outer"].state = life["outer"].state
    BY <1>0, <2>1 DEF StagedInv, FingerprintInv, MemoryInv, SyncInv, Synchronized
  <2>3. /\ life'["outer"].evidence = life["outer"].evidence
        /\ life["outer"].split => life'["outer"].split
        /\ life["outer"].tested => life'["outer"].tested
    BY <1>0, <2>1 DEF StagedInv, FingerprintInv, MemoryInv, Remembered, Recalls
  <2>4. QED
    BY <1>m, <2>1, <2>2, <2>3, StageEnd DEF DataSame
<1>7. CASE WriteManifest
  <2>1. UNCHANGED <<results, life, used, proc>> /\ pc = "write" /\ pc' = "fingerprint"
    BY <1>7 DEF WriteManifest, Goto
  <2>2. manifest'[here] # None /\ manifest'[here].call = used.calls
    <3> DEFINE record == [call |-> used.calls, phase |-> proc.phase, config |-> proc.config]
    <3>1. record \in Manifest
      BY <1>0, <2>1 DEF Manifest, Process, StagedInv, FingerprintInv, DatasetInv, TypeInv, TypeOK, Whereabouts,
         Running, Phases, Roots
    <3>2. manifest' = [manifest EXCEPT ![here] = record] /\ DOMAIN manifest = Roots
      BY <1>7 DEF WriteManifest, StagedInv, FingerprintInv, DatasetInv, TypeInv, TypeOK
    <3>3. record.call = used.calls /\ record # None
      BY <3>1, NoManifestAssumption
    <3> HIDE DEF record
    <3>4. QED
      BY <1>0, <3>2, <3>3
  <2>3. OfThisCall(here)'
    BY <2>1, <2>2 DEF OfThisCall
  <2>4. QED
    BY <1>d, <2>1, <2>3, SameStage, KeepStage
<1>8. CASE Fingerprint
  <2>1. UNCHANGED <<results, manifest, used>> /\ pc = "fingerprint"
    BY <1>8 DEF Fingerprint
  <2>2. CASE End
    <3>1. UNCHANGED life
      BY <1>8, <2>2 DEF Fingerprint, End
    <3>2. QED
      BY <1>d, <2>1, <2>2, <3>1, StageEnd
  <2>3. CASE ~End
    <3>1. /\ \E set \in Life : life' = [life EXCEPT ![here] = set]
          /\ proc'.at = here /\ proc'.driver = proc.driver
          /\ pc' \in {"event", "return"}
          /\ pc' = "event" => proc'.goal = "evidence_finalized"
      BY <1>8, <2>3, FingerprintStep DEF StagedInv, FingerprintInv, DatasetInv
    <3>2. CASE here # "outer"
      <4>1. life'["outer"] = life["outer"]
        BY <1>0, <3>1, <3>2
      <4>2. OfThisCall(here)'
        BY <2>1, <3>1, <3>2 DEF OfThisCall, NestedDone, StagedInv, Staged
      <4>3. QED
        BY <1>d, <2>1, <3>1, <3>2, <4>1, <4>2, SameStage, KeepStage
    <3>3. CASE here = "outer"
      <4>1. proc.driver # "run"
        BY <2>1, <3>3 DEF Running, StagedInv, FingerprintInv, DatasetInv, TypeInv, Whereabouts
      <4>2. ~InStage'
        BY <3>1, <3>3, <4>1, NextType, AcquisitionUnstaged DEF StagedInv, FingerprintInv, DatasetInv
      <4>3. life'["outer"].state = life["outer"].state
        BY <1>8, LifecycleKept, <1>0, <2>1 DEF StagedInv, FingerprintInv, MemoryInv, Open, StoreState
      <4>4. life["outer"].state \in {"reference_acquisition", "controlled_acquisition"}
        BY <2>1, <3>3 DEF StagedInv, FingerprintInv, Phased, MemoryInv, SyncInv, Synchronized, State
      <4>5. "decision" \notin results
        BY <4>4 DEF StagedInv, DecisionRestsOnEvidence
      <4>6. DecisionRestsOnEvidence'
        BY <2>1, <4>5 DEF DecisionRestsOnEvidence
      <4>7. life'["outer"].state \notin Early
        BY <4>3, <4>4 DEF Early
      <4>8. QED
        BY <3>1, <3>3, <4>2, <4>6, <4>7 DEF Staged, InStage, AtReference, AtControlled,
           AtEvidence, AtTest, AtDecision, NestedDone
    <3>4. QED
      BY <3>2, <3>3
  <2>4. QED
    BY <2>2, <2>3
<1>9. CASE Return
  <2>1. UNCHANGED <<results, life, manifest, used>> /\ pc = "return"
    BY <1>9 DEF Return, files
  <2>2. CASE End
    BY <1>d, <2>1, <2>2, StageEnd
  <2>3. CASE ~End
    <3>1. /\ proc' = [proc EXCEPT !.at = "outer"] /\ proc.driver # "acquire"
          /\ pc' = IF here = "reference" THEN "residualize" ELSE "evidence"
      BY <1>9, <2>3 DEF Return
    <3>2. proc'.at = "outer" /\ here # "outer"
      BY <1>0, <2>1, <3>1 DEF Process, Running, StagedInv, FingerprintInv, DatasetInv, TypeInv, Whereabouts
    <3>3. DataSame /\ DecisionRestsOnEvidence'
      BY <1>d, <2>1, DecisionKept DEF StagedInv
    <3>4. OfThisCall(here)
      BY <2>1, <3>2 DEF NestedDone, StagedInv, Staged
    <3>5. InStage
      BY <1>0, <3>2 DEF InStage, AtReference, AtControlled, Roots
    <3>6. /\ life'["outer"].state \notin Early /\ "torn_split" \notin results'
          /\ "decision" \notin results'
      BY <2>1, <3>5 DEF StagedInv, Staged, InStage
    <3>7. CASE here = "reference"
      <4>1. OfThisCall("reference")' /\ pc' = "residualize"
        BY <2>1, <3>1, <3>4, <3>7 DEF OfThisCall
      <4>2. QED
        BY <3>2, <3>3, <3>6, <4>1 DEF Staged, AtReference, AtControlled, AtEvidence, AtTest,
           AtDecision, Heading, NestedDone
    <3>8. CASE here = "controlled"
      <4>1. OfThisCall("controlled")' /\ pc' = "evidence"
        BY <2>1, <3>1, <3>4, <3>8 DEF OfThisCall
      <4>2. ReferenceDone'
        BY <2>1, <3>8 DEF StagedInv, Staged, AtControlled, ReferenceDone, OfThisCall
      <4>3. QED
        BY <3>2, <3>3, <3>6, <4>1, <4>2 DEF Staged, AtReference, AtControlled, AtEvidence, AtTest,
           AtDecision, Heading, NestedDone
    <3>9. QED
      BY <1>0, <3>2, <3>7, <3>8 DEF Roots
  <2>4. QED
    BY <2>2, <2>3
<1>10. CASE Evaluation
  <2>1. Running
    BY <1>10 DEF Evaluation, Residualize, FinalizeEvidence, WriteSplit, FreezeSplit, Tournament,
       MarkTestEvaluated, WriteDecision, WriteReport, StagedInv, FingerprintInv, DatasetInv, TypeInv, Whereabouts
  <2>2. /\ here = "outer" /\ UNCHANGED <<manifest, used>>
        /\ pc \in {"residualize", "evidence", "split", "splitFingerprint", "tournament", "mark",
                   "decision", "report"}
    BY <1>10, <2>1 DEF Running, Evaluation, Residualize, FinalizeEvidence, WriteSplit, FreezeSplit,
       Tournament, MarkTestEvaluated, WriteDecision, WriteReport, files
  <2>3. /\ life["outer"].state \notin Early /\ "torn_split" \notin results
        /\ "decision" \in results => pc = "report"
    BY <2>2 DEF StagedInv, Staged, AtReference, AtControlled, AtEvidence, AtTest, AtDecision
  <2>4. life'["outer"].state = life["outer"].state
    BY <1>0, <1>10, LifecycleKept DEF StagedInv, FingerprintInv, MemoryInv, Open, StoreState,
       Evaluation, Residualize, FinalizeEvidence, WriteSplit, FreezeSplit, Tournament,
       MarkTestEvaluated, WriteDecision, WriteReport
  <2>5. CASE End /\ ~WriteReport
    <3>1. MarkTestEvaluated
      BY <1>10, <2>5 DEF End, Evaluation, Residualize, FinalizeEvidence, WriteSplit, FreezeSplit,
         Tournament, WriteDecision, Goto, Transition
    <3>2. UNCHANGED <<life, results>>
      BY <3>1 DEF MarkTestEvaluated, files
    <3>3. QED
      BY <1>d, <2>5, <3>2, StageEnd
  <2>6. CASE WriteReport
    <3>1. End /\ results' = results \cup {"report"} /\ UNCHANGED <<life, manifest>>
      BY <2>6 DEF WriteReport
    <3>2. DecisionRestsOnEvidence'
      BY <3>1 DEF StagedInv, DecisionRestsOnEvidence
    <3>3. proc'.at = "outer" /\ ~InStage'
      BY <3>1, EndUnstaged
    <3>4. QED
      BY <2>3, <2>4, <3>2, <3>3 DEF Staged, InStage, AtReference, AtControlled, AtEvidence, AtTest,
         AtDecision, NestedDone
  <2>7. CASE Residualize
    <3>1. /\ results' = results \cup {"residualizer"} /\ pc = "residualize"
          /\ pc' = "event" /\ proc' = [proc EXCEPT !.goal = "controlled_acquisition"]
      BY <2>7 DEF Residualize, Transition
    <3>2. proc'.at = "outer" /\ proc'.goal = "controlled_acquisition"
      BY <1>0, <2>2, <3>1 DEF Process
    <3>3. ReferenceDone'
      BY <2>2, <3>1 DEF ReferenceDone, OfThisCall, StagedInv, Staged
    <3>4. QED
      BY <2>3, <2>4, <3>1, <3>2, <3>3 DEF Staged, AtReference, AtControlled, AtEvidence, AtTest,
         AtDecision, Heading, NestedDone, DecisionRestsOnEvidence
  <2>8. CASE FinalizeEvidence
    <3>1. pc = "evidence" /\ pc' = "event" /\ UNCHANGED results
      BY <2>8 DEF FinalizeEvidence
    <3>2. ~End
      BY <3>1 DEF End
    <3>3. PICK slot \in {"reference", "evidence"}, x \in Roots :
             LET set == [proc.mem[here] EXCEPT ![slot] = manifest[x].call]
             IN  /\ \/ pc = "fingerprint" /\ slot = Slot(proc.phase) /\ x = here
                    \/ pc = "evidence" /\ slot = "evidence" /\ x = "controlled" /\ here = "outer"
                 /\ manifest[x].call \in Calls
                 /\ life' = [life EXCEPT ![here] = set]
                 /\ proc'.at = here
                 /\ pc' = "event" => proc'.goal = "evidence_finalized"
      BY <2>8, <3>2, FingerprintStep DEF StagedInv, FingerprintInv, DatasetInv
    <3> DEFINE c == manifest["controlled"].call
               set == [proc.mem["outer"] EXCEPT !["evidence"] = c]
    <3>4. /\ c \in Calls /\ life' = [life EXCEPT !["outer"] = set] /\ proc'.at = "outer"
          /\ proc'.goal = "evidence_finalized"
      BY <2>2, <3>1, <3>3
    <3>5. set["evidence"] = c
      BY <1>0, <3>4, FingerprintKeeps
    <3> HIDE DEF set, c
    <3>6. life'["outer"].evidence = c
      BY <1>0, <3>4, <3>5
    <3>7. ReferenceDone /\ OfThisCall("controlled")
      BY <3>1 DEF StagedInv, Staged, AtControlled
    <3>8. EvidenceDone'
      BY <2>2, <3>1, <3>6, <3>7 DEF EvidenceDone, ReferenceDone, OfThisCall, c
    <3>9. QED
      BY <2>3, <2>4, <3>1, <3>4, <3>8 DEF Staged, AtReference, AtControlled, AtEvidence, AtTest,
         AtDecision, Heading, NestedDone, DecisionRestsOnEvidence
  <2>9. CASE WriteSplit
    <3>1. /\ pc = "split" /\ pc' = "splitFingerprint" /\ UNCHANGED <<proc, life>>
          /\ results' = results \cup {"split"}
      BY <2>9 DEF WriteSplit, Goto
    <3>2. EvidenceDone
      BY <3>1 DEF StagedInv, Staged, AtEvidence
    <3>3. EvidenceDone'
      BY <2>2, <3>1, <3>2 DEF EvidenceDone, ReferenceDone, OfThisCall
    <3>4. QED
      BY <2>2, <2>3, <2>4, <3>1, <3>3 DEF Staged, AtReference, AtControlled, AtEvidence, AtTest,
         AtDecision, Heading, NestedDone, DecisionRestsOnEvidence
  <2>10. CASE FreezeSplit
    <3> DEFINE set == [proc.mem["outer"] EXCEPT !.split = TRUE]
    <3>1. /\ pc = "splitFingerprint" /\ pc' = "event" /\ UNCHANGED results
          /\ proc' = [proc EXCEPT !.mem[here] = life'[here], !.goal = "split_frozen"]
          /\ life' = [life EXCEPT !["outer"] = set]
      BY <2>2, <2>10 DEF FreezeSplit
    <3>2. set.split = TRUE /\ set.evidence = proc.mem["outer"].evidence
      BY <1>0, SplitKeeps
    <3> HIDE DEF set
    <3>3. proc'.at = "outer" /\ proc'.goal = "split_frozen"
      BY <1>0, <2>2, <3>1 DEF Process
    <3>4. proc.mem["outer"].evidence = life["outer"].evidence
      BY <2>2 DEF StagedInv, FingerprintInv, MemoryInv, Remembered, Recalls
    <3>5. life'["outer"].split /\ life'["outer"].evidence = life["outer"].evidence
      BY <1>0, <3>1, <3>2, <3>4
    <3>6. EvidenceDone /\ "split" \in results
      BY <3>1 DEF StagedInv, Staged, AtEvidence
    <3>7. SplitDone'
      BY <2>2, <3>1, <3>5, <3>6 DEF SplitDone, EvidenceDone, ReferenceDone, OfThisCall
    <3>8. QED
      BY <2>3, <2>4, <3>1, <3>3, <3>7 DEF Staged, AtReference, AtControlled, AtEvidence, AtTest,
         AtDecision, Heading, NestedDone, DecisionRestsOnEvidence, SplitDone
  <2>11. CASE (Tournament \/ MarkTestEvaluated) /\ ~End
    <3>1. /\ UNCHANGED <<life, results>> /\ pc \in {"tournament", "mark"} /\ pc' = "event"
          /\ \/ proc' = [proc EXCEPT !.goal = "validation_selection"]
             \/ proc' = [proc EXCEPT !.mem[here].tested = TRUE, !.goal = "test_evaluation"]
      BY <2>11 DEF Tournament, MarkTestEvaluated, Transition, files
    <3>2. proc'.at = "outer" /\ proc'.goal \in {"validation_selection", "test_evaluation"}
      BY <1>0, <2>2, <3>1 DEF Process
    <3>3. SplitDone
      BY <3>1 DEF StagedInv, Staged, AtTest
    <3>4. SplitDone'
      BY <2>2, <3>1, <3>3 DEF SplitDone, EvidenceDone, ReferenceDone, OfThisCall
    <3>5. QED
      BY <2>3, <2>4, <3>1, <3>2, <3>4 DEF Staged, AtReference, AtControlled, AtEvidence, AtTest,
         AtDecision, Heading, NestedDone, DecisionRestsOnEvidence
  <2>12. CASE WriteDecision
    <3>1. /\ pc = "decision" /\ pc' = "report" /\ UNCHANGED <<proc, life>>
          /\ results' = results \cup {"decision"}
      BY <2>12 DEF WriteDecision, Goto
    <3>2. SplitDone /\ life["outer"].tested /\ life["outer"].state = "decision"
      BY <3>1 DEF StagedInv, Staged, AtDecision
    <3>3. SplitDone'
      BY <2>2, <3>1, <3>2 DEF SplitDone, EvidenceDone, ReferenceDone, OfThisCall
    <3>4. manifest["reference"].phase = "reference"
      BY <3>2 DEF SplitDone, EvidenceDone, ReferenceDone, OfThisCall, StagedInv, FingerprintInv,
         Phased, Phases
    <3>5. DecisionRestsOnEvidence'
      BY <2>2, <2>3, <3>1, <3>2, <3>4 DEF DecisionRestsOnEvidence, SplitDone, EvidenceDone,
         ReferenceDone, OfThisCall
    <3>6. QED
      BY <2>2, <2>3, <2>4, <3>1, <3>2, <3>3, <3>5 DEF Staged, AtReference, AtControlled, AtEvidence,
         AtTest, AtDecision, Heading, NestedDone
  <2>13. QED
    BY <1>10, <2>5, <2>6, <2>7, <2>8, <2>9, <2>10, <2>11, <2>12 DEF Evaluation
<1>11. CASE Crash
  <2>1. End /\ UNCHANGED <<life, manifest>>
    BY <1>11 DEF Crash
  <2>2. CASE UNCHANGED results
    BY <1>d, <2>1, <2>2, StageEnd
  <2>3. CASE ~UNCHANGED results
    <3>1. pc = "split" /\ results' = results \cup {"torn_split"}
      BY <1>11, <2>3 DEF Crash
    <3>2. life["outer"].state \notin Early /\ "decision" \notin results
      BY <3>1 DEF StagedInv, Staged, AtEvidence
    <3>3. DecisionRestsOnEvidence'
      BY <3>1, <3>2 DEF DecisionRestsOnEvidence
    <3>4. proc'.at = "outer" /\ ~InStage'
      BY <2>1, EndUnstaged
    <3>5. QED
      BY <2>1, <3>2, <3>3, <3>4 DEF Staged, InStage, AtReference, AtControlled, AtEvidence, AtTest,
         AtDecision, NestedDone
  <2>4. QED
    BY <2>2, <2>3
<1>12. CASE UNCHANGED vars
  <2>1. UNCHANGED <<life, results, manifest, pc, proc, used>>
    BY <1>12 DEF vars, files
  <2>2. QED
    BY <2>1 DEF StagedInv, Staged, AtReference, AtControlled, AtEvidence, AtTest, AtDecision, Heading,
       Running, NestedDone, ReferenceDone, EvidenceDone, SplitDone, OfThisCall,
       DecisionRestsOnEvidence
<1>13. QED
  BY <1>1, <1>2, <1>3, <1>4, <1>5, <1>6, <1>7, <1>8, <1>9, <1>10, <1>11, <1>12
  DEF Next, Lifecycle, Acquisition

\* What a decision rests on, for any number of calls, deaths and deviations: an
\* experiment that has a decision has come all the way in one call.
THEOREM ExperimentDecisionRestsOnEvidence == Spec => []DecisionRestsOnEvidence
<1>1. StagedInv => DecisionRestsOnEvidence
  BY DEF StagedInv
<1>2. QED
  BY <1>1, StagedInit, StagedNext, PTL DEF Spec

\* The record of an experiment describes itself, wherever a process dies and
\* whoever calls next.
THEOREM ExperimentRecordRestsOnEvidence == Spec => []RecordRestsOnEvidence
BY ExperimentBooksAgree, ExperimentDatasetOfOneAcquisition, ExperimentDatasetUnderFrozenProtocol,
   ExperimentFingerprintsOfDatasets, ExperimentDecisionRestsOnEvidence, PTL
DEF RecordRestsOnEvidence

=============================================================================
