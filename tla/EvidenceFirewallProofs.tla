------------------------ MODULE EvidenceFirewallProofs ------------------------
(***************************************************************************)
(* Proofs about the controlled sessions and the boundary their datasets    *)
(* are loaded through, for any number of samples, configurations,          *)
(* reconfigurations and restarts.                                          *)
(***************************************************************************)
EXTENDS EvidenceFirewall, TLAPS

USE CountAssumption, ConfigsAssumption

-----------------------------------------------------------------------------
(* Rows                                                                    *)

\* The row of a correct answer.
RowFor(i, c) == RowOf(Delegate(CommandOf(i), c))

LEMMA RowFields ==
    ASSUME NEW i, NEW c
    PROVE  /\ RowFor(i, c).result = Delegate(CommandOf(i), c)
           /\ RowFor(i, c).provenance = ProvenanceOf(c, i)
           /\ RowFor(i, c).provenance.config = c
           /\ RowFor(i, c).acquisition.measured.config = c
BY DEF RowFor, RowOf, Delegate, CommandOf, ProvenanceOf, Acquire

CorrectRows == {RowFor(i, c) : i \in Nat, c \in Configs}

LEMMA SamePlane ==
    ASSUME UNCHANGED plane
    PROVE  /\ \A i, c : RowFor(i, c)' = RowFor(i, c)
           /\ CorrectRows' = CorrectRows
<1>1. \A i, c : RowFor(i, c)' = RowFor(i, c)
  BY DEF RowFor, RowOf, Delegate, CommandOf, ProvenanceOf, Acquire, Topology
<1> QED
  BY <1>1 DEF CorrectRows

\* Row i is the answer of a correct controller to command i - 1.
RowsCorrect ==
    /\ plane \in {"mock", "physical"}
    /\ device \in Configs /\ persisted \in Configs
    /\ rows \in Seq(CorrectRows)
    /\ \A i \in 1..Len(rows) : \E c \in Configs : rows[i] = RowFor(i - 1, c)

Measured(i) == rows[i].acquisition.measured.config

\* What the process in memory and the identity on disk know of the rows: a
\* process that read a provenance measured, or inherited, every row under it;
\* a restarted one, only on the mock plane, has the persisted configuration.
Anchored ==
    /\ \A i, j \in 1..Len(rows) : Measured(i) = Measured(j)
    /\ plane = "mock" /\ pc # "refused" => device = persisted
    /\ pc \in {"ready", "commanded", "answered"} =>
        /\ initial # NONE =>
            /\ initial \in Configs
            /\ \A i \in 1..Len(rows) : Measured(i) = initial
            /\ plane = "mock" => initial = persisted
        /\ initial = NONE =>
            \/ rows = <<>>
            \/ plane = "mock" /\ \A i \in 1..Len(rows) : Measured(i) = persisted

\* The last answer was accepted, and an answer under examination is correct if
\* it is acceptable.
AnswersSound ==
    /\ pc \in {"ready", "commanded", "answered", "refused", "closed"}
    /\ pc \in {"commanded", "answered"} => seen = initial /\ seen \in Configs
    /\ pc \in {"ready", "commanded"} /\ last # <<>> =>
        Len(rows) # 0 /\ last[1] = rows[Len(rows)].result
    /\ pc = "answered" =>
        /\ last = answer /\ answer # <<>>
        /\ Acceptable(answer[1], CommandOf(NextIndex)) =>
               answer[1] = Delegate(CommandOf(NextIndex), seen)

RowsInv == RowsCorrect /\ Anchored /\ AnswersSound

LEMMA InitRows == FirewallInit => RowsInv
<1> SUFFICES ASSUME FirewallInit PROVE RowsInv
  OBVIOUS
<1>1. rows = <<>> /\ Len(rows) = 0 /\ pc = "ready" /\ initial = NONE /\ last = <<>>
      /\ device \in Configs /\ persisted = device /\ plane \in {"mock", "physical"}
  BY DEF FirewallInit, Init
<1>2. rows \in Seq(CorrectRows)
  BY <1>1
<1> QED
  BY <1>1, <1>2 DEF RowsInv, RowsCorrect, Anchored, AnswersSound

-----------------------------------------------------------------------------
(* What the checks let through                                             *)

\* An answer to an earlier command has another number and another acquisition.
LEMMA EarlierAnswer ==
    ASSUME NEW k \in Nat, NEW j \in Nat, j # k, NEW c
    PROVE  /\ Delegate(CommandOf(j), c).command # CommandOf(k)
           /\ Delegate(CommandOf(j), c).acquisition[1].seq # k
BY DEF Delegate, CommandOf, Acquire

\* Whatever the adapter did to a correct answer, the checks of the backend let
\* it pass only if it did nothing.
LEMMA InjectedAnswer ==
    ASSUME NEW k \in Nat, NEW c \in Configs, NEW r,
           r = Injected(Delegate(CommandOf(k), c)),
           seen \in Configs,
           last # <<>> => \E j \in Nat : j # k /\ \E e : last[1] = Delegate(CommandOf(j), e),
           Acceptable(r, CommandOf(k))
    PROVE  r = Delegate(CommandOf(k), seen)
<1> DEFINE d == Delegate(CommandOf(k), c)
           a == Acquire(CommandOf(k), c)
<1>1. d = [command |-> CommandOf(k), status |-> "complete", failure |-> FALSE,
           topology |-> Topology, provenance |-> ProvenanceOf(c, k),
           completed |-> 10 * k, acquisition |-> <<a>>]
  BY DEF Delegate, CommandOf
<1>2. a = [seq |-> k, trigger |-> "trigger", ticks |-> 10 * k,
           clock |-> "sampling", channels |-> <<Channel>>, shape |-> TRUE,
           measured |-> [index |-> k, config |-> c]]
  BY DEF Acquire, CommandOf
<1>3. /\ ResultValid(r) /\ r.command = CommandOf(k)
      /\ r.provenance.config = seen /\ r.status = "complete"
  BY DEF Acceptable, SameCommand
<1>4. /\ r.acquisition # <<>> /\ ~r.failure /\ r.command.clock = r.provenance.clock
      /\ AcquisitionValid(r.acquisition[1]) /\ TraceBound(r, r.acquisition[1])
  BY <1>3 DEF ResultValid
<1> HIDE DEF d, a
<1>5. ~(fault = "stale_acquisition" /\ last # <<>>)
  <2> SUFFICES ASSUME fault = "stale_acquisition", last # <<>> PROVE FALSE
    OBVIOUS
  <2>1. r = [d EXCEPT !.acquisition = last[1].acquisition]
    BY DEF Injected, ImmutableFaults, d
  <2>2. r.acquisition[1].seq # k
    <3>1. PICK j \in Nat : j # k /\ \E e : last[1] = Delegate(CommandOf(j), e)
      OBVIOUS
    <3>2. last[1].acquisition[1].seq # k
      BY <3>1, EarlierAnswer
    <3> QED BY <1>1, <2>1, <3>2
  <2> QED BY <1>3, <1>4, <2>2 DEF TraceBound, CommandOf
<1>7. fault # "trigger_before_command"
  <2> SUFFICES ASSUME fault = "trigger_before_command" PROVE FALSE
    OBVIOUS
  <2>1. r = [d EXCEPT !.acquisition =
                 <<[d.acquisition[1] EXCEPT !.ticks = d.command.issued - 1]>>]
    BY DEF Injected, ImmutableFaults, d
  <2>2. d.acquisition[1] = a /\ d.command.issued = 10 * k
    BY <1>1 DEF CommandOf
  <2>3. r.acquisition = <<[a EXCEPT !.ticks = 10 * k - 1]>>
    BY <1>1, <2>1, <2>2
  <2>4. r.acquisition[1].ticks = 10 * k - 1
    BY <1>2, <2>3
  <2> QED BY <1>3, <1>4, <2>4 DEF TraceBound, CommandOf
<1>8. fault # "trigger_after_completion"
  <2> SUFFICES ASSUME fault = "trigger_after_completion" PROVE FALSE
    OBVIOUS
  <2>1. r = [d EXCEPT !.acquisition =
                 <<[d.acquisition[1] EXCEPT !.ticks = d.completed + 1]>>]
    BY DEF Injected, ImmutableFaults, d
  <2>2. d.acquisition[1] = a /\ d.completed = 10 * k
    BY <1>1
  <2>3. r.acquisition = <<[a EXCEPT !.ticks = 10 * k + 1]>> /\ r.completed = 10 * k
    BY <1>1, <2>1, <2>2
  <2>4. r.acquisition[1].ticks = 10 * k + 1
    BY <1>2, <2>3
  <2> QED BY <1>4, <2>3, <2>4 DEF TraceBound
<1>9. fault # "sampling_clock_mismatch"
  <2> SUFFICES ASSUME fault = "sampling_clock_mismatch" PROVE FALSE
    OBVIOUS
  <2>1. r.acquisition[1] = [a EXCEPT !.channels = <<ChannelWith("sampling", "wrong")>>]
    BY <1>1 DEF Injected, ImmutableFaults, d
  <2>2. /\ r.acquisition[1].clock = "sampling"
        /\ r.acquisition[1].channels = <<ChannelWith("sampling", "wrong")>>
    BY <1>2, <2>1
  <2>3. ChannelWith("sampling", "wrong").sampling = "wrong"
    BY DEF ChannelWith, Channel
  <2> QED BY <1>4, <2>2, <2>3 DEF AcquisitionValid
<1>10. fault # "duplicate_channel_ids"
  <2> SUFFICES ASSUME fault = "duplicate_channel_ids" PROVE FALSE
    OBVIOUS
  <2>1. r.acquisition[1] = [a EXCEPT !.channels = <<Channel, Channel>>]
    BY <1>1 DEF Injected, ImmutableFaults, d
  <2>2. r.acquisition[1].channels = <<Channel, Channel>>
    BY <1>2, <2>1
  <2> QED BY <1>4, <2>2 DEF AcquisitionValid
<1>11. fault # "missing_calibration_id"
  <2> SUFFICES ASSUME fault = "missing_calibration_id" PROVE FALSE
    OBVIOUS
  <2> DEFINE uncalibrated == ChannelWith("calibrated", FALSE)
  <2>1. r = [d EXCEPT !.acquisition =
                 <<[d.acquisition[1] EXCEPT !.channels = <<uncalibrated>>]>>]
    BY DEF Injected, ImmutableFaults, d
  <2> HIDE DEF uncalibrated
  <2>2. r.acquisition[1].channels = <<uncalibrated>>
    BY <1>1, <1>2, <2>1
  <2>3. r.acquisition[1].channels[1] = uncalibrated
        /\ 1 \in DOMAIN r.acquisition[1].channels
    BY <2>2
  <2>4. r.acquisition[1].channels[1].calibrated
    BY <1>4, <2>3 DEF AcquisitionValid
  <2>5. uncalibrated.calibrated = FALSE
    BY DEF uncalibrated, ChannelWith, Channel
  <2> QED BY <2>3, <2>4, <2>5
<1>12. fault # "malformed_channel_kind"
  <2> SUFFICES ASSUME fault = "malformed_channel_kind" PROVE FALSE
    OBVIOUS
  <2>1. r.acquisition[1] = [a EXCEPT !.channels = <<ChannelWith("kind", "malformed")>>]
    BY <1>1 DEF Injected, ImmutableFaults, d
  <2>2. r.acquisition[1].channels = <<ChannelWith("kind", "malformed")>>
    BY <1>2, <2>1
  <2>3. ChannelWith("kind", "malformed").kind = "malformed"
    BY DEF ChannelWith, Channel
  <2> QED BY <1>4, <2>2, <2>3 DEF AcquisitionValid
<1>13. fault # "wrong_trigger_identity"
  <2> SUFFICES ASSUME fault = "wrong_trigger_identity" PROVE FALSE
    OBVIOUS
  <2>1. r = [d EXCEPT !.provenance.trigger = "wrong"]
    BY DEF Injected, ImmutableFaults, d
  <2>2. r.acquisition = <<a>> /\ r.provenance.trigger = "wrong"
    BY <1>1, <2>1 DEF ProvenanceOf
  <2> QED BY <1>2, <1>4, <2>2 DEF TraceBound
<1>14. fault \notin {"complete_without_acquisition", "unsupported_with_acquisition",
                    "unsupported_reported_complete", "failed_with_acquisition"}
  BY <1>1, <1>3, <1>4 DEF Injected, ImmutableFaults, d
<1>15. fault # "command_clock_mismatch"
  <2> SUFFICES ASSUME fault = "command_clock_mismatch" PROVE FALSE
    OBVIOUS
  <2>1. r = [d EXCEPT !.command.clock = "wrong"]
    BY DEF Injected, ImmutableFaults, d
  <2>2. r.command.clock = "wrong"
    BY <1>1, <2>1 DEF CommandOf
  <2> QED BY <1>3, <2>2 DEF CommandOf
<1>16. ~(fault \in ImmutableFaults /\ issued >= 1)
  <2> SUFFICES ASSUME fault \in ImmutableFaults, issued >= 1 PROVE FALSE
    OBVIOUS
  <2>1. r = [d EXCEPT !.provenance.config = Changed]
    BY DEF Injected, ImmutableFaults, d
  <2>2. r.provenance.config = Changed
    BY <1>1, <2>1 DEF ProvenanceOf
  <2> QED BY <1>3, <2>2
<1>17. fault \in {"wrong_command_id", "wrong_sequence_id"} => r = d
  <2> SUFFICES ASSUME fault \in {"wrong_command_id", "wrong_sequence_id"} PROVE r = d
    OBVIOUS
  <2>1. r = [d EXCEPT !.command = [d.command EXCEPT !.id = Wrong]]
        \/ r = [d EXCEPT !.command = [d.command EXCEPT !.seq = Wrong]]
    BY DEF Injected, ImmutableFaults, d
  <2>2. \E m : r = [d EXCEPT !.command = m]
    BY <2>1
  <2>3. r = [d EXCEPT !.command = CommandOf(k)]
    BY <1>1, <1>3, <2>2
  <2> QED BY <1>1, <2>3
<1>18. r = d
  BY <1>5, <1>7, <1>8, <1>9, <1>10, <1>11, <1>12, <1>13, <1>14, <1>15, <1>16, <1>17
  DEF Injected, ImmutableFaults, d
<1>19. c = seen
  BY <1>1, <1>3, <1>18 DEF ProvenanceOf
<1> QED
  BY <1>18, <1>19 DEF d

-----------------------------------------------------------------------------
(* The steps of a session                                                  *)

\* Steps that leave rows, plane and configurations on disk alone keep them
\* correct.
LEMMA RowsUnchanged ==
    ASSUME RowsCorrect, UNCHANGED <<plane, rows, persisted>>, device' \in Configs
    PROVE  RowsCorrect' /\ \A i : Measured(i)' = Measured(i)
<1>1. (\A i, c : RowFor(i, c)' = RowFor(i, c)) /\ CorrectRows' = CorrectRows
  BY SamePlane
<1> QED
  BY <1>1 DEF RowsCorrect, Measured

LEMMA ReconfigureRows ==
    ASSUME RowsInv, Reconfigure PROVE RowsInv'
<1>1. /\ plane = "physical" /\ pc \notin {"refused", "closed"} /\ device' \in Configs
      /\ UNCHANGED <<plane, fault, pc, initial, seen, last, issued, answer, rows, persisted>>
  BY DEF Reconfigure
<1>2. RowsCorrect' /\ \A i : Measured(i)' = Measured(i)
  BY <1>1, RowsUnchanged DEF RowsInv
<1>3. Anchored'
  BY <1>1, <1>2 DEF RowsInv, Anchored
<1>4. AnswersSound'
  BY <1>1 DEF RowsInv, AnswersSound, Acceptable, TopologyValid, LookedUp, Topology,
     NextIndex, TraceShapeOK, Delegate
<1> QED
  BY <1>2, <1>3, <1>4 DEF RowsInv

LEMMA BeginSampleRows ==
    ASSUME RowsInv, BeginSample PROVE RowsInv'
<1>1. /\ pc = "ready" /\ device \in Configs
      /\ UNCHANGED <<plane, device, last, rows, persisted>>
  BY DEF BeginSample, RowsInv, RowsCorrect
<1>2. RowsCorrect' /\ \A i : Measured(i)' = Measured(i)
  BY <1>1, RowsUnchanged DEF RowsInv
<1>3. CASE pc' = "refused"
  BY <1>1, <1>2, <1>3 DEF RowsInv, Anchored, AnswersSound
<1>4. CASE pc' = "commanded"
  <2>1. initial' = device /\ seen' = device /\ (initial = NONE \/ initial = device)
    BY <1>4 DEF BeginSample, Unchanged
  <2>2. plane = "mock" => device = persisted
    BY <1>1 DEF RowsInv, Anchored
  <2>3. Anchored'
    BY <1>1, <1>2, <1>4, <2>1, <2>2 DEF RowsInv, Anchored
  <2>4. AnswersSound'
    BY <1>1, <1>4, <2>1 DEF RowsInv, AnswersSound
  <2> QED BY <1>2, <2>3, <2>4 DEF RowsInv
<1> QED
  BY <1>3, <1>4 DEF BeginSample

LEMMA IssueRows ==
    ASSUME RowsInv, Issue PROVE RowsInv'
<1> DEFINE k == Len(rows)
<1>1. /\ pc = "commanded" /\ device \in Configs /\ seen = initial /\ seen \in Configs
      /\ k \in Nat
      /\ UNCHANGED <<plane, fault, device, initial, seen, rows, persisted>>
  BY DEF Issue, RowsInv, RowsCorrect, AnswersSound
<1>2. RowsCorrect' /\ \A i : Measured(i)' = Measured(i)
  BY <1>1, RowsUnchanged DEF RowsInv
<1>3. Anchored' /\ pc' \in {"answered", "refused"}
  BY <1>1, <1>2 DEF RowsInv, Anchored, Issue
<1>4. last # <<>> => \E e : k # 0 /\ last[1] = Delegate(CommandOf(k - 1), e)
  <2> SUFFICES ASSUME last # <<>> PROVE \E e : k # 0 /\ last[1] = Delegate(CommandOf(k - 1), e)
    OBVIOUS
  <2>1. k # 0 /\ last[1] = rows[k].result
    BY <1>1 DEF RowsInv, AnswersSound
  <2>2. PICK c \in Configs : rows[k] = RowFor(k - 1, c)
    BY <1>1, <2>1 DEF RowsInv, RowsCorrect
  <2> QED BY <2>1, <2>2, RowFields
<1>5. CASE pc' = "refused"
  BY <1>2, <1>3, <1>5 DEF RowsInv, AnswersSound
<1>6. CASE pc' = "answered"
  <2> DEFINE r == IF Replays THEN last[1] ELSE Injected(Delegate(CommandOf(k), device))
  <2>1. answer' = <<r>> /\ last' = <<r>>
    BY <1>6 DEF Issue, NextIndex
  <2>2. Acceptable(r, CommandOf(k)) => r = Delegate(CommandOf(k), seen)
    <3> SUFFICES ASSUME Acceptable(r, CommandOf(k)) PROVE r = Delegate(CommandOf(k), seen)
      OBVIOUS
    <3>1. CASE Replays
      <4>1. PICK e : k # 0 /\ r = Delegate(CommandOf(k - 1), e)
        BY <1>4, <3>1 DEF Replays
      <4>2. k - 1 \in Nat /\ k - 1 # k
        BY <1>1, <4>1
      <4>3. r.command # CommandOf(k)
        BY <1>1, <4>1, <4>2, EarlierAnswer
      <4> QED BY <4>3 DEF Acceptable, SameCommand
    <3>2. CASE ~Replays
      <4>1. r = Injected(Delegate(CommandOf(k), device))
        BY <3>2
      <4>2. last # <<>> => \E j \in Nat : j # k /\ \E e : last[1] = Delegate(CommandOf(j), e)
        <5>1. k # 0 => k - 1 \in Nat /\ k - 1 # k
          BY <1>1
        <5> QED BY <1>4, <5>1
      <4> HIDE DEF r, k
      <4> QED BY <1>1, <4>1, <4>2, InjectedAnswer
    <3> QED BY <3>1, <3>2
  <2> HIDE DEF r
  <2>3. PICK x : x = r
    OBVIOUS
  <2>4. answer' = <<x>> /\ last' = <<x>> /\ NextIndex' = k
    BY <1>1, <2>1, <2>3 DEF NextIndex
  <2>5. /\ Acceptable(x, CommandOf(k))' <=> Acceptable(x, CommandOf(k))
        /\ Delegate(CommandOf(k), seen)' = Delegate(CommandOf(k), seen)
    BY <1>1 DEF Acceptable, TopologyValid, LookedUp, Topology, TraceShapeOK, Delegate
  <2>6. AnswersSound'
    BY <1>1, <1>6, <2>2, <2>3, <2>4, <2>5 DEF AnswersSound
  <2> QED BY <1>2, <1>3, <2>6 DEF RowsInv
<1> QED
  BY <1>3, <1>5, <1>6

LEMMA ExamineRows ==
    ASSUME RowsInv, Examine PROVE RowsInv'
<1> DEFINE k == Len(rows)
<1>1. /\ pc = "answered" /\ seen = initial /\ seen \in Configs /\ k \in Nat
      /\ initial # NONE /\ answer # <<>> /\ last = answer
      /\ UNCHANGED <<plane, fault, device, initial, seen, last, persisted>>
      /\ device \in Configs
  BY DEF Examine, RowsInv, RowsCorrect, AnswersSound
<1>2. CASE ~Acceptable(answer[1], CommandOf(NextIndex))
  <2>1. pc' = "refused" /\ UNCHANGED rows
    BY <1>2 DEF Examine
  <2>2. RowsCorrect' /\ \A i : Measured(i)' = Measured(i)
    BY <1>1, <2>1, RowsUnchanged DEF RowsInv
  <2> QED BY <1>1, <2>1, <2>2 DEF RowsInv, Anchored, AnswersSound
<1>3. CASE Acceptable(answer[1], CommandOf(NextIndex))
  <2>1. pc' = "ready" /\ rows' = Append(rows, RowOf(answer[1]))
    BY <1>3 DEF Examine
  <2>2. answer[1] = Delegate(CommandOf(k), seen)
    BY <1>1, <1>3 DEF RowsInv, AnswersSound, NextIndex
  <2>3. RowOf(answer[1]) = RowFor(k, seen)
    BY <2>2 DEF RowFor
  <2>4. (\A i, c : RowFor(i, c)' = RowFor(i, c)) /\ CorrectRows' = CorrectRows
    BY <1>1, SamePlane
  <2>5. rows \in Seq(CorrectRows) /\ RowFor(k, seen) \in CorrectRows
    BY <1>1 DEF RowsInv, RowsCorrect, CorrectRows
  <2>6. /\ rows' \in Seq(CorrectRows) /\ Len(rows') = k + 1
        /\ rows'[k + 1] = RowFor(k, seen)
        /\ \A i \in 1..k : rows'[i] = rows[i]
    BY <2>1, <2>3, <2>5
  <2>8. \A i \in 1..(k + 1) : i \in 1..k \/ i = k + 1
    BY <1>1
  <2>9. RowsCorrect'
    <3>1. \A i \in 1..(k + 1) : \E c \in Configs : rows'[i] = RowFor(i - 1, c)
      <4> SUFFICES ASSUME NEW i \in 1..(k + 1)
                   PROVE  \E c \in Configs : rows'[i] = RowFor(i - 1, c)
        OBVIOUS
      <4>1. CASE i \in 1..k
        BY <2>6, <4>1 DEF RowsInv, RowsCorrect
      <4>2. CASE i = k + 1
        <5>1. i - 1 = k
          BY <1>1, <4>2
        <5> QED BY <1>1, <2>6, <4>2, <5>1
      <4> QED BY <2>8, <4>1, <4>2
    <3>2. rows' \in Seq(CorrectRows')
      BY <2>4, <2>6
    <3>3. \A i \in 1..Len(rows)' : \E c \in Configs : rows'[i] = RowFor(i - 1, c)'
      BY <2>4, <2>6, <3>1
    <3>4. plane' \in {"mock", "physical"} /\ device' \in Configs /\ persisted' \in Configs
      BY <1>1 DEF RowsInv, RowsCorrect
    <3> QED BY <2>6, <3>2, <3>3, <3>4 DEF RowsCorrect
  <2>10. \A i \in 1..(k + 1) : Measured(i)' = seen
    <3>1. rows'[k + 1].acquisition.measured.config = seen
      BY <2>6, RowFields
    <3>2. \A i \in 1..k : Measured(i)' = seen
      BY <1>1, <2>6 DEF RowsInv, Anchored, Measured
    <3> QED BY <2>8, <3>1, <3>2 DEF Measured
  <2>11. Anchored'
    BY <1>1, <2>1, <2>6, <2>10 DEF RowsInv, Anchored
  <2>12. AnswersSound'
    <3>1. last[1] = rows'[k + 1].result /\ Len(rows') # 0
      BY <1>1, <2>2, <2>6, RowFields
    <3> QED BY <1>1, <2>1, <2>6, <3>1 DEF AnswersSound
  <2> QED BY <2>9, <2>11, <2>12 DEF RowsInv
<1> QED
  BY <1>2, <1>3

LEMMA RestartRows ==
    ASSUME RowsInv, Restart PROVE RowsInv'
<1>1. /\ pc \in {"ready", "commanded", "answered"} /\ device' \in Configs
      /\ pc' \in {"ready", "refused"}
      /\ plane = "physical" => pc' = "refused"
      /\ pc' = "ready" => device' = persisted
      /\ initial' = NONE /\ last' = <<>>
      /\ UNCHANGED <<plane, rows, persisted>>
  BY DEF Restart, IdentityKept, RowsInv, RowsCorrect
<1>2. RowsCorrect' /\ \A i : Measured(i)' = Measured(i)
  BY <1>1, RowsUnchanged DEF RowsInv
<1>3. plane = "mock" => rows = <<>> \/ \A i \in 1..Len(rows) : Measured(i) = persisted
  BY <1>1 DEF RowsInv, Anchored
<1>4. Anchored'
  <2>1. plane \in {"mock", "physical"}
    BY DEF RowsInv, RowsCorrect
  <2>2. \A i, j \in 1..Len(rows) : Measured(i) = Measured(j)
    BY DEF RowsInv, Anchored
  <2> QED BY <1>1, <1>2, <1>3, <2>1, <2>2 DEF Anchored
<1>5. AnswersSound'
  BY <1>1 DEF AnswersSound
<1> QED
  BY <1>2, <1>4, <1>5 DEF RowsInv

\* The runner's manifest and the reader leave the session as it is, except that
\* it ends.
LEMMA EvidenceRows ==
    ASSUME RowsInv, ManifestProvenance \/ Publish \/ Alter \/ Load \/ Stopped \/ UNCHANGED vars
    PROVE  RowsInv'
<1>1. /\ UNCHANGED <<plane, fault, device, initial, seen, last, answer, rows, persisted>>
      /\ pc' = pc \/ (pc = "ready" /\ pc' \in {"refused", "closed"})
  BY DEF ManifestProvenance, Publish, Alter, Load, Stopped, vars, cvars
<1>2. RowsCorrect' /\ \A i : Measured(i)' = Measured(i)
  BY <1>1, RowsUnchanged DEF RowsInv, RowsCorrect
<1>3. Anchored'
  BY <1>1, <1>2 DEF RowsInv, Anchored
<1>4. AnswersSound'
  <2>1. CASE pc' = pc
    BY <1>1, <2>1 DEF RowsInv, AnswersSound, Acceptable, TopologyValid, LookedUp,
       Topology, NextIndex, TraceShapeOK, Delegate
  <2>2. CASE pc' \in {"refused", "closed"}
    BY <2>2 DEF AnswersSound
  <2> QED BY <1>1, <2>1, <2>2
<1> QED
  BY <1>2, <1>3, <1>4 DEF RowsInv

LEMMA NextRows == RowsInv /\ [Next]_vars => RowsInv'
BY ReconfigureRows, BeginSampleRows, IssueRows, ExamineRows, RestartRows, EvidenceRows
DEF Next, AcquisitionNext

\* Under every fault of the conformance list, every reconfiguration between two
\* steps and every restart, all rows of a session were measured under one
\* configuration of the controller (acquisition/controlled.py).
THEOREM FirewallOneConfiguration == Spec => []OneConfiguration
<1>1. RowsInv => OneConfiguration
  <2> SUFFICES ASSUME RowsInv PROVE OneConfiguration
    OBVIOUS
  <2>1. DOMAIN rows = 1..Len(rows)
    BY DEF RowsInv, RowsCorrect
  <2> QED BY <2>1 DEF RowsInv, Anchored, Measured, OneConfiguration
<1> QED
  BY <1>1, InitRows, NextRows, PTL DEF Spec

\* No fault that changed an answer leaves a row: every row holds what a correct
\* controller answers to the command of its index.
THEOREM FirewallFaultsLeaveNoRow == Spec => []FaultsLeaveNoRow
<1>1. RowsInv => FaultsLeaveNoRow
  <2> SUFFICES ASSUME RowsInv, NEW i \in DOMAIN rows
               PROVE  rows[i].result =
                          Delegate(CommandOf(i - 1), rows[i].acquisition.measured.config)
    BY DEF FaultsLeaveNoRow
  <2>1. i \in 1..Len(rows)
    BY DEF RowsInv, RowsCorrect
  <2>2. PICK c \in Configs : rows[i] = RowFor(i - 1, c)
    BY <2>1 DEF RowsInv, RowsCorrect
  <2> QED BY <2>2, RowFields
<1> QED
  BY <1>1, InitRows, NextRows, PTL DEF Spec

-----------------------------------------------------------------------------
(* The dataset and its reader                                              *)

ClaimOf(c, tier, attestation) ==
    [plane |-> plane, purpose |-> PurposeOf(plane),
     interface |-> InterfaceOf(plane), config |-> c, hash |-> c, snapshot |-> c,
     capabilities |-> CapabilitiesOf(plane),
     contract |-> plane = "physical",
     topology |-> IF plane = "physical" THEN "absent" ELSE "unavailable",
     tier |-> tier, attestation |-> attestation]

\* What the session published, under a claim: no step after it changes this.
DatasetOf(claim, stored) ==
    [purpose |-> claim.purpose, identity |-> claim.interface,
     provenance |-> claim, contract |-> claim.contract,
     capabilities |-> claim.capabilities,
     backend |-> IF plane = "physical" THEN "controlled_hardware"
                 ELSE "controlled_mock",
     ledgers |-> <<LedgerOf(device)>>, rows |-> stored]

StoredRows == [i \in DOMAIN rows |-> StoredRow(rows[i])]

Published(claim) == DatasetOf(claim, StoredRows)

Stored(d) == IF altered = NONE THEN d ELSE AlteredAt(altered, d)

\* A dataset is that of a complete session, whole or changed at one site, and a
\* verdict was given on it.
DatasetInv ==
    /\ provenance # <<>> =>
        /\ Len(rows) = Count
        /\ \E c, tier, att : c \in Configs /\ provenance = <<ClaimOf(c, tier, att)>>
    /\ dataset = <<>> => altered = NONE /\ verdict = "none"
    /\ dataset # <<>> =>
        /\ pc = "closed" /\ provenance # <<>>
        /\ dataset = <<Stored(Published(provenance[1]))>>
        /\ altered # NONE =>
              AlteredAt(altered, Published(provenance[1])) # Published(provenance[1])
    /\ verdict \in Purposes => Accepts(verdict, dataset[1])

FirewallInv == RowsInv /\ DatasetInv

LEMMA InitDataset == FirewallInit => DatasetInv
BY DEF FirewallInit, DatasetInv, Purposes

LEMMA NextDataset == FirewallInv /\ [Next]_vars => DatasetInv'
<1> SUFFICES ASSUME FirewallInv, [Next]_vars PROVE DatasetInv'
  OBVIOUS
<1> USE DEF FirewallInv
<1>1. CASE AcquisitionNext /\ provenance = <<>> /\ UNCHANGED evars
  <2>1. dataset = <<>>
    BY <1>1 DEF DatasetInv
  <2> QED BY <1>1, <2>1 DEF DatasetInv, evars, Purposes
<1>2. CASE Reconfigure /\ provenance # <<>> /\ dataset = <<>> /\ UNCHANGED evars
  <2>1. UNCHANGED <<plane, rows>>
    BY <1>2 DEF Reconfigure
  <2>2. \A c, tier, att : ClaimOf(c, tier, att)' = ClaimOf(c, tier, att)
    BY <2>1 DEF ClaimOf, PurposeOf, InterfaceOf, CapabilitiesOf
  <2> QED BY <1>2, <2>1, <2>2 DEF DatasetInv, evars, Purposes
<1>3. CASE ManifestProvenance
  <2>1. dataset = <<>> /\ dataset' = <<>> /\ UNCHANGED <<altered, verdict>>
    BY <1>3 DEF ManifestProvenance, DatasetInv
  <2>2. CASE provenance' = <<>>
    BY <2>1, <2>2 DEF DatasetInv, Purposes
  <2>3. CASE provenance' # <<>>
    <3>1. /\ NextIndex = Count /\ UNCHANGED <<plane, rows>> /\ device \in Configs
      BY <1>3 DEF ManifestProvenance, RowsInv, RowsCorrect
    <3>2. \E tier, att : provenance' = <<ClaimOf(device, tier, att)>>
      BY <1>3, <2>3 DEF ManifestProvenance, ClaimOf
    <3>3. \A c, tier, att : ClaimOf(c, tier, att)' = ClaimOf(c, tier, att)
      BY <3>1 DEF ClaimOf, PurposeOf, InterfaceOf, CapabilitiesOf
    <3>4. \E c, tier, att : c \in Configs /\ provenance' = <<ClaimOf(c, tier, att)>>
      BY <3>1, <3>2
    <3> QED BY <2>1, <3>1, <3>3, <3>4 DEF DatasetInv, Purposes, NextIndex
  <2> QED BY <2>2, <2>3
<1>4. CASE Publish
  <2>1. /\ provenance # <<>> /\ pc = "ready" /\ pc' = "closed"
        /\ UNCHANGED <<plane, device, rows, provenance, altered, verdict>>
    BY <1>4 DEF Publish
  <2>2. dataset = <<>> /\ altered = NONE /\ verdict = "none"
    BY <2>1 DEF DatasetInv
  <2>3. dataset' = <<Published(provenance[1])>>
    BY <1>4 DEF Publish, Published, DatasetOf, StoredRows
  <2>4. Published(provenance[1])' = Published(provenance[1])
    BY <2>1 DEF Published, DatasetOf, StoredRows, LedgerOf, InterfaceOf,
       CapabilitiesOf, StoredRow
  <2>5. \A c, tier, att : ClaimOf(c, tier, att)' = ClaimOf(c, tier, att)
    BY <2>1 DEF ClaimOf, PurposeOf, InterfaceOf, CapabilitiesOf
  <2> QED BY <2>1, <2>2, <2>3, <2>4, <2>5 DEF DatasetInv, Stored, Purposes
<1>5. CASE Alter \/ Load \/ Stopped \/ UNCHANGED vars
  <2>1. UNCHANGED <<plane, device, rows, pc, provenance>>
    BY <1>5 DEF Alter, Load, Stopped, vars, cvars, evars
  <2>2. Published(provenance[1])' = Published(provenance[1])
    BY <2>1 DEF Published, DatasetOf, StoredRows, LedgerOf, InterfaceOf,
       CapabilitiesOf, StoredRow
  <2>3. \A c, tier, att : ClaimOf(c, tier, att)' = ClaimOf(c, tier, att)
    BY <2>1 DEF ClaimOf, PurposeOf, InterfaceOf, CapabilitiesOf
  <2>4. CASE Alter
    <3>1. PICK site \in Sites :
             /\ altered' = site /\ dataset' = <<AlteredAt(site, dataset[1])>>
             /\ dataset' # dataset
      BY <2>4 DEF Alter
    <3>2. /\ dataset # <<>> /\ altered = NONE /\ verdict = "none" /\ UNCHANGED verdict
      BY <2>4 DEF Alter
    <3>3. dataset = <<Published(provenance[1])>>
      BY <3>2 DEF DatasetInv, Stored
    <3>4. site # NONE
      BY DEF Sites, NONE
    <3>5. \A d : AlteredAt(site, d)' = AlteredAt(site, d)
      OBVIOUS
    <3>6. dataset' = <<AlteredAt(site, Published(provenance[1]))>>
          /\ AlteredAt(site, Published(provenance[1])) # Published(provenance[1])
      BY <3>1, <3>3
    <3>7. dataset' = <<Stored(Published(provenance[1]))>>'
      BY <2>2, <3>1, <3>4, <3>6 DEF Stored
    <3> QED BY <2>1, <2>2, <2>3, <3>1, <3>2, <3>6, <3>7 DEF DatasetInv, Purposes
  <2>5. CASE Load
    <3>1. dataset # <<>> /\ UNCHANGED <<dataset, altered>> /\ verdict = "none"
      BY <2>5 DEF Load
    <3>2. PICK purpose \in Purposes :
             verdict' = IF Accepts(purpose, dataset[1]) THEN purpose
                        ELSE IF purpose = "attested" THEN "unattested" ELSE "refused"
      BY <2>5 DEF Load
    <3>3. verdict' \in Purposes => Accepts(verdict', dataset[1])
      BY <3>2 DEF Purposes
    <3> QED BY <2>1, <2>2, <2>3, <3>1, <3>3 DEF DatasetInv, Stored
  <2>6. CASE Stopped \/ UNCHANGED vars
    <3>1. UNCHANGED <<dataset, altered, verdict>>
      BY <2>6 DEF Stopped, vars, evars
    <3> QED BY <2>1, <2>2, <2>3, <3>1 DEF DatasetInv, Stored
  <2> QED BY <1>5, <2>4, <2>5, <2>6
<1> QED
  BY <1>1, <1>2, <1>3, <1>4, <1>5 DEF Next

-----------------------------------------------------------------------------
(* What the boundary refuses                                               *)

\* A published first row, of a session that measured under c.
FirstRow(c) == StoredRow(RowFor(0, c))

LEMMA FirstRowIs ==
    ASSUME NEW c
    PROVE  FirstRow(c) =
               [command |-> CommandOf(0), provenance |-> ProvenanceOf(c, 0),
                topology |-> Topology, acquisition |-> Acquire(CommandOf(0), c),
                result |-> Delegate(CommandOf(0), c),
                columns |-> [seq |-> 0, config |-> c, trigger |-> "trigger",
                             source |-> Topology.source],
                session |-> Session, place |-> Topology.concrete, alias |-> Session]
BY DEF FirstRow, StoredRow, RowFor, RowOf, Delegate, CommandOf, ProvenanceOf, Acquire

\* The shape of what was published.
LEMMA PublishedIs ==
    ASSUME FirewallInv, dataset # <<>>
    PROVE  /\ \E c, tier, att : c \in Configs /\ provenance[1] = ClaimOf(c, tier, att)
           /\ 1 \in DOMAIN StoredRows
           /\ \E e \in Configs : StoredRows[1] = FirstRow(e)
           /\ \/ dataset[1] = DatasetOf(provenance[1], StoredRows)
              \/ dataset[1] = AlteredAt(altered, DatasetOf(provenance[1], StoredRows))
<1>1. PICK c, tier, att : c \in Configs /\ provenance = <<ClaimOf(c, tier, att)>>
  BY DEF FirewallInv, DatasetInv
<1>2. Len(rows) = Count /\ DOMAIN rows = 1..Len(rows) /\ 1 \in 1..Count
  BY DEF FirewallInv, DatasetInv, RowsInv, RowsCorrect
<1>3. PICK e \in Configs : rows[1] = RowFor(0, e)
  BY <1>2 DEF FirewallInv, RowsInv, RowsCorrect
<1>4. 1 \in DOMAIN StoredRows /\ StoredRows[1] = FirstRow(e)
  BY <1>2, <1>3 DEF FirstRow, StoredRows
<1>5. provenance[1] = ClaimOf(c, tier, att)
  BY <1>1
<1>6. \/ dataset[1] = DatasetOf(provenance[1], StoredRows)
      \/ dataset[1] = AlteredAt(altered, DatasetOf(provenance[1], StoredRows))
  BY DEF FirewallInv, DatasetInv, Stored, Published
<1> QED
  BY <1>1, <1>4, <1>5, <1>6

\* What is altered of the first row leaves its topology's source.
LEMMA AlteredRow ==
    ASSUME NEW site, NEW claim, NEW rs, NEW d, d = DatasetOf(claim, rs),
           1 \in DOMAIN rs, NEW f, rs[1] = FirstRow(f)
    PROVE  /\ 1 \in DOMAIN AlteredAt(site, d).rows
           /\ AlteredAt(site, d).rows[1].topology.source = Topology.source
<1>1. d.rows = rs /\ d.rows[1] = FirstRow(f)
  BY DEF DatasetOf
<1>2. Topology = [source |-> Topology.source, concrete |-> Topology.concrete]
  BY DEF Topology, HardwareTopology, NoTopology
<1>3. FirstRow(f).topology = Topology
  BY FirstRowIs
<1>4. AlteredAt(site, d).rows = rs \/ \E x : /\ AlteredAt(site, d).rows = [rs EXCEPT ![1] = x]
                                           /\ x.topology.source = Topology.source
  <2>1. ASSUME NEW x, AlteredAt(site, d) = [d EXCEPT !.rows[1] = x]
        PROVE  AlteredAt(site, d).rows = [rs EXCEPT ![1] = x]
    BY <2>1 DEF DatasetOf
  <2>2. CASE site = "columns"
    <3>1. AlteredAt(site, d) = [d EXCEPT !.rows[1] = [FirstRow(f) EXCEPT !.columns.config = Changed]]
      BY <1>1, <2>2 DEF AlteredAt, AlterRow
    <3>2. [FirstRow(f) EXCEPT !.columns.config = Changed].topology = Topology
      BY FirstRowIs
    <3> QED BY <2>1, <3>1, <3>2
  <2>3. CASE site = "row provenance"
    <3>1. AlteredAt(site, d) = [d EXCEPT !.rows[1] = [FirstRow(f) EXCEPT !.provenance.config = Changed]]
      BY <1>1, <2>3 DEF AlteredAt, AlterRow
    <3>2. [FirstRow(f) EXCEPT !.provenance.config = Changed].topology = Topology
      BY FirstRowIs
    <3> QED BY <2>1, <3>1, <3>2
  <2>4. CASE site = "row command"
    <3>1. AlteredAt(site, d) = [d EXCEPT !.rows[1] = [FirstRow(f) EXCEPT !.command.seq = Wrong]]
      BY <1>1, <2>4 DEF AlteredAt, AlterRow
    <3>2. [FirstRow(f) EXCEPT !.command.seq = Wrong].topology = Topology
      BY FirstRowIs
    <3> QED BY <2>1, <3>1, <3>2
  <2>5. CASE site = "row topology"
    <3>1. AlteredAt(site, d) = [d EXCEPT !.rows[1] = [FirstRow(f) EXCEPT !.topology.concrete = {"row", "bank"}]]
      BY <1>1, <2>5 DEF AlteredAt, AlterRow
    <3>2. [FirstRow(f) EXCEPT !.topology.concrete = {"row", "bank"}].topology.source = Topology.source
      BY <1>2, FirstRowIs
    <3> QED BY <2>1, <3>1, <3>2
  <2>6. CASE site = "row acquisition"
    <3>1. AlteredAt(site, d) = [d EXCEPT !.rows[1] = [FirstRow(f) EXCEPT !.acquisition.trigger = "wrong"]]
      BY <1>1, <2>6 DEF AlteredAt, AlterRow
    <3>2. [FirstRow(f) EXCEPT !.acquisition.trigger = "wrong"].topology = Topology
      BY FirstRowIs
    <3> QED BY <2>1, <3>1, <3>2
  <2>7. CASE site = "row session"
    <3>1. AlteredAt(site, d) = [d EXCEPT !.rows[1] = [FirstRow(f) EXCEPT !.session = "other"]]
      BY <1>1, <2>7 DEF AlteredAt, AlterRow
    <3>2. [FirstRow(f) EXCEPT !.session = "other"].topology = Topology
      BY FirstRowIs
    <3> QED BY <2>1, <3>1, <3>2
  <2>8. CASE site = "row place"
    <3>1. AlteredAt(site, d) = [d EXCEPT !.rows[1] = [FirstRow(f) EXCEPT !.place = {"bank"}]]
      BY <1>1, <2>8 DEF AlteredAt, AlterRow
    <3>2. [FirstRow(f) EXCEPT !.place = {"bank"}].topology = Topology
      BY FirstRowIs
    <3> QED BY <2>1, <3>1, <3>2
  <2>9. CASE site = "row alias"
    <3>1. AlteredAt(site, d) = [d EXCEPT !.rows[1] = [FirstRow(f) EXCEPT !.alias = "other"]]
      BY <1>1, <2>9 DEF AlteredAt, AlterRow
    <3>2. [FirstRow(f) EXCEPT !.alias = "other"].topology = Topology
      BY FirstRowIs
    <3> QED BY <2>1, <3>1, <3>2
  <2>10. CASE site \notin {"columns", "row provenance", "row command", "row topology",
                          "row acquisition", "row session", "row place", "row alias"}
    BY <2>10 DEF AlteredAt, Physical, DatasetOf
  <2> QED BY <2>2, <2>3, <2>4, <2>5, <2>6, <2>7, <2>8, <2>9, <2>10
<1> QED
  BY <1>1, <1>3, <1>4

\* Whatever is rewritten, the first row of a mock session has no topology from
\* the hardware.
LEMMA MockRefused ==
    ASSUME FirewallInv, dataset # <<>>, plane = "mock"
    PROVE  ~PhysicalAccepts(dataset[1])
<1> DEFINE d == DatasetOf(provenance[1], StoredRows)
<1>1. PICK e \in Configs : 1 \in DOMAIN StoredRows /\ StoredRows[1] = FirstRow(e)
  BY PublishedIs
<1>2. Topology.source = "unavailable" /\ FirstRow(e).topology.source = "unavailable"
  BY FirstRowIs DEF Topology, NoTopology
<1>3. 1 \in DOMAIN d.rows /\ d.rows[1].topology.source = "unavailable"
  BY <1>1, <1>2 DEF DatasetOf
<1>4. dataset[1] = d \/ dataset[1] = AlteredAt(altered, d)
  BY PublishedIs
<1>5. /\ 1 \in DOMAIN AlteredAt(altered, d).rows
      /\ AlteredAt(altered, d).rows[1].topology.source = "unavailable"
  BY <1>1, <1>2, AlteredRow
<1> HIDE DEF d
<1>6. 1 \in DOMAIN dataset[1].rows /\ dataset[1].rows[1].topology.source = "unavailable"
  BY <1>3, <1>4, <1>5
<1> QED
  BY <1>6 DEF PhysicalAccepts, PhysicalRow, HardwareSourced

\* A physical session says so in its manifest, whatever else is altered.
LEMMA PhysicalRefusedAsMock ==
    ASSUME FirewallInv, dataset # <<>>, plane = "physical"
    PROVE  ~MockAccepts(dataset[1])
<1> DEFINE d == DatasetOf(provenance[1], StoredRows)
<1>1. PICK c, tier, att : c \in Configs /\ provenance[1] = ClaimOf(c, tier, att)
  BY PublishedIs
<1>2. d.provenance = ClaimOf(c, tier, att) /\ ClaimOf(c, tier, att).plane = "physical"
  BY <1>1 DEF ClaimOf, DatasetOf
<1>3. dataset[1] = d \/ dataset[1] = AlteredAt(altered, d)
  BY PublishedIs
<1>4. AlteredAt(altered, d).provenance.plane = "physical"
  <2>1. CASE altered = "provenance"
    <3>1. AlteredAt(altered, d).provenance = [d.provenance EXCEPT !.config = Changed]
      BY <2>1 DEF AlteredAt, DatasetOf
    <3> QED BY <1>2, <3>1 DEF ClaimOf
  <2>2. CASE altered \in {"purpose", "contract", "capabilities", "ledger", "ledger status",
                         "ledger session", "columns", "row provenance", "row command",
                         "row topology", "row acquisition", "row session", "row place",
                         "row alias"}
    <3>1. AlteredAt(altered, d).provenance = d.provenance
      BY <2>2 DEF AlteredAt, AlterRow, DatasetOf
    <3> QED BY <1>2, <3>1
  <2>4. CASE altered = "configuration hash"
    <3>1. AlteredAt(altered, d).provenance = [d.provenance EXCEPT !.hash = Changed]
      BY <2>4 DEF AlteredAt, DatasetOf
    <3> QED BY <1>2, <3>1 DEF ClaimOf
  <2>5. CASE altered = "provenance contract"
    <3>1. AlteredAt(altered, d).provenance = [d.provenance EXCEPT !.snapshot = Changed]
      BY <2>5 DEF AlteredAt, DatasetOf
    <3> QED BY <1>2, <3>1 DEF ClaimOf
  <2>6. CASE altered = "evidence source"
    <3>1. AlteredAt(altered, d).provenance =
              [d.provenance EXCEPT !.tier = "adapter_attested_physical"]
      BY <2>6 DEF AlteredAt, DatasetOf
    <3> QED BY <1>2, <3>1 DEF ClaimOf
  <2>3. CASE altered \notin {"provenance", "purpose", "contract", "capabilities", "ledger",
                            "ledger status", "ledger session", "columns",
                            "row provenance", "row command", "row topology",
                            "row acquisition", "row session", "row place", "row alias",
                            "configuration hash", "provenance contract",
                            "evidence source"}
    <3>1. AlteredAt(altered, d) = Physical(d)
      BY <2>3 DEF AlteredAt
    <3>2. Physical(d).provenance = [d.provenance EXCEPT !.plane = "physical",
              !.purpose = PurposeOf("physical"), !.interface = InterfaceOf("physical"),
              !.contract = TRUE, !.capabilities = CapabilitiesOf("physical")]
      BY DEF Physical, DatasetOf
    <3> QED BY <1>2, <3>1, <3>2 DEF ClaimOf
  <2> QED BY <2>1, <2>2, <2>3, <2>4, <2>5, <2>6
<1> HIDE DEF d
<1>5. dataset[1].provenance.plane = "physical"
  BY <1>2, <1>3, <1>4
<1> QED
  BY <1>5 DEF MockAccepts

\* "The manifest is a claim about the rows, not an authority that can upgrade
\* them" (datasets.py:203): however manifest and ledger are rewritten, mock rows
\* are never accepted as physical evidence, nor physical ones as a mock's.
THEOREM FirewallPlanesNeverCross == Spec => []PlanesNeverCross
<1>1. FirewallInv => PlanesNeverCross
  <2> SUFFICES ASSUME FirewallInv PROVE PlanesNeverCross
    OBVIOUS
  <2>1. plane \in {"mock", "physical"}
    BY DEF FirewallInv, RowsInv, RowsCorrect
  <2>2. verdict \in Purposes => dataset # <<>> /\ Accepts(verdict, dataset[1])
    BY DEF FirewallInv, DatasetInv, Purposes
  <2>3. ASSUME verdict = "physical_controlled_hardware" PROVE plane = "physical"
    <3>1. dataset # <<>> /\ PhysicalAccepts(dataset[1])
      BY <2>2, <2>3 DEF Accepts, Purposes
    <3> QED BY <2>1, <3>1, MockRefused
  <2>4. ASSUME verdict = "phase2_mock_controlled" PROVE plane = "mock"
    <3>1. dataset # <<>> /\ MockAccepts(dataset[1])
      BY <2>2, <2>4 DEF Accepts, Purposes
    <3> QED BY <2>1, <3>1, PhysicalRefusedAsMock
  <2> QED BY <2>3, <2>4 DEF PlanesNeverCross
<1>2. FirewallInv /\ [Next]_vars => FirewallInv'
  BY NextRows, NextDataset DEF FirewallInv
<1>3. FirewallInit => FirewallInv
  BY InitRows, InitDataset DEF FirewallInv
<1> QED
  BY <1>1, <1>2, <1>3, PTL DEF Spec

\* A change of one row is refused if the row does not agree with itself or with
\* the ledger any more.
LEMMA RowRefused ==
    ASSUME NEW rs, 1 \in DOMAIN rs, NEW claim, NEW d, d = DatasetOf(claim, rs),
           NEW row, ~PhysicalRow(row, d.ledgers)
    PROVE  ~PhysicalAccepts([d EXCEPT !.rows[1] = row])
<1> DEFINE x == [d EXCEPT !.rows[1] = row]
<1>1. /\ x.rows = [rs EXCEPT ![1] = row] /\ x.ledgers = d.ledgers
  BY DEF DatasetOf
<1>2. 1 \in DOMAIN x.rows /\ x.rows[1] = row
  BY <1>1
<1> HIDE DEF x
<1>3. ~PhysicalAccepts(x)
  BY <1>1, <1>2 DEF PhysicalAccepts
<1> QED
  BY <1>3 DEF x

\* On the physical plane no site that is compared can be altered alone.
LEMMA AlteredRefused ==
    ASSUME plane = "physical", device \in Configs, NEW c \in Configs, NEW e \in Configs,
           NEW tier, NEW att, NEW rs, 1 \in DOMAIN rs, rs[1] = FirstRow(e),
           NEW d, d = DatasetOf(ClaimOf(c, tier, att), rs),
           NEW site, AlteredAt(site, d) # d, site \notin Uncompared
    PROVE  ~PhysicalAccepts(AlteredAt(site, d))
<1> DEFINE x == AlteredAt(site, d)
           claim == ClaimOf(c, tier, att)
           row == FirstRow(e)
<1> SUFFICES ~PhysicalAccepts(x)
  OBVIOUS
<1> HIDE DEF x
<1>1. /\ d.provenance = claim /\ d.ledgers = <<LedgerOf(device)>> /\ d.rows[1] = row
      /\ d.purpose = "physical_controlled_hardware" /\ d.contract = TRUE
      /\ d.backend = "controlled_hardware" /\ d.identity = InterfaceOf("physical")
      /\ d.capabilities = CapabilitiesOf("physical")
  BY DEF DatasetOf, ClaimOf, PurposeOf
<1>2. claim.config = c /\ claim.capabilities = CapabilitiesOf("physical")
  BY DEF ClaimOf
<1>3. CASE site = "purpose"
  <2>1. x.purpose = "generic"
    BY <1>3 DEF x, AlteredAt, DatasetOf
  <2> QED BY <2>1 DEF PhysicalAccepts, PhysicalClaims
<1>4. CASE site = "provenance"
  <2>1. x.provenance = [claim EXCEPT !.config = Changed] /\ x.ledgers = d.ledgers
    BY <1>4 DEF x, AlteredAt, DatasetOf
  <2>2. x.provenance.config = Changed /\ x.ledgers[1].config = device /\ 1 \in DOMAIN x.ledgers
    BY <1>1, <2>1 DEF ClaimOf, LedgerOf
  <2>3. Changed # device
    OBVIOUS
  <2> QED BY <2>2, <2>3 DEF PhysicalAccepts, PhysicalLedgers
<1>5. CASE site = "contract"
  <2>1. x.contract = FALSE
    BY <1>1, <1>5 DEF x, AlteredAt, DatasetOf
  <2> QED BY <2>1, Zenon DEF PhysicalAccepts, PhysicalClaims
<1>6. CASE site = "capabilities"
  <2>1. /\ x.capabilities = [CapabilitiesOf("physical") EXCEPT !.read = FALSE]
        /\ x.provenance = claim
    BY <1>1, <1>6 DEF x, AlteredAt, DatasetOf
  <2>2. x.capabilities # x.provenance.capabilities
    BY <1>2, <2>1 DEF CapabilitiesOf
  <2> QED BY <2>2 DEF PhysicalAccepts, PhysicalClaims
<1>7. CASE site = "ledger"
  <2>1. x.ledgers = <<[LedgerOf(device) EXCEPT !.config = Changed]>> /\ x.provenance = claim
    BY <1>1, <1>7 DEF x, AlteredAt, DatasetOf
  <2>2. 1 \in DOMAIN x.ledgers /\ x.ledgers[1].config = Changed
    BY <2>1 DEF LedgerOf
  <2> HIDE DEF claim
  <2> QED BY <1>2, <2>1, <2>2 DEF PhysicalAccepts, PhysicalLedgers
<1>8. CASE site = "ledger status"
  <2>1. x.ledgers = [d.ledgers EXCEPT ![1] = [d.ledgers[1] EXCEPT !.status = "active"]]
    BY <1>8 DEF x, AlteredAt, DatasetOf
  <2>2. 1 \in DOMAIN x.ledgers /\ x.ledgers[1].status = "active"
    BY <1>1, <2>1 DEF LedgerOf
  <2> QED BY <2>2 DEF PhysicalAccepts, PhysicalLedgers
<1>9. CASE site = "ledger session"
  <2>1. x.ledgers = [d.ledgers EXCEPT ![1] = [d.ledgers[1] EXCEPT !.session = "other"]]
        /\ x.rows = rs
    BY <1>9 DEF x, AlteredAt, DatasetOf
  <2>2. \A k \in DOMAIN x.ledgers : x.ledgers[k].session = "other"
    BY <1>1, <2>1 DEF LedgerOf
  <2>3. x.rows[1].session = "s0" /\ 1 \in DOMAIN x.rows
    BY <2>1, FirstRowIs DEF Session
  <2>4. \A r : \A ls : PhysicalRow(r, ls) => \E k \in DOMAIN ls : ls[k].session = r.session
    BY DEF PhysicalRow
  <2> HIDE DEF x
  <2> QED BY <2>2, <2>3, <2>4 DEF PhysicalAccepts
<1>10. CASE site = "columns"
  <2> DEFINE y == [row EXCEPT !.columns.config = Changed]
  <2>1. x = [d EXCEPT !.rows[1] = y]
    BY <1>1, <1>10 DEF x, AlteredAt, AlterRow
  <2>2. y.columns.config = Changed /\ y.provenance.config = e
    BY FirstRowIs DEF ProvenanceOf
  <2>3. ~PhysicalRow(y, d.ledgers)
    <3> HIDE DEF y
    <3> QED BY <2>2 DEF PhysicalRow
  <2> HIDE DEF y
  <2> QED BY <2>1, <2>3, RowRefused
<1>11. CASE site = "row provenance"
  <2> DEFINE y == [row EXCEPT !.provenance.config = Changed]
  <2>1. x = [d EXCEPT !.rows[1] = y]
    BY <1>1, <1>11 DEF x, AlteredAt, AlterRow
  <2>2. y.provenance.config = Changed /\ y.result.provenance.config = e
    BY FirstRowIs DEF ProvenanceOf, Delegate
  <2>3. ~PhysicalRow(y, d.ledgers)
    <3> HIDE DEF y
    <3> QED BY <2>2 DEF PhysicalRow
  <2> HIDE DEF y
  <2> QED BY <2>1, <2>3, RowRefused
<1>12. CASE site = "row command"
  <2> DEFINE y == [row EXCEPT !.command.seq = Wrong]
  <2>1. x = [d EXCEPT !.rows[1] = y]
    BY <1>1, <1>12 DEF x, AlteredAt, AlterRow
  <2>2. y.command.seq = 1000 /\ y.result.command.seq = 0
    BY FirstRowIs DEF CommandOf, Delegate, Wrong
  <2>3. ~PhysicalRow(y, d.ledgers)
    <3> HIDE DEF y
    <3> QED BY <2>2 DEF PhysicalRow
  <2> HIDE DEF y
  <2> QED BY <2>1, <2>3, RowRefused
<1>13. CASE site = "row topology"
  <2> DEFINE y == [row EXCEPT !.topology.concrete = {"row", "bank"}]
  <2>1. x = [d EXCEPT !.rows[1] = y]
    BY <1>1, <1>13 DEF x, AlteredAt, AlterRow
  <2>2. y.topology.concrete = {"row", "bank"} /\ y.result.topology.concrete = {"row"}
    BY FirstRowIs DEF Delegate, Topology, HardwareTopology
  <2>3. y.topology # y.result.topology
    BY <2>2
  <2>4. ~PhysicalRow(y, d.ledgers)
    <3> HIDE DEF y
    <3> QED BY <2>3 DEF PhysicalRow
  <2> HIDE DEF y
  <2> QED BY <2>1, <2>4, RowRefused
<1>14. CASE site = "row acquisition"
  <2> DEFINE y == [row EXCEPT !.acquisition.trigger = "wrong"]
  <2>1. x = [d EXCEPT !.rows[1] = y]
    BY <1>1, <1>14 DEF x, AlteredAt, AlterRow
  <2>2. y.acquisition.trigger = "wrong" /\ y.provenance.trigger = "trigger"
    BY FirstRowIs DEF Acquire, ProvenanceOf
  <2>3. ~PhysicalRow(y, d.ledgers)
    <3> HIDE DEF y
    <3> QED BY <2>2 DEF PhysicalRow
  <2> HIDE DEF y
  <2> QED BY <2>1, <2>3, RowRefused
<1>15. CASE site = "row session"
  <2> DEFINE y == [row EXCEPT !.session = "other"]
  <2>1. x = [d EXCEPT !.rows[1] = y]
    BY <1>1, <1>15 DEF x, AlteredAt, AlterRow
  <2>2. y.session = "other"
    BY FirstRowIs
  <2>3. \A k \in DOMAIN d.ledgers : d.ledgers[k].session = "s0"
    BY <1>1 DEF LedgerOf, Session
  <2>4. ~PhysicalRow(y, d.ledgers)
    <3> HIDE DEF y
    <3> QED BY <2>2, <2>3 DEF PhysicalRow
  <2> HIDE DEF y
  <2> QED BY <2>1, <2>4, RowRefused
<1>16. CASE site \notin {"purpose", "provenance", "contract", "capabilities", "ledger",
                        "ledger status", "ledger session", "columns", "row provenance",
                        "row command", "row topology", "row acquisition", "row session"}
  <2>1. x = Physical(d)
    BY <1>16 DEF x, AlteredAt, Uncompared
  <2>2. [claim EXCEPT !.plane = "physical", !.purpose = PurposeOf("physical"),
                       !.interface = InterfaceOf("physical"), !.contract = TRUE,
                       !.capabilities = CapabilitiesOf("physical")] = claim
    <3>1. claim = [z \in DOMAIN claim |-> claim[z]]
      BY DEF ClaimOf
    <3>2. /\ claim.plane = "physical" /\ claim.purpose = PurposeOf("physical")
          /\ claim.interface = InterfaceOf("physical") /\ claim.contract = TRUE
          /\ claim.capabilities = CapabilitiesOf("physical")
      BY DEF ClaimOf
    <3> HIDE DEF claim
    <3> QED BY <3>1, <3>2
  <2> DEFINE ledger == LedgerOf(device)
  <2>3. [ledger EXCEPT !.interface = InterfaceOf("physical"),
                       !.capabilities = CapabilitiesOf("physical")] = ledger
    <3>1. /\ ledger = [z \in DOMAIN ledger |-> ledger[z]]
          /\ ledger.interface = InterfaceOf("physical")
          /\ ledger.capabilities = CapabilitiesOf("physical")
      BY DEF LedgerOf
    <3> HIDE DEF ledger
    <3> QED BY <3>1
  <2>4. Physical(d) = d
    <3>1. d = [z \in DOMAIN d |-> d[z]]
      BY DEF DatasetOf
    <3>2. Physical(d) =
            [d EXCEPT !.purpose = d.purpose, !.identity = d.identity,
                      !.contract = d.contract, !.backend = d.backend,
                      !.capabilities = d.capabilities, !.provenance = d.provenance,
                      !.ledgers = d.ledgers]
      <4> DEFINE p == [d.provenance EXCEPT !.plane = "physical",
                           !.purpose = PurposeOf("physical"),
                           !.interface = InterfaceOf("physical"), !.contract = TRUE,
                           !.capabilities = CapabilitiesOf("physical")]
                 l == [d.ledgers[1] EXCEPT !.interface = InterfaceOf("physical"),
                                           !.capabilities = CapabilitiesOf("physical")]
                 ls == [d.ledgers EXCEPT ![1] = l]
      <4>1. p = d.provenance
        BY <1>1, <2>2
      <4>2. l = d.ledgers[1]
        BY <1>1, <2>3
      <4>3. ls = d.ledgers
        <5> HIDE DEF l
        <5> QED BY <1>1, <4>2
      <4>4. Physical(d) =
              [d EXCEPT !.purpose = PurposeOf("physical"),
                        !.identity = InterfaceOf("physical"), !.contract = TRUE,
                        !.backend = "controlled_hardware",
                        !.capabilities = CapabilitiesOf("physical"),
                        !.provenance = p, !.ledgers = ls]
        BY DEF Physical
      <4> HIDE DEF p, ls, l
      <4> QED BY <1>1, <4>1, <4>3, <4>4 DEF PurposeOf
    <3> QED BY <3>1, <3>2
  <2> QED BY <2>1, <2>4 DEF x
<1> QED
  BY <1>3, <1>4, <1>5, <1>6, <1>7, <1>8, <1>9, <1>10, <1>11, <1>12, <1>13, <1>14,
     <1>15, <1>16

\* What a change of an uncompared copy leaves: the configuration the manifest
\* claims, the ledgers, and the provenance of every row.
LEMMA UncomparedKeeps ==
    ASSUME NEW claim, NEW rs, 1 \in DOMAIN rs, NEW e, rs[1] = FirstRow(e),
           NEW c, NEW tier, NEW att, claim = ClaimOf(c, tier, att),
           NEW d, d = DatasetOf(claim, rs), NEW site \in Uncompared
    PROVE  /\ AlteredAt(site, d).provenance.config = c
           /\ AlteredAt(site, d).ledgers = d.ledgers
           /\ DOMAIN AlteredAt(site, d).rows = DOMAIN rs
           /\ \A i \in DOMAIN rs : AlteredAt(site, d).rows[i].provenance = rs[i].provenance
<1>1. d.rows = rs /\ d.rows[1] = FirstRow(e) /\ d.provenance = claim /\ claim.config = c
  BY DEF DatasetOf, ClaimOf
<1>2. CASE site = "configuration hash"
  <2>1. /\ AlteredAt(site, d).provenance = [claim EXCEPT !.hash = Changed]
        /\ AlteredAt(site, d).ledgers = d.ledgers /\ AlteredAt(site, d).rows = rs
    BY <1>2 DEF AlteredAt, DatasetOf
  <2> QED BY <1>1, <2>1 DEF ClaimOf
<1>3. CASE site = "provenance contract"
  <2>1. /\ AlteredAt(site, d).provenance = [claim EXCEPT !.snapshot = Changed]
        /\ AlteredAt(site, d).ledgers = d.ledgers /\ AlteredAt(site, d).rows = rs
    BY <1>3 DEF AlteredAt, DatasetOf
  <2> QED BY <1>1, <2>1 DEF ClaimOf
<1>4. CASE site = "evidence source"
  <2>1. /\ AlteredAt(site, d).provenance =
                [claim EXCEPT !.tier = "adapter_attested_physical"]
        /\ AlteredAt(site, d).ledgers = d.ledgers /\ AlteredAt(site, d).rows = rs
    BY <1>4 DEF AlteredAt, DatasetOf
  <2> QED BY <1>1, <2>1 DEF ClaimOf
<1>5. ASSUME NEW row, row.provenance = rs[1].provenance,
             AlteredAt(site, d) = [d EXCEPT !.rows[1] = row]
      PROVE  /\ AlteredAt(site, d).provenance.config = c
             /\ AlteredAt(site, d).ledgers = d.ledgers
             /\ DOMAIN AlteredAt(site, d).rows = DOMAIN rs
             /\ \A i \in DOMAIN rs : AlteredAt(site, d).rows[i].provenance = rs[i].provenance
  <2>1. /\ AlteredAt(site, d).provenance = claim /\ AlteredAt(site, d).ledgers = d.ledgers
        /\ AlteredAt(site, d).rows = [rs EXCEPT ![1] = row]
    BY <1>5 DEF DatasetOf
  <2> QED BY <1>1, <1>5, <2>1
<1>6. CASE site = "row place"
  <2> DEFINE row == [FirstRow(e) EXCEPT !.place = {"bank"}]
  <2>1. AlteredAt(site, d) = [d EXCEPT !.rows[1] = row]
    BY <1>1, <1>6 DEF AlteredAt, AlterRow
  <2>2. row.provenance = rs[1].provenance
    BY FirstRowIs
  <2> HIDE DEF row
  <2> QED BY <1>5, <2>1, <2>2
<1>7. CASE site = "row alias"
  <2> DEFINE row == [FirstRow(e) EXCEPT !.alias = "other"]
  <2>1. AlteredAt(site, d) = [d EXCEPT !.rows[1] = row]
    BY <1>1, <1>7 DEF AlteredAt, AlterRow
  <2>2. row.provenance = rs[1].provenance
    BY FirstRowIs
  <2> HIDE DEF row
  <2> QED BY <1>5, <2>1, <2>2
<1> QED
  BY <1>2, <1>3, <1>4, <1>6, <1>7 DEF Uncompared

\* A dataset accepted as physical controlled-hardware evidence is what a session
\* published, but for one of the copies that no reader compares, and every row
\* was measured under the configuration its provenance claims, also when the
\* controller was reconfigured between the last row, the manifest and the ledger
\* (_validate_physical_controlled_dataset).
THEOREM FirewallAcceptedClaimsHold == Spec => []AcceptedClaimsHold
<1>1. FirewallInv => AcceptedClaimsHold
  <2> SUFFICES ASSUME FirewallInv, verdict = "physical_controlled_hardware"
               PROVE  /\ altered \in {NONE} \cup Uncompared
                      /\ \A i \in DOMAIN rows : rows[i].acquisition.measured.config =
                                                 dataset[1].provenance.config
    BY DEF AcceptedClaimsHold
  <2>1. dataset # <<>> /\ Accepts(verdict, dataset[1])
    BY DEF FirewallInv, DatasetInv, Purposes
  <2>2. PhysicalAccepts(dataset[1])
    BY <2>1 DEF Accepts
  <2>3. plane = "physical"
    BY <2>1, <2>2, MockRefused DEF FirewallInv, RowsInv, RowsCorrect
  <2>4. PICK c, tier, att : c \in Configs /\ provenance[1] = ClaimOf(c, tier, att)
    BY <2>1, PublishedIs
  <2>5. PICK e \in Configs : 1 \in DOMAIN StoredRows /\ StoredRows[1] = FirstRow(e)
    BY <2>1, PublishedIs
  <2> DEFINE d == DatasetOf(ClaimOf(c, tier, att), StoredRows)
  <2>6. altered \in {NONE} \cup Uncompared
    <3> SUFFICES ASSUME altered # NONE, altered \notin Uncompared PROVE FALSE
      OBVIOUS
    <3>1. AlteredAt(altered, d) # d /\ dataset[1] = AlteredAt(altered, d)
      BY <2>1, <2>4 DEF FirewallInv, DatasetInv, Stored, Published
    <3>2. device \in Configs
      BY DEF FirewallInv, RowsInv, RowsCorrect
    <3>3. ~PhysicalAccepts(AlteredAt(altered, d))
      <4> HIDE DEF d
      <4> QED BY <2>3, <2>4, <2>5, <3>1, <3>2, AlteredRefused DEF d
    <3> HIDE DEF d
    <3> QED BY <2>2, <3>1, <3>3
  <2>7. d.rows = StoredRows /\ d.provenance.config = c /\ d.ledgers = <<LedgerOf(device)>>
    BY DEF DatasetOf, ClaimOf
  <2>8. /\ dataset[1].provenance.config = c /\ dataset[1].ledgers = <<LedgerOf(device)>>
        /\ DOMAIN dataset[1].rows = DOMAIN StoredRows
        /\ \A i \in DOMAIN StoredRows :
               dataset[1].rows[i].provenance = StoredRows[i].provenance
    <3>1. CASE altered = NONE
      <4>1. dataset[1] = d
        BY <2>1, <2>4, <3>1 DEF FirewallInv, DatasetInv, Stored, Published
      <4> HIDE DEF d
      <4> QED BY <2>7, <4>1
    <3>2. CASE altered # NONE
      <4>1. altered \in Uncompared
        BY <2>6, <3>2
      <4>2. dataset[1] = AlteredAt(altered, d)
        BY <2>1, <2>4, <3>2 DEF FirewallInv, DatasetInv, Stored, Published
      <4> DEFINE x == AlteredAt(altered, d)
      <4>3. /\ x.provenance.config = c /\ x.ledgers = d.ledgers
            /\ DOMAIN x.rows = DOMAIN StoredRows
            /\ \A i \in DOMAIN StoredRows : x.rows[i].provenance = StoredRows[i].provenance
        BY <2>5, <4>1, UncomparedKeeps
      <4> HIDE DEF d, x
      <4> QED BY <2>7, <4>2, <4>3 DEF x
    <3> QED BY <3>1, <3>2
  <2> HIDE DEF d
  <2>9. 1 \in DOMAIN dataset[1].ledgers /\ dataset[1].ledgers[1].config = device
    BY <2>8 DEF LedgerOf
  <2>10. device = c
    BY <2>2, <2>8, <2>9 DEF PhysicalAccepts, PhysicalLedgers
  <2>11. ASSUME NEW i \in DOMAIN rows
         PROVE  rows[i].acquisition.measured.config = c
    <3>1. i \in DOMAIN StoredRows /\ StoredRows[i].provenance = rows[i].provenance
      BY DEF StoredRows, StoredRow
    <3>2. StoredRows[i].provenance.config = device
      <4>1. PhysicalRow(dataset[1].rows[i], dataset[1].ledgers)
        BY <2>2, <2>8, <3>1 DEF PhysicalAccepts
      <4>2. PICK k \in DOMAIN dataset[1].ledgers :
               dataset[1].rows[i].provenance.config = dataset[1].ledgers[k].config
        BY <4>1 DEF PhysicalRow, LedgerAgrees
      <4>3. k = 1
        BY <2>8
      <4> QED BY <2>8, <2>9, <3>1, <4>2, <4>3
    <3>3. i \in 1..Len(rows)
      BY DEF FirewallInv, RowsInv, RowsCorrect
    <3>4. PICK f \in Configs : rows[i] = RowFor(i - 1, f)
      BY <3>3 DEF FirewallInv, RowsInv, RowsCorrect
    <3> QED BY <2>10, <3>1, <3>2, <3>4, RowFields
  <2> QED BY <2>6, <2>8, <2>11
<1>2. FirewallInv /\ [Next]_vars => FirewallInv'
  BY NextRows, NextDataset DEF FirewallInv
<1>3. FirewallInit => FirewallInv
  BY InitRows, InitDataset DEF FirewallInv
<1> QED
  BY <1>1, <1>2, <1>3, PTL DEF Spec

=============================================================================
