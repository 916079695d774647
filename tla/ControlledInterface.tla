------------------------- MODULE ControlledInterface -------------------------
(***************************************************************************)
(* The lifecycle of the controlled memory interface: the acquisition       *)
(* backend issues one read command per sample through an adapter, and      *)
(* accepts a row only when the typed result binds command, provenance,     *)
(* topology, trigger and trace (acquisition/controlled.py).  The adapter   *)
(* is the fault-injecting one, whose faults are those of the conformance   *)
(* list; on the physical plane the controller may also be reconfigured     *)
(* between any two steps of the backend.                                   *)
(*                                                                         *)
(* Identities that the code compares as a block are one value here: the    *)
(* immutable provenance (target, firmware, configuration, device, ...) is  *)
(* the field "config".  "measured" is what the device really executed for  *)
(* an acquisition; no check of the code reads it.                          *)
(***************************************************************************)
EXTENDS Naturals, Integers, Sequences

CONSTANTS
    Count,      \* number of samples of the session
    Configs,    \* configurations the controller can be in
    MaxChanges  \* bound on reconfigurations and restarts

ASSUME CountAssumption == Count \in Nat \ {0}
ASSUME ChangesAssumption == MaxChanges \in Nat

Wrong == 1000                   \* an identity no command carries
Changed == "changed"            \* a configuration no controller reports
NONE == "none"
ASSUME ConfigsAssumption == {Changed, NONE} \cap Configs = {}

Faults == {"none", "wrong_command_id", "wrong_sequence_id",
    "trigger_before_command", "trigger_after_completion",
    "wrong_trigger_identity", "command_clock_mismatch",
    "sampling_clock_mismatch", "stale_acquisition", "duplicate_channel_ids",
    "missing_calibration_id", "malformed_channel_kind",
    "unsupported_with_acquisition", "unsupported_reported_complete",
    "failed_with_acquisition", "complete_without_acquisition",
    "trace_shape_mismatch", "changed_controller_config",
    "changed_firmware_identity", "changed_target_identity",
    "topology_without_hardware_source",
    "hardware_topology_without_concrete_fields",
    "virtual_address_derived_topology", "replayed_earlier_command",
    "controller_shutdown"}

ImmutableFaults == {"changed_controller_config", "changed_firmware_identity",
    "changed_target_identity"}

VARIABLES
    plane,      \* "mock" or "physical"
    fault,      \* the fault the adapter injects
    device,     \* the controller's current configuration
    pc,         \* where the backend is
    initial,    \* the first immutable provenance this process saw, or NONE
    seen,       \* the immutable provenance read for the current command
    last,       \* <<>> or the adapter's last result
    issued,     \* results this adapter object returned
    answer,     \* the result under examination
    rows,       \* accepted rows, in order
    persisted,  \* identity run.json holds, for the resume decision
    changes     \* reconfigurations and restarts so far

cvars == <<plane, fault, device, pc, initial, seen, last, issued, answer,
           rows, persisted, changes>>

-----------------------------------------------------------------------------
(* The typed records.                                                      *)

Channel == [id |-> 0, kind |-> "digital", sampling |-> "sampling",
            calibrated |-> TRUE]

\* Hardware topology is concrete exactly when its source is the controller.
HardwareTopology == [source |-> "controlled_hardware", concrete |-> {"row"}]
NoTopology == [source |-> "unavailable", concrete |-> {}]
Topology == IF plane = "physical" THEN HardwareTopology ELSE NoTopology

CommandOf(i) == [id |-> i, seq |-> i, clock |-> "command", issued |-> 10 * i]

Acquire(c, cfg) == [seq |-> c.seq, trigger |-> "trigger", ticks |-> c.issued,
    clock |-> "sampling", channels |-> <<Channel>>, shape |-> TRUE,
    measured |-> [index |-> c.id, config |-> cfg]]

ProvenanceOf(cfg, seq) == [config |-> cfg, trigger |-> "trigger",
    clock |-> "command", sampling |-> "sampling", seq |-> seq]

\* What a correct controller answers.
Delegate(c, cfg) == [command |-> c, status |-> "complete", failure |-> FALSE,
    topology |-> Topology, provenance |-> ProvenanceOf(cfg, c.seq),
    completed |-> c.issued, acquisition |-> <<Acquire(c, cfg)>>]

\* ControlledMemoryTopology.validate
TopologyValid(t) ==
    /\ t.source \in {"controlled_hardware", "unavailable"}
    /\ (t.source = "controlled_hardware") = (t.concrete # {})

\* ControlledTraceAcquisition.validate, with its channels
AcquisitionValid(a) ==
    /\ a.ticks >= 0
    /\ a.channels # <<>>
    /\ \A i \in DOMAIN a.channels :
          /\ a.channels[i].kind \in {"analog", "digital"}
          /\ a.channels[i].calibrated
          /\ a.channels[i].sampling = a.clock
    /\ \A i, j \in DOMAIN a.channels :
          i # j => a.channels[i].id # a.channels[j].id

TraceBoundLate(r, a) ==   \* mutant: the trigger may follow the completion
    /\ a.ticks >= r.command.issued
    /\ a.seq = r.command.seq
    /\ a.trigger = r.provenance.trigger
    /\ \A i \in DOMAIN a.channels :
          a.channels[i].sampling = r.provenance.sampling

\* The part of ControlledCommandResult.validate that binds a trace acquisition
\* to the command and the provenance it is returned with.
TraceBound(r, a) ==
    /\ a.ticks >= r.command.issued
    /\ a.ticks <= r.completed
    /\ a.seq = r.command.seq
    /\ a.trigger = r.provenance.trigger
    /\ \A i \in DOMAIN a.channels :
          a.channels[i].sampling = r.provenance.sampling

\* ControlledCommandResult.validate
ResultValid(r) ==
    /\ r.status \in {"complete", "unsupported", "failed"}
    /\ TopologyValid(r.topology)
    /\ r.completed >= r.command.issued
    /\ r.command.clock = r.provenance.clock
    /\ r.provenance.seq = r.command.seq
    /\ IF r.status = "complete"
       THEN /\ r.acquisition # <<>>
            /\ ~r.failure
            /\ AcquisitionValid(r.acquisition[1])
            /\ TraceBound(r, r.acquisition[1])
       ELSE r.acquisition = <<>> /\ r.failure

-----------------------------------------------------------------------------
(* The fault-injecting adapter.                                            *)

ChannelWith(field, value) == [Channel EXCEPT ![field] = value]

\* FaultInjectingControlledInterface.issue on a valid answer r
Injected(r) ==
    LET a == r.acquisition[1]
        With(b) == [r EXCEPT !.acquisition = <<b>>]
    IN CASE fault = "stale_acquisition" /\ last # <<>> ->
              [r EXCEPT !.acquisition = last[1].acquisition]
         [] fault = "wrong_command_id" -> [r EXCEPT !.command.id = Wrong]
         [] fault = "wrong_sequence_id" -> [r EXCEPT !.command.seq = Wrong]
         [] fault = "trigger_before_command" ->
              With([a EXCEPT !.ticks = r.command.issued - 1])
         [] fault = "trigger_after_completion" ->
              With([a EXCEPT !.ticks = r.completed + 1])
         [] fault = "wrong_trigger_identity" ->
              [r EXCEPT !.provenance.trigger = "wrong"]
         [] fault = "command_clock_mismatch" ->
              [r EXCEPT !.command.clock = "wrong"]
         [] fault = "sampling_clock_mismatch" ->
              With([a EXCEPT !.channels = <<ChannelWith("sampling", "wrong")>>])
         [] fault = "duplicate_channel_ids" ->
              With([a EXCEPT !.channels = <<Channel, Channel>>])
         [] fault = "missing_calibration_id" ->
              With([a EXCEPT !.channels = <<ChannelWith("calibrated", FALSE)>>])
         [] fault = "malformed_channel_kind" ->
              With([a EXCEPT !.channels = <<ChannelWith("kind", "malformed")>>])
         [] fault = "unsupported_with_acquisition" ->
              [r EXCEPT !.status = "unsupported", !.failure = TRUE]
         [] fault = "unsupported_reported_complete" ->
              [r EXCEPT !.failure = TRUE]
         [] fault = "failed_with_acquisition" ->
              [r EXCEPT !.status = "failed", !.failure = TRUE]
         [] fault = "complete_without_acquisition" ->
              [r EXCEPT !.acquisition = <<>>]
         [] fault \in ImmutableFaults /\ issued >= 1 ->
              [r EXCEPT !.provenance.config = Changed]
         [] OTHER -> r

Replays == fault = "replayed_earlier_command" /\ last # <<>>

\* FaultInjectingControlledInterface.topology_for
LookedUp ==
    CASE fault = "topology_without_hardware_source" ->
           [source |-> "unavailable", concrete |-> {"row"}]
      [] fault = "hardware_topology_without_concrete_fields" ->
           [source |-> "controlled_hardware", concrete |-> {}]
      [] fault = "virtual_address_derived_topology" ->
           [source |-> "controlled_hardware", concrete |-> {"derived"}]
      [] OTHER -> Topology

-----------------------------------------------------------------------------
(* The backend.                                                            *)

Init ==
    /\ plane \in {"mock", "physical"}
    /\ fault \in Faults
    /\ device \in Configs
    /\ pc = "ready" /\ initial = NONE /\ seen = NONE
    /\ last = <<>> /\ issued = 0 /\ answer = <<>>
    /\ rows = <<>> /\ persisted = device /\ changes = 0

NextIndex == Len(rows)

\* The world outside: a controller on the physical plane is reconfigured.
\* The mock's configuration is fixed for the life of its object.
Reconfigure ==
    /\ plane = "physical" /\ changes < MaxChanges
    /\ pc \notin {"refused", "closed"}
    /\ \E c \in Configs \ {device} : device' = c
    /\ changes' = changes + 1
    /\ UNCHANGED <<plane, fault, pc, initial, seen, last, issued, answer,
                   rows, persisted>>

\* Immutable provenance may not differ from the first one this object read.
Unchanged(first, now) == first = NONE \/ first = now

\* samples(): read and check the provenance, build the command.
BeginSample ==
    /\ pc = "ready" /\ NextIndex < Count
    /\ IF Unchanged(initial, device)
       THEN /\ initial' = IF initial = NONE THEN device ELSE initial
            /\ seen' = device
            /\ pc' = "commanded"
       ELSE /\ pc' = "refused"
            /\ UNCHANGED <<initial, seen>>
    /\ UNCHANGED <<plane, fault, device, last, issued, answer, rows,
                   persisted, changes>>

\* samples(): interface.issue(command)
Issue ==
    /\ pc = "commanded"
    /\ IF fault = "controller_shutdown"
       THEN pc' = "refused" /\ UNCHANGED <<last, issued, answer>>
       ELSE /\ pc' = "answered"
            /\ LET r == IF Replays THEN last[1]
                        ELSE Injected(Delegate(CommandOf(NextIndex), device))
               IN  answer' = <<r>> /\ last' = <<r>>
            /\ issued' = IF Replays THEN issued ELSE issued + 1
    /\ UNCHANGED <<plane, fault, device, initial, seen, rows, persisted,
                   changes>>

TraceShapeOK(r) == fault # "trace_shape_mismatch"

SameCommand(r, c) == r.command = c

\* The checks between the answer and the row.
Acceptable(r, c) ==
    /\ ResultValid(r)
    /\ SameCommand(r, c)
    /\ r.provenance.config = seen
    /\ TopologyValid(LookedUp)
    /\ r.topology = LookedUp
    /\ r.status = "complete"
    /\ TraceShapeOK(r)

RowOf(r) == [command |-> r.command, provenance |-> r.provenance,
    topology |-> r.topology, acquisition |-> r.acquisition[1], result |-> r,
    columns |-> [seq |-> r.command.seq, config |-> r.provenance.config,
                 trigger |-> r.acquisition[1].trigger,
                 source |-> r.topology.source]]

\* samples(): validate, compare, look the token up, read the trace, yield.
Examine ==
    /\ pc = "answered"
    /\ IF Acceptable(answer[1], CommandOf(NextIndex))
       THEN pc' = "ready" /\ rows' = Append(rows, RowOf(answer[1]))
       ELSE pc' = "refused" /\ UNCHANGED rows
    /\ answer' = <<>>
    /\ UNCHANGED <<plane, fault, device, initial, seen, last, issued,
                   persisted, changes>>

IdentityIgnored(now) == TRUE  \* mutant: resume without comparing

\* The identity of a resumed mock run must equal the persisted one.
IdentityKept(now) == persisted = now
\* The process dies between samples and is started again, perhaps with
\* another configuration.  Only the mock backend allows resume.
Restart ==
    /\ changes < MaxChanges
    /\ pc \in {"ready", "commanded", "answered"} /\ NextIndex < Count
    /\ changes' = changes + 1
    /\ IF plane = "mock"
       THEN \E c \in Configs :
              /\ device' = c
              /\ pc' = IF IdentityKept(c) THEN "ready" ELSE "refused"
       ELSE pc' = "refused" /\ UNCHANGED device
    /\ initial' = NONE /\ seen' = NONE /\ last' = <<>> /\ issued' = 0
    /\ answer' = <<>>
    /\ UNCHANGED <<plane, fault, rows, persisted>>

AcquisitionNext ==
    Reconfigure \/ BeginSample \/ Issue \/ Examine \/ Restart

-----------------------------------------------------------------------------
(* What the rows promise.                                                  *)

\* All rows of a session were measured under one controller configuration,
\* although the controller may be reconfigured between any two steps and the
\* mock process restarted with another one.
OneConfiguration ==
    \A i, j \in DOMAIN rows :
        rows[i].acquisition.measured.config = rows[j].acquisition.measured.config

\* A fault that changed an answer never leaves a row behind: each row's result
\* is what a correct controller would have said under that configuration.
FaultsLeaveNoRow ==
    \A i \in DOMAIN rows :
        rows[i].result = Delegate(CommandOf(i - 1),
                                  rows[i].acquisition.measured.config)

=============================================================================
