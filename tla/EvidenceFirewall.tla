--------------------------- MODULE EvidenceFirewall ---------------------------
(***************************************************************************)
(* From the accepted rows of a controlled session to a dataset and back:   *)
(* the runner reads the manifest provenance and the session ledger from    *)
(* the backend and publishes them (runner.py, datasets.py), one stored     *)
(* copy may be wrong, and load_dataset decides whether the dataset is      *)
(* evidence for the purpose its caller expects.                            *)
(***************************************************************************)
EXTENDS ControlledInterface

VARIABLES
    provenance, \* <<>> or what manifest_provenance returned
    dataset,    \* <<>> or the published dataset
    altered,    \* the site of the stored copy that was changed, or NONE
    attested,   \* <<>> or the attestation the adapter supplies
    verdict     \* "none", or the purpose that accepted it, or "refused"

evars == <<provenance, dataset, altered, attested, verdict>>
vars == <<cvars, evars>>

Session == "s0"

PurposeOf(p) == IF p = "physical" THEN "physical_controlled_hardware"
                ELSE "phase2_mock_controlled"
InterfaceOf(p) == IF p = "physical" THEN "controlled-memory-interface-v1"
                  ELSE "controlled-memory-interface-mock-v1"
CapabilitiesOf(p) == [interface |-> InterfaceOf(p), read |-> TRUE,
    topology |-> IF p = "physical" THEN "controlled_hardware" ELSE "unavailable"]

\* ControlledAdapterAttestation.validate(require_physical=True)
AttestationValid(a) == a.authority = "controlled_hardware" /\ a.capable

Attestations == {<<>>} \cup
    {<<[config |-> c, session |-> s, authority |-> t, capable |-> TRUE]>> :
        c \in Configs, s \in {Session, "other"}, t \in {"controlled_hardware"}}
    \cup {<<[config |-> c, session |-> Session, authority |-> "unavailable",
             capable |-> TRUE]>> : c \in Configs}

FirewallInit ==
    /\ Init
    /\ provenance = <<>> /\ dataset = <<>> /\ altered = NONE
    /\ attested \in Attestations /\ verdict = "none"

\* manifest_provenance(): only the physical plane asks for an attestation.  The
\* configuration is written three times, as a field of its own, as
\* controller_configuration_hash and within provenance_contract.
ManifestProvenance ==
    /\ pc = "ready" /\ NextIndex = Count /\ provenance = <<>>
    /\ IF plane = "physical" /\ attested # <<>> /\ ~AttestationValid(attested[1])
       THEN pc' = "refused" /\ UNCHANGED provenance
       ELSE /\ provenance' = <<[plane |-> plane, purpose |-> PurposeOf(plane),
                 interface |-> InterfaceOf(plane), config |-> device,
                 hash |-> device, snapshot |-> device,
                 capabilities |-> CapabilitiesOf(plane),
                 contract |-> plane = "physical",
                 topology |-> IF plane = "physical" THEN "absent" ELSE "unavailable",
                 tier |-> IF plane = "physical" /\ attested # <<>>
                          THEN "adapter_attested_physical"
                          ELSE "internally_consistent",
                 attestation |-> IF plane = "physical" THEN attested ELSE <<>>]>>
            /\ UNCHANGED pc
    /\ UNCHANGED <<plane, fault, device, initial, seen, last, issued, answer,
                   rows, persisted, changes, dataset, altered, attested, verdict>>

LedgerOf(cfg) == [session |-> Session, status |-> "completed",
    interface |-> InterfaceOf(plane), config |-> cfg,
    capabilities |-> CapabilitiesOf(plane)]

\* Beside the serialized objects and the columns the reader compares, a row says
\* its place again (bank_id, row_id, cell_or_offset_id) and its session's name
\* (session_id beside acquisition_session_id).
StoredRow(r) == [command |-> r.command, provenance |-> r.provenance,
    topology |-> r.topology, acquisition |-> r.acquisition,
    result |-> r.result, columns |-> r.columns, session |-> Session,
    place |-> r.topology.concrete, alias |-> Session]

\* session_provenance() is read after manifest_provenance(), then
\* write_dataset_manifest publishes both beside the shards.
Publish ==
    /\ pc = "ready" /\ provenance # <<>>
    /\ pc' = "closed"
    /\ dataset' = <<[purpose |-> provenance[1].purpose,
            identity |-> provenance[1].interface, provenance |-> provenance[1],
            contract |-> provenance[1].contract,
            capabilities |-> provenance[1].capabilities,
            backend |-> IF plane = "physical" THEN "controlled_hardware"
                        ELSE "controlled_mock",
            ledgers |-> <<LedgerOf(device)>>,
            rows |-> [i \in DOMAIN rows |-> StoredRow(rows[i])]]>>
    /\ UNCHANGED <<plane, fault, device, initial, seen, last, issued, answer,
                   rows, persisted, changes, provenance, altered, attested,
                   verdict>>

\* External: one stored copy differs from what was published.  "relabel"
\* rewrites every claim of the manifest and the ledger as physical.
Sites == {"purpose", "provenance", "contract", "capabilities", "ledger",
          "ledger status", "ledger session", "columns", "row provenance",
          "row command", "row topology", "row acquisition", "row session",
          "configuration hash", "provenance contract", "evidence source",
          "row place", "row alias", "relabel"}

AlterRow(d, r) == [d EXCEPT !.rows[1] = r]

Physical(d) == [d EXCEPT !.purpose = PurposeOf("physical"),
    !.identity = InterfaceOf("physical"), !.contract = TRUE,
    !.backend = "controlled_hardware",
    !.capabilities = CapabilitiesOf("physical"),
    !.provenance = [@ EXCEPT !.plane = "physical",
        !.purpose = PurposeOf("physical"), !.interface = InterfaceOf("physical"),
        !.contract = TRUE, !.capabilities = CapabilitiesOf("physical")],
    !.ledgers[1] = [@ EXCEPT !.interface = InterfaceOf("physical"),
                             !.capabilities = CapabilitiesOf("physical")]]

AlteredAt(site, d) ==
    LET row == d.rows[1]
    IN CASE site = "purpose" -> [d EXCEPT !.purpose = "generic"]
         [] site = "provenance" -> [d EXCEPT !.provenance.config = Changed]
         [] site = "contract" -> [d EXCEPT !.contract = ~@]
         [] site = "capabilities" -> [d EXCEPT !.capabilities.read = FALSE]
         [] site = "ledger" -> [d EXCEPT !.ledgers[1].config = Changed]
         [] site = "ledger status" -> [d EXCEPT !.ledgers[1].status = "active"]
         [] site = "ledger session" -> [d EXCEPT !.ledgers[1].session = "other"]
         [] site = "columns" -> AlterRow(d, [row EXCEPT !.columns.config = Changed])
         [] site = "row provenance" ->
              AlterRow(d, [row EXCEPT !.provenance.config = Changed])
         [] site = "row command" -> AlterRow(d, [row EXCEPT !.command.seq = Wrong])
         [] site = "row topology" ->
              AlterRow(d, [row EXCEPT !.topology.concrete = {"row", "bank"}])
         [] site = "row acquisition" ->
              AlterRow(d, [row EXCEPT !.acquisition.trigger = "wrong"])
         [] site = "row session" -> AlterRow(d, [row EXCEPT !.session = "other"])
         [] site = "configuration hash" -> [d EXCEPT !.provenance.hash = Changed]
         [] site = "provenance contract" -> [d EXCEPT !.provenance.snapshot = Changed]
         [] site = "evidence source" ->
              [d EXCEPT !.provenance.tier = "adapter_attested_physical"]
         [] site = "row place" -> AlterRow(d, [row EXCEPT !.place = {"bank"}])
         [] site = "row alias" -> AlterRow(d, [row EXCEPT !.alias = "other"])
         [] OTHER -> Physical(d)

Alter ==
    /\ dataset # <<>> /\ altered = NONE /\ verdict = "none"
    /\ \E site \in Sites :
          /\ altered' = site
          /\ dataset' = <<AlteredAt(site, dataset[1])>>
          /\ dataset' # dataset
    /\ UNCHANGED <<cvars, provenance, attested, verdict>>

-----------------------------------------------------------------------------
(* load_dataset                                                            *)

HardwareUnchecked(row) == TRUE  \* mutant: the manifest's word is enough

HardwareSourced(row) ==
    row.topology.source = "controlled_hardware" /\ row.topology.concrete # {}

\* _decode_controlled_result: the stored result is rebuilt and validated.
Decodes(row) == ResultValid(row.result) /\ TopologyValid(row.topology)
                /\ AcquisitionValid(row.acquisition)

LedgerNotCompared(row, ledger) == TRUE  \* mutant: rows are not held to the ledger

LedgerAgrees(row, ledger) == row.provenance.config = ledger.config

\* _validate_physical_row
PhysicalRow(row, ledgers) ==
    /\ HardwareSourced(row)
    /\ row.result.command = row.command
    /\ row.result.provenance = row.provenance
    /\ row.result.topology = row.topology
    /\ row.result.acquisition = <<row.acquisition>>
    /\ row.columns = [seq |-> row.command.seq, config |-> row.provenance.config,
                      trigger |-> row.acquisition.trigger,
                      source |-> row.topology.source]
    /\ row.provenance.seq = row.command.seq
    /\ row.command.clock = row.provenance.clock
    /\ row.acquisition.seq = row.command.seq
    /\ row.acquisition.trigger = row.provenance.trigger
    /\ \E k \in DOMAIN ledgers :
          ledgers[k].session = row.session /\ LedgerAgrees(row, ledgers[k])

\* _validate_physical_controlled_dataset, before the rows
PhysicalClaims(d) ==
    /\ d.purpose = "physical_controlled_hardware"
    /\ d.backend = "controlled_hardware"
    /\ d.contract /\ d.provenance.contract
    /\ d.identity = InterfaceOf("physical")
    /\ d.provenance.purpose = d.purpose
    /\ d.provenance.interface = d.identity
    /\ d.provenance.plane = "physical"
    /\ d.provenance.capabilities = CapabilitiesOf("physical")
    /\ d.capabilities = d.provenance.capabilities

\* ... the source session ledgers
PhysicalLedgers(d) ==
    /\ d.ledgers # <<>>
    /\ \A k \in DOMAIN d.ledgers :
          /\ d.ledgers[k].status = "completed"
          /\ d.ledgers[k].interface = d.provenance.interface
          /\ d.ledgers[k].config = d.provenance.config
          /\ d.ledgers[k].capabilities = d.provenance.capabilities
    /\ \A i, j \in DOMAIN d.ledgers :
          i # j => d.ledgers[i].session # d.ledgers[j].session

PhysicalAccepts(d) ==
    /\ PhysicalClaims(d)
    /\ PhysicalLedgers(d)
    /\ \A i \in DOMAIN d.rows :
          Decodes(d.rows[i]) /\ PhysicalRow(d.rows[i], d.ledgers)

\* The keyword arguments of require_adapter_attestation are read from the
\* manifest provenance; the backend writes the provenance contract's fields,
\* which contain neither "controller_identity" nor "host_inventory_fingerprint".
ProvenanceFields == {"experiment_target_id", "controller_firmware_id",
    "controller_config_hash", "device_identity", "dimm_identity",
    "calibration_state", "hardware_clock_id", "sampling_clock_id",
    "acquisition_trigger", "trigger_identity"}
BindingFields == {"controller_identity", "controller_firmware_id",
    "controller_config_hash", "experiment_target_id",
    "host_inventory_fingerprint"}

\* require_adapter_attestation and binds_to
AttestationBinds(d) ==
    /\ BindingFields \subseteq ProvenanceFields
    /\ d.provenance.tier = "adapter_attested_physical"
    /\ d.provenance.attestation # <<>>
    /\ LET a == d.provenance.attestation[1]
       IN  /\ AttestationValid(a)
           /\ a.config = d.provenance.config
           /\ a.session = d.ledgers[1].session

\* _validate_phase2_mock_dataset
MockAccepts(d) ==
    /\ d.provenance.purpose = "phase2_mock_controlled"
    /\ d.provenance.plane = "mock"
    /\ d.provenance.interface = InterfaceOf("mock")
    /\ d.provenance.topology = "unavailable"
    /\ \A i \in DOMAIN d.rows :
          /\ d.rows[i].columns.source = "unavailable"
          /\ d.rows[i].topology.source = "unavailable"
          /\ d.rows[i].columns.config = d.provenance.hash

\* _validate_allocation_provenance, after every purpose
LedgersFinished(d) ==
    \A k \in DOMAIN d.ledgers :
        d.ledgers[k].status \notin {"active", "interrupted", "incomplete"}

Purposes == {"physical_controlled_hardware", "attested",
             "phase2_mock_controlled", "any"}

Accepts(purpose, d) ==
    /\ CASE purpose = "physical_controlled_hardware" -> PhysicalAccepts(d)
         [] purpose = "attested" -> PhysicalAccepts(d) /\ AttestationBinds(d)
         [] OTHER -> /\ purpose = "any" \/ d.purpose = purpose
                     /\ d.purpose = "phase2_mock_controlled" => MockAccepts(d)
    /\ LedgersFinished(d)

Load ==
    /\ dataset # <<>> /\ verdict = "none"
    /\ \E purpose \in Purposes :
          verdict' = IF Accepts(purpose, dataset[1]) THEN purpose
                     ELSE IF purpose = "attested" THEN "unattested" ELSE "refused"
    /\ UNCHANGED <<cvars, provenance, dataset, altered, attested>>

Stopped ==
    /\ pc = "refused" \/ verdict # "none"
    /\ UNCHANGED vars

Next ==
    \/ AcquisitionNext /\ provenance = <<>> /\ UNCHANGED evars
    \/ Reconfigure /\ provenance # <<>> /\ dataset = <<>> /\ UNCHANGED evars
    \/ ManifestProvenance \/ Publish \/ Alter \/ Load \/ Stopped

Spec == FirewallInit /\ [][Next]_vars

-----------------------------------------------------------------------------

\* The copies that no reader of physical evidence compares with anything: the
\* backend writes them (controlled.py:776-779, 858 and 864-866), and
\* _validate_physical_controlled_dataset reads others in their stead.
Uncompared == {"configuration hash", "provenance contract", "evidence source",
               "row place", "row alias"}

\* A dataset accepted as physical controlled-hardware evidence has the claim
\* its rows were measured under: the configuration of its provenance is the one
\* the controller had at every row, also when the controller was reconfigured
\* between the last row, the manifest and the session ledger, and no stored
\* copy of an identity but an uncompared one was changed alone
\* (_validate_physical_controlled_dataset).
AcceptedClaimsHold ==
    verdict = "physical_controlled_hardware" =>
        /\ altered \in {NONE} \cup Uncompared
        /\ \A i \in DOMAIN rows : rows[i].acquisition.measured.config =
                                  dataset[1].provenance.config

\* "Every duplicated identity is checked against the serialized typed objects
\* and the session ledgers before this boundary returns successfully"
\* (datasets.py:203): evidence is accepted only when no copy was changed.  Each
\* of the uncompared copies refutes it.
EveryCopyIsChecked ==
    verdict = "physical_controlled_hardware" => altered = NONE

\* "The manifest is a claim about the rows, not an authority that can upgrade
\* them": no rewriting of manifest and ledger makes mock rows physical evidence
\* (datasets.py:203), and the mock boundary accepts nothing measured physically.
PlanesNeverCross ==
    /\ verdict = "physical_controlled_hardware" => plane = "physical"
    /\ verdict = "phase2_mock_controlled" => plane = "mock"

\* "New physical claims require an explicit controlled-adapter-attestation-v1
\* record bound to the controller, ... session, and host inventory"
\* (DATASET.md:52): a session whose adapter supplied one, valid and for this very
\* session and configuration, is accepted by the boundary that requires it.
AttestedEvidenceLoads ==
    verdict = "unattested" /\ altered = NONE /\ plane = "physical"
        /\ PhysicalAccepts(dataset[1]) =>
        ~ /\ attested # <<>>
          /\ attested[1].config = device
          /\ attested[1].session = Session

=============================================================================
