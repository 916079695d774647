-------------------------------- MODULE Studies --------------------------------
(***************************************************************************)
(* The studies that draw conclusions from the evidence: the sensitivity    *)
(* calibration, the Phase 0 gate, the analyses with held-out rows, and the *)
(* store of horizon runs.  A study is one invocation that shares nothing   *)
(* with the others but the rules it applies, so a behaviour runs one.      *)
(***************************************************************************)
EXTENDS SensitivityCalibration, Phase0Gate, HeldOut, HorizonStore

studies == <<sensitivity, gate, heldOut, store>>

Init ==
    /\ SensitivityInit
    /\ GateInit
    /\ HeldOutInit
    /\ StoreInit

NoSensitivity == stage = "idle"
NoGate == calls = 0
NoHeldOut == analysis.stage = "idle"
NoStore == \A w \in Writers : writer[w].at = "idle"

Next ==
    \/ NoGate /\ NoHeldOut /\ NoStore /\ SensitivityNext /\ UNCHANGED <<gate, heldOut, store>>
    \/ NoSensitivity /\ NoHeldOut /\ NoStore /\ GateNext
       /\ UNCHANGED <<sensitivity, heldOut, store>>
    \/ NoSensitivity /\ NoGate /\ NoStore /\ HeldOutNext
       /\ UNCHANGED <<sensitivity, gate, store>>
    \/ NoSensitivity /\ NoGate /\ NoHeldOut /\ StoreNext
       /\ UNCHANGED <<sensitivity, gate, heldOut>>

Spec == Init /\ [][Next]_studies

----------------------------------------------------------------------------

\* Neither calibration validates on what it was developed on: the streams of
\* seeds it draws its fresh replicates from are disjoint from those of its
\* development ensembles, and, for the gate, from those of the power study
\* that fixed the sample count.
FreshStreamsAreNew ==
    /\ streams.fresh \cap streams.development = {}
    /\ drawn.fresh \cap (drawn.development \cup drawn.candidate) = {}

=============================================================================
