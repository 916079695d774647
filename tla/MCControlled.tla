---------------------------- MODULE MCControlled ----------------------------
(* Instance: three samples, two configurations, two reconfigurations or    *)
(* restarts; every conformance fault, plane and attestation.               *)
EXTENDS EvidenceFirewall

MCConfigs == {"c1", "c2"}

=============================================================================
