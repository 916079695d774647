---------------------------- MODULE MCExperiment ----------------------------
(* Experiment for TLC: of three configurations two share a protocol hash. *)
EXTENDS Experiment

CONSTANTS c1, c2, c3

ProtocolHash(c) == IF c = c3 THEN 2 ELSE 1

=============================================================================
