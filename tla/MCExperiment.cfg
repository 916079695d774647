\* One experiment directory through three calls, of the whole experiment or of one
\* acquisition, with any of three configurations and inventories and two deaths.
SPECIFICATION Spec
CONSTANTS
    Malformed = Malformed
    None = None
    c1 = c1
    c2 = c2
    c3 = c3
    Configs = {c1, c2, c3}
    Hash <- ProtocolHash
    Inventories = {v1, v2, v3}
    Matched = {v1, v2}
    Shards = 2
    MaxCalls = 3
    MaxCrashes = 2
    MaxDeviations = 1
INVARIANTS
    TestEvaluatedOnce
    RecordRestsOnEvidence
PROPERTIES
    EvidenceImmutable
CHECK_DEADLOCK FALSE
