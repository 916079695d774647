\* A run that is started three times, by callers that may change the configuration,
\* pass a limit or meet another backend, and dies up to twice.  Of the two backends
\* one can be resumed, the other is physical and cannot.
SPECIFICATION Spec
CONSTANTS
    Malformed = Malformed
    None = None
    Total = 3
    MaxRows = 2
    Configs = {c1, c2}
    Identities = {i1, i2}
    Resumable = {i1}
    StopLimits = {None, 1}
    MaxStarts = 3
    MaxCrashes = 2
    MaxSignals = 1
    MaxGuards = 0
    MaxDamage = 0
INVARIANTS
    EvidenceIsSound
    OneEpochUnlessResumable
PROPERTIES
    MismatchLeavesEvidence
    ImplementsLedger
CHECK_DEADLOCK FALSE
