\* Three samples under two configurations, two restarts or reconfigurations, every
\* conformance fault, one altered copy and every purpose a reader may expect.
SPECIFICATION Spec
CONSTANTS
    Count = 3
    Configs <- MCConfigs
    MaxChanges = 2
INVARIANTS
    OneConfiguration
    FaultsLeaveNoRow
    AcceptedClaimsHold
    PlanesNeverCross
