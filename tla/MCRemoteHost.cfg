\* Two calls of a client on one remote host that boots up to three times; a call may
\* fail or stay unanswered at every command, and a client may give up in the middle.
SPECIFICATION Spec
CONSTANTS
    MaxBoot = 3
    MaxCalls = 2
    Cycles = 2
INVARIANTS
    OneScope
    AcceptedBootsDiffer
    ClaimRestsOnDistinctBoots
PROPERTIES
    LiveConfigKept
    OperationsEnd
CHECK_DEADLOCK FALSE
