\* Four calls on one worker: a migration that fails after its copy, a reset of the user
\* scope, an authorization of sudo and another migration.
SPECIFICATION Spec
CONSTANTS
    MaxBoot = 1
    MaxCalls = 4
    Cycles = 1
PROPERTIES
    ReplacedOnRequest
CHECK_DEADLOCK FALSE
