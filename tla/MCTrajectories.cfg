\* A campaign of four trajectories through three deaths; its owner comes back to it,
\* a caller with another contract may come in between.
SPECIFICATION FairSpec
CONSTANTS
    Malformed = Malformed
    None = None
    Planned = 4
    Contracts = {c1, c2}
    MaxCrashes = 3
INVARIANTS
    WorkIsKept
PROPERTIES
    ResumesWhileLoadable
CHECK_DEADLOCK FALSE
