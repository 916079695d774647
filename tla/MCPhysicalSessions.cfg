\* Two slots of two shards, through three deaths at any point; the condition is
\* materialized again until it succeeds, and may be once more after that.
SPECIFICATION FairSpec
CONSTANTS
    Slots = 2
    Shards = 2
    MaxDirs = 5
    MaxCrashes = 3
INVARIANTS
    SlotsAreSound
PROPERTIES
    InterruptedIsFrozen
    Materializes
CHECK_DEADLOCK FALSE
