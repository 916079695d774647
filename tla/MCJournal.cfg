\* One journal, of a run or of the idle service, through three deaths, with a line
\* that may go bad on disk.
SPECIFICATION Spec
CONSTANTS
    Malformed = Malformed
    MaxRecords = 6
    MaxCrashes = 3
    MaxDamage = 1
INVARIANTS
    NeverCorrupt
    ReturnedRecordsAreKept
PROPERTIES
    CorruptionLeftAlone
CHECK_DEADLOCK FALSE
