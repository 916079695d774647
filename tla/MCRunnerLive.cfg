\* A run is started again until it completes, through deaths, a stop by the storage
\* guard and a payload that goes bad; MaxStarts exceeds these by one.
SPECIFICATION FairSpec
CONSTANTS
    Malformed = Malformed
    None = None
    Total = 2
    MaxRows = 2
    Configs = {c1}
    Identities = {i1}
    Resumable = {i1}
    StopLimits = {None}
    MaxStarts = 5
    MaxCrashes = 2
    MaxSignals = 0
    MaxGuards = 1
    MaxDamage = 1
PROPERTIES
    SamplesKeptOnce
    ResumesToCompletion
CHECK_DEADLOCK FALSE
