\* One trajectory of three steps on two pressure cores, with two pressure events and
\* a failure or a late worker wherever the code meets one.
SPECIFICATION CaptureSpec
CONSTANTS
    Cores = {0, 1}
    Steps = 3
    Events = 2
INVARIANTS
    MeasuredUnderPressure
    NoPressureOutsideItsPhase
    OperationRunsOnce
    ResourcesReleased
PROPERTIES
    TrajectoryEnds
