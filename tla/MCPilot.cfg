\* One pilot, its observer process and its worker thread, with every outcome of the
\* kernel and of bpftrace, over three units of time and two kernel events.
SPECIFICATION PilotSpec
CONSTANTS
    Uncertainty = 1
    MaxTime = 3
    MaxEvents = 2
INVARIANTS
    CleanIsWitnessed
    ObserverReaped
PROPERTIES
    PilotEnds
