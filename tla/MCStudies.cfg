\* Every score, session set and metadata over small domains, and two writers of one
\* horizon store with three reports of which two share their splits.
SPECIFICATION Spec
CONSTANTS
    Scores = {0, 1, 20}
    Magnitudes = {0, 32, 512}
    NullReplicates = 4
    DevReplicates = 2
    FreshReplicates = 2
    Alphas = {10, 40}
    TargetPower = 80
    Modes = {m1, m2}
    ModeReplicates = 2
    ModeFresh = 1
    GateAlpha = 30
    TargetDetection = 80
    SampleCounts = {2, 4}
    MaxCalls = 2
    s1 = s1  s2 = s2  s3 = s3  s4 = s4  s5 = s5  t1 = t1
    SessionSets <- MCSessionSets
    ConfirmSessions <- MCConfirmSessions
    Metadatas <- MCMetadatas
    Length = 5
    HistoryLength = 2
    Ahead = 1
    Block = 2
    Writers = {w1, w2}
    r1 = r1  r2 = r2  r3 = r3
    Reports = {r1, r2, r3}
    SplitsOf <- MCSplitsOf
INVARIANTS
    ThresholdIsPlusOne
    DetectionsArePositives
    FreshStreamsAreNew
    HeldOutStaysOut
    FeaturesEndAtOrigin
    LoadsAsOneAnalysis
CHECK_DEADLOCK FALSE
