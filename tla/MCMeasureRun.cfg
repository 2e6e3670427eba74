CONSTANTS
    Cpus = {c1, c2, c3}
    Samples = 2
SPECIFICATION FairSpec
INVARIANT QuietMeasurement
INVARIANT AcceptedMeansTogether
INVARIANT NobodyLeftBehind
PROPERTY EverySampleEnds
