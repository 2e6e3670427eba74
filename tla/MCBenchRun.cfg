CONSTANTS
    Kernels = {"m4b", "m8b", "upstream"}
    Types <- MCTypes
    TypeOf <- MCTypeOf
    CommandLines <- MCCommandLines
    DeviceTrees <- MCDeviceTrees
    BuildCompatibles = {"spacemit,k1-x"}
    kBuildMaxThreads = 8
    NumberOf <- MCNumberOf
    RawNumbers <- MCRawNumbers
    TokensOf <- MCTokensOf
    RawOf <- MCRawOf
    BlockOf <- MCBlockOf
    MultipleOf <- MCMultipleOf
    Elements = {1, 2}
    Deviations = {"exact", "absolute", "relative", "both", "nan"}
    Elapsed = {0, 1, 3, 5}
    TargetCycles = 4
    BuildTarget = "spacemit-k1-a60"
    Times <- MCTimes
    None = None
SPECIFICATION FairSpec
INVARIANT RunsAsAsked
INVARIANT InputIsComplete
INVARIANT TimedRunIsPure
INVARIANT NothingHeld
INVARIANT FiguresAreSound
INVARIANT ExitTellsAll
PROPERTY Terminates
