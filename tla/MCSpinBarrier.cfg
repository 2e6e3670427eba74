CONSTANTS
    Threads = {t1, t2, t3, t4}
    Waits = 5
    GenerationLimit = 2
SPECIFICATION FairSpec
INVARIANT NoEarlyLeave
INVARIANT NoGenerationReuse
PROPERTY ImplementsContract
PROPERTY EveryonePasses
