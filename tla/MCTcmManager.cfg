CONSTANTS
    AddressLimit = 32
    MaxAllocations = 3
    t1 = t1
    t2 = t2
    t3 = t3
    Threads <- MCThreads
    Cpus <- MCCpus
    FirstCpu = 1
    CpuCount = 2
    ArenaCounts = {1, 2}
    MapBase = 10
    ArenaBytes = 4
    Bytes = 2
    Alignment = 2
    Share <- MCShare
    Null = Null
    Observed = 0
SPECIFICATION FairSpec
INVARIANT ScratchPrivate
INVARIANT HoldersMatchTable
INVARIANT ReturnedWhole
INVARIANT ExhaustedMeansFull
PROPERTY ImplementsArena
PROPERTY WorkersFinish
