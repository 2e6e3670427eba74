SPECIFICATION MainSpec
CONSTANTS
    SpanArguments <- MCSpanArguments
    BlocksArguments <- MCBlocksArguments
    CpuLists <- MCCpuLists
    samples = 3
    Figures = {1, 2}
INVARIANTS
    WorkersReadTheirOwn
    BestIsReported
    ReleasedOnce
