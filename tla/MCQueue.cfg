SPECIFICATION QSpec
CONSTANTS
    n_reader = 1
    max_chunks = 2
    Words = 1
    MaxMsg = 4
    FaultSets <- MCFaultSets
INVARIANTS
    BacklogBounded
PROPERTIES
    DequeueReturnsNext
    EveryoneGetsEverything
    ShutdownEndsDequeue
CHECK_DEADLOCK FALSE
