SPECIFICATION Spec
CONSTANTS
    world_size = 2
    MaxCalls = 2
    Scenarios <- MCFailAll
INVARIANTS
    AnswersOwnCall
CHECK_DEADLOCK FALSE
