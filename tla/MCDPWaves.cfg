SPECIFICATION Spec
CONSTANTS
    r1 = r1
    r2 = r2
    c1 = c1
    c2 = c2
    dp_size = 2
    Client <- MCClient
    Request <- MCRequest
    steps <- MCSteps
    sync_interval = 2
    Scenarios <- MCScenarios
CHECK_DEADLOCK FALSE
INVARIANTS
    EnginesInStep
    EveryoneKnowsThePause
PROPERTIES
    EveryWaveEnds
