SPECIFICATION Spec
CONSTANTS
    world_size = 2
    MaxCalls = 3
    Scenarios <- MCScenarios

    
PROPERTIES
    
    EngineInformed
CHECK_DEADLOCK FALSE
