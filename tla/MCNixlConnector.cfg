SPECIFICATION Spec
CONSTANTS
    r1 = r1
    r2 = r2
    Request <- MCRequest
    Deployments <- MCDeployments
CHECK_DEADLOCK FALSE
INVARIANTS
    
    
    RunsOnReceivedKV
    

    
