CONSTANTS
    r1 = r1
    r2 = r2
    r3 = r3
    h1 = h1
    h2 = h2
    h3 = h3
    Request = {r1, r2, r3}
    Hash = {h1, h2, h3}
    Deployments <- MCDeployments
SPECIFICATION Spec
INVARIANTS  OffloadedKVSound 
PROPERTIES KeepsThePromise 
CHECK_DEADLOCK FALSE
