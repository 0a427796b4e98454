SPECIFICATION Spec
CONSTANTS
    n_reader = 2
    max_chunks = 2
    Words = 2
    MaxMsg = 4
INVARIANTS
    ReadsNextWhole
    RingInv
PROPERTIES
    ImplementsBroadcast
