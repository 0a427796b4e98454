SPECIFICATION Spec
CONSTANTS
    Block = {1, 2, 3}
    NullBlock = 0
    NoHash = NoHash
    BlockSize = 2
    Deployments <- MCDeployments
    Request = {r1, r2}
    Token = {0, 1}
    Sampled = {0}
SYMMETRY Symmetry
INVARIANTS
    NoAssertionFires
    RefCountsExact
    CacheSound
    AttentionReadsOwnKV
    WritesHarmless
    TailEvictedFirst
    CommonPrefixIsCommon
    AloneAlwaysFits
