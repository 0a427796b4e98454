SPECIFICATION Spec
CONSTANTS
    r1 = r1
    r2 = r2
    r3 = r3
    a = a
    b = b
    d = d
    Request <- MCThree
    Hash <- MCHash
    num_embeds <- MCEmbeds
    mm_features <- MCFeatures
    num_tokens <- MCTokens
    priority <- MCPriority
    cache_size = 3
    max_num_encoder_input_tokens = 3
    Deployments <- MCDeployments
INVARIANTS
    AllocationFits
    OutputsThere
    CachesAgree
PROPERTIES
    EveryPromptComputed
