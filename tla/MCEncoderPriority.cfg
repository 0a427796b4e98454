SPECIFICATION Spec
CONSTANTS
    r1 = r1
    r2 = r2
    r3 = r3
    a = a
    b = b
    d = d
    Request <- MCTwo
    Hash <- MCHash
    num_embeds <- MCEmbeds
    mm_features <- LongFeatures
    num_tokens <- LongTokens
    priority <- MCPriority
    cache_size = 3
    max_num_encoder_input_tokens = 3
    Deployments <- MCPriorityDeployment
INVARIANTS
    NoEncoderCacheMiss
