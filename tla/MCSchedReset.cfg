SPECIFICATION Spec
CONSTANTS
    r1 = r1
    r2 = r2
    r3 = r3
    Request <- MCTwo
    num_prompt_tokens <- MCPrompt
    max_tokens <- MCMaxTokens
    eos_index <- MCEos
    priority <- MCPriority
    block_size = 2
    max_num_running_reqs = 3
    Deployments <- MCResetDeployment
CHECK_DEADLOCK FALSE
INVARIANTS
    TokensInOrder
