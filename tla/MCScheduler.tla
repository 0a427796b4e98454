---------------------------- MODULE MCScheduler ----------------------------
(* The deployments of Scheduler that TLC explores.  The requests need more  *)
(* blocks than there are, so that they preempt one another.                 *)
EXTENDS Scheduler, TLC

CONSTANTS r1, r2, r3

MCTwo == {r1, r2}
MCThree == {r1, r2, r3}
MCPrompt == [r \in Request |-> IF r = r1 THEN 3 ELSE 2]
MCMaxTokens == [r \in Request |-> IF r = r3 THEN 2 ELSE 4]
MCEos == [r \in Request |-> IF r = r2 THEN 2 ELSE 9]
MCPriority == [r \in Request |-> CASE r = r1 -> 2 [] r = r2 -> 1 [] OTHER -> 0]

MCSync ==
    [num_gpu_blocks |-> 4, max_num_scheduled_tokens |-> 4, long_prefill_token_threshold |-> 2,
     PriorityPolicy |-> FALSE, Async |-> FALSE, num_spec_tokens |-> 0,
     BatchQueueSize |-> 1, Resets |-> FALSE]
MCSpec ==
    [MCSync EXCEPT !.num_gpu_blocks = 6, !.max_num_scheduled_tokens = 6,
                   !.long_prefill_token_threshold = 3, !.num_spec_tokens = 2]
MCPriorities == [MCSync EXCEPT !.PriorityPolicy = TRUE]
MCTwoStages == [MCSync EXCEPT !.BatchQueueSize = 2]
MCAsync == [MCTwoStages EXCEPT !.Async = TRUE]

MCAsyncSpec == [MCSpec EXCEPT !.Async = TRUE, !.BatchQueueSize = 2]

(* Every mode, with resets where nothing is in flight.                      *)
MCDeployments ==
    {[MCSync EXCEPT !.max_num_scheduled_tokens = 3, !.Resets = TRUE],
     [MCPriorities EXCEPT !.Resets = TRUE],
     MCSync, MCPriorities, MCTwoStages, MCAsync, MCSpec, MCAsyncSpec}

MCResetDeployment == {[MCAsync EXCEPT !.Resets = TRUE]}
=============================================================================
