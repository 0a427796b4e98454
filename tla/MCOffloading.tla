----------------------------- MODULE MCOffloading -----------------------------
(* The deployments of OffloadingConnector that TLC explores.  Three blocks   *)
(* compete for two places in CPU memory, and two or three requests for four *)
(* or five GPU blocks; r2 shares its first block with the others.           *)
EXTENDS OffloadingConnector

CONSTANTS r1, r2, r3, h1, h2, h3

MCLRU == [num_blocks |-> 2, num_gpu_blocks |-> 4, policy |-> "lru", store_threshold |-> 0, chunk |-> 1,
          enable_prefix_caching |-> FALSE, sent |-> {r1, r2}, may |-> {"abort"},
          prompt |-> (r1 :> <<h1, h2>>) @@ (r2 :> <<h1, h3>>) @@ (r3 :> <<h1, h2>>)]
MCARC == [MCLRU EXCEPT !.policy = "arc"]
MCDelays == [MCLRU EXCEPT !.enable_prefix_caching = TRUE, !.sent = {r1, r2, r3}, !.may = {},
                          !.num_gpu_blocks = 5]
MCThree == [MCARC EXCEPT !.sent = {r1, r2, r3}, !.may = {}]
MCReused == [MCLRU EXCEPT !.store_threshold = 2, !.chunk = 2, !.sent = {r1, r2, r3}]

MCDeployments == {MCLRU, MCARC, MCDelays, MCThree, MCReused}
=============================================================================
