-------------------------- MODULE MCNixlConnector --------------------------
(* The deployments of NixlConnector that TLC explores: the numbers of ranks *)
(* of P and D, and what may happen or fail in each.                         *)
EXTENDS NixlConnector, TLC

CONSTANTS r1, r2

MCRequest == {r1, r2}

deployment(p, d, size, recompute, sent, may) ==
    [tp |-> [P |-> p, D |-> d], BatchQueueSize |-> size, recompute |-> recompute,
     Sent |-> sent, may |-> may]

Everything == {"abort", "preempt", "hit", "stop", "handshake", "setup", "read"}

MCDeployments ==
    {deployment(1, 1, 1, TRUE, {r1}, Everything), deployment(1, 1, 1, FALSE, {r1}, Everything),
     deployment(1, 2, 1, TRUE, {r1}, {"abort"}), deployment(1, 2, 1, FALSE, {r1}, {"read"}),
     deployment(2, 1, 1, TRUE, {r1}, {"read"}), deployment(1, 1, 2, TRUE, {r1}, {"abort", "read"}),
     deployment(1, 1, 1, TRUE, {r1, r2}, {})}
=============================================================================
