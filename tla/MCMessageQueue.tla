--------------------------- MODULE MCMessageQueue ---------------------------
(* An instance of MessageQueue for TLC: no faults, or two at once.           *)
EXTENDS MessageQueue

MCFaultSets == {{}, {"failure", "crash"}, {"timeout", "failure"}}
=============================================================================
