------------------------ MODULE MCMultiprocExecutor ------------------------
(* Two workers; calls that ask every worker, or the last one only.          *)
EXTENDS MultiprocExecutor

MCPlain ==
    [MaxCalls |-> 2, use_async_scheduling |-> FALSE, OutputRanks |-> {1, 2}, Failures |-> FALSE,
     Crashes |-> "no", Shutdowns |-> FALSE]

MCScenarios ==
    {[MCPlain EXCEPT !.Crashes = "registered", !.Shutdowns = TRUE],
     [MCPlain EXCEPT !.Crashes = "any", !.Failures = TRUE],
     [MCPlain EXCEPT !.Crashes = "registered", !.Failures = TRUE,
                     !.OutputRanks = {1}, !.use_async_scheduling = TRUE],
     [MCPlain EXCEPT !.use_async_scheduling = TRUE, !.MaxCalls = 3]}

(* Calls to all workers in which some may raise.                            *)
MCFailAll == {[MCPlain EXCEPT !.Failures = TRUE]}
=============================================================================
