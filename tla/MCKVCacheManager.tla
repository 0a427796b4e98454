-------------------------- MODULE MCKVCacheManager --------------------------
(* The deployments of KVCacheManager that TLC explores.  Two requests with  *)
(* a common prefix share three blocks of two tokens, which is too few for   *)
(* both at full length.                                                     *)
EXTENDS KVCacheManager

MCPrompts == {<<0, 0>>, <<0, 0, 0, 1>>}
MCLongPrompts == {<<0, 0, 0, 0>>, <<0, 0, 0, 0, 1>>}

MCFull ==
    [AttnKind |-> "full", Window |-> 1, UseEagle |-> FALSE, EnableCaching |-> TRUE,
     MaxModelLen |-> 6, Prompts |-> MCPrompts, MaxDraft |-> 1,
     NumLookaheadTokens |-> 0, External |-> FALSE, EvictCalls |-> FALSE]
MCNoDraft == [MCFull EXCEPT !.MaxDraft = 0]

MCDeployments ==
    {MCFull,
     [MCNoDraft EXCEPT !.AttnKind = "sliding", !.Window = 3, !.MaxModelLen = 5],
     [MCNoDraft EXCEPT !.AttnKind = "chunked", !.Window = 4],
     [MCNoDraft EXCEPT !.MaxModelLen = 4,
                       !.External = TRUE, !.EvictCalls = TRUE],
     [MCNoDraft EXCEPT !.MaxModelLen = 5, !.NumLookaheadTokens = 1,
                       !.UseEagle = TRUE, !.Prompts = MCLongPrompts],
     [MCNoDraft EXCEPT !.EnableCaching = FALSE, !.MaxModelLen = 4]}

Symmetry == Permutations(Request)
=============================================================================
