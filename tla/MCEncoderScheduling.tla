------------------------ MODULE MCEncoderScheduling ------------------------
(***************************************************************************)
(* Items a and b fill a cache of three embeddings but not together; d fits *)
(* beside either.  Every item is used by two requests, and r1 and r3 have  *)
(* adjacent items, so that a step must stop between them.                  *)
(***************************************************************************)
EXTENDS EncoderScheduling, TLC

CONSTANTS r1, r2, r3, a, b, d

MCTwo == {r1, r2}
MCThree == {r1, r2, r3}
MCHash == {a, b, d}
MCEmbeds == (a :> 2) @@ (b :> 2) @@ (d :> 1)
MCPriority == [r \in Request |-> CASE r = r1 -> 2 [] r = r2 -> 1 [] OTHER -> 0]

item(o, h) == [offset |-> o, length |-> MCEmbeds[h], hash |-> h]

MCFeatures ==
    [r \in Request |-> CASE r = r1 -> <<item(1, a), item(3, b)>>
                         [] r = r2 -> <<item(0, b), item(3, d)>>
                         [] OTHER  -> <<item(1, d), item(2, a)>>]
MCTokens == [r \in Request |-> IF r = r1 THEN 6 ELSE 5]

(* r1 takes three steps, and meets a again in the third.                    *)
LongFeatures ==
    [r \in Request |-> IF r = r1 THEN <<item(1, a), item(3, b), item(5, a)>> ELSE <<item(0, b), item(3, d)>>]
LongTokens == [r \in Request |-> IF r = r1 THEN 7 ELSE 5]

MCPlain ==
    [max_num_scheduled_tokens |-> 4, PriorityPolicy |-> FALSE, disable_chunked_mm_input |-> FALSE,
     shift_computed_tokens |-> 0, Hits |-> {0}, KVFull |-> TRUE]

MCDeployments ==
    {[MCPlain EXCEPT !.Hits = {0, 2}],
     [MCPlain EXCEPT !.disable_chunked_mm_input = TRUE],
     [MCPlain EXCEPT !.shift_computed_tokens = 1],
     [MCPlain EXCEPT !.PriorityPolicy = TRUE, !.KVFull = FALSE],
     [MCPlain EXCEPT !.Hits = {0, 2}, !.KVFull = FALSE, !.max_num_scheduled_tokens = 3]}

MCPriorityDeployment == {[MCPlain EXCEPT !.PriorityPolicy = TRUE]}
=============================================================================
