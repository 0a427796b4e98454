------------------------- MODULE EncoderCacheManager -------------------------
(***************************************************************************)
(* EncoderCacheManager of v1/core/encoder_cache_manager.py: which outputs  *)
(* of the multimodal encoder the workers keep, and for which requests.     *)
(* Every operator maps the manager's state to its next state.              *)
(***************************************************************************)
EXTENDS Naturals, Sequences, FiniteSets, FiniteSetsExt, SequencesExt

CONSTANTS
    Request,
    Hash,           \* mm_hash identifiers
    num_embeds,     \* num_embeds[h]: get_num_encoder_embeds
    mm_features,    \* mm_features[r]: sequence of [offset, length, hash]
    cache_size

ASSUME EncoderAssumption ==
    /\ cache_size \in Nat
    /\ num_embeds \in [Hash -> 1 .. cache_size]
    /\ \A r \in Request : \A i \in DOMAIN mm_features[r] :
         /\ mm_features[r][i].hash \in Hash
         /\ mm_features[r][i].length = num_embeds[mm_features[r][i].hash]

size(H) == MapThenSumSet(LAMBDA h : num_embeds[h], H)

NewCache ==
    [cached |-> <<>>,           \* mm_hash -> requests that refer to it
     freeable |-> <<>>,         \* entries nobody refers to, oldest first
     freed |-> {},              \* evicted since the last scheduler output
     num_free_slots |-> cache_size,
     num_freeable_slots |-> cache_size]

hash_of(r, i) == mm_features[r][i].hash

(* A hit: the request is added to the entry's references.                   *)
is_cached(e, h) == h \in DOMAIN e.cached

(* Mutant: an entry in use again stays in the list of those to evict.       *)
revive_in_list(e, r, h) ==
    [e EXCEPT !.cached = [@ EXCEPT ![h] = @ \union {r}],
              !.num_freeable_slots = IF e.cached[h] = {} THEN @ - num_embeds[h] ELSE @]

check_and_update_cache(e, r, h) ==
    LET unused == e.cached[h] = {}
    IN [e EXCEPT !.cached = [@ EXCEPT ![h] = @ \union {r}],
                 !.freeable = IF unused THEN Remove(@, h) ELSE @,
                 !.num_freeable_slots = IF unused THEN @ - num_embeds[h] ELSE @]

(* can_allocate: the answer, and what it evicts, oldest entries first.      *)
can_allocate(e, h, compute_budget, to_schedule) ==
    /\ num_embeds[h] <= compute_budget
    /\ \/ num_embeds[h] + to_schedule <= e.num_free_slots
       \/ num_embeds[h] + to_schedule <= e.num_freeable_slots

(* Mutants: one entry too few is evicted; the workers are not told.         *)
evict_one_less(e, need) ==
    LET gain(k) == size(ToSet(SubSeq(e.freeable, 1, k)))
        k == Min({j \in 0 .. Len(e.freeable) : need <= e.num_free_slots + gain(j) + 1})
        out == ToSet(SubSeq(e.freeable, 1, k))
    IN [e EXCEPT !.cached = [h \in DOMAIN @ \ out |-> @[h]],
                 !.freeable = SubSeq(@, k + 1, Len(@)),
                 !.freed = @ \union out,
                 !.num_free_slots = @ + gain(k)]

evict_silently(e, need) ==
    LET gain(k) == size(ToSet(SubSeq(e.freeable, 1, k)))
        k == Min({j \in 0 .. Len(e.freeable) : need <= e.num_free_slots + gain(j)})
    IN [e EXCEPT !.cached = [h \in DOMAIN @ \ ToSet(SubSeq(e.freeable, 1, k)) |-> @[h]],
                 !.freeable = SubSeq(@, k + 1, Len(@)),
                 !.num_free_slots = @ + gain(k)]

evict_for(e, need) ==
    LET gain(k) == size(ToSet(SubSeq(e.freeable, 1, k)))
        k == Min({j \in 0 .. Len(e.freeable) : need <= e.num_free_slots + gain(j)})
        out == ToSet(SubSeq(e.freeable, 1, k))
    IN [e EXCEPT !.cached = [h \in DOMAIN @ \ out |-> @[h]],
                 !.freeable = SubSeq(@, k + 1, Len(@)),
                 !.freed = @ \union out,
                 !.num_free_slots = @ + gain(k)]

(* The two assertions of allocate, for a series of calls.                   *)
allocate_ok(e, H) == e.num_free_slots >= size(H) /\ e.num_freeable_slots >= size(H)

allocate(e, r, h) ==
    [e EXCEPT !.cached = [g \in DOMAIN @ \union {h} |->
                            (IF g \in DOMAIN @ THEN @[g] ELSE {})
                              \union (IF g = h THEN {r} ELSE {})],
              !.num_free_slots = @ - num_embeds[h],
              !.num_freeable_slots = @ - num_embeds[h]]

allocate_inputs(e, r, inputs) ==
    FoldLeft(LAMBDA c, i : allocate(c, r, hash_of(r, i)), e, inputs)

get_cached_input_ids(e, r) == {i \in DOMAIN mm_features[r] : is_cached(e, hash_of(r, i))}

(* free_encoder_input; an entry that nobody refers to is left alone.        *)
free_encoder_input(e, r, h) ==
    IF ~is_cached(e, h) \/ e.cached[h] = {} THEN e
    ELSE LET unused == e.cached[h] \ {r} = {}
         IN [e EXCEPT !.cached = [@ EXCEPT ![h] = @ \ {r}],
                      !.freeable = IF unused THEN Append(@, h) ELSE @,
                      !.num_freeable_slots = IF unused THEN @ + num_embeds[h] ELSE @]

(* The code iterates over a set of small integers, that is in their order.  *)
free_inputs(e, r, ids) ==
    FoldLeft(LAMBDA c, i : free_encoder_input(c, r, hash_of(r, i)),
             e, SetToSortSeq(ids, <))

free(e, r) == free_inputs(e, r, get_cached_input_ids(e, r))

reset(e) == NewCache
=============================================================================
