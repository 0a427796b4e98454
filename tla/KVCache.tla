------------------------------- MODULE KVCache -------------------------------
(***************************************************************************)
(* The KV cache manager for one KV-cache group, as operators on a record   *)
(*                                                                         *)
(*   pool              the block pool (module BlockPool)                   *)
(*   req_to_blocks     request -> its blocks, by position; the defaultdict *)
(*                     of SingleTypeKVCacheManager, so its domain counts   *)
(*   num_cached_block  request -> how many of its blocks are hashed;       *)
(*                     absent for a request that has cached nothing yet    *)
(*                                                                         *)
(* It translates vllm/v1/core/kv_cache_manager.py, the unitary coordinator *)
(* of kv_cache_coordinator.py and the full-attention, sliding-window and   *)
(* chunked-local managers of single_type_kv_cache_manager.py.  Token       *)
(* positions and block positions are 1-based.                              *)
(***************************************************************************)
EXTENDS BlockPool

CONSTANTS
    BlockSize,    \* tokens in a block
    Deployments   \* the deployments to consider

(* One deployment is chosen when the engine starts and never changes: the   *)
(* KV-cache spec of the model and the options of vllm/config.               *)
VARIABLE config

AttnKind == config.AttnKind            \* "full", "sliding" or "chunked"
Window == config.Window                \* sliding_window or attention_chunk_size
UseEagle == config.UseEagle            \* drop the last hit block (EAGLE drafting head)
EnableCaching == config.EnableCaching  \* prefix caching
MaxModelLen == config.MaxModelLen      \* max_model_len

ASSUME KVCacheAssumption ==
    /\ BlockSize \in Nat \ {0}
    /\ \A d \in Deployments :
         /\ d.Window \in Nat \ {0} /\ d.MaxModelLen \in Nat \ {0}
         /\ d.AttnKind \in {"full", "sliding", "chunked"}
         /\ d.UseEagle \in BOOLEAN /\ d.EnableCaching \in BOOLEAN
         /\ d.AttnKind = "chunked" => ~d.UseEagle /\ d.Window % BlockSize = 0

cdiv(a, b) == (a + b - 1) \div b
AtLeast0(n) == IF n < 0 THEN 0 ELSE n
Least(a, b) == IF a <= b THEN a ELSE b
Greatest(a, b) == IF a >= b THEN a ELSE b

InitKV(queue) ==
    [pool |-> InitPool(queue), req_to_blocks |-> <<>>, num_cached_block |-> <<>>]

blocks_of(kv, r) == IF r \in DOMAIN kv.req_to_blocks THEN kv.req_to_blocks[r] ELSE <<>>
cached_of(kv, r) == IF r \in DOMAIN kv.num_cached_block THEN kv.num_cached_block[r] ELSE 0

set_blocks(kv, r, bs) == [kv EXCEPT !.req_to_blocks = (r :> bs) @@ @]
set_cached(kv, r, n) == [kv EXCEPT !.num_cached_block = (r :> n) @@ @]

(* request_block_hasher: the hash of a full block stands for all tokens up  *)
(* to its end, since every block hash is computed from its parent's.        *)
request_block_hashes(old, tokens) ==
    [i \in 1..Greatest(Len(old), Len(tokens) \div BlockSize) |->
        IF i <= Len(old) THEN old[i] ELSE SubSeq(tokens, 1, i * BlockSize)]

(* Mutant: the window is one token short, the chunk starts one too late.    *)
skip_one_too_many(n) ==
    CASE AttnKind = "full"    -> 0
      [] AttnKind = "sliding" -> AtLeast0(n - Window + 2)
      [] AttnKind = "chunked" -> (cdiv(n, Window)) * Window

(* get_num_skipped_tokens of the three managers: the tokens the next        *)
(* token's attention does not reach.                                        *)
get_num_skipped_tokens(n) ==
    CASE AttnKind = "full"    -> 0
      [] AttnKind = "sliding" -> AtLeast0(n - Window + 1)
      [] AttnKind = "chunked" -> (n \div Window) * Window

(*************************** find_longest_cache_hit **************************)
hit(p, hashes, i) == get_one_block(p, hashes[i])
is_hit(p, hashes, i) == hit(p, hashes, i) # NullBlock

(* The hit blocks at positions first .. n, up to the first miss.            *)
hit_run(p, hashes, first, n) ==
    LET len == CHOOSE k \in 0..AtLeast0(n - first + 1) :
                 /\ \A i \in first..(first + k - 1) : is_hit(p, hashes, i)
                 /\ first + k <= n => ~is_hit(p, hashes, first + k)
    IN  [k \in 1..len |-> hit(p, hashes, first + k - 1)]

nulls(n) == [i \in 1..n |-> NullBlock]
drop_last(blocks) == IF UseEagle /\ blocks # <<>> THEN Front(blocks) ELSE blocks

find_full(p, hashes, max_length) ==
    drop_last(hit_run(p, hashes, 1, Least(max_length \div BlockSize, Len(hashes))))

(* Right to left for `need` contiguous hits; otherwise the prefix counts.   *)
find_sliding(p, hashes, max_length) ==
    LET n    == max_length \div BlockSize
        need == Greatest(1, cdiv(Window - 1, BlockSize) + (IF UseEagle THEN 1 ELSE 0))
        ends == {e \in need..n : \A i \in (e - need + 1)..e : is_hit(p, hashes, i)}
        last == CHOOSE e \in ends : \A f \in ends : f <= e
    IN  drop_last(IF ends = {} THEN hit_run(p, hashes, 1, n)
                  ELSE nulls(last - need) \o
                       [k \in 1..need |-> hit(p, hashes, last - need + k)])

(* Blocks left of the current chunk count as computed without a lookup.     *)
find_chunked(p, hashes, max_length) ==
    LET start == ((max_length \div Window) * Window) \div BlockSize
    IN  nulls(start) \o hit_run(p, hashes, start + 1, max_length \div BlockSize)

find_longest_cache_hit(p, hashes, max_length) ==
    CASE AttnKind = "full"    -> find_full(p, hashes, max_length)
      [] AttnKind = "sliding" -> find_sliding(p, hashes, max_length)
      [] AttnKind = "chunked" -> find_chunked(p, hashes, max_length)

(* get_computed_blocks: at least the last token is always recomputed.       *)
get_computed_blocks(kv, hashes, num_tokens) ==
    IF EnableCaching THEN find_longest_cache_hit(kv.pool, hashes, num_tokens - 1)
    ELSE <<>>

(****************************** allocate_slots *******************************)
(* remove_skipped_blocks: blocks left of the window become null, from the   *)
(* right end until one that already is.                                     *)
remove_skipped_blocks(kv, r, total) ==
    LET skipped == get_num_skipped_tokens(total)
        blocks  == blocks_of(kv, r)
        n       == Least(skipped \div BlockSize, Len(blocks))
        kept    == CHOOSE k \in 0..n :
                     /\ \A i \in (k + 1)..n : blocks[i] # NullBlock
                     /\ k > 0 => blocks[k] = NullBlock
        removed == [k \in 1..(n - kept) |-> blocks[n - k + 1]]
    IN  IF skipped <= 0 THEN kv
        ELSE [set_blocks(kv, r, [i \in DOMAIN blocks |->
                 IF i \in (kept + 1)..n THEN NullBlock ELSE blocks[i]])
              EXCEPT !.pool = free_blocks(@, removed)]

(* Mutants: hit blocks that are free are not counted; hits are counted as   *)
(* new blocks too.                                                          *)
free_hits_not_counted(kv, r, num_tokens, hits, total) ==
    LET required == cdiv(num_tokens, BlockSize)
        have     == Len(blocks_of(kv, r))
        skipped  == get_num_skipped_tokens(total) \div BlockSize
    IN  AtLeast0(required - Greatest(skipped, Len(hits) + have))

hits_counted_twice(kv, r, num_tokens, hits, total) ==
    AtLeast0(cdiv(num_tokens, BlockSize) - Len(blocks_of(kv, r)))
      + Cardinality({i \in DOMAIN hits : hits[i] # NullBlock})

(* get_num_blocks_to_allocate: the new blocks, and the hit blocks that sit  *)
(* in the free queue and will leave it.                                     *)
get_num_blocks_to_allocate(kv, r, num_tokens, hits, total) ==
    LET required == cdiv(num_tokens, BlockSize)
        have     == Len(blocks_of(kv, r))
        skipped  == get_num_skipped_tokens(total) \div BlockSize
        new      == AtLeast0(required - Greatest(skipped, Len(hits) + have))
        reused   == {i \in (AtLeast0(skipped - have) + 1)..Len(hits) :
                        hits[i] # NullBlock /\ kv.pool.ref_cnt[hits[i]] = 0}
    IN  IF r \in DOMAIN kv.num_cached_block THEN AtLeast0(required - have)
        ELSE new + Cardinality(reused)

add_new_blocks(kv, r, n) ==
    IF n <= 0 THEN set_blocks(kv, r, blocks_of(kv, r))
    ELSE [set_blocks(kv, r, blocks_of(kv, r) \o new_blocks(kv.pool, n))
          EXCEPT !.pool = get_new_blocks(@, n)]

(* allocate_new_computed_blocks: hits are touched, skipped ones are null,   *)
(* and blocks for the tokens an external cache will fill are taken.         *)
allocate_new_computed_blocks(kv, r, hits, total, external) ==
    LET skipped == get_num_skipped_tokens(total)
        gone    == skipped \div BlockSize
        kept    == SubSeq(hits, gone + 1, Len(hits))
        ext     == IF gone > 0 THEN Least(total - skipped, external) ELSE external
        base    == nulls(gone) \o kept
        touched == [set_cached(set_blocks(kv, r, base), r, Len(base))
                    EXCEPT !.pool = touch(@, kept)]
    IN  IF r \in DOMAIN kv.num_cached_block THEN kv
        ELSE IF ext > 0
             THEN add_new_blocks(touched, r, cdiv(total, BlockSize) - Len(base))
             ELSE touched

allocate_new_blocks(kv, r, num_tokens) ==
    add_new_blocks(kv, r, cdiv(num_tokens, BlockSize) - Len(blocks_of(kv, r)))

(* Mutant: a block that is not full yet is hashed.                          *)
cache_partial_blocks(kv, r, hashes, num_tokens) ==
    LET done == cached_of(kv, r)
        full == Least(cdiv(num_tokens, BlockSize), Len(hashes))
    IN  IF ~EnableCaching \/ done >= full THEN kv
        ELSE [set_cached(kv, r, full)
              EXCEPT !.pool = cache_full_blocks(@, blocks_of(kv, r), hashes, done + 1, full)]

(* cache_blocks: hash the blocks that are full with num_tokens tokens.      *)
cache_blocks(kv, r, hashes, num_tokens) ==
    LET done == cached_of(kv, r)
        full == num_tokens \div BlockSize
    IN  IF ~EnableCaching \/ done >= full THEN kv
        ELSE [set_cached(kv, r, full)
              EXCEPT !.pool = cache_full_blocks(@, blocks_of(kv, r), hashes, done + 1, full)]

cache_blocks_ok(kv, r, hashes, num_tokens) ==
    LET done == cached_of(kv, r)
        full == num_tokens \div BlockSize
    IN  EnableCaching =>
          cache_full_blocks_ok(kv.pool, blocks_of(kv, r), hashes, done + 1, full)

(* allocate_slots(request, ...) for request r with `computed` tokens done,  *)
(* `hits` new prefix-cache hits, `external` tokens an external cache has,   *)
(* and `new` + `lookahead` tokens to compute.  `ok` is FALSE when the code  *)
(* returns None; `raised` when an assertion or exception fires on the way.  *)
allocate_slots(kv0, r, q, computed, hits, external, new, lookahead, delay) ==
    LET local  == computed + Len(hits) * BlockSize
        total  == Least(local + external, MaxModelLen)
        slots  == Least(total + new + lookahead, MaxModelLen)
        kv1    == remove_skipped_blocks(kv0, r, total)
        need   == get_num_blocks_to_allocate(kv1, r, slots, hits, local + external)
        fresh  == hits # <<>> \/ external > 0
        kv2    == IF fresh
                  THEN allocate_new_computed_blocks(kv1, r, hits, local + external, external)
                  ELSE kv1
        kv3    == allocate_new_blocks(kv2, r, slots)
        tocache == Least(total + new, q.num_tokens)
        kv4    == IF delay THEN kv3 ELSE cache_blocks(kv3, r, q.hashes, tocache)
        running == r \in DOMAIN kv1.num_cached_block
        raised == \/ new = 0 /\ external = 0
                  \/ running /\ hits # <<>>
                  \/ fresh /\ ~running /\ blocks_of(kv1, r) # <<>>
                  \/ ~touch_ok(kv1.pool, hits)
                  \/ Len(blocks_of(kv3, r)) < cdiv(slots, BlockSize)
                  \/ ~delay /\ ~cache_blocks_ok(kv3, r, q.hashes, tocache)
    IN  IF need > get_num_free_blocks(kv1.pool)
        THEN [ok |-> FALSE, raised |-> FALSE, kv |-> kv1]
        ELSE [ok |-> TRUE, raised |-> raised, kv |-> kv4]

(* Mutant: head first.                                                      *)
free_in_order(blocks) == blocks

(* free: the blocks go back in reverse, so that the tail of a prefix chain  *)
(* is evicted before its head.                                              *)
free_order(blocks) == Reverse(blocks)

free(kv, r) ==
    [pool |-> free_blocks(kv.pool, free_order(blocks_of(kv, r))),
     req_to_blocks |-> [s \in DOMAIN kv.req_to_blocks \ {r} |-> kv.req_to_blocks[s]],
     num_cached_block |-> [s \in DOMAIN kv.num_cached_block \ {r} |-> kv.num_cached_block[s]]]

(* Mutant: requests that have hashed nothing yet are not counted.           *)
common_among_cached(kv, r) ==
    LET blocks == blocks_of(kv, r)
        common(i) == kv.pool.ref_cnt[blocks[i]] >= Cardinality(DOMAIN kv.num_cached_block)
    IN  IF AttnKind # "full" THEN 0
        ELSE CHOOSE k \in 0..Len(blocks) :
               /\ \A i \in 1..k : common(i)
               /\ k < Len(blocks) => ~common(k + 1)

(* get_num_common_prefix_blocks: only full attention counts.                *)
get_num_common_prefix_blocks(kv, r) ==
    LET blocks == blocks_of(kv, r)
        common(i) == kv.pool.ref_cnt[blocks[i]] = Cardinality(DOMAIN kv.req_to_blocks)
    IN  IF AttnKind # "full" THEN 0
        ELSE CHOOSE k \in 0..Len(blocks) :
               /\ \A i \in 1..k : common(i)
               /\ k < Len(blocks) => ~common(k + 1)
=============================================================================
