------------------------------ MODULE BlockPool ------------------------------
(***************************************************************************)
(* The KV-cache block pool of vllm/v1/core/block_pool.py as operators on   *)
(* one record, so that a caller can chain several pool calls in one        *)
(* handler the way the code does:                                          *)
(*                                                                         *)
(*   free        the free queue in eviction order (the linked list of      *)
(*               FreeKVCacheBlockQueue)                                    *)
(*   ref_cnt     reference counts of the blocks                            *)
(*   block_hash  KVCacheBlock._block_hash, NoHash for None                 *)
(*   cached      cached_block_hash_to_block: the blocks of each hash, in   *)
(*               the insertion order of the inner dict                     *)
(*                                                                         *)
(* Block contains the ordinary blocks.  NullBlock, block 0, stands for a   *)
(* position that is not stored.  The code does not maintain its ref_cnt    *)
(* and every reader tests is_null first, so it has no counter here.        *)
(***************************************************************************)
EXTENDS Integers, Sequences, SequencesExt, FiniteSets, TLC

CONSTANTS Block, NullBlock, NoHash

ASSUME BlockAssumption == IsFiniteSet(Block) /\ NullBlock \notin Block

(* BlockPool.__init__: every block but the null block is free, in id order. *)
InitPool(queue) ==
    [free       |-> queue,
     ref_cnt    |-> [b \in Block |-> 0],
     block_hash |-> [b \in Block |-> NoHash],
     cached     |-> <<>>]

get_num_free_blocks(p) == Len(p.free)

(* BlockHashToBlockMap.get_one_block: the oldest block of the hash, or None *)
(* (here NullBlock, which is never cached).                                 *)
get_one_block(p, h) ==
    IF h \in DOMAIN p.cached THEN Head(p.cached[h]) ELSE NullBlock

(* BlockHashToBlockMap.insert: dict assignment keeps an existing entry's    *)
(* place and appends a new one.                                             *)
insert(p, h, b) ==
    [p EXCEPT !.cached =
        IF h \notin DOMAIN @ THEN @ @@ (h :> <<b>>)
        ELSE [@ EXCEPT ![h] = IF Contains(@, b) THEN @ ELSE Append(@, b)]]

(* BlockHashToBlockMap.pop: the key goes with its last block.               *)
pop(cached, h, b) ==
    LET rest == Remove(cached[h], b) IN
    IF rest = <<>> THEN [k \in DOMAIN cached \ {h} |-> cached[k]]
    ELSE [cached EXCEPT ![h] = rest]

(* _maybe_evict_cached_block: a block whose hash the map does not know      *)
(* keeps its hash.                                                          *)
maybe_evict_cached_block(p, b) ==
    LET h == p.block_hash[b] IN
    IF h # NoHash /\ h \in DOMAIN p.cached /\ Contains(p.cached[h], b)
    THEN [p EXCEPT !.cached = pop(@, h, b), !.block_hash[b] = NoHash]
    ELSE p

(* get_new_blocks: the first n free blocks, evicted from the prefix cache.  *)
(* The code raises when the queue is too short; the list is then short too. *)
new_blocks(p, n) == SubSeq(p.free, 1, IF n <= Len(p.free) THEN n ELSE Len(p.free))

(* Mutant: a block is handed out without leaving the prefix cache.          *)
get_new_blocks_still_hashed(p, n) ==
    LET take(q, b) == [q EXCEPT !.ref_cnt[b] = @ + 1]
    IN  FoldLeft(take, [p EXCEPT !.free = SubSeq(@, n + 1, Len(@))], new_blocks(p, n))

get_new_blocks(p, n) ==
    LET take(q, b) == [maybe_evict_cached_block(q, b) EXCEPT !.ref_cnt[b] = @ + 1]
    IN  FoldLeft(take, [p EXCEPT !.free = SubSeq(@, n + 1, Len(@))], new_blocks(p, n))

(* touch: a block found at ref_cnt 0 leaves the free queue.  The queue's    *)
(* remove raises on a block that is not linked.                             *)
touch_ok(p, blocks) ==
    \A b \in ToSet(blocks) \ {NullBlock} : p.ref_cnt[b] = 0 => Contains(p.free, b)

(* Mutant: a hit block stays in the free queue.                             *)
touch_without_unlink(p, blocks) ==
    LET touch_one(q, b) ==
          IF b = NullBlock THEN q ELSE [q EXCEPT !.ref_cnt[b] = @ + 1]
    IN  FoldLeft(touch_one, p, blocks)

touch(p, blocks) ==
    LET touch_one(q, b) ==
          IF b = NullBlock THEN q
          ELSE [q EXCEPT !.free = IF q.ref_cnt[b] = 0 THEN Remove(@, b) ELSE @,
                         !.ref_cnt[b] = @ + 1]
    IN  FoldLeft(touch_one, p, blocks)

(* free_blocks: all counts drop first; the blocks that reached 0 then join  *)
(* the queue in the given order.                                            *)
free_blocks(p, ordered) ==
    LET drop(q, b) == IF b = NullBlock THEN q ELSE [q EXCEPT !.ref_cnt[b] = @ - 1]
        dropped == FoldLeft(drop, p, ordered)
    IN  [dropped EXCEPT !.free = @ \o SelectSeq(ordered,
             LAMBDA b : b # NullBlock /\ dropped.ref_cnt[b] = 0)]

(* cache_full_blocks: positions first .. last (1-based) of a request's      *)
(* blocks get their hash.  Null blocks are skipped; a block that already    *)
(* has a hash trips the assertion, as does a missing hash.                  *)
cache_full_blocks_ok(p, blocks, hashes, first, last) ==
    first <= last =>
       /\ last <= Len(hashes)
       /\ \A i \in first..last :
             i <= Len(blocks) /\ blocks[i] # NullBlock => p.block_hash[blocks[i]] = NoHash

cache_full_blocks(p, blocks, hashes, first, last) ==
    LET cache_one(q, i) ==
          IF blocks[i] = NullBlock THEN q
          ELSE insert([q EXCEPT !.block_hash[blocks[i]] = hashes[i]], hashes[i], blocks[i])
        upto == IF last <= Len(blocks) THEN last ELSE Len(blocks)
    IN  FoldLeft(cache_one, p, [k \in 1..(upto - first + 1) |-> first + k - 1])

(* evict_blocks: only the hash goes, whoever holds the block keeps it.      *)
evict_blocks(p, ids) ==
    FoldLeft(maybe_evict_cached_block, p, SetToSeq(ids \ {NullBlock}))

(* reset_prefix_cache refuses while any block but the null block is used.   *)
reset_prefix_cache_ok(p) == Len(p.free) = Cardinality(Block)

reset_prefix_cache(p) ==
    IF reset_prefix_cache_ok(p)
    THEN [p EXCEPT !.cached = <<>>,
                   !.block_hash = [b \in Block |-> NoHash]]
    ELSE p
=============================================================================
