--------------------------- MODULE KVCacheManager ---------------------------
(***************************************************************************)
(* The KV cache manager driven by an arbitrary caller.  Requests start,    *)
(* continue, load KV from an external cache, are preempted and finish in   *)
(* any order; the operators of module KVCache do what the code does.  The  *)
(* variable store is the ground truth the manager cannot see: what every   *)
(* slot of every block really holds, namely the tokens the KV entry was    *)
(* computed from.  A step of the model runner writes it at once; module    *)
(* Scheduler separates scheduling from execution.                          *)
(***************************************************************************)
EXTENDS KVCache

CONSTANTS
    Request,     \* request ids
    Token,       \* token ids
    Sampled      \* the tokens the model may sample

Prompts == config.Prompts              \* the prompts a request may have
MaxDraft == config.MaxDraft            \* speculative tokens scheduled at once
NumLookaheadTokens == config.NumLookaheadTokens  \* slots kept for an EAGLE drafter
External == config.External            \* a KV connector may have more tokens than the pool
EvictCalls == config.EvictCalls        \* workers may report blocks to evict

ASSUME ManagerAssumption ==
    /\ Sampled \subseteq Token
    /\ \A d \in Deployments :
         /\ d.Prompts \subseteq Seq(Token) \ {<<>>}
         /\ d.MaxDraft \in Nat /\ d.NumLookaheadTokens \in Nat
         /\ d.External \in BOOLEAN /\ d.EvictCalls \in BOOLEAN

VARIABLES
    kv,      \* the manager's state
    req,     \* the requests, as the scheduler keeps them
    store,   \* what the slots of the blocks hold
    raised   \* an assertion or exception of the manager fired

vars == <<kv, req, store, raised, config>>

Empty == <<>>       \* a slot nothing has been written to

(* Slot of token position i in a block list.                                *)
block_at(blocks, i) == blocks[cdiv(i, BlockSize)]
offset(i) == ((i - 1) % BlockSize) + 1

(* KV entries for positions first..last of a request with the given blocks  *)
(* and tokens.  Positions past the tokens were computed from rejected draft *)
(* tokens and hold nothing of use.                                          *)
write(st, blocks, tokens, first, last) ==
    [b \in Block |-> [o \in 1..BlockSize |->
        LET at == {i \in first..last : block_at(blocks, i) = b /\ offset(i) = o}
        IN  IF at = {} THEN st[b][o]
            ELSE LET i == CHOOSE i \in at : TRUE
                 IN  IF i <= Len(tokens) THEN SubSeq(tokens, 1, i) ELSE Empty]]

(* What nobody can use any more is forgotten: the slots of a block that is  *)
(* neither held nor hashed, and of a block that was just taken (its old     *)
(* content is not the new holder's; `hits` are the ones taken for their     *)
(* content).                                                                *)
forget(st, old, new, hits) ==
    [b \in Block |->
        IF \/ new.pool.ref_cnt[b] = 0 /\ new.pool.block_hash[b] = NoHash
           \/ old.pool.ref_cnt[b] = 0 /\ new.pool.ref_cnt[b] > 0 /\ ~Contains(hits, b)
        THEN [o \in 1..BlockSize |-> Empty] ELSE st[b]]

Init ==
    /\ config \in Deployments
    /\ kv = InitKV(SetToSortSeq(Block, <))
    /\ req = [r \in Request |->
                [status |-> "new", tokens |-> <<>>, hashes |-> <<>>, computed |-> 0]]
    /\ store = [b \in Block |-> [o \in 1..BlockSize |-> Empty]]
    /\ raised = FALSE

view(r) == [num_tokens |-> Len(req[r].tokens), hashes |-> req[r].hashes]

Arrive(r) ==
    /\ req[r].status = "new"
    /\ \E p \in Prompts :
         req' = [req EXCEPT ![r] = [status |-> "waiting", tokens |-> p,
                                    hashes |-> request_block_hashes(<<>>, p), computed |-> 0]]
    /\ UNCHANGED <<kv, store, raised, config>>

(* The first step of a waiting request: prefix-cache hits, then `ext`       *)
(* tokens a connector loads within the step, then `new` computed tokens.    *)
Start(r) ==
    /\ UNCHANGED config
    /\ req[r].status = "waiting"
    /\ LET tokens == req[r].tokens
           hits   == get_computed_blocks(kv, req[r].hashes, Len(tokens))
           local  == Len(hits) * BlockSize
       IN \E ext \in IF External THEN 0..(Len(tokens) - local - 1) ELSE {0} :
          \E new \in 1..(Len(tokens) - local - ext) :
          LET a == allocate_slots(kv, r, view(r), 0, hits, ext, new, 0, FALSE)
              last == local + ext + new
              sampled == IF last = Len(tokens) /\ last < MaxModelLen THEN Sampled ELSE {}
          IN /\ kv' = a.kv
             /\ raised' = a.raised
             /\ IF ~a.ok \/ a.raised THEN req' = req /\ store' = forget(store, kv, a.kv, hits)
                ELSE /\ store' = write(forget(store, kv, a.kv, hits), blocks_of(a.kv, r),
                                       tokens, local + 1, last)
                     /\ \/ /\ sampled = {}
                           /\ req' = [req EXCEPT ![r].status = "running", ![r].computed = last]
                        \/ \E t \in sampled :
                           req' = [req EXCEPT ![r].status = "running", ![r].computed = last,
                                     ![r].tokens = Append(@, t),
                                     ![r].hashes = request_block_hashes(@, Append(tokens, t))]

(* An asynchronous load: blocks are taken for the external tokens, nothing  *)
(* is hashed before the transfer has finished.                              *)
StartLoad(r) ==
    /\ UNCHANGED config
    /\ External
    /\ req[r].status = "waiting"
    /\ LET tokens == req[r].tokens
           hits   == get_computed_blocks(kv, req[r].hashes, Len(tokens))
           local  == Len(hits) * BlockSize
       IN \E ext \in 1..(Len(tokens) - local) :
          LET a == allocate_slots(kv, r, view(r), 0, hits, ext, 0, 0, TRUE)
          IN /\ kv' = a.kv
             /\ raised' = a.raised
             /\ req' = IF ~a.ok THEN req
                       ELSE [req EXCEPT ![r].status = "loading", ![r].computed = local + ext]
             /\ store' = forget(store, kv, a.kv, hits)

(* The transfer is over: _update_waiting_for_remote_kv hashes the blocks,   *)
(* and a prompt that is complete gives back its last token.                 *)
FinishLoad(r) ==
    /\ UNCHANGED config
    /\ req[r].status = "loading"
    /\ LET n == req[r].computed
           blocks == blocks_of(kv, r)
           first == CHOOSE k \in 1..(n + 1) :   \* hit positions are not loaded again
                      /\ k = n + 1 \/ cdiv(k, BlockSize) > cached_of(kv, r)
                      /\ k = 1 \/ cdiv(k - 1, BlockSize) <= cached_of(kv, r)
       IN /\ kv' = cache_blocks(kv, r, req[r].hashes, n)
          /\ raised' = ~cache_blocks_ok(kv, r, req[r].hashes, n)
          /\ store' = write(store, blocks, req[r].tokens, first, n)
          /\ req' = [req EXCEPT ![r].status = "running",
                                ![r].computed = IF n = Len(req[r].tokens) THEN n - 1 ELSE n]

(* A step of a running request: `new` known tokens, then `draft` guessed    *)
(* ones.  Of the guesses `acc` are accepted; the model adds one token.      *)
Continue(r) ==
    /\ UNCHANGED config
    /\ req[r].status = "running"
    /\ LET tokens == req[r].tokens
           done   == req[r].computed
       IN \E new \in 1..(Len(tokens) - done) :
          \E draft \in 0..(IF done + new = Len(tokens)
                           THEN Least(MaxDraft, AtLeast0(MaxModelLen - Len(tokens) - 1)) ELSE 0) :
          \E acc \in 0..draft : \E out \in [1..(acc + 1) -> Sampled] :
          LET a == allocate_slots(kv, r, view(r), done, <<>>, 0, new + draft, NumLookaheadTokens, FALSE)
              last == done + new
              seen == tokens \o SubSeq(out, 1, acc)
              grown == tokens \o out
          IN /\ kv' = a.kv
             /\ raised' = a.raised
             /\ IF ~a.ok \/ a.raised THEN req' = req /\ store' = forget(store, kv, a.kv, <<>>)
                ELSE /\ store' = write(forget(store, kv, a.kv, <<>>), blocks_of(a.kv, r),
                                       seen, done + 1, last + draft)
                     /\ req' = IF last = Len(tokens) /\ Len(grown) <= MaxModelLen
                               THEN [req EXCEPT ![r].computed = last + acc,
                                       ![r].tokens = grown,
                                       ![r].hashes = request_block_hashes(@, grown)]
                               ELSE [req EXCEPT ![r].computed = last]

(* The request gives its blocks back: preemption keeps it waiting with no   *)
(* computed token, finishing ends it.                                       *)
Preempt(r) ==
    /\ req[r].status = "running"
    /\ kv' = free(kv, r)
    /\ req' = [req EXCEPT ![r].status = "waiting", ![r].computed = 0]
    /\ store' = forget(store, kv, kv', <<>>)
    /\ UNCHANGED <<raised, config>>

Finish(r) ==
    /\ req[r].status \in {"waiting", "running"}
    /\ kv' = free(kv, r)
    /\ req' = [req EXCEPT ![r] = [status |-> "done", tokens |-> <<>>, hashes |-> <<>>, computed |-> 0]]
    /\ store' = forget(store, kv, kv', <<>>)
    /\ UNCHANGED <<raised, config>>

Evict ==
    /\ EvictCalls
    /\ \E b \in Block : kv' = [kv EXCEPT !.pool = evict_blocks(@, {b})]
    /\ store' = forget(store, kv, kv', <<>>)
    /\ UNCHANGED <<req, raised, config>>

Reset ==
    /\ reset_prefix_cache_ok(kv.pool)
    /\ kv' = [kv EXCEPT !.pool = reset_prefix_cache(@)]
    /\ store' = forget(store, kv, kv', <<>>)
    /\ UNCHANGED <<req, raised, config>>

Next ==
    \/ \E r \in Request :
         Arrive(r) \/ Start(r) \/ StartLoad(r) \/ FinishLoad(r)
           \/ Continue(r) \/ Preempt(r) \/ Finish(r)
    \/ Evict
    \/ Reset

Spec == Init /\ [][Next]_vars

-----------------------------------------------------------------------------
(******************************** Properties ********************************)
holders(b) == {r \in DOMAIN kv.req_to_blocks : Contains(kv.req_to_blocks[r], b)}

(* No assertion or exception of block_pool.py, kv_cache_utils.py or the     *)
(* managers fires: re-hashing a hashed block, removing a block that is not  *)
(* in the free list, taking more blocks than there are, hits for a running  *)
(* request.                                                                 *)
NoAssertionFires == ~raised

(* ref_cnt counts exactly the requests that hold the block, and the free    *)
(* queue holds, once each, exactly the blocks nobody holds.  A leak, a      *)
(* double free or a block handed out while in use breaks this.              *)
RefCountsExact ==
    /\ \A b \in Block : kv.pool.ref_cnt[b] = Cardinality(holders(b))
    /\ ToSet(kv.pool.free) = {b \in Block : holders(b) = {}}
    /\ IsInjective(kv.pool.free)

(* Every block reachable through the prefix cache really holds the KV of    *)
(* the tokens its hash stands for, in every slot.                           *)
CacheSound ==
    \A b \in Block : LET h == kv.pool.block_hash[b] IN
      h # NoHash => \A o \in 1..BlockSize :
                      store[b][o] = SubSeq(h, 1, Len(h) - BlockSize + o)

(* Token n + 1 attends to token i <= n.                                     *)
attends(n, i) ==
    CASE AttnKind = "full"    -> TRUE
      [] AttnKind = "sliding" -> i > n + 1 - Window
      [] AttnKind = "chunked" -> (i - 1) \div Window = n \div Window

(* Every KV entry the next token of a running request attends to is stored  *)
(* where the request's block table says, computed from its own tokens.      *)
AttentionReadsOwnKV ==
    \A r \in Request : req[r].status = "running" =>
      LET blocks == blocks_of(kv, r)
          n      == req[r].computed
      IN  \A i \in 1..n : attends(n, i) =>
            /\ cdiv(i, BlockSize) <= Len(blocks)
            /\ block_at(blocks, i) # NullBlock
            /\ store[block_at(blocks, i)][offset(i)] = SubSeq(req[r].tokens, 1, i)

(* The slot the next token is written to belongs to the request alone and   *)
(* cannot be found through the prefix cache, or it already holds the very   *)
(* entry that is written: the last token of a fully loaded prompt is        *)
(* computed again in a block that may be hashed and shared by now.          *)
WritesHarmless ==
    \A r \in Request : req[r].status = "running" =>
      LET blocks == blocks_of(kv, r)
          i      == req[r].computed + 1
          b      == block_at(blocks, i)
      IN  i <= Len(req[r].tokens) /\ cdiv(i, BlockSize) <= Len(blocks) =>
            \/ holders(b) = {r} /\ kv.pool.block_hash[b] = NoHash
            \/ store[b][offset(i)] = SubSeq(req[r].tokens, 1, i)

(* Eviction eats prefix chains from the tail: as long as a free block can   *)
(* still be hit, a block with its parent's hash is in use or will be        *)
(* evicted later.  This is what freeing in reverse order is for.  (Blocks   *)
(* evicted by id, as connectors ask for, may be anywhere in a chain.)       *)
TailEvictedFirst ==
    AttnKind = "full" /\ ~EvictCalls =>
    \A i \in DOMAIN kv.pool.free : LET h == kv.pool.block_hash[kv.pool.free[i]] IN
      h # NoHash /\ Len(h) > BlockSize =>
        LET parent == SubSeq(h, 1, Len(h) - BlockSize) IN
        /\ parent \in DOMAIN kv.pool.cached
        /\ \E b \in ToSet(kv.pool.cached[parent]) :
             \/ kv.pool.ref_cnt[b] > 0
             \/ \E j \in DOMAIN kv.pool.free : j > i /\ kv.pool.free[j] = b

(* The blocks reported as a common prefix (for cascade attention) are the   *)
(* first blocks of every request that holds KV.                             *)
CommonPrefixIsCommon ==
    \A r \in Request : req[r].status = "running" =>
      LET n == get_num_common_prefix_blocks(kv, r) IN
      \A s \in DOMAIN kv.req_to_blocks : \A i \in 1..n :
        i <= Len(kv.req_to_blocks[s]) /\ kv.req_to_blocks[s][i] = kv.req_to_blocks[r][i]

(* A request alone in the pool can always take its next step when the pool  *)
(* has room for a request of maximal length: the free-block check of        *)
(* allocate_slots never refuses it, so preempting the others always helps.  *)
AloneAlwaysFits ==
    \A r \in Request :
      /\ Cardinality(Block) * BlockSize >= MaxModelLen
      /\ req[r].status \in {"waiting", "running"}
      /\ \A s \in DOMAIN kv.req_to_blocks \ {r} : kv.req_to_blocks[s] = <<>>
      => LET n    == Len(req[r].tokens)
             hits == IF req[r].status = "waiting"
                     THEN get_computed_blocks(kv, req[r].hashes, n) ELSE <<>>
             todo == n - req[r].computed - Len(hits) * BlockSize
         IN  todo > 0 => allocate_slots(kv, r, view(r), req[r].computed, hits, 0, todo, 0, FALSE).ok
=============================================================================
