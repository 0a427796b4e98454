------------------------ MODULE CPUOffloadingManager ------------------------
(***************************************************************************)
(* The managers of KV blocks offloaded to CPU memory: LRUOffloadingManager *)
(* and ARCOffloadingManager, their CPUBackend, and the                     *)
(* FilterReusedOffloadingManager that may be put before either.            *)
(*                                                                         *)
(* A block hash maps to a BlockStatus: its ref_cnt, the number of loads    *)
(* that read it, or -1 until it is stored; and its block_id in CPU memory. *)
(* LRU keeps the hashes, least recently used first, in t1 alone; ARC those *)
(* used again in t2.  Which of the two ARC takes a victim from depends on  *)
(* a target that hits in its ghost lists move: here, it may be either.     *)
(***************************************************************************)
EXTENDS Integers, Sequences, FiniteSets, SequencesExt, Functions

CONSTANTS Hash, Deployments

VARIABLES
    config,     \* the deployment, chosen when the engine starts
    ref_cnt,    \* ref_cnt and block_id of the blocks the manager knows
    block_id,
    free,       \* the block ids that are not allocated
    lists,      \* the lists t1 and t2
    counts      \* how often lookup was asked for a hash, up to the threshold; none is forgotten

mvars == <<config, ref_cnt, block_id, free, lists, counts>>

num_blocks == config.num_blocks             \* of the CPU backend
ARC == config.policy = "arc"
store_threshold == config.store_threshold   \* of FilterReused; 0 if there is none

known == DOMAIN ref_cnt
is_ready(h) == h \in known /\ ref_cnt[h] >= 0

ManagerInit ==
    /\ config \in Deployments
    /\ ref_cnt = <<>> /\ block_id = <<>>
    /\ free = 0..(num_blocks - 1)
    /\ lists = [t1 |-> <<>>, t2 |-> <<>>]
    /\ counts = [h \in Hash |-> 0]

-----------------------------------------------------------------------------
(* lookup: how many of the blocks, from the first, are ready; each is       *)
(* counted.                                                                 *)
lookup(hashes) == Cardinality({i \in DOMAIN hashes : \A j \in 1..i : is_ready(hashes[j])})

counted(hashes) ==
    [h \in Hash |-> IF h \in ToSet(hashes) /\ counts[h] < store_threshold THEN counts[h] + 1
                    ELSE counts[h]]

(* touch: the first of the blocks becomes the most recently used.  ARC      *)
(* moves a block that is ready on from t1 to t2.                            *)
touched(l, hashes, R) ==
    LET back == Reverse(hashes)
        On(t) == SelectSeq(back, LAMBDA h : h \in ToSet(t))
        Left(t) == SelectSeq(t, LAMBDA h : h \notin ToSet(hashes))
        again == SelectSeq(back, LAMBDA h : h \in ToSet(l.t2) \/ (h \in ToSet(l.t1) /\ h \in R))
    IN IF ARC
       THEN [t1 |-> Left(l.t1) \o SelectSeq(On(l.t1), LAMBDA h : h \notin R),
             t2 |-> Left(l.t2) \o again]
       ELSE [l EXCEPT !.t1 = Left(@) \o On(@)]

ready_blocks == {h \in known : ref_cnt[h] >= 0}

(* Mutant: the block is not protected while it is loaded.                   *)
prepare_load_unprotected(H) == UNCHANGED <<ref_cnt, block_id, free>>

prepare_load(H) ==
    /\ ref_cnt' = [h \in known |-> IF h \in H THEN ref_cnt[h] + 1 ELSE ref_cnt[h]]
    /\ UNCHANGED <<block_id, free>>

complete_load(H) ==
    /\ ref_cnt' = [h \in known |-> IF h \in H THEN ref_cnt[h] - 1 ELSE ref_cnt[h]]
    /\ UNCHANGED <<block_id, free>>

-----------------------------------------------------------------------------
(* prepare_store of the blocks H.  FilterReused passes those on that lookup *)
(* was asked for often enough; the manager stores those it does not know.   *)
eligible(H) == {h \in H : counts[h] >= store_threshold}
block_hashes_to_store(H) == eligible(H) \ known
num_blocks_to_evict(H) == Cardinality(block_hashes_to_store(H)) - Cardinality(free)

(* Mutant: a block that is being loaded may be evicted.                     *)
evictable_stored(H) == {h \in known : ref_cnt[h] >= 0} \ eligible(H)

evictable(H) == {h \in known : ref_cnt[h] = 0} \ eligible(H)

(* The k least recently used blocks of list t that may be evicted.          *)
oldest(t, k, H) ==
    {h \in evictable(H) : \E i \in DOMAIN t :
       t[i] = h /\ Cardinality({j \in 1..(i - 1) : t[j] \in evictable(H)}) < k}

(* The blocks that are evicted for H, if there are enough.  If not, LRU     *)
(* evicts none; ARC has evicted some when it finds out.                     *)
to_evict(H) ==
    {V \in SUBSET evictable(H) :
       /\ \E i \in 0..Len(lists.t1), j \in 0..Len(lists.t2) :
             V = oldest(lists.t1, i, H) \union oldest(lists.t2, j, H)
       /\ Cardinality(V) = IF num_blocks_to_evict(H) > 0 THEN num_blocks_to_evict(H) ELSE 0}

evicted_in_vain(H) ==
    {V \in SUBSET evictable(H) :
       /\ \E i \in 0..Len(lists.t1) :
             V = oldest(lists.t1, i, H) \union oldest(lists.t2, Len(lists.t2), H)
       /\ block_hashes_to_store(H) # {}
       /\ Cardinality(V) < num_blocks_to_evict(H)
       /\ ARC \/ (V = {} /\ Cardinality(evictable(H)) < num_blocks_to_evict(H))}

(* CPUBackend: the ids that the blocks V give back, and allocate_blocks.    *)
freed(V) == free \union {block_id[h] : h \in V}
allocations(N, V) == {a \in [N -> freed(V)] : \A g, h \in N : a[g] = a[h] => g = h}

(* The blocks V are evicted and the blocks N allocated, not yet ready.      *)
prepare_store(N, V) ==
    LET A == allocations(N, V)
        a == CHOOSE x \in A : TRUE
    IN /\ A # {}
       /\ ref_cnt' = [h \in (known \ V) \union N |-> IF h \in N THEN -1 ELSE ref_cnt[h]]
       /\ block_id' = [h \in (known \ V) \union N |-> IF h \in N THEN a[h] ELSE block_id[h]]
       /\ free' = freed(V) \ {a[h] : h \in N}

(* The lists, with the blocks V gone and new blocks at the end of t1.       *)
relisted(new, V) ==
    [t1 |-> SelectSeq(lists.t1, LAMBDA h : h \notin V) \o new,
     t2 |-> SelectSeq(lists.t2, LAMBDA h : h \notin V)]

(* complete_store; there are no failures.                                   *)
complete_store(H) ==
    /\ ref_cnt' = [h \in known |-> IF h \in H /\ ref_cnt[h] < 0 THEN 0 ELSE ref_cnt[h]]
    /\ UNCHANGED <<block_id, free>>

-----------------------------------------------------------------------------
(* A manager by itself, called as abstract.py says it may be.               *)
Touch(hashes) ==
    /\ lists' = touched(lists, hashes, ready_blocks)
    /\ counts' = counted(hashes)
    /\ UNCHANGED <<config, ref_cnt, block_id, free>>

PrepareLoad(H) == H \subseteq ready_blocks /\ prepare_load(H) /\ UNCHANGED <<config, lists, counts>>

CompleteLoad(H) ==
    /\ \A h \in H : h \in known /\ ref_cnt[h] > 0
    /\ complete_load(H)
    /\ UNCHANGED <<config, lists, counts>>

PrepareStore(H) ==
    /\ \/ \E V \in to_evict(H) :
            /\ prepare_store(block_hashes_to_store(H), V)
            /\ lists' = relisted(SetToSeq(block_hashes_to_store(H)), V)
       \/ \E V \in evicted_in_vain(H) : prepare_store({}, V) /\ lists' = relisted(<<>>, V)
    /\ UNCHANGED <<config, counts>>

CompleteStore(H) == complete_store(H) /\ UNCHANGED <<config, lists, counts>>

ManagerNext ==
    \/ \E H \in SUBSET Hash :
         PrepareLoad(H) \/ CompleteLoad(H) \/ PrepareStore(H) \/ CompleteStore(H)
    \/ \E hashes \in Seq(Hash) : Touch(hashes)

ManagerSpec == ManagerInit /\ [][ManagerNext]_mvars

-----------------------------------------------------------------------------
(******************************** Properties ********************************)
Abstract == INSTANCE OffloadingManager WITH
    ready <- ready_blocks,
    storing <- known \ ready_blocks,
    reading <- [h \in Hash |-> IF h \in ready_blocks THEN ref_cnt[h] ELSE 0]

(* LRU and ARC keep the promise of OffloadingManager: a block is loadable   *)
(* only once it was stored, and is not evicted while a load reads it or a   *)
(* store writes it.                                                         *)
KeepsThePromise == Abstract!Spec

(* No two blocks share a place in CPU memory, and none is in one that       *)
(* CPUBackend would give to another block.                                  *)
PlacesDistinct ==
    /\ \A g, h \in known : block_id[g] = block_id[h] => g = h
    /\ \A h \in known : block_id[h] \notin free
=============================================================================
