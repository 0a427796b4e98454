----------------------- MODULE OffloadingManagerProofs -----------------------
(***************************************************************************)
(* LRUOffloadingManager and ARCOffloadingManager, over CPUBackend and with *)
(* or without FilterReusedOffloadingManager before them, keep the promise  *)
(* of OffloadingManager, for any set of block hashes and any capacity.     *)
(*                                                                         *)
(* Which blocks are evicted does not matter to the proof, only that all of *)
(* them may be (Evicted); nor does which place a new block gets, only that *)
(* it is a free one (Allocated).  The lists and the counts stay opaque.    *)
(***************************************************************************)
EXTENDS CPUOffloadingManager, TLAPS

(* The inductive invariant: every block has a place of its own and is ready *)
(* or being stored.                                                         *)
ManagerInv ==
    /\ known \subseteq Hash
    /\ \A h \in known : ref_cnt[h] \in Int /\ ref_cnt[h] >= -1
    /\ DOMAIN block_id = known
    /\ PlacesDistinct

(* prepare_store evicts only blocks that no load reads and no store writes. *)
LEMMA Evicted ==
    ASSUME NEW H, NEW V, V \in to_evict(H) \/ V \in evicted_in_vain(H)
    PROVE  V \subseteq known /\ \A h \in V : ref_cnt[h] = 0
<1>1. V \subseteq evictable(H)
  BY DEF to_evict, evicted_in_vain
<1> QED  BY <1>1 DEF evictable

(* allocate_blocks gives each new block a free place of its own.            *)
LEMMA Allocated ==
    ASSUME NEW N, NEW V, NEW a, a \in allocations(N, V)
    PROVE  /\ \A h \in N : a[h] \in freed(V)
           /\ \A g, h \in N : a[g] = a[h] => g = h
BY DEF allocations

-----------------------------------------------------------------------------
(* prepare_store, with V evicted and N allocated, keeps the invariant.      *)
LEMMA StorePreserves ==
    ASSUME ManagerInv, NEW N, NEW V, N \subseteq Hash, N \intersect known = {}, V \subseteq known,
           prepare_store(N, V)
    PROVE  ManagerInv'
<1> DEFINE A == allocations(N, V)
           a == CHOOSE x \in A : TRUE
           K == (known \ V) \union N
<1>1. /\ a \in A
      /\ ref_cnt' = [h \in K |-> IF h \in N THEN -1 ELSE ref_cnt[h]]
      /\ block_id' = [h \in K |-> IF h \in N THEN a[h] ELSE block_id[h]]
      /\ free' = freed(V) \ {a[h] : h \in N}
  BY DEF prepare_store
<1>2. known' = K
  BY <1>1 DEF known
<1>3. /\ \A h \in N : a[h] \in freed(V)
      /\ \A g, h \in N : a[g] = a[h] => g = h
  BY <1>1, Allocated
<1>4. \A h \in known \ V : block_id[h] \notin freed(V)
  BY DEF ManagerInv, PlacesDistinct, freed
<1>5. /\ \A h \in N : block_id'[h] = a[h] /\ ref_cnt'[h] = -1
      /\ \A h \in K \ N : h \in known \ V /\ block_id'[h] = block_id[h] /\ ref_cnt'[h] = ref_cnt[h]
  BY <1>1
<1>6. \A g, h \in K : block_id'[g] = block_id'[h] => g = h
  <2> SUFFICES ASSUME NEW g \in K, NEW h \in K, block_id'[g] = block_id'[h]
               PROVE  g = h
    OBVIOUS
  <2>1. CASE g \in N /\ h \in N
    BY <2>1, <1>3, <1>5
  <2>2. CASE g \notin N /\ h \notin N
    BY <2>2, <1>5 DEF ManagerInv, PlacesDistinct
  <2>3. CASE g \in N /\ h \notin N
    BY <2>3, <1>3, <1>4, <1>5
  <2>4. CASE g \notin N /\ h \in N
    BY <2>4, <1>3, <1>4, <1>5
  <2> QED  BY <2>1, <2>2, <2>3, <2>4
<1>7. \A h \in K : block_id'[h] \notin free'
  BY <1>1, <1>4, <1>5
<1>8. \A h \in K : ref_cnt'[h] \in Int /\ ref_cnt'[h] >= -1
  BY <1>5 DEF ManagerInv
<1>9. DOMAIN block_id' = K /\ K \subseteq Hash
  BY <1>1 DEF ManagerInv
<1> QED  BY <1>2, <1>6, <1>7, <1>8, <1>9 DEF ManagerInv, PlacesDistinct

(* An operation that keeps the blocks and their places keeps the invariant  *)
(* if their counts stay above -1.                                           *)
LEMMA CountsPreserve ==
    ASSUME ManagerInv, known' = known, UNCHANGED <<block_id, free>>,
           \A h \in known : ref_cnt'[h] \in Int /\ ref_cnt'[h] >= -1
    PROVE  ManagerInv'
BY DEF ManagerInv, PlacesDistinct

LEMMA ManagerStep ==
    ASSUME ManagerInv, [ManagerNext]_mvars
    PROVE  ManagerInv'
<1>1. CASE UNCHANGED mvars
  <2>1. known' = known
    BY <1>1 DEF mvars, known
  <2> QED  BY <1>1, <2>1, CountsPreserve DEF mvars, ManagerInv
<1>2. ASSUME NEW hashes \in Seq(Hash), Touch(hashes)
      PROVE  ManagerInv'
  <2>1. known' = known /\ UNCHANGED <<ref_cnt, block_id, free>>
    BY <1>2 DEF Touch, known
  <2> QED  BY <2>1, CountsPreserve DEF ManagerInv
<1>3. ASSUME NEW H \in SUBSET Hash, PrepareLoad(H)
      PROVE  ManagerInv'
  <2>1. ref_cnt' = [h \in known |-> IF h \in H THEN ref_cnt[h] + 1 ELSE ref_cnt[h]]
    BY <1>3 DEF PrepareLoad, prepare_load
  <2>2. known' = known /\ UNCHANGED <<block_id, free>>
    BY <1>3, <2>1 DEF PrepareLoad, prepare_load, known
  <2>3. \A h \in known : ref_cnt'[h] \in Int /\ ref_cnt'[h] >= -1
    BY <2>1 DEF ManagerInv
  <2> QED  BY <2>2, <2>3, CountsPreserve
<1>4. ASSUME NEW H \in SUBSET Hash, CompleteLoad(H)
      PROVE  ManagerInv'
  <2>1. /\ ref_cnt' = [h \in known |-> IF h \in H THEN ref_cnt[h] - 1 ELSE ref_cnt[h]]
        /\ \A h \in H : h \in known /\ ref_cnt[h] > 0
    BY <1>4 DEF CompleteLoad, complete_load
  <2>2. known' = known /\ UNCHANGED <<block_id, free>>
    BY <1>4, <2>1 DEF CompleteLoad, complete_load, known
  <2>3. \A h \in known : ref_cnt'[h] \in Int /\ ref_cnt'[h] >= -1
    BY <2>1 DEF ManagerInv
  <2> QED  BY <2>2, <2>3, CountsPreserve
<1>5. ASSUME NEW H \in SUBSET Hash, PrepareStore(H)
      PROVE  ManagerInv'
  <2>1. \E N, V : /\ N = {} \/ N = block_hashes_to_store(H)
                  /\ V \in to_evict(H) \/ V \in evicted_in_vain(H)
                  /\ prepare_store(N, V)
    BY <1>5 DEF PrepareStore
  <2>2. PICK N, V : /\ N = {} \/ N = block_hashes_to_store(H)
                    /\ V \in to_evict(H) \/ V \in evicted_in_vain(H)
                    /\ prepare_store(N, V)
    BY <2>1
  <2>3. N \subseteq Hash /\ N \intersect known = {}
    BY <2>2 DEF block_hashes_to_store, eligible
  <2>4. V \subseteq known
    BY <2>2, Evicted
  <2> QED  BY <2>2, <2>3, <2>4, StorePreserves
<1>6. ASSUME NEW H \in SUBSET Hash, CompleteStore(H)
      PROVE  ManagerInv'
  <2>1. ref_cnt' = [h \in known |-> IF h \in H /\ ref_cnt[h] < 0 THEN 0 ELSE ref_cnt[h]]
    BY <1>6 DEF CompleteStore, complete_store
  <2>2. known' = known /\ UNCHANGED <<block_id, free>>
    BY <1>6, <2>1 DEF CompleteStore, complete_store, known
  <2>3. \A h \in known : ref_cnt'[h] \in Int /\ ref_cnt'[h] >= -1
    BY <2>1 DEF ManagerInv
  <2> QED  BY <2>2, <2>3, CountsPreserve
<1> QED  BY <1>1, <1>2, <1>3, <1>4, <1>5, <1>6 DEF ManagerNext

LEMMA ManagerInvariant == ManagerSpec => []ManagerInv
<1>1. ManagerInit => ManagerInv
  <2> SUFFICES ASSUME ManagerInit PROVE ManagerInv
    OBVIOUS
  <2>1. known = {} /\ DOMAIN block_id = {}
    BY DEF ManagerInit, known
  <2> QED  BY <2>1 DEF ManagerInv, PlacesDistinct
<1>2. ManagerInv /\ [ManagerNext]_mvars => ManagerInv'
  BY ManagerStep
<1> QED  BY <1>1, <1>2, PTL DEF ManagerSpec

(* No two offloaded blocks share a place in CPU memory, and none is in a    *)
(* place that CPUBackend would give to another block.                       *)
THEOREM Distinct == ManagerSpec => []PlacesDistinct
<1>1. ManagerInv => PlacesDistinct
  BY DEF ManagerInv
<1> QED  BY <1>1, ManagerInvariant, PTL

-----------------------------------------------------------------------------
(* Every operation is one of the abstract manager, or leaves it alone.      *)
LEMMA LoadPrepared ==
    ASSUME ManagerInv, NEW H \in SUBSET Hash, PrepareLoad(H)
    PROVE  Abstract!prepare_load(H)
<1>1. /\ H \subseteq ready_blocks
      /\ ref_cnt' = [h \in known |-> IF h \in H THEN ref_cnt[h] + 1 ELSE ref_cnt[h]]
  BY DEF PrepareLoad, prepare_load
<1>2. known' = known
  BY <1>1 DEF known
<1>3. ready_blocks' = ready_blocks
  BY <1>1, <1>2 DEF ready_blocks, ManagerInv
<1>4. ready_blocks \subseteq known
  BY DEF ready_blocks
<1>5. ASSUME NEW h \in Hash
      PROVE  (IF h \in ready_blocks THEN ref_cnt'[h] ELSE 0)
             = IF h \in H THEN (IF h \in ready_blocks THEN ref_cnt[h] ELSE 0) + 1
               ELSE IF h \in ready_blocks THEN ref_cnt[h] ELSE 0
  BY <1>1, <1>4
<1> QED  BY <1>1, <1>2, <1>3, <1>5 DEF Abstract!prepare_load

LEMMA LoadCompleted ==
    ASSUME ManagerInv, NEW H \in SUBSET Hash, CompleteLoad(H)
    PROVE  Abstract!complete_load(H)
<1>1. /\ \A h \in H : h \in known /\ ref_cnt[h] > 0
      /\ ref_cnt' = [h \in known |-> IF h \in H THEN ref_cnt[h] - 1 ELSE ref_cnt[h]]
  BY DEF CompleteLoad, complete_load
<1>2. known' = known
  BY <1>1 DEF known
<1>3. ready_blocks' = ready_blocks
  BY <1>1, <1>2 DEF ready_blocks, ManagerInv
<1>4. ready_blocks \subseteq known /\ H \subseteq ready_blocks
  BY <1>1 DEF ready_blocks, ManagerInv
<1>5. ASSUME NEW h \in Hash
      PROVE  (IF h \in ready_blocks THEN ref_cnt'[h] ELSE 0)
             = IF h \in H THEN (IF h \in ready_blocks THEN ref_cnt[h] ELSE 0) - 1
               ELSE IF h \in ready_blocks THEN ref_cnt[h] ELSE 0
  BY <1>1, <1>4
<1> QED  BY <1>1, <1>2, <1>3, <1>4, <1>5 DEF Abstract!complete_load

LEMMA StorePrepared ==
    ASSUME ManagerInv, NEW H \in SUBSET Hash, PrepareStore(H)
    PROVE  \E N, E \in SUBSET Hash : Abstract!prepare_store(N, E)
<1>1. \E N, V : /\ N = {} \/ N = block_hashes_to_store(H)
                /\ V \in to_evict(H) \/ V \in evicted_in_vain(H)
                /\ prepare_store(N, V)
  BY DEF PrepareStore
<1>2. PICK N, V : /\ N = {} \/ N = block_hashes_to_store(H)
                  /\ V \in to_evict(H) \/ V \in evicted_in_vain(H)
                  /\ prepare_store(N, V)
  BY <1>1
<1>3. N \subseteq Hash /\ N \intersect known = {}
  BY <1>2 DEF block_hashes_to_store, eligible
<1>4. V \subseteq known /\ \A h \in V : ref_cnt[h] = 0
  BY <1>2, Evicted
<1>5. ref_cnt' = [h \in (known \ V) \union N |-> IF h \in N THEN -1 ELSE ref_cnt[h]]
  BY <1>2 DEF prepare_store
<1>6. known' = (known \ V) \union N
  BY <1>5 DEF known
<1>7. V \subseteq ready_blocks /\ ready_blocks \subseteq known /\ known \subseteq Hash
  BY <1>4 DEF ready_blocks, ManagerInv
<1>8. ready_blocks' = ready_blocks \ V
  BY <1>3, <1>5, <1>6 DEF ready_blocks, ManagerInv
<1>9. known' \ ready_blocks' = (known \ ready_blocks) \union N
  BY <1>3, <1>6, <1>7, <1>8
<1>10. ASSUME NEW h \in Hash
       PROVE  (IF h \in ready_blocks' THEN ref_cnt'[h] ELSE 0)
              = IF h \in ready_blocks THEN ref_cnt[h] ELSE 0
  BY <1>3, <1>4, <1>5, <1>7, <1>8
<1>11. \A h \in V : h \in ready_blocks /\ (IF h \in ready_blocks THEN ref_cnt[h] ELSE 0) = 0
  BY <1>4, <1>7
<1>12. Abstract!prepare_store(N, V)
  BY <1>3, <1>7, <1>8, <1>9, <1>10, <1>11 DEF Abstract!prepare_store
<1> QED  BY <1>3, <1>7, <1>12

LEMMA StoreCompleted ==
    ASSUME ManagerInv, NEW H \in SUBSET Hash, CompleteStore(H)
    PROVE  Abstract!complete_store(H)
<1>1. ref_cnt' = [h \in known |-> IF h \in H /\ ref_cnt[h] < 0 THEN 0 ELSE ref_cnt[h]]
  BY DEF CompleteStore, complete_store
<1>2. known' = known
  BY <1>1 DEF known
<1>3. ready_blocks' = ready_blocks \union (H \intersect (known \ ready_blocks))
  BY <1>1, <1>2 DEF ready_blocks, ManagerInv
<1>4. ready_blocks \subseteq known
  BY DEF ready_blocks
<1>5. ASSUME NEW h \in Hash
      PROVE  (IF h \in ready_blocks' THEN ref_cnt'[h] ELSE 0)
             = IF h \in ready_blocks THEN ref_cnt[h] ELSE 0
  BY <1>1, <1>3, <1>4 DEF ready_blocks, ManagerInv
<1>6. known' \ ready_blocks' = (known \ ready_blocks) \ H
  BY <1>2, <1>3
<1> QED  BY <1>3, <1>5, <1>6 DEF Abstract!complete_store

(* LRU and ARC implement OffloadingManager: a block is loadable only once   *)
(* it was stored, and is not evicted while it is loaded or stored.          *)
THEOREM Implements == ManagerSpec => KeepsThePromise
<1>1. ManagerInit => Abstract!Init
  <2> SUFFICES ASSUME ManagerInit PROVE Abstract!Init
    OBVIOUS
  <2>1. known = {}
    BY DEF ManagerInit, known
  <2>2. ready_blocks = {}
    BY <2>1 DEF ready_blocks
  <2> QED  BY <2>1, <2>2 DEF Abstract!Init
<1>2. ManagerInv /\ [ManagerNext]_mvars => [Abstract!Next]_(Abstract!avars)
  <2> SUFFICES ASSUME ManagerInv, [ManagerNext]_mvars
               PROVE  [Abstract!Next]_(Abstract!avars)
    OBVIOUS
  <2>1. CASE UNCHANGED ref_cnt
    BY <2>1 DEF Abstract!avars, ready_blocks, known
  <2>2. ASSUME NEW hashes \in Seq(Hash), Touch(hashes)
        PROVE  UNCHANGED ref_cnt
    BY <2>2 DEF Touch
  <2>3. ASSUME NEW H \in SUBSET Hash, PrepareLoad(H)
        PROVE  Abstract!Next
    BY <2>3, LoadPrepared DEF Abstract!Next
  <2>4. ASSUME NEW H \in SUBSET Hash, CompleteLoad(H)
        PROVE  Abstract!Next
    BY <2>4, LoadCompleted DEF Abstract!Next
  <2>5. ASSUME NEW H \in SUBSET Hash, PrepareStore(H)
        PROVE  Abstract!Next
    BY <2>5, StorePrepared DEF Abstract!Next
  <2>6. ASSUME NEW H \in SUBSET Hash, CompleteStore(H)
        PROVE  Abstract!Next
    BY <2>6, StoreCompleted DEF Abstract!Next
  <2> QED  BY <2>1, <2>2, <2>3, <2>4, <2>5, <2>6 DEF ManagerNext, mvars
<1> QED  BY <1>1, <1>2, ManagerInvariant, PTL DEF ManagerSpec, KeepsThePromise, Abstract!Spec
=============================================================================
