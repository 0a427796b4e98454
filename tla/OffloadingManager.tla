-------------------------- MODULE OffloadingManager --------------------------
(***************************************************************************)
(* What OffloadingManager (v1/kv_offload/abstract.py) promises of the      *)
(* blocks it manages, whatever the backing store and the eviction policy:  *)
(* a block is loaded only after it was stored, and is protected from       *)
(* eviction while it is being loaded or stored.                            *)
(***************************************************************************)
EXTENDS Integers

CONSTANT Hash

VARIABLES
    ready,      \* the blocks that lookup finds
    storing,    \* the blocks between prepare_store and complete_store
    reading     \* reading[h]: the loads of h between prepare_load and complete_load

avars == <<ready, storing, reading>>

Init == ready = {} /\ storing = {} /\ reading = [h \in Hash |-> 0]

prepare_load(H) ==
    /\ H \subseteq ready
    /\ reading' = [h \in Hash |-> IF h \in H THEN reading[h] + 1 ELSE reading[h]]
    /\ UNCHANGED <<ready, storing>>

complete_load(H) ==
    /\ \A h \in H : reading[h] > 0
    /\ reading' = [h \in Hash |-> IF h \in H THEN reading[h] - 1 ELSE reading[h]]
    /\ UNCHANGED <<ready, storing>>

(* The blocks N are to be stored, and to make room the blocks E go.         *)
prepare_store(N, E) ==
    /\ N \intersect (ready \union storing) = {}
    /\ \A h \in E : h \in ready /\ reading[h] = 0
    /\ ready' = ready \ E
    /\ storing' = storing \union N
    /\ UNCHANGED reading

complete_store(H) ==
    /\ ready' = ready \union (H \intersect storing)
    /\ storing' = storing \ H
    /\ UNCHANGED reading

Next ==
    \E H \in SUBSET Hash :
      \/ prepare_load(H)
      \/ complete_load(H)
      \/ complete_store(H)
      \/ \E E \in SUBSET Hash : prepare_store(H, E)

Spec == Init /\ [][Next]_avars
=============================================================================
