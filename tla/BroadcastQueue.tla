--------------------------- MODULE BroadcastQueue ---------------------------
(***************************************************************************)
(* What the shared-memory broadcast promises: one writer sends messages    *)
(* 1, 2, 3, ...; every reader gets all of them, in this order, once each;  *)
(* and the writer is never more than max_chunks messages ahead of the      *)
(* slowest reader.                                                         *)
(***************************************************************************)
EXTENDS Integers

CONSTANTS
    Reader,      \* ranks of the local readers
    max_chunks,  \* chunks of the ring
    MaxMsg       \* bound on the number of messages

VARIABLES
    published,  \* messages published so far
    finished    \* messages each reader has finished reading

avars == <<published, finished>>

AInit == published = 0 /\ finished = [r \in Reader |-> 0]

Send ==
    /\ published < MaxMsg
    /\ \A r \in Reader : published - finished[r] < max_chunks
    /\ published' = published + 1
    /\ UNCHANGED finished

Deliver(r) ==
    /\ finished[r] < published
    /\ finished' = [finished EXCEPT ![r] = @ + 1]
    /\ UNCHANGED published

ANext == Send \/ \E r \in Reader : Deliver(r)

ASpec == AInit /\ [][ANext]_avars
=============================================================================
