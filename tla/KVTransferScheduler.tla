-------------------------- MODULE KVTransferScheduler --------------------------
(***************************************************************************)
(* What the scheduler of v1/core/sched/scheduler.py does for a KV          *)
(* connector, as operators on the part of its state that this touches, and *)
(* the KVOutputAggregator that joins the reports of the workers.           *)
(*                                                                         *)
(* s.status[r] is "absent", "waiting" (WAITING or PREEMPTED), "remote"     *)
(* (WAITING_FOR_REMOTE_KVS), "running" or "finished"; s.requests is the    *)
(* scheduler's table and s.held the requests that have blocks;             *)
(* s.computed[r] is num_computed_tokens, in blocks; s.hit[r] the part of   *)
(* it that was found in the local prefix cache.                            *)
(***************************************************************************)
EXTENDS Integers, FiniteSets

(* Only the blocks of a request that has finished are freed.                *)
free_blocks(s, R) == [s EXCEPT !.held = @ \ R, !.requests = @ \ R]

(* finish_requests, for a request that is still waiting for its KV: the     *)
(* transfer goes on writing into its blocks.                                *)
delay_free_blocks(s, r) == s.status[r] = "remote" /\ r \notin s.finished_recving

free_request(s, r, delay) ==
    LET f == [s EXCEPT !.status[r] = "finished", !.finished_req_ids = @ \union {r},
                       !.finished_recving = @ \ {r}, !.failed_recving = @ \ {r}]
    IN IF delay THEN f ELSE free_blocks(f, {r})

(* Mutant: a request whose transfer has failed goes on waiting for it.      *)
promote_loaded(s) ==
    LET R == {r \in s.finished_recving \ s.failed_recving : s.status[r] = "remote"}
    IN [s EXCEPT !.status = [r \in DOMAIN @ |-> IF r \in R THEN "waiting" ELSE @[r]],
                 !.finished_recving = @ \ R]

(* _try_promote_blocked_waiting_request and _update_waiting_for_remote_kv,  *)
(* for every request whose transfer is over.  One that failed keeps the     *)
(* tokens that were there before it, or gives its blocks back.              *)
promote(s) ==
    LET R == {r \in s.finished_recving : s.status[r] = "remote"}
    IN [s EXCEPT !.status = [r \in DOMAIN @ |-> IF r \in R THEN "waiting" ELSE @[r]],
                 !.held = @ \ {r \in R \intersect s.failed_recving : s.computed[r] = 0},
                 !.failed_recving = @ \ R,
                 !.finished_recving = @ \ R]

preempt(s, R) ==
    [s EXCEPT !.status = [r \in DOMAIN @ |-> IF r \in R THEN "waiting" ELSE @[r]],
              !.computed = [r \in DOMAIN @ |-> IF r \in R THEN 0 ELSE @[r]],
              !.held = @ \ R]

(* _handle_invalid_blocks: of the requests that wait for their KV or run,   *)
(* those with invalid blocks keep the tokens before the first such block.   *)
affected(s, invalid) == {r \in invalid : s.status[r] \in {"remote", "running"}}

handle_invalid_blocks(s, invalid, recompute) ==
    LET bad == affected(s, invalid)
        t == [s EXCEPT !.computed = [r \in DOMAIN @ |-> IF r \in bad THEN s.hit[r] ELSE @[r]]]
    IN IF recompute
       THEN [t EXCEPT !.failed_recving = @ \union {r \in bad : s.status[r] = "remote"}]
       ELSE t

(* _update_from_kv_xfer_finished and its assertions.                        *)
xfer_finished(s, recving, sending) ==
    LET done == {r \in recving : s.status[r] = "remote"}
    IN free_blocks([s EXCEPT !.finished_recving = @ \union done], (recving \ done) \union sending)

xfer_expected(s, recving, sending) ==
    /\ recving \union sending \subseteq s.requests
    /\ \A r \in recving : s.status[r] \in {"remote", "finished"}
    /\ \A r \in sending : s.status[r] = "finished"
    /\ recving \intersect sending = {}

(* KVOutputAggregator: `reported` counts, for each request, the workers     *)
(* that have reported it; the last of them finishes it.                     *)
total(reported, outs, r) == reported[r] + Cardinality({w \in DOMAIN outs : r \in outs[w]})

aggregated(reported, outs, expected) ==
    {r \in DOMAIN reported : total(reported, outs, r) >= expected}

still_reported(reported, outs, expected) ==
    [r \in DOMAIN reported |-> total(reported, outs, r) % expected]
=============================================================================
