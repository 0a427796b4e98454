---------------------------- MODULE NixlConnector ----------------------------
(***************************************************************************)
(* The NIXL connector: engine "P" computes the prompt of a request and     *)
(* keeps its blocks; engine "D" reads them and goes on from there.  Both   *)
(* engines run the same scheduler and, on every rank, the same connector   *)
(* worker.  A step of an engine is a batch that schedule builds, that      *)
(* every rank executes (start_load_kv, the model, get_finished,            *)
(* get_block_ids_with_load_errors) and that update_from_output consumes.   *)
(*                                                                         *)
(* A prompt is two blocks, of which the first may be in the local prefix   *)
(* cache, and is one unit of transfer: a rank's invalid blocks are the     *)
(* blocks the request was to receive.  There is room for every request.    *)
(* The KV cache has one group, is not MLA, and is read in device memory.   *)
(***************************************************************************)
EXTENDS KVTransferScheduler, Sequences, SequencesExt

CONSTANTS Request, Deployments

(* The deployment, chosen when the engines start.                           *)
VARIABLE config

Engine == {"P", "D"}
tp == config.tp                             \* ranks of each engine
Rank(e) == 0..(tp[e] - 1)
recompute_kv_load_failures == config.recompute
BatchQueueSize == config.BatchQueueSize     \* max_concurrent_batches
Sent == config.Sent                         \* the requests that may be sent
May(what) == what \in config.may            \* "abort", "preempt", "hit", "stop": what may happen
                                            \* to them; "handshake", "setup", "read": what may fail

ASSUME NixlAssumption ==
    \A d \in Deployments :
      /\ d.tp \in [Engine -> Nat \ {0}] /\ (d.tp["P"] % d.tp["D"] = 0 \/ d.tp["D"] % d.tp["P"] = 0)
      /\ d.recompute \in BOOLEAN /\ d.BatchQueueSize \in Nat \ {0} /\ d.Sent \subseteq Request

VARIABLES
    sched,      \* of each engine, its scheduler with the connector's scheduler side
    work,       \* of each engine, the connector's worker side on every rank
    batches,    \* of each engine, the batches in flight, oldest first
    reported,   \* of each engine, the counts of its KVOutputAggregator
    xfer,       \* xfer[w][q][r]: the read of request r by rank w of D from rank q of P
    notifs,     \* notifs[q][r]: notifications for r that rank q of P has not fetched
    now,        \* how many of the expiry times of sched["P"].expires have passed
    asserted    \* no assertion has failed

vars == <<config, sched, work, batches, reported, xfer, notifs, now, asserted>>

all(x) == [r \in Request |-> x]
NoMeta == [recv |-> {}, empty |-> {}, in_batch |-> {}, not_processed |-> {}, to_send |-> <<>>]

Init ==
    /\ config \in Deployments
    /\ sched = [e \in Engine |->
         [status |-> all("absent"), requests |-> {}, held |-> {}, computed |-> all(0),
          hit |-> all(0), finished_recving |-> {}, failed_recving |-> {},
          finished_req_ids |-> {}, preempted |-> {},
          remote_prefill |-> {},    \* params.do_remote_prefill is still True
          meta |-> NoMeta,          \* what build_connector_meta will hand over
          expires |-> <<>>]]        \* requests in the order of their expiry times
    /\ work = [e \in Engine |-> [w \in Rank(e) |->
         [metadata |-> {}, empty |-> {}, transfers |-> all({}), failed |-> {}, invalid |-> {},
          agents |-> FALSE,                         \* the handshake has succeeded
          waiters |-> <<>>, ready |-> <<>>,         \* callbacks of the handshake; _ready_requests
          callbacks |-> <<>>, half |-> FALSE,       \* callbacks of a handshake that is over
          to_process |-> {}, to_send |-> <<>>, counts |-> all(0)]]]
    /\ batches = [e \in Engine |-> <<>>]
    /\ reported = [e \in Engine |-> [recv |-> all(0), send |-> all(0)]]
    /\ xfer = [w \in Rank("D") |-> [q \in Rank("P") |-> all("none")]]
    /\ notifs = [q \in Rank("P") |-> all(0)]
    /\ now = 0 /\ asserted = TRUE

(* The expiry time of r has passed.                                         *)
expired(r) == \E i \in 1..now : sched["P"].expires[i] = r

-----------------------------------------------------------------------------
(************************ the scheduler of an engine ************************)
(* A request reaches P from the proxy, and D with the parameters that P     *)
(* returned when it finished the prompt.                                    *)
AddRequest(e, r) ==
    /\ r \in Sent /\ sched[e].status[r] = "absent"
    /\ e = "D" => \E i \in DOMAIN sched["P"].expires : sched["P"].expires[i] = r
    /\ sched' = [sched EXCEPT ![e].status[r] = "waiting", ![e].requests = @ \union {r},
                              ![e].remote_prefill = IF e = "D" THEN @ \union {r} ELSE @]
    /\ UNCHANGED <<config, work, batches, reported, xfer, notifs, now, asserted>>

(* request_finished, of a request that ends with the given status.          *)
request_finished(e, s, r, finished_status) ==
    CASE r \in s.remote_prefill ->
           [s |-> [s EXCEPT !.meta.recv = @ \union {r}, !.meta.empty = @ \union {r},
                            !.remote_prefill = @ \ {r}],
            delay |-> FALSE]
      [] e = "P" /\ finished_status # "length" ->
           [s |-> [s EXCEPT !.meta.not_processed = @ \union {r}], delay |-> FALSE]
      [] e = "P" /\ finished_status = "length" ->
           [s |-> [s EXCEPT !.meta.to_send = Append(@, r), !.expires = Append(@, r)],
            delay |-> r \in s.held]
      [] OTHER -> [s |-> s, delay |-> FALSE]

finish(e, s, r, finished_status) ==
    LET f == request_finished(e, s, r, finished_status)
    IN free_request(f.s, r, f.delay \/ delay_free_blocks(s, r))

finish_all(e, s, R, finished_status) ==
    FoldLeft(LAMBDA t, r : finish(e, t, r, finished_status), s, SetToSeq(R))

Abort(e, r) ==
    /\ May("abort")
    /\ sched[e].status[r] \in {"waiting", "remote", "running"}
    /\ sched' = [sched EXCEPT ![e] = finish(e, @, r, "abort")]
    /\ UNCHANGED <<config, work, batches, reported, xfer, notifs, now, asserted>>

(* get_num_new_matched_tokens and update_state_after_alloc, for the waiting *)
(* requests R, of which `hits` have a prefix in the local cache.            *)
admit(e, s, R, hits) ==
    LET load == {r \in R \intersect s.remote_prefill : s.computed[r] = 0}
    IN [s EXCEPT
          !.status = [r \in Request |-> IF r \in load THEN "remote"
                                        ELSE IF r \in R THEN "running" ELSE @[r]],
          !.computed = [r \in Request |-> IF r \in load THEN 2 ELSE @[r]],
          !.hit = [r \in Request |-> IF r \in load /\ r \in hits THEN 1 ELSE @[r]],
          !.held = @ \union R,
          !.remote_prefill = @ \ load,
          !.meta.recv = @ \union load,
          !.meta.in_batch = IF e = "P" THEN @ \union R ELSE @]

in_flight(e) == UNION {batches[e][i].scheduled : i \in DOMAIN batches[e]}

(* The engine has requests, or other traffic keeps it stepping while its    *)
(* ranks have something to look for.                                        *)
has_requests(e) ==
    \/ \E r \in Request : sched[e].status[r] \in {"waiting", "remote", "running"}
    \/ sched[e].finished_req_ids # {}
looking(k) ==
    \/ k.to_process # {} \/ k.to_send # <<>> \/ \E r \in Request : k.transfers[r] # {}
    \/ k.waiters # <<>> \/ k.callbacks # <<>> \/ k.ready # <<>> \/ k.failed # {} \/ k.invalid # {}

(* schedule preempts some of the running requests, none of them twice, or   *)
(* admits what waits; then build_connector_meta hands the metadata over.    *)
Schedule(e) ==
    /\ Len(batches[e]) < BatchQueueSize
    /\ has_requests(e) \/ \E w \in Rank(e) : looking(work[e][w])
    /\ \E s \in {preempt([sched[e] EXCEPT !.preempted = @ \union R], R) :
                   R \in SUBSET {r \in Request : /\ May("preempt") /\ sched[e].status[r] = "running"
                                                 /\ r \notin in_flight(e) \union sched[e].preempted}
                         \ {{}}}
                \union
                {LET p == promote(sched[e])
                 IN admit(e, p, {r \in Request : p.status[r] = "waiting"}, hits) :
                   hits \in SUBSET {r \in Sent : May("hit") /\ e = "D" /\ sched[e].status[r] = "waiting"}} :
         /\ batches' = [batches EXCEPT ![e] = Append(@,
              [meta |-> s.meta, scheduled |-> {r \in Request : s.status[r] = "running"} \ in_flight(e),
               stage |-> [w \in Rank(e) |-> "start"],
               recving |-> [w \in Rank(e) |-> {}], sending |-> [w \in Rank(e) |-> {}],
               invalid |-> {}])]
         /\ sched' = [sched EXCEPT ![e] = [s EXCEPT !.meta = NoMeta, !.finished_req_ids = {}]]
    /\ UNCHANGED <<config, work, reported, xfer, notifs, now, asserted>>

(* update_from_output of the oldest batch, with the reports of its ranks    *)
(* joined.  A prompt ends with its first token, by length or by a stop; a   *)
(* decode ends after one step.                                              *)
Update(e) ==
    /\ batches[e] # <<>> /\ \A w \in Rank(e) : Head(batches[e]).stage[w] = "done"
    /\ LET b == Head(batches[e])
           recving == aggregated(reported[e].recv, b.recving, tp[e])
           sending == aggregated(reported[e].send, b.sending, tp[e])
           s1 == handle_invalid_blocks(sched[e], b.invalid, recompute_kv_load_failures)
           bad == affected(sched[e], b.invalid)
           over == {r \in b.scheduled \ bad : s1.status[r] = "running"}
       IN \E length \in SUBSET over :
            LET s2 == finish_all(e, finish_all(e, s1, over \ length, "stop"), length, "length")
                s3 == IF recompute_kv_load_failures THEN s2 ELSE finish_all(e, s2, bad, "error")
            IN /\ length = IF e = "D" THEN {} ELSE IF May("stop") THEN length ELSE over
               /\ sched' = [sched EXCEPT ![e] = xfer_finished(s3, recving, sending)]
               /\ asserted' = (asserted /\ xfer_expected(s3, recving, sending))
               /\ reported' = [reported EXCEPT
                    ![e] = [recv |-> still_reported(@.recv, b.recving, tp[e]),
                            send |-> still_reported(@.send, b.sending, tp[e])]]
    /\ batches' = [batches EXCEPT ![e] = Tail(@)]
    /\ UNCHANGED <<config, work, xfer, notifs, now>>

-----------------------------------------------------------------------------
(********************* the connector worker on a rank ***********************)
(* The batch that rank w of engine e executes.                              *)
current(e, w) == CHOOSE i \in DOMAIN batches[e] : /\ batches[e][i].stage[w] # "done"
                                                 /\ \A j \in 1..(i - 1) : batches[e][j].stage[w] = "done"
at_stage(e, w, stage) == /\ \E i \in DOMAIN batches[e] : batches[e][i].stage[w] # "done"
                         /\ batches[e][current(e, w)].stage[w] = stage

(* The ranks of P that rank w of D reads from, and how many ranks of D read *)
(* from one rank of P.                                                      *)
remote_ranks(w) ==
    IF tp["D"] >= tp["P"] THEN {w \div (tp["D"] \div tp["P"])}
    ELSE {w * (tp["P"] \div tp["D"]) + i : i \in 0..(tp["P"] \div tp["D"] - 1)}

(* Mutant: the first rank of D that has read is taken for the last.         *)
first_consumer == 1

consumers_per_producer == IF tp["D"] > tp["P"] THEN tp["D"] \div tp["P"] ELSE 1

(* Mutant: a read that could not be posted is not reported as received.     *)
posted_or_lost(w, k, R, bad) ==
    [k EXCEPT !.transfers = [r \in Request |-> IF r \in (R \ k.empty) \ bad THEN remote_ranks(w) ELSE @[r]],
              !.invalid = @ \union (bad \ k.empty)]

(* _read_blocks_for_req for the requests R, for some of which (bad) the     *)
(* read cannot be posted or the notification not be sent.                   *)
posted(w, k, R, bad) ==
    [k EXCEPT !.transfers = [r \in Request |-> IF r \in (R \ k.empty) \ bad THEN remote_ranks(w) ELSE @[r]],
              !.invalid = @ \union (bad \ k.empty), !.failed = @ \union (bad \ k.empty)]

StartLoadKv(e, w) ==
    /\ at_stage(e, w, "start")
    /\ LET i == current(e, w)
           m == batches[e][i].meta
           k == [work[e][w] EXCEPT !.metadata = @ \union m.recv, !.empty = @ \union m.empty]
           R == ToSet(k.ready) \union (IF k.agents THEN m.recv ELSE {})
           keep == (k.to_process \union m.in_batch) \ m.not_processed
       IN \E bad \in SUBSET R :
            /\ ~May("setup") \/ Cardinality(remote_ranks(w)) > 1 => bad \subseteq k.empty
            /\ work' = [work EXCEPT ![e][w] =
                 [posted(w, k, R, bad) EXCEPT
                    !.ready = <<>>,
                    !.waiters = IF k.agents THEN @ ELSE @ \o SetToSeq(m.recv),
                    !.to_process = keep,
                    !.to_send = @ \o SelectSeq(m.to_send, LAMBDA r : r \in keep)]]
            /\ xfer' = IF e = "P" THEN xfer
                       ELSE [xfer EXCEPT ![w] = [q \in Rank("P") |-> [r \in Request |->
                              IF r \in (R \ k.empty) \ bad /\ q \in remote_ranks(w) THEN "proc"
                              ELSE @[q][r]]]]
            /\ notifs' = IF e = "P" THEN notifs
                         ELSE [q \in Rank("P") |-> [r \in Request |->
                                IF r \in (R \intersect k.empty) \ bad /\ q \in remote_ranks(w)
                                THEN notifs[q][r] + 1 ELSE notifs[q][r]]]
            /\ asserted' = (asserted /\ m.not_processed \intersect ToSet(k.to_send) = {})
            /\ batches' = [batches EXCEPT ![e][i].stage[w] = "started"]
    /\ UNCHANGED <<config, sched, reported, now>>

(* _get_new_notifs: the requests that every reader of this rank has read.   *)
known(k) == k.to_process \union ToSet(k.to_send)
fetched(e, w, r) == IF e = "P" /\ r \in known(work[e][w]) THEN notifs[w][r] ELSE 0
new_notifs(e, w) ==
    {r \in Request : /\ fetched(e, w, r) > 0
                     /\ work[e][w].counts[r] + fetched(e, w, r) >= consumers_per_producer}

(* _pop_done_transfers.                                                     *)
in_progress(w, r, k) == {q \in k.transfers[r] : xfer[w][q][r] = "proc"}
done_transfers(w, k) == {r \in Request : k.transfers[r] # {} /\ in_progress(w, r, k) = {}}
failed_transfers(w, k) == {r \in k.metadata : \E q \in k.transfers[r] : xfer[w][q][r] = "err"}

(* The requests at the head of to_send that have expired.                   *)
due(to_send) == {to_send[i] : i \in {j \in DOMAIN to_send : \A h \in 1..j : expired(to_send[h])}}

GetFinished(e, w) ==
    /\ at_stage(e, w, "started")
    /\ LET k == work[e][w]
           i == current(e, w)
           sent == new_notifs(e, w)
           left == SelectSeq(k.to_send, LAMBDA r : r \notin sent)
           late == due(left)
           recvd == done_transfers(w, k) \union k.failed
       IN /\ work' = [work EXCEPT ![e][w] =
               [k EXCEPT !.transfers = [r \in Request |-> in_progress(w, r, k)],
                         !.invalid = @ \union failed_transfers(w, k),
                         !.failed = {}, !.metadata = @ \ recvd,
                         !.to_process = @ \ (sent \union late),
                         !.to_send = SelectSeq(left, LAMBDA r : r \notin late),
                         !.counts = [r \in Request |-> IF r \in sent \union late THEN 0
                                                       ELSE @[r] + fetched(e, w, r)]]]
          /\ asserted' = (asserted /\ recvd \subseteq k.metadata /\ sent \union late \subseteq k.to_process)
          /\ batches' = [batches EXCEPT ![e][i].stage[w] = "finished",
                                        ![e][i].sending[w] = sent \union late,
                                        ![e][i].recving[w] = recvd]
    /\ notifs' = IF e = "P" THEN [notifs EXCEPT ![w] = all(0)] ELSE notifs
    /\ UNCHANGED <<config, sched, reported, xfer, now>>

GetBlockIdsWithLoadErrors(e, w) ==
    /\ at_stage(e, w, "finished")
    /\ LET i == current(e, w)
       IN batches' = [batches EXCEPT ![e][i].stage[w] = "done",
                                     ![e][i].invalid = @ \union work[e][w].invalid]
    /\ work' = [work EXCEPT ![e][w].invalid = {}]
    /\ UNCHANGED <<config, sched, reported, xfer, notifs, now, asserted>>

(* The thread of the handshakes: one ends, and the requests that waited for *)
(* it are called back one after another.                                    *)
HandshakeEnd(w, ok) ==
    /\ ok \/ May("handshake")
    /\ work["D"][w].waiters # <<>> /\ work["D"][w].callbacks = <<>>
    /\ work' = [work EXCEPT !["D"][w] =
         [work["D"][w] EXCEPT !.agents = ok, !.callbacks = work["D"][w].waiters, !.waiters = <<>>]]
    /\ UNCHANGED <<config, sched, batches, reported, xfer, notifs, now, asserted>>

(* Mutant: a request without blocks is reported as failed like the others.  *)
called_back_all(k, r) ==
    IF k.half THEN [k EXCEPT !.failed = @ \union {r}, !.callbacks = Tail(@), !.half = FALSE]
    ELSE [k EXCEPT !.invalid = @ \union ({r} \intersect k.metadata), !.half = TRUE]

(* Mutant: the failure is reported before the blocks are marked.            *)
called_back_late(k, r) ==
    IF k.half
    THEN [k EXCEPT !.invalid = @ \union ({r} \intersect k.metadata), !.callbacks = Tail(@), !.half = FALSE]
    ELSE IF r \in k.empty THEN [k EXCEPT !.callbacks = Tail(@)]
    ELSE [k EXCEPT !.failed = @ \union {r}, !.half = TRUE]

(* request_ready after a handshake that failed, in two steps: the blocks    *)
(* are marked, and then the request is.  Where there are no blocks,         *)
(* indexing them raises and nothing is marked.                              *)
called_back(k, r) ==
    IF k.half THEN [k EXCEPT !.failed = @ \union {r}, !.callbacks = Tail(@), !.half = FALSE]
    ELSE IF r \in k.empty THEN [k EXCEPT !.callbacks = Tail(@)]
    ELSE [k EXCEPT !.invalid = @ \union ({r} \intersect k.metadata), !.half = TRUE]

RequestReady(w) ==
    LET k == work["D"][w]
        r == Head(k.callbacks)
    IN /\ k.callbacks # <<>>
       /\ work' = [work EXCEPT !["D"][w] =
            IF k.agents THEN [k EXCEPT !.ready = Append(@, r), !.callbacks = Tail(@)]
            ELSE called_back(k, r)]
       /\ UNCHANGED <<config, sched, batches, reported, xfer, notifs, now, asserted>>

-----------------------------------------------------------------------------
(********************************** NIXL ************************************)
(* A read ends, and with it the rank of P is notified; or it fails.  What   *)
(* was read is good if P still had the blocks.                              *)
XferDone(w, q, r) ==
    /\ xfer[w][q][r] = "proc"
    /\ xfer' = [xfer EXCEPT ![w][q][r] = IF r \in sched["P"].held THEN "good" ELSE "stale"]
    /\ notifs' = [notifs EXCEPT ![q][r] = @ + 1]
    /\ UNCHANGED <<config, sched, work, batches, reported, now, asserted>>

XferFail(w, q, r) ==
    /\ May("read")
    /\ xfer[w][q][r] = "proc"
    /\ xfer' = [xfer EXCEPT ![w][q][r] = "err"]
    /\ UNCHANGED <<config, sched, work, batches, reported, notifs, now, asserted>>

(* VLLM_NIXL_ABORT_REQUEST_TIMEOUT seconds after a prompt ended.            *)
Tick ==
    /\ now < Len(sched["P"].expires)
    /\ now' = now + 1
    /\ UNCHANGED <<config, sched, work, batches, reported, xfer, notifs, asserted>>

Engines == \E e \in Engine :
    \/ Schedule(e)
    \/ Update(e)
    \/ \E r \in Request : AddRequest(e, r) \/ Abort(e, r)
    \/ \E w \in Rank(e) : StartLoadKv(e, w) \/ GetFinished(e, w) \/ GetBlockIdsWithLoadErrors(e, w)

Handshakes == \E w \in Rank("D") : RequestReady(w) \/ \E ok \in BOOLEAN : HandshakeEnd(w, ok)

Nixl == \E w \in Rank("D") : \E q \in Rank("P") : \E r \in Request : XferDone(w, q, r) \/ XferFail(w, q, r)

Next == Engines \/ Handshakes \/ Nixl \/ Tick

(* The loop of D runs while D has requests, a handshake ends and calls back, *)
(* and a read ends: weak fairness of these steps, spelled out.  The steps of *)
(* an engine are those that change its batches.                             *)
Steps(e) == []<><<batches'[e] # batches[e]>>_vars

Fairness ==
    /\ []<>(batches["D"] = <<>> /\ ~has_requests("D")) \/ Steps("D")
    /\ \/ []<>(\A w \in Rank("D") : work["D"][w].waiters \o work["D"][w].callbacks = <<>>)
       \/ []<><<work' # work /\ UNCHANGED batches>>_vars
    /\ \/ []<>(\A w \in Rank("D"), q \in Rank("P"), r \in Request : xfer[w][q][r] # "proc")
       \/ []<><<xfer' # xfer /\ UNCHANGED batches>>_vars

Spec == Init /\ [][Next]_vars /\ Fairness

-----------------------------------------------------------------------------
(******************************** Properties ********************************)
(* No assertion of the connector or of the scheduler's KV transfer code     *)
(* fails.                                                                   *)
AssertionsHold == asserted

(* While a rank of D reads, D keeps the blocks it writes to, and P keeps    *)
(* the blocks it reads, unless the request has expired.                     *)
BlocksKept ==
    \A w \in Rank("D"), q \in Rank("P"), r \in Request :
      xfer[w][q][r] = "proc" =>
        r \in sched["D"].held /\ (r \in sched["P"].held \/ expired(r))

(* A request of D that counts the remote tokens as computed has received    *)
(* them on every rank, from blocks P still held, or has expired.            *)
RunsOnReceivedKV ==
    \A r \in Request :
      sched["D"].status[r] = "running" /\ sched["D"].computed[r] = 2 =>
        \A w \in Rank("D") : \A q \in remote_ranks(w) :
          \/ xfer[w][q][r] = "good"
          \/ xfer[w][q][r] = "stale" /\ expired(r)

(* Rank w of engine e has still to report the transfer of r.                *)
tells(e, w, r) ==
    LET k == work[e][w]
        meta == {sched[e].meta} \union
                {batches[e][i].meta : i \in {j \in DOMAIN batches[e] : batches[e][j].stage[w] = "start"}}
    IN IF e = "P"
       THEN /\ r \in k.to_process
            /\ r \in ToSet(k.to_send) \/ \E m \in meta : r \in ToSet(m.to_send)
       ELSE \/ k.transfers[r] # {} \/ r \in ToSet(k.waiters \o k.callbacks \o k.ready) \union k.failed
            \/ \E m \in meta : r \in m.recv

(* No transfer is forgotten on the way: as long as D holds blocks for one,  *)
(* or P those of a prompt that has ended, every rank has still to report it *)
(* or has reported it, once; so that the aggregator's count comes out.      *)
EveryTransferAwaited ==
    \A r \in Request :
      /\ sched["P"].status[r] = "finished" /\ r \in sched["P"].held =>
           reported["P"].send[r] + Cardinality({w \in Rank("P") :
             tells("P", w, r) \/ \E i \in DOMAIN batches["P"] : r \in batches["P"][i].sending[w]}) = tp["P"]
      /\ r \in sched["D"].held /\ (\/ sched["D"].status[r] = "finished"
                                   \/ sched["D"].status[r] = "remote" /\ r \notin sched["D"].finished_recving) =>
           reported["D"].recv[r] + Cardinality({w \in Rank("D") :
             tells("D", w, r) \/ \E i \in DOMAIN batches["D"] : r \in batches["D"][i].recving[w]}) = tp["D"]

(* Every request of D ends, whatever fails; and P gives the blocks of every *)
(* prompt back if its engine keeps stepping until they expire.              *)
TransfersEnd ==
    /\ <>[](\A r \in Request : sched["D"].status[r] \in {"absent", "finished"})
    /\ Steps("P") /\ <>[](now = Len(sched["P"].expires)) =>
         <>[](\A r \in Request : sched["P"].status[r] = "finished" => r \notin sched["P"].held)
=============================================================================
