------------------------- MODULE OffloadingConnector -------------------------
(***************************************************************************)
(* The offloading connector: as the scheduler computes the blocks of a     *)
(* prompt they are copied to CPU memory, and a request whose first blocks  *)
(* are there, be it new or preempted, loads them instead of computing them.*)
(*                                                                         *)
(* One engine, one rank, synchronous scheduling: a step is a schedule, its *)
(* execution by the worker, and update_from_output; the copies run beside  *)
(* it, those of one direction in the order of their submission.  An        *)
(* offloaded block is one GPU block.  A prompt is its full blocks and a    *)
(* rest; a unit of work computes one block or the rest, after which the    *)
(* request is finished.  What the KV cache holds from finished requests is *)
(* not looked up: a request starts with no computed tokens.                *)
(***************************************************************************)
EXTENDS CPUOffloadingManager, KVTransferScheduler

CONSTANTS Request

VARIABLES
    sched,      \* the scheduler's state of the requests
    running,    \* its running queue
    table,      \* table[r]: the GPU blocks of r
    conn,       \* OffloadingConnectorScheduler
    step,       \* the SchedulerOutput of this step, and what it reports
    worker,     \* OffloadingConnectorWorker
    copies,     \* the transfers of each direction, oldest first, and how many have ended
    gpu, cpu,   \* the block hash whose KV is in a block of GPU or CPU memory
    pc,         \* where the engine is in its step
    asserted    \* no assertion has failed

cvars == <<sched, running, table, conn, step, worker, copies, gpu, cpu, pc, asserted>>
vars == <<mvars, cvars>>

block_hashes(r) == config.prompt[r]
units(r) == Len(block_hashes(r)) + 1
GPUBlock == 1..config.num_gpu_blocks
Chunk == config.chunk                       \* units a request may get in a step
May(what) == what \in config.may

NoStep == [new |-> <<>>, preempted |-> {}, visited |-> {}, loads |-> <<>>, stores |-> <<>>,
           finished |-> {}, sending |-> {}, recving |-> {}]

Init ==
    /\ ManagerInit
    /\ sched = [status |-> [r \in Request |-> "absent"], requests |-> {}, held |-> {},
                computed |-> [r \in Request |-> 0], finished_recving |-> {},
                failed_recving |-> {}, finished_req_ids |-> {}]
    /\ running = <<>> /\ table = [r \in Request |-> <<>>]
    /\ conn = [stored |-> <<>>,                              \* _reqs_being_stored
               loaded |-> [r \in Request |-> {}],            \* _reqs_being_loaded
               loading |-> {},                               \* _blocks_being_loaded
               next |-> [r \in Request |-> 0]]               \* _next_stored_block_idx
    /\ step = NoStep
    /\ worker = [unsubmitted |-> <<>>, stored |-> {},        \* the keys of _store_jobs
                 waiting |-> {}]                             \* _finished_reqs_waiting_for_store
    /\ copies = [out |-> <<>>, in |-> <<>>, out_ended |-> 0, in_ended |-> 0]
    /\ gpu = [b \in GPUBlock |-> "none"] /\ cpu = [c \in 0..(num_blocks - 1) |-> "none"]
    /\ pc = "idle" /\ asserted = TRUE

-----------------------------------------------------------------------------
(******************************* the scheduler ******************************)
used == UNION {ToSet(table[r]) : r \in sched.held}
(* allocate_slots, for the first n units of r.                              *)
room(r, n) == Cardinality(GPUBlock \ used) >= n - Len(table[r])
allocated(r, n) ==
    [table EXCEPT ![r] = @ \o SubSeq(SetToSeq(GPUBlock \ used), 1, n - Len(table[r]))]
num_new(r) == IF units(r) - sched.computed[r] < Chunk THEN units(r) - sched.computed[r] ELSE Chunk
wanted(r) == sched.computed[r] + num_new(r)

AddRequest(r) ==
    /\ pc = "idle" /\ sched.status[r] = "absent" /\ r \in config.sent
    /\ sched' = [sched EXCEPT !.status[r] = "waiting", !.requests = @ \union {r}]
    /\ UNCHANGED <<mvars, running, table, conn, step, worker, copies, gpu, cpu, pc, asserted>>

(* Mutant: a request of which nothing is left to store is not waited for.   *)
request_finished_stored(r) == r \in DOMAIN conn.stored /\ conn.stored[r] # {}

(* request_finished: whether the blocks of r are kept.                      *)
request_finished(r) == r \in DOMAIN conn.stored

finish(s, r) == free_request(s, r, delay_free_blocks(s, r) \/ request_finished(r))

(* Of an abort while r loads its blocks and its worker still has a set of   *)
(* its store jobs, see README.md.                                           *)
Abort(r) ==
    /\ May("abort") /\ pc = "idle" /\ sched.status[r] \in {"waiting", "remote", "running"}
    /\ ~(sched.status[r] = "remote" /\ request_finished(r))
    /\ sched' = finish(sched, r)
    /\ running' = SelectSeq(running, LAMBDA q : q # r)
    /\ conn' = [conn EXCEPT !.next[r] = 0]
    /\ UNCHANGED <<mvars, table, step, worker, copies, gpu, cpu, pc, asserted>>

(* The engine steps while it has requests, and while other traffic keeps it *)
(* stepping.                                                                *)
has_requests == \/ \E r \in Request : sched.status[r] \in {"waiting", "remote", "running"}
                \/ sched.finished_req_ids # {}
looking == worker.unsubmitted # <<>> \/ worker.waiting # {} \/ copies.out # <<>> \/ copies.in # <<>>

StartSchedule ==
    /\ pc = "idle" /\ (has_requests \/ looking)
    /\ pc' = "running" /\ step' = NoStep
    /\ UNCHANGED <<mvars, sched, running, table, conn, worker, copies, gpu, cpu, asserted>>

(* schedule takes the running requests in order; one that finds no room     *)
(* preempts the last of them, perhaps itself.                               *)
ScheduleRunning ==
    /\ pc = "running" /\ Cardinality(DOMAIN step.new) < Len(running)
    /\ LET r == running[Cardinality(DOMAIN step.new) + 1]
           l == Last(running)
       IN IF room(r, wanted(r))
          THEN /\ step' = [step EXCEPT !.new = @ @@ (r :> num_new(r))]
               /\ table' = allocated(r, wanted(r))
               /\ UNCHANGED <<sched, running>>
          ELSE /\ step' = [step EXCEPT !.preempted = @ \union {l}]
               /\ sched' = preempt(sched, {l}) /\ running' = Front(running)
               /\ table' = [table EXCEPT ![l] = <<>>]
    /\ UNCHANGED <<mvars, conn, worker, copies, gpu, cpu, pc, asserted>>

RunningScheduled ==
    /\ pc = "running" /\ Cardinality(DOMAIN step.new) = Len(running)
    /\ IF step.preempted = {} THEN pc' = "waiting" /\ sched' = promote(sched)
                              ELSE pc' = "store" /\ UNCHANGED sched
    /\ UNCHANGED <<mvars, running, table, conn, step, worker, copies, gpu, cpu, asserted>>

(* get_num_new_matched_tokens: the blocks of r that it can load.            *)
matched(r) == IF sched.computed[r] = 0 THEN lookup(block_hashes(r)) ELSE 0
hit_blocks(r) == {block_hashes(r)[i] : i \in 1..matched(r)}
fits(r) == room(r, IF matched(r) > 0 THEN matched(r) ELSE wanted(r))
delayed(r) == config.enable_prefix_caching /\ hit_blocks(r) \intersect conn.loading # {}

(* A waiting request: it loads its blocks if some are offloaded, or runs.   *)
(* If there is no room the loop ends.                                       *)
Load(r) ==
    /\ prepare_load(hit_blocks(r))
    /\ asserted' = (asserted /\ \A h \in hit_blocks(r) : is_ready(h))
    /\ table' = allocated(r, matched(r))
    /\ sched' = [sched EXCEPT !.status[r] = "remote", !.computed[r] = matched(r), !.held = @ \union {r}]
    /\ step' = [step EXCEPT
         !.visited = @ \union {r},
         !.loads = Append(@, [req |-> r, copy |-> [b \in ToSet(table'[r]) |->
            block_id[block_hashes(r)[CHOOSE i \in 1..matched(r) : table'[r][i] = b]]]])]
    /\ conn' = [conn EXCEPT !.loaded[r] = @ \union hit_blocks(r), !.next[r] = matched(r),
                            !.loading = IF config.enable_prefix_caching THEN @ \union hit_blocks(r) ELSE @]
    /\ UNCHANGED running

Run(r) ==
    /\ table' = allocated(r, wanted(r))
    /\ sched' = [sched EXCEPT !.status[r] = "running", !.held = @ \union {r}]
    /\ running' = Append(running, r)
    /\ step' = [step EXCEPT !.visited = @ \union {r}, !.new = @ @@ (r :> num_new(r))]
    /\ UNCHANGED <<ref_cnt, block_id, free, conn, asserted>>

ScheduleWaiting(r) ==
    /\ pc = "waiting" /\ sched.status[r] = "waiting" /\ r \notin step.visited
    /\ \/ ~delayed(r) /\ fits(r) /\ matched(r) > 0 /\ Load(r)
       \/ ~delayed(r) /\ fits(r) /\ matched(r) = 0 /\ Run(r)
       \/ /\ delayed(r) \/ ~fits(r)
          /\ step' = [step EXCEPT !.visited = IF delayed(r) THEN @ \union {r} ELSE Request]
          /\ UNCHANGED <<ref_cnt, block_id, free, sched, running, table, conn, asserted>>
    /\ IF sched.computed[r] = 0
       THEN /\ lists' = touched(lists, block_hashes(r), ready_blocks)
            /\ counts' = counted(block_hashes(r))
       ELSE UNCHANGED <<lists, counts>>
    /\ UNCHANGED <<config, worker, copies, gpu, cpu, pc>>

WaitingScheduled ==
    /\ pc = "waiting" /\ \A r \in Request \ step.visited : sched.status[r] # "waiting"
    /\ pc' = "store" /\ step' = [step EXCEPT !.visited = {}]
    /\ UNCHANGED <<mvars, sched, running, table, conn, worker, copies, gpu, cpu, asserted>>

-----------------------------------------------------------------------------
(* _get_reqs_to_store, for one scheduled request with new full blocks.      *)
num_full(r) == LET n == sched.computed[r] + step.new[r] IN IF n < units(r) THEN n ELSE units(r) - 1
to_offload == {r \in DOMAIN step.new \ step.visited : num_full(r) > conn.next[r]}

StoreBlocks(r) ==
    /\ pc = "store" /\ r \in to_offload
    /\ LET offered == SubSeq(block_hashes(r), conn.next[r] + 1, num_full(r))
           N == block_hashes_to_store(ToSet(offered))
           new == SelectSeq(offered, LAMBDA h : h \in N)
           src(h) == table[r][CHOOSE i \in 1..num_full(r) : block_hashes(r)[i] = h]
       IN \/ \E V \in to_evict(ToSet(offered)) :
               /\ prepare_store(N, V)
               /\ lists' = IF N = {} THEN lists
                           ELSE touched(relisted(new, V), SubSeq(block_hashes(r), 1, num_full(r)),
                                        ready_blocks \ V)
               /\ step' = [step EXCEPT
                    !.visited = @ \union {r},
                    !.stores = IF N = {} THEN @ ELSE
                       Append(@, [req |-> r, copy |-> [c \in {block_id'[h] : h \in N} |->
                                    src(CHOOSE h \in N : block_id'[h] = c)]])]
               /\ conn' = [conn EXCEPT
                    !.next[r] = num_full(r),
                    !.stored = IF N = {} THEN @
                               ELSE (r :> (N \union IF r \in DOMAIN @ THEN @[r] ELSE {})) @@ @]
          \/ \E V \in evicted_in_vain(ToSet(offered)) :
               /\ prepare_store({}, V)
               /\ lists' = relisted(<<>>, V)
               /\ step' = [step EXCEPT !.visited = @ \union {r}]
               /\ UNCHANGED conn
    /\ UNCHANGED <<config, counts, sched, running, table, worker, copies, gpu, cpu, pc, asserted>>

(* build_connector_meta, which counts the stores of the preempted requests  *)
(* as complete, and _update_after_schedule.                                 *)
being_stored(R) == UNION {conn.stored[r] : r \in R \intersect DOMAIN conn.stored}

BuildConnectorMeta ==
    /\ pc = "store" /\ to_offload = {}
    /\ complete_store(being_stored(step.preempted))
    /\ conn' = [conn EXCEPT !.stored = [r \in DOMAIN @ |-> IF r \in step.preempted THEN {} ELSE @[r]]]
    /\ sched' = [sched EXCEPT
         !.computed = [r \in Request |-> IF r \in DOMAIN step.new THEN @[r] + step.new[r] ELSE @[r]],
         !.finished_req_ids = {}]
    /\ step' = [step EXCEPT !.finished = sched.finished_req_ids, !.visited = {}]
    /\ pc' = "preempt"
    /\ asserted' = (asserted /\ being_stored(step.preempted) \subseteq known)
    /\ UNCHANGED <<config, lists, counts, running, table, worker, copies, gpu, cpu>>

-----------------------------------------------------------------------------
(******************************** the worker ********************************)
left_out == SubSeq(copies.out, copies.out_ended + 1, Len(copies.out))
left_in == SubSeq(copies.in, copies.in_ended + 1, Len(copies.in))
reqs(jobs) == {jobs[i].req : i \in DOMAIN jobs}

(* Mutant: the stores of the preempted requests are not waited for.         *)
awaited_none == {}

(* The preempted requests whose stores handle_preemptions waits for.        *)
awaited == step.preempted \intersect reqs(left_out)

HandlePreemptions ==
    /\ pc = "preempt"
    /\ IF step.preempted = {} THEN UNCHANGED <<worker, copies>>
       ELSE /\ copies' = [copies EXCEPT !.out = @ \o worker.unsubmitted]
            /\ worker' = [worker EXCEPT !.unsubmitted = <<>>]
    /\ pc' = "wait"
    /\ UNCHANGED <<mvars, sched, running, table, conn, step, gpu, cpu, asserted>>

(* The wait is over; start_kv_transfers.                                    *)
StartKvTransfers ==
    /\ pc = "wait" /\ awaited = {}
    /\ copies' = [copies EXCEPT !.out = @ \o worker.unsubmitted, !.in = @ \o step.loads]
    /\ worker' = [worker EXCEPT !.unsubmitted = <<>>]
    /\ asserted' = (asserted /\ reqs(step.loads) \intersect reqs(copies.in) = {})
    /\ pc' = "model"
    /\ UNCHANGED <<mvars, sched, running, table, conn, step, gpu, cpu>>

(* The blocks of r that this step computes; the last holds the rest.        *)
new_blocks(r) == (sched.computed[r] - step.new[r] + 1)..sched.computed[r]
content(r, i) == IF i < units(r) THEN block_hashes(r)[i] ELSE "rest"

(* Mutant: a request that ends when its stores are done is not reported.    *)
reported_waiting(active) == worker.waiting \ active

(* get_finished: the finished requests of which no store job is active.     *)
reported(active) == (worker.waiting \union (step.finished \intersect worker.stored)) \ active

(* The model computes the new blocks; prepare_store_kv; get_finished.       *)
ExecuteModel ==
    /\ pc = "model"
    /\ gpu' = [b \in GPUBlock |->
         IF \E r \in DOMAIN step.new : \E i \in new_blocks(r) : table[r][i] = b
         THEN LET r == CHOOSE q \in DOMAIN step.new : \E i \in new_blocks(q) : table[q][i] = b
              IN content(r, CHOOSE i \in new_blocks(r) : table[r][i] = b)
         ELSE gpu[b]]
    /\ LET active == reqs(left_out) \union reqs(step.stores)
           sending == reported(active)
       IN /\ step' = [step EXCEPT !.sending = sending,
                                  !.recving = reqs(SubSeq(copies.in, 1, copies.in_ended))]
          /\ worker' = [unsubmitted |-> step.stores,
                        stored |-> (worker.stored \union reqs(step.stores)) \ sending,
                        waiting |-> (worker.waiting \union step.finished) \intersect active]
    /\ copies' = [out |-> left_out, in |-> left_in, out_ended |-> 0, in_ended |-> 0]
    /\ pc' = "update"
    /\ UNCHANGED <<mvars, sched, running, table, conn, cpu, asserted>>

(* A transfer ends.                                                         *)
CopyOut ==
    /\ copies.out_ended < Len(copies.out)
    /\ LET j == copies.out[copies.out_ended + 1].copy
       IN cpu' = [c \in DOMAIN cpu |-> IF c \in DOMAIN j THEN gpu[j[c]] ELSE cpu[c]]
    /\ copies' = [copies EXCEPT !.out_ended = @ + 1]
    /\ UNCHANGED <<mvars, sched, running, table, conn, step, worker, gpu, pc, asserted>>

CopyIn ==
    /\ copies.in_ended < Len(copies.in)
    /\ LET j == copies.in[copies.in_ended + 1].copy
       IN gpu' = [b \in GPUBlock |-> IF b \in DOMAIN j THEN cpu[j[b]] ELSE gpu[b]]
    /\ copies' = [copies EXCEPT !.in_ended = @ + 1]
    /\ UNCHANGED <<mvars, sched, running, table, conn, step, worker, cpu, pc, asserted>>

-----------------------------------------------------------------------------
(**************************** update_from_output ****************************)
Update ==
    /\ pc = "update"
    /\ LET over == {r \in DOMAIN step.new : sched.computed[r] = units(r)}
       IN /\ sched' = FoldLeft(finish, sched, SetToSeq(over))
          /\ running' = SelectSeq(running, LAMBDA r : r \notin over)
          /\ conn' = [conn EXCEPT !.next = [r \in Request |-> IF r \in over THEN 0 ELSE @[r]]]
    /\ pc' = "stored"
    /\ UNCHANGED <<mvars, table, step, worker, copies, gpu, cpu, asserted>>

(* update_connector_output, of the stores and of one load after another.    *)
StoresCompleted ==
    /\ pc = "stored"
    /\ complete_store(being_stored(step.sending))
    /\ conn' = [conn EXCEPT !.stored = [r \in DOMAIN @ \ step.sending |-> @[r]]]
    /\ asserted' = (asserted /\ being_stored(step.sending) \subseteq known)
    /\ pc' = "loaded"
    /\ UNCHANGED <<config, lists, counts, sched, running, table, step, worker, copies, gpu, cpu>>

LoadCompleted(r) ==
    /\ pc = "loaded" /\ r \in step.recving /\ conn.loaded[r] # {}
    /\ complete_load(conn.loaded[r])
    /\ conn' = [conn EXCEPT !.loaded[r] = {}, !.loading = @ \ conn.loaded[r]]
    /\ asserted' = (asserted /\ \A h \in conn.loaded[r] : h \in known /\ ref_cnt[h] > 0)
    /\ UNCHANGED <<config, lists, counts, sched, running, table, step, worker, copies, gpu, cpu, pc>>

UpdateFromKvXferFinished ==
    /\ pc = "loaded" /\ \A r \in step.recving : conn.loaded[r] = {}
    /\ sched' = xfer_finished(sched, step.recving, step.sending)
    /\ asserted' = (asserted /\ xfer_expected(sched, step.recving, step.sending))
    /\ pc' = "idle" /\ step' = NoStep
    /\ UNCHANGED <<mvars, running, table, conn, worker, copies, gpu, cpu>>

Scheduler ==
    \/ StartSchedule \/ ScheduleRunning \/ RunningScheduled \/ WaitingScheduled \/ BuildConnectorMeta
    \/ \E r \in Request : AddRequest(r) \/ Abort(r) \/ ScheduleWaiting(r) \/ StoreBlocks(r)
    \/ Update \/ StoresCompleted \/ UpdateFromKvXferFinished
    \/ \E r \in Request : LoadCompleted(r)
Worker == HandlePreemptions \/ StartKvTransfers \/ ExecuteModel
Copies == CopyOut \/ CopyIn

Next == Scheduler \/ Worker \/ Copies

(* The engine steps, kept going by other traffic while its worker has       *)
(* transfers; and the oldest transfer of either direction ends: weak        *)
(* fairness, spelled out.                                                   *)
Fairness ==
    /\ []<>(pc = "idle" /\ ~has_requests /\ ~looking) \/ []<><<pc' # pc>>_vars
    /\ []<>(copies.out_ended = Len(copies.out)) \/ []<><<copies'.out_ended > copies.out_ended>>_vars
    /\ []<>(copies.in_ended = Len(copies.in)) \/ []<><<copies'.in_ended > copies.in_ended>>_vars

Spec == Init /\ [][Next]_vars /\ Fairness

-----------------------------------------------------------------------------
(******************************** Properties ********************************)
(* No assertion of the managers, of the connector or of the scheduler's KV  *)
(* transfer code fails.                                                     *)
AssertionsHold == asserted

(* A block that lookup finds holds the KV of its hash; or a store that the  *)
(* worker waits for, before it starts a load, is about to write it.         *)
OffloadedKVSound ==
    \A h \in ready_blocks :
      \/ cpu[block_id[h]] = h
      \/ /\ pc \in {"preempt", "wait"}
         /\ \E jobs \in {left_out, worker.unsubmitted} : \E i \in DOMAIN jobs :
              jobs[i].req \in step.preempted /\ block_id[h] \in DOMAIN jobs[i].copy

(* A request computes on its own KV: every block it counts as computed,     *)
(* itself or by a load, holds the KV of its hash.                           *)
RunsOnOwnKV ==
    pc = "model" =>
      \A r \in DOMAIN step.new :
        \A i \in 1..(sched.computed[r] - step.new[r]) :
          i < units(r) => gpu[table[r][i]] = block_hashes(r)[i]

(* The requests that hold blocks have all loaded them and wait to run, and  *)
(* one of them finds no room.                                               *)
Crowded ==
    /\ \E r \in sched.held : ~fits(r)
    /\ \A r \in sched.held : sched.status[r] = "waiting"

(* Every request ends, and in the end its blocks are freed and nothing      *)
(* that was offloaded is still held for a transfer; unless requests that    *)
(* have loaded their blocks wait for each other to make room.               *)
OffloadsEnd ==
    \/ <>[](/\ \A r \in Request : sched.status[r] \in {"absent", "finished"}
            /\ sched.held = {} /\ \A h \in known : ref_cnt[h] = 0)
    \/ <>[]Crowded
=============================================================================
