------------------------------ MODULE Scheduler ------------------------------
(***************************************************************************)
(* The scheduler of v1/core/sched (Scheduler, and with Async the           *)
(* AsyncScheduler), driven by EngineCore's step, or by its                 *)
(* step_with_batch_queue when BatchQueueSize > 1.                          *)
(*                                                                         *)
(* Tokens are counted, not named: output[r] holds, for every token that    *)
(* was appended to r, the position the worker sampled it for.  Blocks are  *)
(* counted too, as without prefix caching.  max_model_len is beyond every  *)
(* request, and chunked prefill is enabled.                                *)
(***************************************************************************)
EXTENDS Integers, Sequences, SequencesExt, FiniteSets, FiniteSetsExt

CONSTANTS
    Request,
    num_prompt_tokens, max_tokens,      \* functions on Request
    eos_index,                          \* the output token that is EOS, if it is ever sampled
    priority,                           \* priority[r], all different
    block_size, max_num_running_reqs,
    Deployments                         \* the deployments to consider

(* The deployment, chosen when the engine starts.                           *)
VARIABLE config

num_gpu_blocks == config.num_gpu_blocks
max_num_scheduled_tokens == config.max_num_scheduled_tokens
long_prefill_token_threshold == config.long_prefill_token_threshold   \* 0: none
PriorityPolicy == config.PriorityPolicy     \* TRUE: PRIORITY, FALSE: FCFS
Async == config.Async                       \* async_scheduling
num_spec_tokens == config.num_spec_tokens   \* 0: no speculative decoding
BatchQueueSize == config.BatchQueueSize     \* max_concurrent_batches
Resets == config.Resets                     \* reset_prefix_cache(True) may be called

ceil_div(a, b) == (a + b - 1) \div b

ASSUME SchedulerAssumption ==
    /\ \A r \in Request : num_prompt_tokens[r] \in Nat \ {0} /\ max_tokens[r] \in Nat \ {0}
    /\ block_size \in Nat \ {0} /\ max_num_running_reqs \in Nat \ {0}
    /\ \A d \in Deployments :
         /\ \A r \in Request :
              ceil_div(num_prompt_tokens[r] + max_tokens[r] + 2 * d.num_spec_tokens, block_size)
                <= d.num_gpu_blocks
         /\ d.max_num_scheduled_tokens \in Nat \ {0} /\ d.BatchQueueSize \in Nat \ {0}
         /\ d.Async => d.BatchQueueSize > 1

VARIABLES
    status,                     \* of each request
    output,                     \* its output tokens
    num_computed_tokens,
    num_output_placeholders,
    spec_token_ids,             \* how many draft tokens it has
    is_prefill_chunk,
    discard_latest,             \* discard_latest_async_tokens
    blocks,                     \* how many blocks it holds
    running, waiting,
    pc,                         \* "idle", "running", "alloc", "waiting", "end", "update"
    req_index, token_budget,
    attempt,                    \* request and tokens whose blocks are being made
    scheduled,                  \* what this step schedules for each request
    preempted,                  \* this step has preempted a request
    batch_queue,                \* outputs in flight, oldest first
    worker_tokens               \* tokens of each request the worker knows

request_vars == <<status, output, num_computed_tokens, num_output_placeholders, spec_token_ids,
                  is_prefill_chunk, discard_latest, blocks>>
step_vars == <<req_index, token_budget, attempt, scheduled, preempted>>
vars == <<request_vars, running, waiting, pc, step_vars, batch_queue, worker_tokens, config>>

NoAttempt == [req |-> CHOOSE r \in Request : TRUE, n |-> 0]

(* n tokens up to position end are scheduled, the last spec of them drafts; *)
(* the worker is told that there are `tokens` tokens, placeholders included.*)
NotScheduled == [n |-> 0, spec |-> 0, end |-> 0, tokens |-> 0]
Nothing == [r \in Request |-> NotScheduled]

all(x) == [r \in Request |-> x]

Init ==
    /\ config \in Deployments
    /\ status = all("new")
    /\ output = all(<<>>)
    /\ num_computed_tokens = all(0)
    /\ num_output_placeholders = all(0)
    /\ spec_token_ids = all(0)
    /\ is_prefill_chunk = all(FALSE)
    /\ discard_latest = all(FALSE)
    /\ blocks = all(0)
    /\ running = <<>> /\ waiting = <<>>
    /\ pc = "idle"
    /\ req_index = 1 /\ token_budget = 0
    /\ attempt = NoAttempt
    /\ scheduled = Nothing
    /\ preempted = FALSE
    /\ batch_queue = <<>>
    /\ worker_tokens = num_prompt_tokens

num_tokens(r) == num_prompt_tokens[r] + Len(output[r])

num_free_blocks == num_gpu_blocks - MapThenSumSet(LAMBDA r : blocks[r], Request)

(* allocate_slots: the blocks request r then holds, and whether they exist. *)
blocks_for(c, n, lookahead) == ceil_div(c + n + lookahead, block_size)
can_allocate(r, b) == b - blocks[r] <= num_free_blocks
more(r, b) == IF b > blocks[r] THEN b ELSE blocks[r]

has_requests == running # <<>> \/ waiting # <<>>

-----------------------------------------------------------------------------
(********************************* schedule *********************************)
StartSchedule ==
    /\ pc = "idle" /\ has_requests
    /\ pc' = "running"
    /\ req_index' = 1
    /\ token_budget' = max_num_scheduled_tokens
    /\ scheduled' = Nothing
    /\ preempted' = FALSE
    /\ UNCHANGED <<config, request_vars, running, waiting, attempt, batch_queue, worker_tokens>>

InRunningLoop == pc = "running" /\ req_index <= Len(running) /\ token_budget > 0

(* Async: the output in flight is certain to reach max_tokens.              *)
surely_done(r) ==
    /\ num_output_placeholders[r] > 0
    /\ num_computed_tokens[r] + 2 - num_output_placeholders[r] >= num_prompt_tokens[r] + max_tokens[r]

chunk(n) ==
    LET t == long_prefill_token_threshold
    IN Min({IF 0 < t /\ t < n THEN t ELSE n, token_budget})

new_tokens(r) ==
    IF surely_done(r) THEN 0
    ELSE chunk(num_tokens(r) + spec_token_ids[r] + num_output_placeholders[r] - num_computed_tokens[r])

(* The next running request, unless nothing can be scheduled for it.        *)
NextRunning ==
    /\ InRunningLoop
    /\ LET r == running[req_index]
           n == new_tokens(r)
       IN IF n = 0
          THEN req_index' = req_index + 1 /\ UNCHANGED <<pc, attempt>>
          ELSE pc' = "alloc" /\ attempt' = [req |-> r, n |-> n] /\ UNCHANGED req_index
    /\ UNCHANGED <<config, request_vars, running, waiting, token_budget, scheduled, preempted, batch_queue,
                   worker_tokens>>

slots(r, n) == blocks_for(num_computed_tokens[r], n, num_spec_tokens)

(* Mutant: the worker is not told of the tokens in flight.                  *)
entry_without_placeholders(r, c, n, k) ==
    [n |-> n, spec |-> k, end |-> c + n, tokens |-> num_tokens(r)]

entry(r, c, n, k) ==
    [n |-> n, spec |-> k, end |-> c + n, tokens |-> num_tokens(r) + num_output_placeholders[r]]

(* It has its blocks: it is scheduled, with the drafts among its tokens.    *)
ScheduleRunning ==
    /\ pc = "alloc"
    /\ LET r == attempt.req
           n == attempt.n
           c == num_computed_tokens[r]
           k == n + c - num_tokens(r) - num_output_placeholders[r]
       IN /\ can_allocate(r, slots(r, n))
          /\ blocks' = [blocks EXCEPT ![r] = more(r, slots(r, n))]
          /\ scheduled' = [scheduled EXCEPT ![r] =
               entry(r, c, n, IF spec_token_ids[r] > 0 /\ k > 0 THEN Min({k, spec_token_ids[r]}) ELSE 0)]
          /\ spec_token_ids' = [spec_token_ids EXCEPT ![r] = 0]
          /\ token_budget' = token_budget - n
    /\ req_index' = req_index + 1
    /\ attempt' = NoAttempt
    /\ pc' = "running"
    /\ UNCHANGED <<config, status, output, num_computed_tokens, num_output_placeholders, is_prefill_chunk,
                   discard_latest, running, waiting, preempted, batch_queue, worker_tokens>>

victim ==
    IF PriorityPolicy
    THEN CHOOSE r \in ToSet(running) : \A q \in ToSet(running) : priority[q] <= priority[r]
    ELSE Last(running)

(* _preempt_request, for the requests in R; the placeholders stay.          *)
preempt_request(R) ==
    /\ status' = [r \in Request |-> IF r \in R THEN "preempted" ELSE status[r]]
    /\ num_computed_tokens' = [r \in Request |-> IF r \in R THEN 0 ELSE num_computed_tokens[r]]
    /\ spec_token_ids' = [r \in Request |-> IF r \in R THEN 0 ELSE spec_token_ids[r]]
    /\ blocks' = [r \in Request |-> IF r \in R THEN 0 ELSE blocks[r]]

withdraw(v) == [scheduled EXCEPT ![v] = NotScheduled]

(* It has not: the victim goes back to the waiting queue, and what this     *)
(* step had scheduled for it is withdrawn.                                  *)
Preempt ==
    /\ pc = "alloc"
    /\ ~can_allocate(attempt.req, slots(attempt.req, attempt.n))
    /\ LET v == victim
       IN /\ preempt_request({v})
          /\ running' = Remove(running, v)
          /\ waiting' = <<v>> \o waiting
          /\ token_budget' = token_budget + scheduled[v].n
          /\ scheduled' = withdraw(v)
          /\ req_index' = IF scheduled[v].n > 0 THEN req_index - 1 ELSE req_index
          /\ IF v = attempt.req
             THEN pc' = "end" /\ attempt' = NoAttempt
             ELSE UNCHANGED <<pc, attempt>>
    /\ preempted' = TRUE
    /\ UNCHANGED <<config, output, num_output_placeholders, is_prefill_chunk, discard_latest, batch_queue,
                   worker_tokens>>

EndRunning ==
    /\ pc = "running" /\ ~InRunningLoop
    /\ pc' = IF preempted THEN "end" ELSE "waiting"
    /\ UNCHANGED <<config, request_vars, running, waiting, step_vars, batch_queue, worker_tokens>>

(* peek_request of the two queues.                                          *)
next_waiting ==
    IF PriorityPolicy
    THEN CHOOSE r \in ToSet(waiting) : \A q \in ToSet(waiting) : priority[r] <= priority[q]
    ELSE Head(waiting)

CanAdmit ==
    /\ waiting # <<>> /\ token_budget > 0
    /\ Len(running) < max_num_running_reqs
    /\ LET r == next_waiting
       IN can_allocate(r, blocks_for(0, chunk(num_tokens(r)), 0))

ScheduleWaiting ==
    /\ pc = "waiting" /\ CanAdmit
    /\ LET r == next_waiting
           n == chunk(num_tokens(r))
       IN /\ waiting' = Remove(waiting, r)
          /\ running' = Append(running, r)
          /\ status' = [status EXCEPT ![r] = "running"]
          /\ num_computed_tokens' = [num_computed_tokens EXCEPT ![r] = 0]
          /\ blocks' = [blocks EXCEPT ![r] = blocks_for(0, n, 0)]
          /\ scheduled' = [scheduled EXCEPT ![r] = entry(r, 0, n, 0)]
          /\ token_budget' = token_budget - n
    /\ UNCHANGED <<config, output, num_output_placeholders, spec_token_ids, is_prefill_chunk, discard_latest,
                   pc, req_index, attempt, preempted, batch_queue, worker_tokens>>

end(r) == num_computed_tokens[r] + scheduled[r].n
partial(r) == end(r) < num_tokens(r) + num_output_placeholders[r]
ahead(r) == Async /\ scheduled[r].n > 0 /\ ~partial(r)

(* The token and the drafts that a step of r stands for.                    *)
placeholders_for(r) == IF ahead(r) THEN 1 + scheduled[r].spec ELSE 0

(* _update_after_schedule, and the AsyncScheduler's.  The engine then waits *)
(* for the oldest output if the queue is full, if nothing was scheduled, or *)
(* if that output is already there.                                         *)
EndSchedule ==
    /\ pc = "end" \/ (pc = "waiting" /\ ~CanAdmit)
    /\ LET S == {r \in Request : scheduled[r].n > 0}
       IN /\ num_computed_tokens' = [r \in Request |-> end(r)]
          /\ is_prefill_chunk' = [r \in Request |-> IF r \in S THEN partial(r) ELSE is_prefill_chunk[r]]
          /\ num_output_placeholders' =
               [r \in Request |-> num_output_placeholders[r] + placeholders_for(r)]
          /\ spec_token_ids' = [r \in Request |-> IF ahead(r) THEN num_spec_tokens ELSE spec_token_ids[r]]
          /\ batch_queue' = Append(batch_queue, scheduled)
          /\ \/ pc' = "update"
             \/ S # {} /\ Len(batch_queue) + 1 < BatchQueueSize /\ pc' = "idle"
    /\ scheduled' = Nothing
    /\ UNCHANGED <<config, status, output, discard_latest, blocks, running, waiting, req_index, token_budget,
                   attempt, preempted, worker_tokens>>

(* No request is left to schedule, but outputs are in flight.               *)
Drain ==
    /\ pc = "idle" /\ ~has_requests /\ batch_queue # <<>>
    /\ pc' = "update"
    /\ UNCHANGED <<config, request_vars, running, waiting, step_vars, batch_queue, worker_tokens>>

-----------------------------------------------------------------------------
(**************************** update_from_output ****************************)
(* What the worker makes of an entry with a accepted drafts: the first of   *)
(* its new tokens, counted from the end of the prompt, and how many.  It    *)
(* samples once it has computed all tokens it knows.                        *)
known(r, e) == Min({worker_tokens[r], e.tokens})
sampled(r, e, a) == IF e.end >= known(r, e) THEN a + 1 ELSE 0
first_index(r, e) == known(r, e) - num_prompt_tokens[r] + 1

discards(r) == Async /\ discard_latest[r]

(* The tokens that are appended: none that are to be discarded, none after  *)
(* EOS, and none beyond max_tokens.                                         *)
appended(r, e, a) ==
    LET m == IF discards(r) THEN 0 ELSE Min({sampled(r, e, a), max_tokens[r] - Len(output[r])})
        tokens == [i \in 1 .. m |-> first_index(r, e) + i - 1]
        upto == {i \in 1 .. m : i > 1 => eos_index[r] \notin {tokens[j] : j \in 1 .. i - 1}}
    IN [i \in upto |-> tokens[i]]

(* Mutant: rejected drafts count as computed.                               *)
computed_with_rejected(r, e, a) == num_computed_tokens[r]

(* Rejected drafts are taken back from both counts.                         *)
computed_after(r, e, a) ==
    num_computed_tokens[r] - (IF num_computed_tokens[r] > 0 THEN e.spec - a ELSE 0)

(* Mutant: rejected drafts keep their placeholders.                         *)
placeholders_with_rejected(r, e, a) ==
    num_output_placeholders[r] - (IF Async THEN Len(appended(r, e, a)) ELSE 0)

placeholders_after(r, e, a) ==
    num_output_placeholders[r] - (IF num_output_placeholders[r] > 0 THEN e.spec - a ELSE 0)
                               - (IF Async THEN Len(appended(r, e, a)) ELSE 0)

(* Mutant: a request stops only at EOS.                                     *)
stops_at_eos(r, e, a) ==
    LET new == appended(r, e, a) IN Len(new) > 0 /\ Last(new) = eos_index[r]

(* check_stop, for the last of the tokens that are appended.                *)
stops(r, e, a) ==
    LET new == appended(r, e, a)
    IN Len(new) > 0 /\ (Last(new) = eos_index[r] \/ Len(output[r]) + Len(new) >= max_tokens[r])

(* Mutant: a preempted request that stops stays in the queue.               *)
waiting_unpruned(S) == waiting

(* A request that was preempted since may stop too.                         *)
waiting_without(S) == SelectSeq(waiting, LAMBDA r : r \notin S)

Update(accepted) ==
    /\ pc = "update"
    /\ LET out == Head(batch_queue)
           S == {r \in Request : out[r].n > 0}
           L == {r \in S : status[r] # "finished"}
           G == {r \in L : sampled(r, out[r], accepted[r]) > 0}
           stopped == {r \in G : stops(r, out[r], accepted[r])}
       IN /\ \A r \in Request : accepted[r] <= out[r].spec
          /\ output' =
               [r \in Request |-> IF r \in G THEN output[r] \o appended(r, out[r], accepted[r]) ELSE output[r]]
          /\ num_computed_tokens' =
               [r \in Request |-> IF r \in G THEN computed_after(r, out[r], accepted[r]) ELSE num_computed_tokens[r]]
          /\ num_output_placeholders' =
               [r \in Request |->
                  IF r \in G THEN placeholders_after(r, out[r], accepted[r]) ELSE num_output_placeholders[r]]
          /\ discard_latest' = [r \in Request |-> discard_latest[r] /\ ~(Async /\ r \in G)]
          /\ status' = [r \in Request |-> IF r \in stopped THEN "finished" ELSE status[r]]
          /\ blocks' = [r \in Request |-> IF r \in stopped THEN 0 ELSE blocks[r]]
          /\ running' = SelectSeq(running, LAMBDA r : r \notin stopped)
          /\ waiting' = waiting_without(stopped)
          /\ spec_token_ids' =
               [r \in Request |->
                  IF Async \/ r \notin L \/ r \in stopped THEN spec_token_ids[r]
                  ELSE IF is_prefill_chunk[r] THEN 0 ELSE num_spec_tokens]
          /\ worker_tokens' =
               [r \in Request |-> IF r \in S THEN known(r, out[r]) + sampled(r, out[r], accepted[r])
                                             ELSE worker_tokens[r]]
    /\ batch_queue' = Tail(batch_queue)
    /\ pc' = "idle"
    /\ UNCHANGED <<config, is_prefill_chunk, step_vars>>

-----------------------------------------------------------------------------
(************************** requests from clients ***************************)
AddRequest(r) ==
    /\ pc = "idle" /\ status[r] = "new"
    /\ status' = [status EXCEPT ![r] = "waiting"]
    /\ waiting' = Append(waiting, r)
    /\ UNCHANGED <<config, output, num_computed_tokens, num_output_placeholders, spec_token_ids,
                   is_prefill_chunk, discard_latest, blocks, running, pc, step_vars, batch_queue,
                   worker_tokens>>

(* finish_requests: from the input queue, or from the aborts queue that is  *)
(* read before an output is processed.                                      *)
FinishRequest(r) ==
    /\ pc \in {"idle", "update"}
    /\ status[r] \in {"waiting", "preempted", "running"}
    /\ status' = [status EXCEPT ![r] = "finished"]
    /\ running' = Remove(running, r)
    /\ waiting' = Remove(waiting, r)
    /\ blocks' = [blocks EXCEPT ![r] = 0]
    /\ UNCHANGED <<config, output, num_computed_tokens, num_output_placeholders, spec_token_ids,
                   is_prefill_chunk, discard_latest, pc, step_vars, batch_queue, worker_tokens>>

(* reset_prefix_cache(reset_running_requests=True).                         *)
ResetPrefixCache ==
    /\ Resets /\ pc = "idle" /\ running # <<>>
    /\ preempt_request(ToSet(running))
    /\ num_output_placeholders' =
         [r \in Request |-> IF r \in ToSet(running) THEN 0 ELSE num_output_placeholders[r]]
    /\ discard_latest' = [r \in Request |-> discard_latest[r] \/ r \in ToSet(running)]
    /\ running' = <<>>
    /\ waiting' = running \o waiting
    /\ UNCHANGED <<config, output, is_prefill_chunk, pc, step_vars, batch_queue, worker_tokens>>

Engine ==
    \/ StartSchedule \/ NextRunning \/ ScheduleRunning \/ Preempt \/ EndRunning
    \/ ScheduleWaiting \/ EndSchedule \/ Drain
    \/ \E accepted \in [Request -> 0 .. num_spec_tokens] : Update(accepted)

Next ==
    \/ Engine
    \/ \E r \in Request : AddRequest(r) \/ FinishRequest(r)
    \/ ResetPrefixCache

(* The engine's loop runs as long as there is work: weak fairness of Engine, *)
(* spelled out.  Its steps are the ones that move pc or start where pc is    *)
(* neither "idle" nor "update", and one of them is always enabled, except    *)
(* in an idle engine that has nothing to do.                                 *)
Fairness ==
    \/ []<>(pc = "idle" /\ ~has_requests /\ batch_queue = <<>>)
    \/ []<><<pc' # pc \/ pc \notin {"idle", "update"}>>_vars

Spec == Init /\ [][Next]_vars /\ Fairness
-----------------------------------------------------------------------------
(******************************** Properties ********************************)
(* The client gets the tokens the model sampled, each once and in order,    *)
(* whatever was preempted, rejected or reset while outputs were in flight.  *)
TokensInOrder == \A r \in Request : \A i \in DOMAIN output[r] : output[r][i] = i

(* A request is in the queue its status says, once, and nowhere else; one   *)
(* that is not running holds no blocks, and one that waits has nothing      *)
(* computed; the pool is never overdrawn.                                   *)
QueuesMatchStatus ==
    /\ \A r \in Request :
         /\ Cardinality({i \in DOMAIN running : running[i] = r}) = (IF status[r] = "running" THEN 1 ELSE 0)
         /\ Cardinality({i \in DOMAIN waiting : waiting[i] = r}) =
              (IF status[r] \in {"waiting", "preempted"} THEN 1 ELSE 0)
         /\ status[r] # "running" => blocks[r] = 0
         /\ status[r] \in {"waiting", "preempted"} => num_computed_tokens[r] = 0
    /\ num_free_blocks >= 0

in_flight(r, out) == IF Async /\ out[r].end >= out[r].tokens /\ out[r].n > 0 THEN 1 + out[r].spec ELSE 0

(* The placeholders of a request stand for the tokens in flight, one by one,*)
(* also while it is preempted.                                              *)
PlaceholdersExact ==
    pc \in {"idle", "update"} =>
      \A r \in Request : status[r] # "finished" /\ ~discards(r) =>
        num_output_placeholders[r] =
          FoldLeft(LAMBDA n, out : n + in_flight(r, out), 0, batch_queue)

(* When nothing is in flight, a request that has output lacks exactly its   *)
(* last token: nothing is computed twice, and nothing from rejected drafts. *)
ComputedCatchesUp ==
    pc = "idle" /\ batch_queue = <<>> =>
      \A r \in Request : num_computed_tokens[r] > 0 /\ status[r] = "running" =>
        IF is_prefill_chunk[r] THEN num_computed_tokens[r] < num_tokens(r)
        ELSE num_computed_tokens[r] = num_tokens(r) - 1

(* Requests that preempt one another for blocks do not do so for ever: each  *)
(* that was added ends, by max_tokens, EOS or an abort, unless               *)
(* reset_prefix_cache keeps preempting them.                                 *)
EveryRequestEnds == Resets \/ <>[](\A r \in Request : status[r] \in {"new", "finished"})
=============================================================================
