-------------------------- MODULE EncoderScheduling --------------------------
(***************************************************************************)
(* Scheduling of multimodal requests: the scheduler decides, item by item, *)
(* which encoder outputs a step computes, relies on outputs computed       *)
(* earlier, and tells the workers which to drop.  Only the prompt matters; *)
(* a request whose prompt is computed may finish at any time.              *)
(*                                                                         *)
(* One action per turn of schedule's loops.  Whether allocate_slots finds  *)
(* blocks, and what the prefix cache holds, is left open.  The workers     *)
(* execute scheduler outputs in order and the scheduler reads nothing of   *)
(* their cache, so an output is executed when it is made.                  *)
(***************************************************************************)
EXTENDS EncoderCacheManager, Integers

CONSTANTS
    num_tokens,                     \* num_tokens[r]: length of the prompt
    priority,                       \* priority[r], all different
    max_num_encoder_input_tokens,
    Deployments                     \* the deployments to consider

(* The deployment, chosen when the engine starts.                           *)
VARIABLE config

max_num_scheduled_tokens == config.max_num_scheduled_tokens
PriorityPolicy == config.PriorityPolicy   \* TRUE: policy = PRIORITY, FALSE: FCFS
disable_chunked_mm_input == config.disable_chunked_mm_input
shift_computed_tokens == config.shift_computed_tokens   \* 1 with EAGLE, else 0
Hits == config.Hits                       \* prefix lengths the prefix cache may hold
KVFull == config.KVFull                   \* allocate_slots may fail

ASSUME SchedulingAssumption ==
    /\ num_tokens \in [Request -> Nat] /\ priority \in [Request -> Nat]
    /\ \A r \in Request : \A i \in DOMAIN mm_features[r] :
         mm_features[r][i].offset + mm_features[r][i].length <= num_tokens[r]
    /\ \A h \in Hash : num_embeds[h] <= max_num_encoder_input_tokens
    /\ \A d \in Deployments :
         d.shift_computed_tokens \in {0, 1} /\ d.Hits \subseteq Nat

VARIABLES
    ecm,                \* the EncoderCacheManager
    running, waiting,
    num_computed_tokens,
    pc,                 \* "idle", "running", "alloc", "waiting", "end"
    req_index,
    token_budget, encoder_budget,
    scheduled,          \* num_scheduled_tokens of this step
    encoder_inputs,     \* scheduled_encoder_inputs of this step
    preempted,          \* some request was preempted in this step
    attempt,            \* the request at hand while allocate_slots is retried
    encoder_cache,      \* hashes in the workers' encoder_cache
    missing             \* hashes the last step needed and the workers lacked

step == <<pc, req_index, token_budget, encoder_budget, scheduled, encoder_inputs,
          preempted, attempt>>
vars == <<config, ecm, running, waiting, num_computed_tokens, step, encoder_cache, missing>>

NoAttempt == [req |-> CHOOSE r \in Request : TRUE, n |-> 0, inputs |-> <<>>, budget |-> 0]
NoTokens == [r \in Request |-> 0]
NoInputs == [r \in Request |-> <<>>]

Init ==
    /\ config \in Deployments
    /\ ecm = NewCache
    /\ running = <<>> /\ waiting = <<>>
    /\ num_computed_tokens = NoTokens
    /\ pc = "idle"
    /\ req_index = 1
    /\ token_budget = 0 /\ encoder_budget = 0
    /\ scheduled = NoTokens
    /\ encoder_inputs = NoInputs
    /\ preempted = FALSE
    /\ attempt = NoAttempt
    /\ encoder_cache = {} /\ missing = {}

-----------------------------------------------------------------------------
(* Is the item, from its offset on, touched by n tokens from position c?    *)
in_range(f, c, n) == f.offset < c + n /\ c < f.offset + f.length

(* _try_schedule_encoder_inputs for request r at position c.  The items are *)
(* visited in order with an accumulator: the manager e, tokens n, inputs to *)
(* schedule, their hashes and embeddings, the budget, and whether to stop.  *)
Item(r, c, s, i) ==
    LET f == mm_features[r][i]
        short == f.offset - (c + shift_computed_tokens)
        need == num_embeds[f.hash] + s.embeds
        e == evict_for(s.e, need)
    IN IF s.stop \/ f.offset >= c + s.n + shift_computed_tokens
       THEN [s EXCEPT !.stop = TRUE]
       ELSE IF f.offset + f.length <= c \/ f.hash \in s.hashes
       THEN s
       ELSE IF is_cached(s.e, f.hash)
       THEN [s EXCEPT !.e = check_and_update_cache(@, r, f.hash)]
       ELSE IF disable_chunked_mm_input /\ c < f.offset /\ c + s.n < f.offset + f.length
       THEN [s EXCEPT !.n = IF short > 0 THEN short ELSE 0, !.stop = TRUE]
       ELSE IF ~can_allocate(s.e, f.hash, s.budget, s.embeds)
       THEN [s EXCEPT !.n = IF short > 0 THEN short ELSE 0, !.stop = TRUE]
       ELSE IF ~in_range(f, c, s.n)
       THEN [s EXCEPT !.e = e]
       ELSE [s EXCEPT !.e = e, !.inputs = Append(@, i), !.hashes = @ \union {f.hash},
                      !.embeds = need, !.budget = @ - num_embeds[f.hash]]

try_schedule_encoder_inputs(r, c, n) ==
    LET start == [e |-> ecm, n |-> n, inputs |-> <<>>, hashes |-> {}, embeds |-> 0,
                  budget |-> encoder_budget, stop |-> FALSE]
    IN IF n = 0 \/ mm_features[r] = <<>> THEN start
       ELSE FoldLeft(LAMBDA s, i : Item(r, c, s, i), start,
                     [i \in 1 .. Len(mm_features[r]) |-> i])

-----------------------------------------------------------------------------
(********************************* schedule *********************************)
StartStep ==
    /\ pc = "idle"
    /\ running # <<>> \/ waiting # <<>>
    /\ pc' = "running"
    /\ req_index' = 1
    /\ token_budget' = max_num_scheduled_tokens
    /\ encoder_budget' = max_num_encoder_input_tokens
    /\ scheduled' = NoTokens
    /\ encoder_inputs' = NoInputs
    /\ preempted' = FALSE
    /\ UNCHANGED <<config, ecm, running, waiting, num_computed_tokens, attempt, encoder_cache, missing>>

InRunningLoop == pc = "running" /\ req_index <= Len(running) /\ token_budget > 0

(* A running request: its encoder inputs, then its blocks.                  *)
ScheduleRunning ==
    /\ InRunningLoop
    /\ LET r == running[req_index]
           c == num_computed_tokens[r]
           try == try_schedule_encoder_inputs(r, c, Min({num_tokens[r] - c, token_budget}))
       IN /\ ecm' = try.e
          /\ IF try.n = 0
             THEN req_index' = req_index + 1 /\ UNCHANGED <<pc, attempt>>
             ELSE /\ pc' = "alloc"
                  /\ attempt' = [req |-> r, n |-> try.n, inputs |-> try.inputs,
                                 budget |-> try.budget]
                  /\ UNCHANGED req_index
    /\ UNCHANGED <<config, running, waiting, num_computed_tokens, token_budget, encoder_budget,
                   scheduled, encoder_inputs, preempted, encoder_cache, missing>>

(* What is recorded of a request that can be scheduled.                     *)
Record(r, n, inputs, budget, e) ==
    /\ ecm' = allocate_inputs(e, r, inputs)
    /\ scheduled' = [scheduled EXCEPT ![r] = n]
    /\ encoder_inputs' = [encoder_inputs EXCEPT ![r] = inputs]
    /\ token_budget' = token_budget - n
    /\ encoder_budget' = IF inputs # <<>> THEN budget ELSE encoder_budget

AllocateSlots ==
    /\ pc = "alloc"
    /\ Record(attempt.req, attempt.n, attempt.inputs, attempt.budget, ecm)
    /\ req_index' = req_index + 1
    /\ pc' = "running"
    /\ attempt' = NoAttempt
    /\ UNCHANGED <<config, running, waiting, num_computed_tokens, preempted, encoder_cache, missing>>

victim ==
    IF PriorityPolicy
    THEN CHOOSE r \in ToSet(running) : \A q \in ToSet(running) : priority[q] <= priority[r]
    ELSE Last(running)

(* No blocks: the victim goes back to the waiting queue, and what this step *)
(* had scheduled for it is withdrawn.                                       *)
PreemptForSlots ==
    /\ pc = "alloc" /\ KVFull
    /\ LET v == victim
           mine == scheduled[v] > 0
       IN /\ running' = Remove(running, v)
          /\ waiting' = <<v>> \o waiting
          /\ token_budget' = token_budget + scheduled[v]
          /\ scheduled' = [scheduled EXCEPT ![v] = 0]
          /\ encoder_inputs' = [encoder_inputs EXCEPT ![v] = <<>>]
          /\ encoder_budget' =
               encoder_budget + size({hash_of(v, i) : i \in ToSet(encoder_inputs[v])})
          /\ req_index' = IF mine THEN req_index - 1 ELSE req_index
          /\ ecm' = free(ecm, v)
          /\ num_computed_tokens' = [num_computed_tokens EXCEPT ![v] = 0]
          /\ preempted' = TRUE
          /\ IF v = attempt.req
             THEN pc' = "end" /\ attempt' = NoAttempt
             ELSE UNCHANGED <<pc, attempt>>
    /\ UNCHANGED <<config, encoder_cache, missing>>

EndRunning ==
    /\ pc = "running" /\ ~InRunningLoop
    /\ pc' = IF preempted THEN "end" ELSE "waiting"
    /\ UNCHANGED <<config, ecm, running, waiting, num_computed_tokens, req_index, token_budget,
                   encoder_budget, scheduled, encoder_inputs, preempted, attempt,
                   encoder_cache, missing>>

(* peek_request of the two queues.                                          *)
next_waiting ==
    IF PriorityPolicy
    THEN CHOOSE r \in ToSet(waiting) : \A q \in ToSet(waiting) : priority[r] <= priority[q]
    ELSE Head(waiting)

InWaitingLoop == pc = "waiting" /\ waiting # <<>> /\ token_budget > 0

(* A waiting request, with a prefix of c tokens found in the prefix cache.  *)
(* One that gets no tokens ends the loop with its references still taken;   *)
(* one that gets no blocks gives its references back first.                 *)
ScheduleWaiting(c) ==
    /\ InWaitingLoop
    /\ LET r == next_waiting
           try == try_schedule_encoder_inputs(r, c, Min({num_tokens[r] - c, token_budget}))
       IN /\ c < num_tokens[r]
          /\ \/ /\ try.n = 0
                /\ ecm' = try.e
                /\ pc' = "end"
                /\ UNCHANGED <<running, waiting, num_computed_tokens, scheduled,
                               encoder_inputs, token_budget, encoder_budget>>
             \/ /\ try.n > 0 /\ KVFull
                /\ ecm' = free(try.e, r)
                /\ pc' = "end"
                /\ UNCHANGED <<running, waiting, num_computed_tokens, scheduled,
                               encoder_inputs, token_budget, encoder_budget>>
             \/ /\ try.n > 0
                /\ Record(r, try.n, try.inputs, try.budget, try.e)
                /\ running' = Append(running, r)
                /\ waiting' = Remove(waiting, r)
                /\ num_computed_tokens' = [num_computed_tokens EXCEPT ![r] = c]
                /\ UNCHANGED pc
    /\ UNCHANGED <<config, req_index, preempted, attempt, encoder_cache, missing>>

(* Mutant: an item is never released.                                       *)
done_never(f, c) == FALSE

(* _free_encoder_inputs: the items that lie wholly before position c.       *)
done_with(f, c) == f.offset + f.length <= c

(* The hashes a worker gathers for n tokens from position c.                *)
gathered(r, c, n) ==
    {mm_features[r][i].hash : i \in {j \in DOMAIN mm_features[r] : in_range(mm_features[r][j], c, n)}}

(* The output goes to the workers, which drop, compute and then gather; the *)
(* drafter gathers once more, one token further.  _update_after_schedule    *)
(* advances the requests and releases the items that are done.              *)
EndStep ==
    /\ \/ pc = "end"
       \/ pc = "waiting" /\ ~InWaitingLoop
    /\ LET S == {r \in Request : scheduled[r] > 0}
           computed == UNION {{hash_of(r, i) : i \in ToSet(encoder_inputs[r])} : r \in S}
           needed(k) == UNION {gathered(r, num_computed_tokens[r] + k, scheduled[r]) : r \in S}
           after == [r \in Request |-> num_computed_tokens[r] + scheduled[r]]
           release(e, r) ==
             free_inputs(e, r, {i \in get_cached_input_ids(e, r) : done_with(mm_features[r][i], after[r])})
       IN /\ encoder_cache' = (encoder_cache \ ecm.freed) \union computed
          /\ missing' = (needed(0) \union needed(shift_computed_tokens)) \ encoder_cache'
          /\ num_computed_tokens' = after
          /\ ecm' = FoldLeft(release, [ecm EXCEPT !.freed = {}], SelectSeq(running, LAMBDA r : r \in S))
    /\ pc' = "idle"
    /\ scheduled' = NoTokens
    /\ encoder_inputs' = NoInputs
    /\ UNCHANGED <<config, running, waiting, req_index, token_budget, encoder_budget, preempted, attempt>>

-----------------------------------------------------------------------------
(**************************** between two steps *****************************)
Known == ToSet(running) \union ToSet(waiting)

Arrive(r) ==
    /\ pc = "idle" /\ r \notin Known
    /\ num_computed_tokens[r] = 0
    /\ waiting' = Append(waiting, r)
    /\ UNCHANGED <<config, ecm, running, num_computed_tokens, step, encoder_cache, missing>>

(* The request ends, by itself or by an abort; its id may come again.       *)
Leave(r) ==
    /\ running' = Remove(running, r)
    /\ waiting' = Remove(waiting, r)
    /\ ecm' = free(ecm, r)
    /\ num_computed_tokens' = [num_computed_tokens EXCEPT ![r] = 0]
    /\ UNCHANGED <<config, step, encoder_cache, missing>>

Complete(r) == pc = "idle" /\ r \in ToSet(running) /\ num_computed_tokens[r] = num_tokens[r] /\ Leave(r)

Abort(r) == pc = "idle" /\ r \in Known /\ Leave(r)

(* reset_encoder_cache; requests in progress only cause a warning.          *)
ResetEncoderCache ==
    /\ pc = "idle" /\ DOMAIN ecm.cached # {}
    /\ ecm' = reset(ecm)
    /\ encoder_cache' = {}
    /\ UNCHANGED <<config, running, waiting, num_computed_tokens, step, missing>>

Step ==
    \/ StartStep \/ ScheduleRunning \/ AllocateSlots \/ PreemptForSlots \/ EndRunning
    \/ (\E c \in Hits : ScheduleWaiting(c)) \/ EndStep

Next == Step \/ ResetEncoderCache \/ \E r \in Request : Arrive(r) \/ Complete(r) \/ Abort(r)

(* The engine keeps stepping: weak fairness of Step, spelled out.  A step    *)
(* is taken where pc is not "idle" or leaves it, and StartStep is the only  *)
(* part of Step that can be disabled.                                       *)
Fairness == []<>(pc = "idle" /\ Known = {}) \/ []<><<pc # "idle" \/ pc' # "idle">>_vars

Spec == Init /\ [][Next]_vars /\ Fairness
-----------------------------------------------------------------------------
(******************************** Properties ********************************)
(* The assertions of allocate never fire, also when requests were preempted *)
(* between can_allocate and allocate.                                       *)
AllocationFits ==
    pc = "alloc" => allocate_ok(ecm, {hash_of(attempt.req, i) : i \in ToSet(attempt.inputs)})

(* "Encoder cache miss": no worker gathers an output it does not have.      *)
NoEncoderCacheMiss == missing = {}

(* It is so at least without a drafter that gathers one token further, and  *)
(* when a step never preempts what it has scheduled itself.                 *)
OutputsThere ==
    shift_computed_tokens = 0 /\ ~(PriorityPolicy /\ KVFull) => NoEncoderCacheMiss

(* Between steps the scheduler's map and the workers' cache hold the same   *)
(* entries, so the workers never hold more than cache_size embeddings.      *)
CachesAgree == pc = "idle" => DOMAIN ecm.cached = encoder_cache /\ size(encoder_cache) <= cache_size

(* Where the KV cache does not run out and no request is overtaken by those *)
(* of a higher priority, none stays for ever with a part of its prompt to   *)
(* compute, although items must wait for space: again and again it is       *)
(* complete or gone.                                                        *)
EveryPromptComputed ==
    \/ KVFull \/ PriorityPolicy
    \/ \A r \in Request : []<>(r \in Known => num_computed_tokens[r] = num_tokens[r])
=============================================================================
