-------------------------- MODULE MultiprocExecutor --------------------------
(***************************************************************************)
(* collective_rpc of multiproc_executor.py.  The engine thread broadcasts  *)
(* calls to the worker processes and collects replies from one response    *)
(* queue per worker, for non-blocking calls when their future is asked     *)
(* for.  A monitor thread watches for the death of a worker, shuts the     *)
(* executor down and tells the engine.                                     *)
(*                                                                         *)
(* The queues are FIFO, which module MessageQueue shows of the code's      *)
(* queues; a reply is the number of the call it answers.                   *)
(***************************************************************************)
EXTENDS Naturals, Sequences, Functions

CONSTANTS
    world_size,   \* workers 0 .. world_size - 1
    MaxCalls,     \* bound: calls made in any scenario
    Scenarios     \* the deployments and faults to consider

Worker == 0 .. world_size - 1
All == world_size           \* output_rank = None: every worker replies
Call == 1 .. MaxCalls

ASSUME ExecutorAssumption ==
    /\ world_size \in Nat \ {0} /\ MaxCalls \in Nat
    /\ \A s \in Scenarios :
         /\ s.MaxCalls \in 0 .. MaxCalls
         /\ s.OutputRanks \subseteq Worker \union {All}
         /\ s.use_async_scheduling \in BOOLEAN /\ s.Failures \in BOOLEAN /\ s.Shutdowns \in BOOLEAN
         /\ s.Crashes \in {"no", "registered", "any"}

VARIABLE scenario   \* chosen once

use_async_scheduling == scenario.use_async_scheduling   \* worker output has a thread of its own
OutputRanks == scenario.OutputRanks   \* the output_rank arguments calls are made with
Failures == scenario.Failures         \* a worker's method may raise
Crashes == scenario.Crashes           \* a worker may die: never, once the callback is set, any time
Shutdowns == scenario.Shutdowns       \* the engine may shut the executor down

VARIABLES
    epc,            \* where the engine thread is
    calls,          \* calls made so far; the last one is the current one
    output_rank,    \* output_rank[c]
    non_block,      \* the current call returns a future
    futures_queue,  \* calls whose replies are still to be collected, with ranks
    want,           \* the call whose result the engine waits for
    replies,        \* replies[c]: collected so far
    state,          \* state[c]: "none", "pending", "done", "error"
    registered,     \* failure_callback is set
    informed,       \* the failure callback has been called
    is_failed,
    shutting_down,
    mq_open,        \* the executor still holds rpc_broadcast_mq
    mqs_open,       \* the executor still holds response_mqs
    cancelled,      \* shutdown was called on the response queues
    spc,            \* spc[t]: where thread t is in monitor_workers or shutdown
    requests,       \* requests[w]: calls broadcast and not yet taken by w
    outputs,        \* outputs[w]: async_output_queue
    responses,      \* responses[w]: response queue of w
    dead            \* workers whose process has ended

caller == <<calls, output_rank, non_block, futures_queue, want, replies, state>>
notice == <<registered, informed>>
closing == <<is_failed, shutting_down, mq_open, mqs_open, cancelled, spc>>
workers == <<requests, outputs, responses, dead>>
vars == <<scenario, epc, caller, notice, closing, workers>>

Thread == {"engine", "monitor"}

Init ==
    /\ scenario \in Scenarios
    /\ epc = "register"
    /\ calls = 0
    /\ output_rank = [c \in Call |-> All]
    /\ non_block = FALSE
    /\ futures_queue = <<>>
    /\ want = 0
    /\ replies = [c \in Call |-> <<>>]
    /\ state = [c \in Call |-> "none"]
    /\ registered = FALSE /\ informed = FALSE
    /\ is_failed = FALSE /\ shutting_down = FALSE
    /\ mq_open = TRUE /\ mqs_open = TRUE /\ cancelled = FALSE
    /\ spc = [t \in Thread |-> "none"]
    /\ requests = [w \in Worker |-> <<>>]
    /\ outputs = [w \in Worker |-> <<>>]
    /\ responses = [w \in Worker |-> <<>>]
    /\ dead = {}

-----------------------------------------------------------------------------
(************************* register_failure_callback *************************)
RegisterCheck ==
    /\ epc = "register"
    /\ IF is_failed
       THEN informed' = TRUE /\ epc' = "idle"
       ELSE UNCHANGED informed /\ epc' = "set"
    /\ UNCHANGED <<scenario, registered, caller, closing, workers>>

RegisterSet ==
    /\ epc = "set"
    /\ registered' = TRUE
    /\ epc' = "idle"
    /\ UNCHANGED <<scenario, informed, caller, closing, workers>>

-----------------------------------------------------------------------------
(****************************** collective_rpc ******************************)
(* The call raises at once on a failed executor.                            *)
CollectiveRpc(rank, nb) ==
    /\ epc = "idle" /\ calls < scenario.MaxCalls
    /\ calls' = calls + 1
    /\ output_rank' = [output_rank EXCEPT ![calls'] = rank]
    /\ non_block' = nb
    /\ state' = [state EXCEPT ![calls'] = IF is_failed THEN "error" ELSE "pending"]
    /\ epc' = IF is_failed THEN "idle" ELSE "enqueue"
    /\ UNCHANGED <<scenario, futures_queue, want, replies, notice, closing, workers>>

Raise(c) ==
    /\ state' = [state EXCEPT ![c] = "error"]
    /\ epc' = "idle"

(* rpc_broadcast_mq.enqueue; the monitor may have dropped the queue.        *)
Enqueue ==
    /\ epc = "enqueue"
    /\ IF mq_open
       THEN /\ requests' = [w \in Worker |-> Append(requests[w], calls)]
            /\ epc' = "bind"
            /\ UNCHANGED state
       ELSE Raise(calls) /\ UNCHANGED requests
    /\ UNCHANGED <<scenario, calls, output_rank, non_block, futures_queue, want, replies, notice,
                   closing, outputs, responses, dead>>

(* The response queues the call will read: none once they were dropped, and *)
(* then indexing the empty list by output_rank raises.                      *)
reply_ranks(rank) ==
    IF ~mqs_open THEN <<>>
    ELSE IF rank = All THEN [i \in 1 .. world_size |-> i - 1] ELSE <<rank>>

(* A blocking call first collects what is queued, then its own replies; it  *)
(* is put behind the queued futures, which comes to the same.               *)
BindQueues ==
    /\ epc = "bind"
    /\ LET rank == output_rank[calls] IN
       IF rank # All /\ ~mqs_open
       THEN Raise(calls) /\ UNCHANGED <<futures_queue, want>>
       ELSE /\ futures_queue' =
                 Append(futures_queue, [call |-> calls, ranks |-> reply_ranks(rank)])
            /\ IF non_block
               THEN epc' = "idle" /\ UNCHANGED want
               ELSE epc' = "collect" /\ want' = calls
            /\ UNCHANGED state
    /\ UNCHANGED <<scenario, calls, output_rank, non_block, replies, notice, closing, workers>>

(* FutureWrapper.result of a future that is not done.                       *)
Result(c) ==
    /\ epc = "idle"
    /\ state[c] = "pending"
    /\ want' = c
    /\ epc' = "collect"
    /\ UNCHANGED <<scenario, calls, output_rank, non_block, futures_queue, replies, state,
                   notice, closing, workers>>

(* Mutant: the newest future is collected first.                            *)
newest_future ==
    LET n == Len(futures_queue) IN
    [call |-> futures_queue[n].call, ranks |-> futures_queue[n].ranks, rest |-> SubSeq(futures_queue, 1, n - 1)]

(* futures_queue.pop: the oldest future.                                    *)
next_future == [call |-> Head(futures_queue).call, ranks |-> Head(futures_queue).ranks,
                rest |-> Tail(futures_queue)]

Finish(c, how) ==
    /\ state' = [state EXCEPT ![c] = how]
    /\ futures_queue' = next_future.rest
    /\ epc' = IF c = want THEN "idle" ELSE "collect"

(* Mutant: a waiting dequeue does not notice the shutdown.                  *)
never_cancelled(w) == FALSE

(* A dequeue that finds nothing raises once its queue is shut down.         *)
dequeue_cancelled(w) == responses[w] = <<>> /\ cancelled

(* get_response: one dequeue after the other.  A FAILURE reply, or a queue  *)
(* that was shut down while it is empty, raises and leaves the remaining    *)
(* queues unread.                                                           *)
CollectReply ==
    /\ epc = "collect" /\ next_future.ranks # <<>>
    /\ LET c == next_future.call
           w == Head(next_future.ranks)
       IN IF responses[w] # <<>>
          THEN /\ responses' = [responses EXCEPT ![w] = Tail(@)]
               /\ IF Head(responses[w]).failed
                  THEN Finish(c, "error") /\ UNCHANGED replies
                  ELSE /\ replies' = [replies EXCEPT ![c] = Append(@, Head(responses[w]).call)]
                       /\ futures_queue' = <<[call |-> c, ranks |-> Tail(next_future.ranks)]>>
                                             \o next_future.rest
                       /\ UNCHANGED <<epc, state>>
          ELSE /\ dequeue_cancelled(w)
               /\ Finish(c, "error")
               /\ UNCHANGED <<replies, responses>>
    /\ UNCHANGED <<scenario, calls, output_rank, non_block, want, notice, closing, requests, outputs, dead>>

(* All replies are there: the future is set, or the blocking call returns.  *)
CollectDone ==
    /\ epc = "collect" /\ next_future.ranks = <<>>
    /\ Finish(next_future.call, "done")
    /\ UNCHANGED <<scenario, calls, output_rank, non_block, want, replies, notice, closing, workers>>

-----------------------------------------------------------------------------
(********************************** workers **********************************)
(* worker_busy_loop: take a call, run it, reply if asked for.               *)
WorkerStep(w) ==
    /\ w \notin dead /\ requests[w] # <<>>
    /\ requests' = [requests EXCEPT ![w] = Tail(@)]
    /\ LET c == Head(requests[w]) IN
       IF output_rank[c] \in {All, w}
       THEN \E failed \in {FALSE, Failures} :
              LET reply == [call |-> c, failed |-> failed] IN
              IF use_async_scheduling
              THEN outputs' = [outputs EXCEPT ![w] = Append(@, reply)] /\ UNCHANGED responses
              ELSE responses' = [responses EXCEPT ![w] = Append(@, reply)] /\ UNCHANGED outputs
       ELSE UNCHANGED <<outputs, responses>>
    /\ UNCHANGED <<scenario, epc, caller, notice, closing, dead>>

(* async_output_busy_loop.                                                  *)
AsyncOutput(w) ==
    /\ w \notin dead /\ outputs[w] # <<>>
    /\ responses' = [responses EXCEPT ![w] = Append(@, Head(outputs[w]))]
    /\ outputs' = [outputs EXCEPT ![w] = Tail(@)]
    /\ UNCHANGED <<scenario, epc, caller, notice, closing, requests, dead>>

(* A worker's process ends unexpectedly.                                    *)
WorkerDies(w) ==
    /\ Crashes = "any" \/ (Crashes = "registered" /\ registered)
    /\ w \notin dead
    /\ dead' = dead \union {w}
    /\ UNCHANGED <<scenario, epc, caller, notice, closing, requests, outputs, responses>>

-----------------------------------------------------------------------------
(************************* monitor_workers, shutdown *************************)
MonitorWakes ==
    /\ spc["monitor"] = "none" /\ dead # {}
    /\ IF shutting_down
       THEN UNCHANGED is_failed /\ spc' = [spc EXCEPT !["monitor"] = "done"]
       ELSE is_failed' = TRUE /\ spc' = [spc EXCEPT !["monitor"] = "shutdown"]
    /\ UNCHANGED <<scenario, epc, caller, notice, shutting_down, mq_open, mqs_open, cancelled, workers>>

(* The engine itself shuts down, between two calls.                         *)
EngineShutdown ==
    /\ Shutdowns
    /\ epc = "idle" /\ spc["engine"] = "none"
    /\ spc' = [spc EXCEPT !["engine"] = "shutdown"]
    /\ epc' = "shutdown"
    /\ UNCHANGED <<scenario, caller, notice, is_failed, shutting_down, mq_open, mqs_open, cancelled, workers>>

(* The second thread to come by skips the termination of the workers.       *)
ShutdownEnter(t) ==
    /\ spc[t] = "shutdown"
    /\ shutting_down' = TRUE
    /\ spc' = [spc EXCEPT ![t] = IF shutting_down THEN "drop" ELSE "terminate"]
    /\ UNCHANGED <<scenario, epc, caller, notice, is_failed, mq_open, mqs_open, cancelled, workers>>

(* The death pipes are closed, the workers end or are killed, then every    *)
(* response queue is shut down.                                             *)
ShutdownTerminate(t) ==
    /\ spc[t] = "terminate"
    /\ dead' = Worker
    /\ cancelled' = TRUE
    /\ spc' = [spc EXCEPT ![t] = "drop"]
    /\ UNCHANGED <<scenario, epc, caller, notice, is_failed, shutting_down, mq_open, mqs_open,
                   requests, outputs, responses>>

ShutdownDrop(t) ==
    /\ spc[t] = "drop"
    /\ mq_open' = FALSE
    /\ spc' = [spc EXCEPT ![t] = "drop responses"]
    /\ UNCHANGED <<scenario, epc, caller, notice, is_failed, shutting_down, mqs_open, cancelled, workers>>

(* Each response queue is shut down, again, before the list is cleared.     *)
ShutdownDropResponses(t) ==
    /\ spc[t] = "drop responses"
    /\ mqs_open' = FALSE
    /\ cancelled' = (cancelled \/ mqs_open)
    /\ spc' = [spc EXCEPT ![t] = IF t = "monitor" THEN "callback" ELSE "done"]
    /\ epc' = IF t = "engine" THEN "exit" ELSE epc
    /\ UNCHANGED <<scenario, caller, notice, is_failed, shutting_down, mq_open, workers>>

(* Mutant: the callback is only called while the executor is still open.    *)
CallbackIfOpen ==
    /\ spc["monitor"] = "callback"
    /\ informed' = (informed \/ (registered /\ mqs_open))
    /\ registered' = FALSE
    /\ spc' = [spc EXCEPT !["monitor"] = "done"]
    /\ UNCHANGED <<scenario, epc, caller, is_failed, shutting_down, mq_open, mqs_open, cancelled, workers>>

MonitorCallback ==
    /\ spc["monitor"] = "callback"
    /\ informed' = (informed \/ registered)
    /\ registered' = FALSE
    /\ spc' = [spc EXCEPT !["monitor"] = "done"]
    /\ UNCHANGED <<scenario, epc, caller, is_failed, shutting_down, mq_open, mqs_open, cancelled, workers>>

ShutdownStep(t) ==
    ShutdownEnter(t) \/ ShutdownTerminate(t) \/ ShutdownDrop(t) \/ ShutdownDropResponses(t)

-----------------------------------------------------------------------------
(* A call or a result once started is carried through; starting one is the  *)
(* engine's choice.                                                         *)
EngineProgress ==
    RegisterCheck \/ RegisterSet \/ Enqueue \/ BindQueues \/ CollectReply \/ CollectDone
    \/ ShutdownStep("engine")

EngineChoice ==
    \/ \E rank \in OutputRanks, nb \in BOOLEAN : CollectiveRpc(rank, nb)
    \/ \E c \in Call : Result(c)
    \/ EngineShutdown

MonitorStep == MonitorWakes \/ ShutdownStep("monitor") \/ MonitorCallback

WorkerProgress(w) == WorkerStep(w) \/ AsyncOutput(w)

Next ==
    \/ EngineProgress \/ EngineChoice \/ MonitorStep
    \/ \E w \in Worker : WorkerProgress(w) \/ WorkerDies(w)

(* Threads and processes run; a method that a worker has begun ends.        *)
Fairness ==
    /\ WF_vars(EngineProgress)
    /\ WF_vars(MonitorStep)
    /\ \A w \in Worker : WF_vars(WorkerProgress(w))

Spec == Init /\ [][Next]_vars /\ Fairness

-----------------------------------------------------------------------------
(******************************** Properties ********************************)
(* What collective_rpc returns for a call are replies to that call: a reply *)
(* is never taken for the answer to another one, although replies carry no  *)
(* number and are matched by position alone.                                *)
AnswersOwnCall == \A c \in Call : Range(replies[c]) \subseteq {c}

(* AnswersOwnCall holds unless replies stay behind: when one of several     *)
(* workers raises, or when the queues are shut down while a call reads them.*)
RepliesMatch == ~cancelled /\ (Failures => All \notin OutputRanks) => AnswersOwnCall

(* A blocking call, or the result of a future, ends, also when a worker     *)
(* dies or another thread shuts the executor down while it waits.           *)
CallsEnd == (epc = "collect") ~> (epc = "idle")

(* When a worker dies after the callback was registered, the engine learns  *)
(* of it through the callback, unless it was shutting down anyway.          *)
EngineInformed ==
    (Crashes = "registered" /\ dead # {}) ~> (informed \/ spc["engine"] # "none")
=============================================================================
