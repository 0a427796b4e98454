----------------------- MODULE MultiprocExecutorProofs -----------------------
(***************************************************************************)
(* Replies are matched to calls by position alone, and rightly so: for     *)
(* every number of workers and calls, whatever crashes, no call gets the   *)
(* reply to another one unless replies were left behind.                   *)
(*                                                                         *)
(* The invariant: on the way through a worker (requests, then the output   *)
(* thread's queue, then the response queue) calls stay in ascending order, *)
(* the futures are queued in ascending order, and the calls on their way   *)
(* through a worker that it answers are exactly those for which some       *)
(* future has still to read that worker's queue.  The first reply of a     *)
(* queue and the first future that reads it are then both for the least of *)
(* these calls.                                                            *)
(***************************************************************************)
EXTENDS MultiprocExecutor, SocketLemmas

Future == [call : Call, ranks : Seq(Worker)]
Reply == [call : Call, failed : BOOLEAN]

(* Worker w replies to call c.                                              *)
Answers(w, c) == output_rank[c] \in {All, w}

(* No reply stays behind in a response queue.                               *)
NoneLeft == ~cancelled /\ (Failures => All \notin OutputRanks)

ExecutorTypes ==
    /\ scenario \in Scenarios
    /\ epc \in {"register", "set", "idle", "enqueue", "bind", "collect", "shutdown", "exit"}
    /\ calls \in 0 .. MaxCalls
    /\ output_rank \in [Call -> Worker \union {All}]
    /\ non_block \in BOOLEAN
    /\ futures_queue \in Seq(Future)
    /\ replies \in [Call -> Seq(Call)]
    /\ state \in [Call -> {"none", "pending", "done", "error"}]
    /\ mqs_open \in BOOLEAN /\ cancelled \in BOOLEAN
    /\ spc \in [Thread -> {"none", "shutdown", "terminate", "drop", "drop responses", "callback", "done"}]
    /\ requests \in [Worker -> Seq(Call)]
    /\ outputs \in [Worker -> Seq(Reply)]
    /\ responses \in [Worker -> Seq(Reply)]

FutureCalls == {f.call : f \in Elems(futures_queue)}

(* The call being made, once it is broadcast and before its future is.      *)
Calling == IF epc = "bind" THEN {calls} ELSE {}

FuturesInv ==
    /\ InOrder(futures_queue)
    /\ \A c \in Call : state[c] = "pending" =>
         c \in FutureCalls \/ (epc \in {"enqueue", "bind"} /\ c = calls)
    /\ epc = "collect" => want \in FutureCalls
    /\ epc \in {"enqueue", "bind"} => calls \in Call /\ \A f \in Elems(futures_queue) : f.call < calls
    /\ \A f \in Elems(futures_queue) :
         /\ f.call <= calls
         /\ Ascending(f.ranks)
         /\ output_rank[f.call] # All => Elems(f.ranks) \subseteq {output_rank[f.call]}

(* The calls on their way through w.                                        *)
PathInv(w) ==
    /\ InOrder(responses[w]) /\ InOrder(outputs[w]) /\ Ascending(requests[w])
    /\ ~use_async_scheduling => outputs[w] = <<>>
    /\ \A x \in Elems(responses[w]) :
         /\ \A y \in Elems(outputs[w]) : x.call < y.call
         /\ \A c \in Elems(requests[w]) : x.call < c
    /\ \A y \in Elems(outputs[w]) : \A c \in Elems(requests[w]) : y.call < c
    /\ \A c \in Elems(requests[w]) : c <= calls /\ (epc = "enqueue" => c < calls)
    /\ \A x \in Elems(responses[w]) \union Elems(outputs[w]) :
         /\ x.call <= calls /\ (epc = "enqueue" => x.call < calls)
         /\ x.failed => Failures

Carried(w) ==
    {x.call : x \in Elems(responses[w]) \union Elems(outputs[w])}
      \union {c \in Elems(requests[w]) : Answers(w, c)}

Awaited(w) ==
    {f.call : f \in {g \in Elems(futures_queue) : w \in Elems(g.ranks)}}
      \union {c \in Calling : Answers(w, c)}

ExecutorInv ==
    /\ ExecutorTypes
    /\ FuturesInv
    /\ \A c \in 1 .. calls : output_rank[c] \in OutputRanks
    /\ ~mqs_open => cancelled
    /\ spc["engine"] \in {"shutdown", "terminate", "drop", "drop responses"} => epc = "shutdown"
    /\ \A w \in Worker : PathInv(w)
    /\ NoneLeft => \A w \in Worker : Carried(w) = Awaited(w)
    /\ NoneLeft => \A c \in Call : Elems(replies[c]) \subseteq {c}

-----------------------------------------------------------------------------
LEMMA ExecutorInit == Init => ExecutorInv
<1> SUFFICES ASSUME Init PROVE ExecutorInv
  OBVIOUS
<1> USE DEF Init
<1>1. ExecutorTypes
  <2>1. <<>> \in Seq(Future) /\ <<>> \in Seq(Call) /\ <<>> \in Seq(Reply)
    OBVIOUS
  <2>2. calls \in 0 .. MaxCalls
    BY ExecutorAssumption
  <2>3. /\ requests \in [Worker -> Seq(Call)]
        /\ outputs \in [Worker -> Seq(Reply)]
        /\ responses \in [Worker -> Seq(Reply)]
    BY <2>1
  <2>4. /\ futures_queue \in Seq(Future)
        /\ replies \in [Call -> Seq(Call)]
        /\ state \in [Call -> {"none", "pending", "done", "error"}]
        /\ output_rank \in [Call -> Worker \union {All}]
    BY <2>1
  <2> QED  BY Zenon, <2>2, <2>3, <2>4 DEF ExecutorTypes
<1>2. FuturesInv
  BY NothingSent DEF FuturesInv, FutureCalls, InOrder
<1>3. ASSUME NEW w \in Worker PROVE PathInv(w) /\ Carried(w) = {} /\ Awaited(w) = {}
  BY NothingSent DEF PathInv, Carried, Awaited, Calling, InOrder, Ascending
<1>4. \A c \in Call : Elems(replies[c]) \subseteq {c}
  BY NothingSent
<1>5. 1 .. calls = {} /\ ~(spc["engine"] \in {"shutdown", "terminate", "drop", "drop responses"})
  BY DEF Thread
<1> HIDE DEF Init
<1> QED  BY Zenon, <1>1, <1>2, <1>3, <1>4, <1>5 DEF ExecutorInv, Init

(* Registration, the monitor and shutdown leave calls and queues alone.     *)
LEMMA Bystander ==
    ASSUME ExecutorInv, ExecutorTypes',
           UNCHANGED <<scenario, caller, requests, outputs, responses>>,
           \/ UNCHANGED epc
           \/ epc \notin {"enqueue", "bind", "collect"} /\ epc' \notin {"enqueue", "bind", "collect"},
           cancelled => cancelled', ~mqs_open' => cancelled',
           spc'["engine"] \in {"shutdown", "terminate", "drop", "drop responses"} => epc' = "shutdown"
    PROVE  ExecutorInv'
<1> USE DEF ExecutorInv, caller
<1>1. FuturesInv'
  BY Zenon DEF FuturesInv, FutureCalls
<1>2. NoneLeft' => NoneLeft
  BY Zenon DEF NoneLeft, Failures, OutputRanks, ExecutorTypes
<1>3. ASSUME NEW w \in Worker PROVE PathInv(w)'
  BY Zenon DEF PathInv, use_async_scheduling, Failures
<1>4. ASSUME NEW w \in Worker PROVE Carried(w)' = Carried(w) /\ Awaited(w)' = Awaited(w)
  BY Zenon DEF Carried, Awaited, Calling, Answers
<1> QED  BY Zenon, <1>1, <1>2, <1>3, <1>4 DEF OutputRanks

LEMMA Register == ExecutorInv /\ (RegisterCheck \/ RegisterSet) => ExecutorInv'
<1> SUFFICES ASSUME ExecutorInv, RegisterCheck \/ RegisterSet PROVE ExecutorInv'
  OBVIOUS
<1>1. ExecutorTypes'
  BY Zenon DEF ExecutorInv, ExecutorTypes, RegisterCheck, RegisterSet, caller, closing, workers
<1> QED
  BY Zenon, <1>1, Bystander DEF RegisterCheck, RegisterSet, caller, closing, workers, ExecutorInv

LEMMA Closing ==
    ExecutorInv /\ (EngineShutdown \/ MonitorStep \/ ShutdownStep("engine")) => ExecutorInv'
<1> SUFFICES ASSUME ExecutorInv, EngineShutdown \/ MonitorStep \/ ShutdownStep("engine")
             PROVE  ExecutorInv'
  OBVIOUS
<1> USE DEF caller, workers, notice
<1>1. /\ ExecutorTypes
      /\ ~mqs_open => cancelled
      /\ spc["engine"] \in {"shutdown", "terminate", "drop", "drop responses"} => epc = "shutdown"
  BY Zenon DEF ExecutorInv
<1>2. CASE EngineShutdown
  <2>1. ExecutorTypes'
    BY Zenon, <1>1, <1>2 DEF EngineShutdown, ExecutorTypes
  <2> QED  BY <1>1, <1>2, <2>1, Bystander DEF EngineShutdown
<1>3. CASE MonitorWakes
  <2>1. ExecutorTypes' /\ spc'["engine"] = spc["engine"]
    BY Zenon, <1>1, <1>3 DEF MonitorWakes, ExecutorTypes, Thread
  <2> QED  BY Zenon, <1>1, <1>3, <2>1, Bystander DEF MonitorWakes
<1>4. CASE MonitorCallback
  <2>1. ExecutorTypes' /\ spc'["engine"] = spc["engine"]
    BY Zenon, <1>1, <1>4 DEF MonitorCallback, ExecutorTypes, Thread
  <2> QED  BY Zenon, <1>1, <1>4, <2>1, Bystander DEF MonitorCallback
<1>5. ASSUME NEW t \in Thread, ShutdownEnter(t) \/ ShutdownTerminate(t) \/ ShutdownDrop(t)
      PROVE  ExecutorInv'
  <2>1. CASE ShutdownEnter(t)
    <3>1. ExecutorTypes'
      BY Zenon, <1>1, <2>1 DEF ShutdownEnter, ExecutorTypes
    <3>2. spc'["engine"] \in {"shutdown", "terminate", "drop", "drop responses"} => epc' = "shutdown"
      BY Zenon, <1>1, <2>1 DEF ShutdownEnter, ExecutorTypes, Thread
    <3> QED  BY Zenon, <1>1, <2>1, <3>1, <3>2, Bystander DEF ShutdownEnter
  <2>2. CASE ShutdownTerminate(t)
    <3>1. ExecutorTypes'
      BY Zenon, <1>1, <2>2 DEF ShutdownTerminate, ExecutorTypes
    <3>2. spc'["engine"] \in {"shutdown", "terminate", "drop", "drop responses"} => epc' = "shutdown"
      BY Zenon, <1>1, <2>2 DEF ShutdownTerminate, ExecutorTypes, Thread
    <3> QED  BY Zenon, <1>1, <2>2, <3>1, <3>2, Bystander DEF ShutdownTerminate
  <2>3. CASE ShutdownDrop(t)
    <3>1. ExecutorTypes'
      BY Zenon, <1>1, <2>3 DEF ShutdownDrop, ExecutorTypes
    <3>2. spc'["engine"] \in {"shutdown", "terminate", "drop", "drop responses"} => epc' = "shutdown"
      BY Zenon, <1>1, <2>3 DEF ShutdownDrop, ExecutorTypes, Thread
    <3> QED  BY Zenon, <1>1, <2>3, <3>1, <3>2, Bystander DEF ShutdownDrop
  <2> QED  BY <1>5, <2>1, <2>2, <2>3
<1>6. ASSUME NEW t \in Thread, ShutdownDropResponses(t) PROVE ExecutorInv'
  <2>1. ExecutorTypes'
    BY Zenon, <1>1, <1>6 DEF ShutdownDropResponses, ExecutorTypes
  <2>2. spc'["engine"] \in {"shutdown", "terminate", "drop", "drop responses"} => epc' = "shutdown"
    BY Zenon, <1>1, <1>6 DEF ShutdownDropResponses, ExecutorTypes, Thread
  <2>3. (cancelled => cancelled') /\ (~mqs_open' => cancelled')
    BY Zenon, <1>1, <1>6 DEF ShutdownDropResponses, ExecutorTypes
  <2>4. epc' = epc \/ (epc = "shutdown" /\ epc' = "exit")
    BY Zenon, <1>1, <1>6 DEF ShutdownDropResponses
  <2> QED  BY Zenon, <1>6, <2>1, <2>2, <2>3, <2>4, Bystander DEF ShutdownDropResponses
<1> QED
  BY <1>2, <1>3, <1>4, <1>5, <1>6 DEF MonitorStep, ShutdownStep, Thread

LEMMA Dies == ASSUME ExecutorInv, NEW w \in Worker, WorkerDies(w) PROVE ExecutorInv'
<1>1. ExecutorTypes'
  BY Zenon DEF ExecutorInv, ExecutorTypes, WorkerDies, caller, closing, notice
<1> QED  BY Zenon, <1>1, Bystander DEF WorkerDies, caller, closing, notice, ExecutorInv

-----------------------------------------------------------------------------
(* Calls are numbers, and queues hold what they should.                     *)
LEMMA Calls == MaxCalls \in Nat /\ Call \subseteq Nat /\ \A c \in Nat : c \in Call <=> 1 <= c /\ c <= MaxCalls
BY ExecutorAssumption DEF Call

LEMMA Queued ==
    ASSUME ExecutorTypes
    PROVE  /\ calls \in Nat /\ calls <= MaxCalls
           /\ futures_queue \in Seq(Future)
           /\ \A f \in Elems(futures_queue) :
                f.call \in Call /\ f.call \in Nat /\ f.ranks \in Seq(Worker) /\ f = [call |-> f.call, ranks |-> f.ranks]
           /\ \A w \in Worker :
                /\ requests[w] \in Seq(Call) /\ requests[w] \in Seq(Nat) /\ Elems(requests[w]) \subseteq Call
                /\ responses[w] \in Seq(Reply) /\ Elems(responses[w]) \subseteq Reply
                /\ outputs[w] \in Seq(Reply) /\ Elems(outputs[w]) \subseteq Reply
<1>1. calls \in Nat /\ calls <= MaxCalls
  <2>1. calls \in 0 .. MaxCalls
    BY Zenon DEF ExecutorTypes
  <2> QED  BY <2>1, Calls
<1>2. ASSUME NEW S, NEW s \in Seq(S) PROVE Elems(s) \subseteq S
  BY DEF Elems
<1>3. Elems(futures_queue) \subseteq Future
  BY Zenon, <1>2 DEF ExecutorTypes
<1>4. \A f \in Future :
        f.call \in Call /\ f.call \in Nat /\ f.ranks \in Seq(Worker) /\ f = [call |-> f.call, ranks |-> f.ranks]
  <2>1. \A f \in Future : f.call \in Call /\ f.ranks \in Seq(Worker) /\ f = [call |-> f.call, ranks |-> f.ranks]
    BY DEF Future
  <2> QED  BY <2>1, Calls
<1>5. Seq(Call) \subseteq Seq(Nat)
  BY Zenon, Calls, SeqGrows
<1> QED  BY Zenon, <1>1, <1>2, <1>3, <1>4, <1>5 DEF ExecutorTypes

LEMMA ReplyNumbers == \A x \in Reply : x.call \in Nat /\ x.call \in Call
BY Zenon, Calls DEF Reply

(* What is queued are earlier calls.                                        *)
LEMMA MakeCall ==
    ASSUME ExecutorInv, NEW rank \in OutputRanks, NEW nb \in BOOLEAN, CollectiveRpc(rank, nb)
    PROVE  ExecutorInv'
<1> USE DEF caller, workers, notice, closing
<1>1. ExecutorTypes /\ FuturesInv
  BY Zenon DEF ExecutorInv
<1>2. /\ epc = "idle" /\ epc' \in {"idle", "enqueue"}
      /\ calls' = calls + 1 /\ calls \in Nat /\ calls' \in Call
      /\ rank \in Worker \union {All}
      /\ UNCHANGED <<scenario, futures_queue, want, replies, mqs_open, cancelled, spc,
                     requests, outputs, responses>>
  <2>1. scenario.MaxCalls \in Nat /\ scenario.MaxCalls <= MaxCalls /\ OutputRanks \subseteq Worker \union {All}
    <3>1. scenario \in Scenarios
      BY Zenon, <1>1 DEF ExecutorTypes
    <3>2. scenario.MaxCalls \in 0 .. MaxCalls /\ OutputRanks \subseteq Worker \union {All}
      BY <3>1, ExecutorAssumption DEF OutputRanks
    <3> QED  BY <3>2, Calls
  <2> QED  BY <1>1, <2>1, Queued, Calls DEF CollectiveRpc
<1>3. ExecutorTypes'
  <2>1. calls' \in 0 .. MaxCalls
    BY <1>2, Calls
  <2>2. /\ output_rank' \in [Call -> Worker \union {All}]
        /\ state' \in [Call -> {"none", "pending", "done", "error"}]
    BY Zenon, <1>1, <1>2 DEF CollectiveRpc, ExecutorTypes
  <2> QED  BY Zenon, <1>1, <1>2, <2>1, <2>2 DEF CollectiveRpc, ExecutorTypes
<1>4. \A c \in Call : c <= calls => output_rank'[c] = output_rank[c]
  <2>1. output_rank \in [Call -> Worker \union {All}] /\ output_rank' = [output_rank EXCEPT ![calls'] = rank]
    BY Zenon, <1>1 DEF CollectiveRpc, ExecutorTypes
  <2>2. \A c \in Call : c <= calls => c # calls'
    BY <1>2, Calls
  <2> QED  BY <2>1, <2>2
<1>5. \A f \in Elems(futures_queue) : f.call \in Call /\ f.call \in Nat /\ f.call <= calls
  BY <1>1, Queued DEF FuturesInv
<1>6. FuturesInv'
  <2>1. ASSUME NEW c \in Call, state'[c] = "pending"
        PROVE  c \in FutureCalls' \/ (epc' \in {"enqueue", "bind"} /\ c = calls')
    BY Zenon, <1>1, <1>2, <2>1 DEF CollectiveRpc, ExecutorTypes, FuturesInv, FutureCalls
  <2>2. \A f \in Elems(futures_queue) : f.call < calls'
    BY <1>2, <1>5
  <2>3. \A f \in Elems(futures_queue)' :
          /\ f.call <= calls'
          /\ Ascending(f.ranks)
          /\ output_rank'[f.call] # All => Elems(f.ranks) \subseteq {output_rank'[f.call]}
    BY <1>1, <1>2, <1>4, <1>5 DEF FuturesInv
  <2> QED  BY <1>1, <1>2, <2>1, <2>2, <2>3 DEF FuturesInv
<1>7. ASSUME NEW w \in Worker
      PROVE  PathInv(w)' /\ Carried(w)' = Carried(w) /\ Awaited(w)' = Awaited(w)
  <2>1. PathInv(w)
    BY Zenon DEF ExecutorInv
  <2>2. \A x \in Elems(responses[w]) \union Elems(outputs[w]) : x.call \in Nat
    BY <1>1, Queued, ReplyNumbers
  <2>3. Elems(requests[w]) \subseteq Call /\ Elems(requests[w]) \subseteq Nat
    BY <1>1, Queued, Calls
  <2>4. PathInv(w)'
    BY <1>2, <2>1, <2>2, <2>3 DEF PathInv, use_async_scheduling, Failures
  <2>5. \A c \in Elems(requests[w]) : Answers(w, c)' <=> Answers(w, c)
    BY <1>4, <2>1, <2>3 DEF PathInv, Answers
  <2> QED  BY <1>2, <2>4, <2>5 DEF Carried, Awaited, Calling
<1>8. \A c \in 1 .. calls' : output_rank'[c] \in OutputRanks'
  <2> SUFFICES ASSUME NEW c \in 1 .. calls' PROVE output_rank'[c] \in OutputRanks
    BY <1>2 DEF OutputRanks
  <2>1. CASE c = calls'
    BY Zenon, <1>1, <1>2, <2>1 DEF CollectiveRpc, ExecutorTypes
  <2>2. CASE c # calls'
    <3>1. c \in 1 .. calls /\ c \in Call /\ c <= calls
      BY <1>2, <2>2, Calls
    <3> QED  BY Zenon, <1>4, <3>1 DEF ExecutorInv
  <2> QED  BY <2>1, <2>2
<1> QED  BY Zenon, <1>2, <1>3, <1>6, <1>7, <1>8 DEF ExecutorInv, NoneLeft, Failures, OutputRanks

(* Every worker gets the call; those that answer it will be read.           *)
LEMMA Broadcast == ASSUME ExecutorInv, Enqueue PROVE ExecutorInv'
<1> USE DEF notice, closing
<1>1. ExecutorTypes /\ FuturesInv
  BY Zenon DEF ExecutorInv
<1>2. /\ epc = "enqueue" /\ calls \in Call /\ calls \in Nat
      /\ UNCHANGED <<scenario, calls, output_rank, non_block, futures_queue, want, replies,
                     mqs_open, cancelled, spc, outputs, responses>>
  BY <1>1, Queued DEF Enqueue, FuturesInv
<1>3. CASE mq_open
  <2>1. /\ requests' = [w \in Worker |-> Append(requests[w], calls)]
        /\ epc' = "bind" /\ UNCHANGED state
    BY <1>3 DEF Enqueue
  <2>2. ExecutorTypes'
    <3>1. \A w \in Worker : Append(requests[w], calls) \in Seq(Call)
      BY <1>1, <1>2, Queued
    <3>2. requests' \in [Worker -> Seq(Call)]
      BY <2>1, <3>1
    <3> QED  BY Zenon, <1>1, <1>2, <2>1, <3>2 DEF ExecutorTypes
  <2>3. FuturesInv'
    BY <1>1, <1>2, <2>1 DEF FuturesInv, FutureCalls
  <2>4. ASSUME NEW w \in Worker
        PROVE  /\ PathInv(w)'
               /\ Carried(w)' = Carried(w) \union {c \in {calls} : Answers(w, c)}
               /\ Awaited(w)' = Awaited(w) \union {c \in {calls} : Answers(w, c)}
    <3>1. requests[w] \in Seq(Call) /\ requests'[w] = Append(requests[w], calls)
      BY <1>1, <2>1, Queued
    <3>2. Elems(requests'[w]) = Elems(requests[w]) \union {calls}
      BY <3>1, Sent
    <3>3. PathInv(w)
      BY Zenon DEF ExecutorInv
    <3>4. requests[w] \in Seq(Nat)
      BY <1>1, Queued
    <3>5. Ascending(requests'[w])
      BY <1>2, <3>1, <3>3, <3>4, AscendingSent DEF PathInv
    <3>6. PathInv(w)'
      BY <1>2, <2>1, <3>2, <3>3, <3>5 DEF PathInv, use_async_scheduling, Failures
    <3> QED  BY <1>2, <2>1, <3>2, <3>6 DEF Carried, Awaited, Calling, Answers
  <2> QED  BY Zenon, <1>2, <2>1, <2>2, <2>3, <2>4 DEF ExecutorInv, NoneLeft, Failures, OutputRanks
<1>4. CASE ~mq_open
  <2>1. /\ state' = [state EXCEPT ![calls] = "error"]
        /\ epc' = "idle" /\ UNCHANGED requests
    BY <1>4 DEF Enqueue, Raise
  <2>2. ExecutorTypes'
    BY Zenon, <1>1, <1>2, <2>1 DEF ExecutorTypes
  <2>3. FuturesInv'
    <3>1. ASSUME NEW c \in Call, state'[c] = "pending" PROVE c \in FutureCalls
      BY Zenon, <1>1, <1>2, <2>1, <3>1 DEF FuturesInv, ExecutorTypes
    <3> QED  BY <1>1, <1>2, <2>1, <3>1 DEF FuturesInv, FutureCalls
  <2>4. ASSUME NEW w \in Worker
        PROVE  PathInv(w)' /\ Carried(w)' = Carried(w) /\ Awaited(w)' = Awaited(w)
    <3>1. PathInv(w)
      BY Zenon DEF ExecutorInv
    <3> QED
      BY <1>2, <2>1, <3>1 DEF PathInv, use_async_scheduling, Failures, Carried, Awaited, Calling, Answers
  <2> QED  BY Zenon, <1>2, <2>1, <2>2, <2>3, <2>4 DEF ExecutorInv, NoneLeft, Failures, OutputRanks
<1> QED  BY <1>3, <1>4

(* The ranks a call reads are those that answer it, in ascending order.     *)
LEMMA RanksRead ==
    ASSUME mqs_open, NEW rank \in Worker \union {All}
    PROVE  /\ reply_ranks(rank) \in Seq(Worker)
           /\ Ascending(reply_ranks(rank))
           /\ rank # All => Elems(reply_ranks(rank)) = {rank}
           /\ rank = All => Elems(reply_ranks(rank)) = Worker
<1>1. world_size \in Nat \ {0}
  BY ExecutorAssumption
<1>2. CASE rank = All
  <2> DEFINE q == [i \in 1 .. world_size |-> i - 1]
  <2>1. reply_ranks(rank) = q
    BY <1>2 DEF reply_ranks
  <2>2. \A i \in 1 .. world_size : q[i] = i - 1 /\ i - 1 \in Worker
    BY <1>1 DEF Worker
  <2>3. q \in Seq(Worker) /\ Len(q) = world_size
    BY <1>1, <2>2
  <2>4. Ascending(q)
    BY <1>1, <2>2, <2>3 DEF Ascending
  <2>5. \A w \in Worker : w + 1 \in 1 .. world_size /\ q[w + 1] = w
    BY <1>1 DEF Worker
  <2> HIDE DEF q
  <2>6. Elems(q) = Worker
    BY <2>2, <2>3, <2>5 DEF Elems
  <2> QED  BY <1>2, <2>1, <2>3, <2>4, <2>6
<1>3. CASE rank # All
  <2>1. reply_ranks(rank) = <<rank>>
    BY <1>3 DEF reply_ranks
  <2>2. <<rank>> \in Seq(Worker) /\ Ascending(<<rank>>) /\ Elems(<<rank>>) = {rank}
    BY <1>3 DEF Ascending, Elems
  <2> QED  BY <1>3, <2>1, <2>2
<1> QED  BY <1>2, <1>3

(* Nothing is read of queues that were dropped.                             *)
LEMMA NoRanks ==
    ASSUME ~mqs_open, NEW rank
    PROVE  /\ reply_ranks(rank) \in Seq(Worker) /\ Ascending(reply_ranks(rank))
           /\ Elems(reply_ranks(rank)) = {}
BY NothingSent DEF reply_ranks, Ascending

(* The future takes over the claim to the replies.                          *)
LEMMA Bind == ASSUME ExecutorInv, BindQueues PROVE ExecutorInv'
<1> USE DEF notice, closing, workers
<1>1. ExecutorTypes /\ FuturesInv
  BY Zenon DEF ExecutorInv
<1> DEFINE rank == output_rank[calls]
           f == [call |-> calls, ranks |-> reply_ranks(rank)]
<1>2. /\ epc = "bind" /\ calls \in Call /\ calls \in Nat
      /\ UNCHANGED <<scenario, calls, output_rank, non_block, replies,
                     mqs_open, cancelled, spc, requests, outputs, responses>>
  BY <1>1, Queued DEF BindQueues, FuturesInv
<1>3. rank \in Worker \union {All} /\ non_block \in BOOLEAN
  BY Zenon, <1>1, <1>2 DEF ExecutorTypes
<1>4. CASE rank # All /\ ~mqs_open
  <2>1. /\ state' = [state EXCEPT ![calls] = "error"]
        /\ epc' = "idle" /\ UNCHANGED <<futures_queue, want>>
    BY <1>4 DEF BindQueues, Raise
  <2>2. ExecutorTypes'
    BY Zenon, <1>1, <1>2, <2>1 DEF ExecutorTypes
  <2>3. FuturesInv'
    <3>1. ASSUME NEW c \in Call, state'[c] = "pending" PROVE c \in FutureCalls
      BY Zenon, <1>1, <1>2, <2>1, <3>1 DEF FuturesInv, ExecutorTypes
    <3> QED  BY <1>1, <1>2, <2>1, <3>1 DEF FuturesInv, FutureCalls
  <2>4. ~NoneLeft'
    BY Zenon, <1>2, <1>4 DEF ExecutorInv, NoneLeft
  <2>5. ASSUME NEW w \in Worker PROVE PathInv(w)'
    BY Zenon, <1>2, <2>1 DEF ExecutorInv, PathInv, use_async_scheduling, Failures
  <2> QED  BY Zenon, <1>2, <2>1, <2>2, <2>3, <2>4, <2>5 DEF ExecutorInv, OutputRanks
<1>5. CASE ~(rank # All /\ ~mqs_open)
  <2>1. /\ futures_queue' = Append(futures_queue, f)
        /\ epc' \in {"idle", "collect"}
        /\ epc' = "collect" => want' = calls
        /\ UNCHANGED state
    BY <1>3, <1>5 DEF BindQueues
  <2>2. /\ f.call = calls /\ f.ranks = reply_ranks(rank) /\ f.ranks \in Seq(Worker)
        /\ Ascending(f.ranks)
        /\ rank # All => Elems(f.ranks) \subseteq {rank}
    BY <1>3, RanksRead, NoRanks
  <2>3. f \in Future
    BY <1>2, <2>2 DEF Future
  <2> HIDE DEF f
  <2>4. Elems(futures_queue') = Elems(futures_queue) \union {f}
    BY <1>1, <2>1, Sent, Queued
  <2>5. ExecutorTypes'
    <3>1. futures_queue' \in Seq(Future)
      BY <1>1, <2>1, <2>3, Queued
    <3> QED  BY Zenon, <1>1, <1>2, <2>1, <3>1 DEF ExecutorTypes
  <2>6. FuturesInv'
    <3>1. InOrder(futures_queue')
      <4>1. \A g \in Elems(futures_queue) : g.call < f.call
        BY <1>1, <1>2, <2>2 DEF FuturesInv
      <4> QED  BY <1>1, <2>1, <4>1, RecordSent, Queued DEF FuturesInv
    <3>2. FutureCalls' = FutureCalls \union {calls}
      BY <2>2, <2>4 DEF FutureCalls
    <3>3. \A c \in Call : state'[c] = "pending" => c \in FutureCalls'
      BY <1>1, <2>1, <3>2 DEF FuturesInv
    <3>4. \A g \in Elems(futures_queue') :
            /\ g.call <= calls'
            /\ Ascending(g.ranks)
            /\ output_rank'[g.call] # All => Elems(g.ranks) \subseteq {output_rank'[g.call]}
      <4> SUFFICES ASSUME NEW g \in Elems(futures_queue')
                   PROVE  /\ g.call <= calls
                          /\ Ascending(g.ranks)
                          /\ output_rank[g.call] # All => Elems(g.ranks) \subseteq {output_rank[g.call]}
        BY <1>2
      <4>1. CASE g = f
        BY <1>2, <2>2, <4>1
      <4>2. CASE g # f
        BY <1>1, <2>4, <4>2 DEF FuturesInv
      <4> QED  BY <4>1, <4>2
    <3> QED  BY Zenon, <2>1, <3>1, <3>2, <3>3, <3>4 DEF FuturesInv
  <2>7. ASSUME NEW w \in Worker PROVE PathInv(w)' /\ Carried(w)' = Carried(w)
    BY Zenon, <1>2, <2>1 DEF ExecutorInv, PathInv, use_async_scheduling, Failures, Carried, Answers
  <2>8. ASSUME NEW w \in Worker, NoneLeft' PROVE Awaited(w)' = Awaited(w)
    <3>1. mqs_open
      BY Zenon, <1>2, <2>8 DEF ExecutorInv, NoneLeft
    <3>2. w \in Elems(f.ranks) <=> Answers(w, calls)
      BY <1>3, <2>2, <3>1, RanksRead DEF Answers
    <3>3. Awaited(w)' = {h.call : h \in {g \in Elems(futures_queue') : w \in Elems(g.ranks)}}
      BY <2>1 DEF Awaited, Calling
    <3>4. Awaited(w) = {h.call : h \in {g \in Elems(futures_queue) : w \in Elems(g.ranks)}}
                         \union {c \in {calls} : Answers(w, c)}
      BY <1>2 DEF Awaited, Calling
    <3>5. {h.call : h \in {g \in Elems(futures_queue') : w \in Elems(g.ranks)}}
            = {h.call : h \in {g \in Elems(futures_queue) : w \in Elems(g.ranks)}}
                \union (IF w \in Elems(f.ranks) THEN {f.call} ELSE {})
      BY <2>4
    <3> QED  BY Zenon, <2>2, <3>2, <3>3, <3>4, <3>5
  <2>9. NoneLeft' => NoneLeft
    BY <1>2 DEF NoneLeft, Failures, OutputRanks
  <2>10. spc'["engine"] \notin {"shutdown", "terminate", "drop", "drop responses"}
    BY Zenon, <1>2 DEF ExecutorInv
  <2> HIDE DEF rank
  <2> QED  BY Zenon, <1>2, <2>5, <2>6, <2>7, <2>8, <2>9, <2>10 DEF ExecutorInv, OutputRanks
<1> QED  BY <1>4, <1>5

(* A future that is not done is queued.                                     *)
LEMMA AskResult == ASSUME ExecutorInv, NEW c \in Call, Result(c) PROVE ExecutorInv'
<1> USE DEF notice, closing, workers
<1>1. ExecutorTypes /\ FuturesInv
  BY Zenon DEF ExecutorInv
<1>2. /\ epc = "idle" /\ epc' = "collect" /\ state[c] = "pending" /\ want' = c
      /\ UNCHANGED <<scenario, calls, output_rank, non_block, futures_queue, replies, state,
                     mqs_open, cancelled, spc, requests, outputs, responses>>
  BY DEF Result
<1>3. ExecutorTypes'
  BY Zenon, <1>1, <1>2 DEF ExecutorTypes
<1>4. FuturesInv'
  BY <1>1, <1>2 DEF FuturesInv, FutureCalls
<1>5. ASSUME NEW w \in Worker
      PROVE  PathInv(w)' /\ Carried(w)' = Carried(w) /\ Awaited(w)' = Awaited(w)
  BY Zenon, <1>2 DEF ExecutorInv, PathInv, use_async_scheduling, Failures, Carried, Awaited, Calling, Answers
<1> QED  BY Zenon, <1>2, <1>3, <1>4, <1>5 DEF ExecutorInv, NoneLeft, Failures, OutputRanks

-----------------------------------------------------------------------------
(* The future at the head is the oldest.                                    *)
LEMMA OldestFuture ==
    ASSUME ExecutorInv, epc = "collect"
    PROVE  LET h == Head(futures_queue) IN
           /\ futures_queue # <<>>
           /\ next_future.call = h.call /\ next_future.ranks = h.ranks
           /\ next_future.rest = Tail(futures_queue)
           /\ h \in Elems(futures_queue) /\ h \in Future
           /\ h.call \in Call /\ h.call \in Nat /\ h.call <= calls /\ h.ranks \in Seq(Worker)
           /\ Ascending(h.ranks)
           /\ output_rank[h.call] # All => Elems(h.ranks) \subseteq {output_rank[h.call]}
           /\ Tail(futures_queue) \in Seq(Future) /\ InOrder(Tail(futures_queue))
           /\ Elems(Tail(futures_queue)) = Elems(futures_queue) \ {h}
           /\ \A f \in Elems(futures_queue) : f # h => h.call < f.call
<1>1. ExecutorTypes /\ FuturesInv
  BY Zenon DEF ExecutorInv
<1>2. futures_queue \in Seq(Future) /\ futures_queue # <<>>
  BY <1>1, Queued, NothingSent DEF FuturesInv, FutureCalls
<1>3. \A f \in Future : f.call \in Nat
  <2>1. \A f \in Future : f.call \in Call
    BY DEF Future
  <2> QED  BY Zenon, <2>1, Calls
<1>4. InOrder(futures_queue)
  BY <1>1 DEF FuturesInv
<1> DEFINE h == Head(futures_queue)
<1>5. h \in Future /\ Tail(futures_queue) \in Seq(Future)
  BY <1>2, HeadTail
<1>6. /\ InOrder(Tail(futures_queue))
      /\ h \in Elems(futures_queue)
      /\ Elems(Tail(futures_queue)) = Elems(futures_queue) \ {h}
      /\ \A f \in Elems(Tail(futures_queue)) : h.call < f.call
  BY <1>2, <1>3, <1>4, RecordReceived
<1> HIDE DEF h
<1>7. h.call \in Call /\ h.call \in Nat /\ h.call <= calls /\ h.ranks \in Seq(Worker)
  BY <1>1, <1>6, Queued DEF FuturesInv
<1>8. /\ Ascending(h.ranks)
      /\ output_rank[h.call] # All => Elems(h.ranks) \subseteq {output_rank[h.call]}
  BY <1>1, <1>6 DEF FuturesInv
<1>9. /\ next_future.call = h.call /\ next_future.ranks = h.ranks
      /\ next_future.rest = Tail(futures_queue)
  BY DEF next_future, h
<1> QED  BY Zenon, <1>2, <1>5, <1>6, <1>7, <1>8, <1>9 DEF h

(* It leaves the queue when it is finished; the wanted one may stay.        *)
LEMMA FutureFinished ==
    ASSUME ExecutorInv, epc = "collect", NEW how \in {"done", "error"},
           Finish(Head(futures_queue).call, how), UNCHANGED <<calls, output_rank, want>>
    PROVE  /\ FuturesInv'
           /\ futures_queue' \in Seq(Future)
           /\ state' \in [Call -> {"none", "pending", "done", "error"}]
           /\ epc' \in {"idle", "collect"}
           /\ Elems(futures_queue') = Elems(futures_queue) \ {Head(futures_queue)}
<1>1. ExecutorTypes /\ FuturesInv
  BY Zenon DEF ExecutorInv
<1> DEFINE h == Head(futures_queue)
<1>2. /\ state' = [state EXCEPT ![h.call] = how]
      /\ futures_queue' = Tail(futures_queue)
      /\ epc' = IF h.call = want THEN "idle" ELSE "collect"
  BY OldestFuture DEF Finish
<1>3. /\ futures_queue' \in Seq(Future) /\ InOrder(futures_queue')
      /\ Elems(futures_queue') = Elems(futures_queue) \ {h}
      /\ h \in Elems(futures_queue)
      /\ h.call \in Call
  BY <1>2, OldestFuture
<1>4. state \in [Call -> {"none", "pending", "done", "error"}]
  BY Zenon, <1>1 DEF ExecutorTypes
<1> HIDE DEF h
<1>5. state' \in [Call -> {"none", "pending", "done", "error"}]
  BY <1>2, <1>3, <1>4
<1>6. \A c \in FutureCalls : c # h.call => c \in FutureCalls'
  BY <1>3 DEF FutureCalls
<1>7. \A c \in Call : state'[c] = "pending" => c \in FutureCalls'
  <2> SUFFICES ASSUME NEW c \in Call, state'[c] = "pending" PROVE c \in FutureCalls'
    OBVIOUS
  <2>1. c # h.call /\ state[c] = "pending"
    BY <1>2, <1>3, <1>4
  <2>2. c \in FutureCalls
    BY <1>1, <2>1 DEF FuturesInv
  <2> QED  BY <1>6, <2>1, <2>2
<1>8. epc' = "collect" => want' \in FutureCalls'
  BY <1>1, <1>2, <1>6 DEF FuturesInv
<1>9. epc' \in {"idle", "collect"}
  BY <1>2
<1>10. \A f \in Elems(futures_queue') :
         /\ f.call <= calls'
         /\ Ascending(f.ranks)
         /\ output_rank'[f.call] # All => Elems(f.ranks) \subseteq {output_rank'[f.call]}
  BY Zenon, <1>1, <1>3 DEF FuturesInv
<1> QED  BY Zenon, <1>3, <1>5, <1>7, <1>8, <1>9, <1>10 DEF FuturesInv, h

(* Nobody waits any more for what the finished future had still to read.    *)
LEMMA AwaitedFinished ==
    ASSUME ExecutorInv, epc = "collect", epc' # "bind", NEW w \in Worker,
           Elems(futures_queue') = Elems(futures_queue) \ {Head(futures_queue)}
    PROVE  Awaited(w)' = IF w \in Elems(Head(futures_queue).ranks)
                         THEN Awaited(w) \ {Head(futures_queue).call} ELSE Awaited(w)
<1> DEFINE h == Head(futures_queue)
           R(q) == {f.call : f \in {g \in q : w \in Elems(g.ranks)}}
<1>1. /\ h \in Elems(futures_queue) /\ h.call \in Nat
      /\ \A f \in Elems(futures_queue) : f # h => h.call < f.call
  BY OldestFuture
<1>2. \A f \in Elems(futures_queue) : f # h => h.call # f.call
  BY <1>1
<1>3. Awaited(w) = R(Elems(futures_queue)) /\ Awaited(w)' = R(Elems(futures_queue'))
  BY DEF Awaited, Calling
<1> HIDE DEF h
<1>4. R(Elems(futures_queue) \ {h}) =
        IF w \in Elems(h.ranks) THEN R(Elems(futures_queue)) \ {h.call} ELSE R(Elems(futures_queue))
  BY <1>1, <1>2
<1> QED  BY <1>3, <1>4 DEF h

LEMMA Done == ASSUME ExecutorInv, CollectDone PROVE ExecutorInv'
<1> USE DEF notice, closing, workers
<1>1. /\ epc = "collect" /\ Head(futures_queue).ranks = <<>>
      /\ Finish(Head(futures_queue).call, "done")
      /\ UNCHANGED <<scenario, calls, output_rank, non_block, want, replies,
                     mqs_open, cancelled, spc, requests, outputs, responses>>
  BY OldestFuture DEF CollectDone
<1>2. /\ FuturesInv'
      /\ futures_queue' \in Seq(Future)
      /\ state' \in [Call -> {"none", "pending", "done", "error"}]
      /\ epc' \in {"idle", "collect"}
      /\ Elems(futures_queue') = Elems(futures_queue) \ {Head(futures_queue)}
  BY <1>1, FutureFinished
<1>3. ExecutorTypes'
  BY Zenon, <1>1, <1>2 DEF ExecutorInv, ExecutorTypes
<1>4. ASSUME NEW w \in Worker PROVE PathInv(w)' /\ Carried(w)' = Carried(w)
  BY Zenon, <1>1, <1>2 DEF ExecutorInv, PathInv, use_async_scheduling, Failures, Carried, Answers
<1>5. ASSUME NEW w \in Worker PROVE Awaited(w)' = Awaited(w)
  BY <1>1, <1>2, AwaitedFinished, NothingSent
<1>6. spc'["engine"] \notin {"shutdown", "terminate", "drop", "drop responses"}
  BY Zenon, <1>1 DEF ExecutorInv
<1> QED  BY Zenon, <1>1, <1>2, <1>3, <1>4, <1>5, <1>6 DEF ExecutorInv, NoneLeft, Failures, OutputRanks

(* The first reply in a response queue is to the oldest call under way      *)
(* through that worker.                                                     *)
LEMMA OldestReply ==
    ASSUME ExecutorInv, NEW w \in Worker, responses[w] # <<>>
    PROVE  LET r == Head(responses[w]) IN
           /\ r \in Reply /\ r.call \in Call /\ r.call \in Nat
           /\ r \in Elems(responses[w])
           /\ Tail(responses[w]) \in Seq(Reply) /\ InOrder(Tail(responses[w]))
           /\ Elems(Tail(responses[w])) = Elems(responses[w]) \ {r}
           /\ \A x \in Elems(Tail(responses[w])) : r.call < x.call
           /\ r.call \in Carried(w)
           /\ \A c \in Carried(w) : c \in Nat /\ r.call <= c
<1> DEFINE r == Head(responses[w])
<1>1. PathInv(w) /\ ExecutorTypes
  BY Zenon DEF ExecutorInv
<1>2. responses[w] \in Seq(Reply) /\ Elems(responses[w]) \subseteq Reply
      /\ Elems(outputs[w]) \subseteq Reply /\ Elems(requests[w]) \subseteq Call
  BY <1>1, Queued
<1>3. r \in Reply /\ Tail(responses[w]) \in Seq(Reply)
  BY <1>2, HeadTail
<1>4. /\ InOrder(Tail(responses[w])) /\ r \in Elems(responses[w])
      /\ Elems(Tail(responses[w])) = Elems(responses[w]) \ {r}
      /\ \A x \in Elems(Tail(responses[w])) : r.call < x.call
  <2>1. InOrder(responses[w]) /\ \A x \in Reply : x.call \in Nat
    BY <1>1, ReplyNumbers DEF PathInv
  <2> QED  BY <1>2, <2>1, RecordReceived
<1>5. r.call \in Call /\ r.call \in Nat
  BY <1>3, ReplyNumbers
<1> HIDE DEF r
<1>6. r.call \in Carried(w)
  BY <1>4 DEF Carried
<1>7. ASSUME NEW c \in Carried(w) PROVE c \in Nat /\ r.call <= c
  <2>1. CASE \E x \in Elems(responses[w]) : c = x.call
    <3>1. PICK x \in Elems(responses[w]) : c = x.call
      BY <2>1
    <3>2. c \in Nat
      BY <1>2, <3>1, ReplyNumbers
    <3>3. x = r \/ r.call < x.call
      BY <1>4
    <3> QED  BY <1>5, <3>1, <3>2, <3>3
  <2>2. CASE \E x \in Elems(outputs[w]) : c = x.call
    <3>1. PICK x \in Elems(outputs[w]) : c = x.call
      BY <2>2
    <3>2. c \in Nat
      BY <1>2, <3>1, ReplyNumbers
    <3>3. r.call < c
      BY <1>1, <1>4, <3>1 DEF PathInv
    <3> QED  BY <1>5, <3>2, <3>3
  <2>3. CASE c \in Elems(requests[w])
    <3>1. c \in Nat
      BY <1>2, <2>3, Calls
    <3>2. r.call < c
      BY <1>1, <1>4, <2>3 DEF PathInv
    <3> QED  BY <1>5, <3>1, <3>2
  <2> QED  BY <2>1, <2>2, <2>3 DEF Carried
<1> QED  BY Zenon, <1>3, <1>4, <1>5, <1>6, <1>7 DEF r

(* It is read: what is still under way is as before, but for its call.      *)
LEMMA ReplyRead ==
    ASSUME ExecutorInv, NEW w \in Worker, responses[w] # <<>>,
           responses' = [responses EXCEPT ![w] = Tail(@)],
           epc' # "enqueue",
           UNCHANGED <<scenario, calls, output_rank, requests, outputs>>
    PROVE  /\ responses' \in [Worker -> Seq(Reply)]
           /\ \A v \in Worker : PathInv(v)'
           /\ Carried(w)' = Carried(w) \ {Head(responses[w]).call}
           /\ \A v \in Worker \ {w} : Carried(v)' = Carried(v)
<1> DEFINE r == Head(responses[w])
<1>1. ExecutorTypes /\ \A v \in Worker : PathInv(v)
  BY Zenon DEF ExecutorInv
<1>2. /\ r \in Elems(responses[w]) /\ r.call \in Nat
      /\ Tail(responses[w]) \in Seq(Reply) /\ InOrder(Tail(responses[w]))
      /\ Elems(Tail(responses[w])) = Elems(responses[w]) \ {r}
      /\ \A x \in Elems(Tail(responses[w])) : r.call < x.call
  BY OldestReply
<1> HIDE DEF r
<1>3. responses \in [Worker -> Seq(Reply)]
  BY Zenon, <1>1 DEF ExecutorTypes
<1>4. responses' \in [Worker -> Seq(Reply)]
      /\ responses'[w] = Tail(responses[w]) /\ \A v \in Worker \ {w} : responses'[v] = responses[v]
  BY <1>2, <1>3
<1>5. ASSUME NEW v \in Worker \ {w} PROVE PathInv(v)' /\ Carried(v)' = Carried(v)
  BY <1>1, <1>4 DEF PathInv, Carried, Answers, use_async_scheduling, Failures
<1>6. PathInv(w)'
  <2>1. Elems(responses'[w]) \subseteq Elems(responses[w]) /\ InOrder(responses'[w])
    BY <1>2, <1>4
  <2> QED  BY <1>1, <2>1 DEF PathInv, use_async_scheduling, Failures
<1>7. Carried(w)' = Carried(w) \ {r.call}
  <2>1. \A x \in Elems(responses[w]) : x # r => x.call # r.call
    BY <1>2
  <2>2. \A x \in Elems(outputs[w]) : x.call # r.call
    BY <1>1, <1>2 DEF PathInv
  <2>3. r.call \notin Elems(requests[w])
    <3>1. r.call \in Elems(requests[w]) => r.call < r.call
      BY <1>1, <1>2 DEF PathInv
    <3> QED  BY <1>2, <3>1
  <2>4. Elems(responses'[w]) = Elems(responses[w]) \ {r}
    BY <1>2, <1>4
  <2>5. {x.call : x \in Elems(responses'[w]) \union Elems(outputs[w])}
          = {x.call : x \in Elems(responses[w]) \union Elems(outputs[w])} \ {r.call}
    BY <1>2, <2>1, <2>2, <2>4
  <2>6. Carried(w)' = {x.call : x \in Elems(responses'[w]) \union Elems(outputs[w])}
                        \union {c \in Elems(requests[w]) : Answers(w, c)}
    BY DEF Carried, Answers
  <2> QED  BY <2>3, <2>5, <2>6 DEF Carried
<1> QED  BY <1>4, <1>5, <1>6, <1>7 DEF r

(* A future reads the reply to its own call.                                *)
LEMMA Collect == ASSUME ExecutorInv, CollectReply PROVE ExecutorInv'
<1> USE DEF notice, closing
<1>h. PICK h : h = Head(futures_queue)
  OBVIOUS
<1>w. PICK w : w = Head(h.ranks)
  OBVIOUS
<1>r. PICK r : r = Head(responses[w])
  OBVIOUS
<1>1. ExecutorTypes /\ FuturesInv /\ epc = "collect"
  BY Zenon DEF ExecutorInv, CollectReply
<1>2. /\ futures_queue # <<>> /\ h.ranks # <<>>
      /\ h \in Elems(futures_queue) /\ h \in Future
      /\ h.call \in Call /\ h.call \in Nat /\ h.ranks \in Seq(Worker)
      /\ Ascending(h.ranks)
      /\ output_rank[h.call] # All => Elems(h.ranks) \subseteq {output_rank[h.call]}
      /\ \A f \in Elems(futures_queue) : f # h => h.call < f.call
      /\ h.call <= calls
  BY Zenon, <1>1, <1>h, OldestFuture DEF CollectReply
<1>3. /\ w \in Worker /\ Tail(h.ranks) \in Seq(Worker)
      /\ Elems(Tail(h.ranks)) = Elems(h.ranks) \ {w}
      /\ w \in Elems(h.ranks) /\ Ascending(Tail(h.ranks))
  <2>1. Worker \subseteq Nat /\ Seq(Worker) \subseteq Seq(Nat)
    BY SeqGrows, ExecutorAssumption DEF Worker
  <2>2. h.ranks \in Seq(Nat)
    BY <1>2, <2>1
  <2>3. Elems(Tail(h.ranks)) = Elems(h.ranks) \ {w} /\ Ascending(Tail(h.ranks))
    BY Zenon, <1>2, <1>w, <2>2, LeastReceived, AscendingReceived DEF Ascending
  <2>4. w \in Worker /\ Tail(h.ranks) \in Seq(Worker)
    BY <1>2, <1>w, HeadTail
  <2>5. w \in Elems(h.ranks)
    BY <1>2, <1>w, Received
  <2> QED  BY <2>3, <2>4, <2>5
<1>4. UNCHANGED <<scenario, calls, output_rank, non_block, want, mqs_open, cancelled, spc, requests, outputs>>
  BY DEF CollectReply
<1>5. NoneLeft' = NoneLeft
  BY <1>4 DEF NoneLeft, Failures, OutputRanks
<1>6. spc'["engine"] \notin {"shutdown", "terminate", "drop", "drop responses"}
  BY Zenon, <1>1, <1>4 DEF ExecutorInv
<1>7. NoneLeft => h.call \in Awaited(w) /\ \A c \in Awaited(w) : h.call <= c
  <2>1. h.call \in Awaited(w)
    BY <1>2, <1>3 DEF Awaited
  <2>2. ASSUME NEW c \in Awaited(w) PROVE h.call <= c
    <3>1. PICK f \in Elems(futures_queue) : c = f.call
      BY <1>1 DEF Awaited, Calling
    <3>2. f.call \in Nat
      BY <1>1, Queued
    <3>3. CASE f = h
      BY <1>2, <3>1, <3>3
    <3>4. CASE f # h
      <4>1. h.call < f.call
        BY <1>2, <3>4
      <4> QED  BY <1>2, <3>1, <3>2, <4>1
    <3> QED  BY <3>3, <3>4
  <2> QED  BY <2>1, <2>2
<1>8. CASE responses[w] = <<>>
  <2>1. cancelled /\ Finish(h.call, "error") /\ UNCHANGED <<replies, responses>>
    BY Zenon, <1>1, <1>8, <1>h, <1>w, OldestFuture DEF CollectReply, dequeue_cancelled
  <2>2. /\ FuturesInv' /\ futures_queue' \in Seq(Future)
        /\ state' \in [Call -> {"none", "pending", "done", "error"}]
        /\ epc' \in {"idle", "collect"}
    BY <1>1, <1>4, <1>h, <2>1, FutureFinished
  <2>3. ExecutorTypes'
    BY Zenon, <1>1, <1>4, <2>1, <2>2 DEF ExecutorTypes
  <2>4. ~NoneLeft'
    BY <1>4, <2>1 DEF NoneLeft
  <2>5. ASSUME NEW v \in Worker PROVE PathInv(v)'
    BY Zenon, <1>4, <2>1, <2>2 DEF ExecutorInv, PathInv, use_async_scheduling, Failures
  <2> QED  BY Zenon, <1>4, <1>6, <2>2, <2>3, <2>4, <2>5 DEF ExecutorInv, OutputRanks
<1>9. CASE responses[w] # <<>>
  <2>1. responses' = [responses EXCEPT ![w] = Tail(@)]
    BY Zenon, <1>1, <1>9, <1>h, <1>w, OldestFuture DEF CollectReply
  <2>2. r \in Reply /\ r.call \in Call /\ r.call \in Nat /\ r.call \in Carried(w)
        /\ r \in Elems(responses[w]) /\ \A c \in Carried(w) : r.call <= c
    BY Zenon, <1>3, <1>9, <1>r, OldestReply
  <2>3. NoneLeft => r.call = h.call
    <3> HAVE NoneLeft
    <3>1. Carried(w) = Awaited(w)
      BY Zenon, <1>3 DEF ExecutorInv
    <3>2. r.call <= h.call /\ h.call <= r.call
      BY <1>7, <2>2, <3>1
    <3> QED  BY <1>2, <2>2, <3>2
  <2>4. CASE r.failed
    <3>1. Finish(h.call, "error") /\ UNCHANGED replies
      BY Zenon, <1>1, <1>9, <1>h, <1>w, <1>r, <2>4, OldestFuture DEF CollectReply
    <3>2. /\ FuturesInv' /\ futures_queue' \in Seq(Future)
          /\ state' \in [Call -> {"none", "pending", "done", "error"}]
          /\ epc' \in {"idle", "collect"}
          /\ Elems(futures_queue') = Elems(futures_queue) \ {h}
      BY Zenon, <1>1, <1>4, <1>h, <3>1, FutureFinished
    <3>3. /\ responses' \in [Worker -> Seq(Reply)]
          /\ \A v \in Worker : PathInv(v)'
          /\ Carried(w)' = Carried(w) \ {r.call}
          /\ \A v \in Worker \ {w} : Carried(v)' = Carried(v)
      BY Zenon, <1>3, <1>4, <1>9, <1>r, <2>1, <3>2, ReplyRead
    <3>4. ExecutorTypes'
      BY Zenon, <1>1, <1>4, <3>1, <3>2, <3>3 DEF ExecutorTypes
    <3>5. NoneLeft => Elems(h.ranks) \subseteq {w}
      <4> HAVE NoneLeft
      <4>1. Failures
        BY Zenon, <1>3, <2>2, <2>4 DEF ExecutorInv, PathInv
      <4>2. h.call \in 1 .. calls
        <5>1. h.call >= 1 /\ calls \in Nat
          BY <1>1, <1>2, Calls, Queued
        <5> QED  BY <1>2, <5>1
      <4>3. output_rank[h.call] # All
        BY Zenon, <4>1, <4>2 DEF ExecutorInv, NoneLeft
      <4> QED  BY <1>2, <1>3, <4>3
    <3>6. ASSUME NEW v \in Worker
          PROVE  Awaited(v)' = IF v \in Elems(h.ranks) THEN Awaited(v) \ {h.call} ELSE Awaited(v)
      BY <1>1, <1>h, <3>2, AwaitedFinished
    <3>7. NoneLeft => \A v \in Worker : Carried(v)' = Awaited(v)'
      BY Zenon, <1>3, <2>3, <3>3, <3>5, <3>6 DEF ExecutorInv
    <3> QED  BY Zenon, <1>4, <1>5, <1>6, <3>1, <3>2, <3>3, <3>4, <3>7 DEF ExecutorInv, OutputRanks
  <2>5. CASE ~r.failed
    <3> DEFINE g == [call |-> h.call, ranks |-> Tail(h.ranks)]
    <3>1. /\ replies' = [replies EXCEPT ![h.call] = Append(@, r.call)]
          /\ futures_queue' = <<g>> \o Tail(futures_queue)
          /\ UNCHANGED <<epc, state>>
      BY Zenon, <1>1, <1>9, <1>h, <1>w, <1>r, <2>5, OldestFuture DEF CollectReply
    <3>2. /\ responses' \in [Worker -> Seq(Reply)]
          /\ \A v \in Worker : PathInv(v)'
          /\ Carried(w)' = Carried(w) \ {r.call}
          /\ \A v \in Worker \ {w} : Carried(v)' = Carried(v)
      BY Zenon, <1>1, <1>3, <1>4, <1>9, <1>r, <2>1, <3>1, ReplyRead
    <3>3. g \in Future /\ g.call = h.call /\ g.ranks = Tail(h.ranks)
      BY Zenon, <1>2, <1>3 DEF Future
    <3> HIDE DEF g
    <3>4. /\ futures_queue' \in Seq(Future) /\ InOrder(futures_queue')
          /\ Elems(futures_queue') = (Elems(futures_queue) \ {h}) \union {g}
      <4>1. \A f \in Future : f.call \in Nat
        BY Zenon, Calls DEF Future
      <4>2. futures_queue \in Seq(Future) /\ InOrder(futures_queue)
        BY <1>1, Queued DEF FuturesInv
      <4> QED  BY <1>2, <1>h, <3>1, <3>3, <4>1, <4>2, RecordReplaced
    <3>5. replies' \in [Call -> Seq(Call)]
      <4>1. replies \in [Call -> Seq(Call)]
        BY Zenon, <1>1 DEF ExecutorTypes
      <4> QED  BY <1>2, <2>2, <3>1, <4>1
    <3>6. ExecutorTypes'
      BY Zenon, <1>1, <1>4, <3>1, <3>2, <3>4, <3>5 DEF ExecutorTypes
    <3>7. FutureCalls' = FutureCalls
      BY Zenon, <1>2, <3>3, <3>4 DEF FutureCalls
    <3>8. FuturesInv'
      <4>1. ASSUME NEW f \in Elems(futures_queue')
            PROVE  /\ f.call <= calls
                   /\ Ascending(f.ranks)
                   /\ output_rank[f.call] # All => Elems(f.ranks) \subseteq {output_rank[f.call]}
        <5>1. CASE f = g
          BY <1>2, <1>3, <3>3, <5>1
        <5>2. CASE f # g
          BY <1>1, <3>4, <5>2 DEF FuturesInv
        <5> QED  BY <5>1, <5>2
      <4> QED  BY Zenon, <1>1, <1>4, <3>1, <3>4, <3>7, <4>1 DEF FuturesInv
    <3>9. ASSUME NEW v \in Worker
          PROVE  Awaited(v)' = IF v = w THEN Awaited(v) \ {h.call} ELSE Awaited(v)
      <4> DEFINE R(q) == {f.call : f \in {x \in q : v \in Elems(x.ranks)}}
      <4>1. Awaited(v) = R(Elems(futures_queue)) /\ Awaited(v)' = R(Elems(futures_queue'))
        BY Zenon, <1>1, <3>1 DEF Awaited, Calling
      <4>2. v \in Elems(g.ranks) <=> v \in Elems(h.ranks) /\ v # w
        BY <1>3, <3>3
      <4>3. \A f \in Elems(futures_queue) : f # h => f.call # h.call
        BY <1>2
      <4>4. R((Elems(futures_queue) \ {h}) \union {g})
              = R(Elems(futures_queue) \ {h}) \union (IF v \in Elems(g.ranks) THEN {h.call} ELSE {})
        BY <3>3
      <4>5. R(Elems(futures_queue)) =
              R(Elems(futures_queue) \ {h}) \union (IF v \in Elems(h.ranks) THEN {h.call} ELSE {})
        BY <1>2
      <4>6. h.call \notin R(Elems(futures_queue) \ {h})
        BY <4>3
      <4>7. Awaited(v)' = R((Elems(futures_queue) \ {h}) \union {g})
        BY <3>4, <4>1
      <4> HIDE DEF R
      <4>8. CASE v = w
        <5>1. v \in Elems(h.ranks) /\ v \notin Elems(g.ranks)
          BY <1>3, <4>2, <4>8
        <5>2. Awaited(v)' = R(Elems(futures_queue) \ {h})
          BY Zenon, <4>4, <4>7, <5>1
        <5> QED  BY <4>1, <4>5, <4>6, <4>8, <5>1, <5>2
      <4>9. CASE v # w
        BY <4>1, <4>2, <4>4, <4>5, <4>7, <4>9
      <4> QED  BY <4>8, <4>9
    <3>10. NoneLeft => \A v \in Worker : Carried(v)' = Awaited(v)'
      BY Zenon, <1>3, <2>3, <3>2, <3>9 DEF ExecutorInv
    <3>11. NoneLeft => \A c \in Call : Elems(replies'[c]) \subseteq {c}
      <4> HAVE NoneLeft
      <4>1. replies \in [Call -> Seq(Call)] /\ \A c \in Call : Elems(replies[c]) \subseteq {c}
        BY Zenon, <1>1 DEF ExecutorTypes, ExecutorInv
      <4>2. r.call = h.call
        BY <2>3
      <4>3. Elems(Append(replies[h.call], r.call)) = Elems(replies[h.call]) \union {r.call}
        BY <1>2, <4>1, Sent
      <4> QED  BY Zenon, <1>2, <3>1, <4>1, <4>2, <4>3
    <3> QED  BY Zenon, <1>4, <1>5, <1>6, <3>1, <3>2, <3>6, <3>8, <3>10, <3>11 DEF ExecutorInv, OutputRanks
  <2> QED  BY <2>4, <2>5
<1> QED  BY <1>8, <1>9

-----------------------------------------------------------------------------
(* A worker takes the oldest call and, if it is asked, answers it.          *)
LEMMA Work == ASSUME ExecutorInv, NEW w \in Worker, WorkerStep(w) PROVE ExecutorInv'
<1> USE DEF notice, closing, caller
<1>c. PICK c : c = Head(requests[w])
  OBVIOUS
<1>1. ExecutorTypes /\ \A v \in Worker : PathInv(v)
  BY Zenon DEF ExecutorInv
<1>2. /\ requests[w] # <<>> /\ requests' = [requests EXCEPT ![w] = Tail(@)]
      /\ UNCHANGED <<scenario, epc, calls, output_rank, non_block, futures_queue, want, replies,
                     state, mqs_open, cancelled, spc>>
  BY DEF WorkerStep
<1>3. /\ requests[w] \in Seq(Call) /\ requests[w] \in Seq(Nat)
      /\ requests \in [Worker -> Seq(Call)]
      /\ outputs \in [Worker -> Seq(Reply)] /\ responses \in [Worker -> Seq(Reply)]
  BY Zenon, <1>1, Queued DEF ExecutorTypes
<1>4. /\ c \in Call /\ c \in Nat /\ c \in Elems(requests[w]) /\ Tail(requests[w]) \in Seq(Call)
      /\ Elems(Tail(requests[w])) = Elems(requests[w]) \ {c}
      /\ \A n \in Elems(requests[w]) : c <= n
      /\ Ascending(Tail(requests[w]))
  <2>1. Ascending(requests[w])
    BY <1>1 DEF PathInv
  <2>2. /\ Elems(Tail(requests[w])) = Elems(requests[w]) \ {c}
        /\ \A n \in Elems(requests[w]) : c <= n
    BY Zenon, <1>2, <1>3, <1>c, <2>1, LeastReceived DEF Ascending
  <2>3. Ascending(Tail(requests[w]))
    BY <1>2, <1>3, <2>1, AscendingReceived
  <2>4. c \in Call /\ c \in Nat /\ Tail(requests[w]) \in Seq(Call) /\ c \in Elems(requests[w])
    BY <1>2, <1>3, <1>c, HeadTail, Received, Calls
  <2> QED  BY <2>2, <2>3, <2>4
<1>5. /\ requests' \in [Worker -> Seq(Call)]
      /\ requests'[w] = Tail(requests[w])
      /\ \A v \in Worker \ {w} : requests'[v] = requests[v]
  BY <1>2, <1>3, <1>4
<1>6. \A n \in Elems(requests'[w]) : n \in Elems(requests[w]) /\ c < n
  <2> SUFFICES ASSUME NEW n \in Elems(requests[w]), n # c PROVE c < n
    BY <1>4, <1>5
  <2>1. n \in Nat /\ c <= n
    BY Zenon, <1>1, <1>4, Queued, Calls
  <2> QED  BY <1>4, <2>1
<1>7. FuturesInv'
  BY Zenon, <1>2 DEF ExecutorInv, FuturesInv, FutureCalls
<1>8. \A v \in Worker : Awaited(v)' = Awaited(v)
  BY <1>2 DEF Awaited, Calling, Answers
<1>9. ASSUME outputs' \in [Worker -> Seq(Reply)], responses' \in [Worker -> Seq(Reply)],
             \A v \in Worker \ {w} : outputs'[v] = outputs[v] /\ responses'[v] = responses[v],
             PathInv(w)', Carried(w)' = Carried(w)
      PROVE  ExecutorInv'
  <2>1. ExecutorTypes'
    BY Zenon, <1>1, <1>2, <1>5, <1>9 DEF ExecutorTypes
  <2>2. ASSUME NEW v \in Worker \ {w} PROVE PathInv(v)' /\ Carried(v)' = Carried(v)
    BY Zenon, <1>1, <1>2, <1>5, <1>9 DEF PathInv, Carried, Answers, use_async_scheduling, Failures
  <2>3. \A v \in Worker : PathInv(v)' /\ Carried(v)' = Carried(v)
    BY <1>9, <2>2
  <2> QED  BY Zenon, <1>2, <1>7, <1>8, <2>1, <2>3 DEF ExecutorInv, NoneLeft, Failures, OutputRanks
<1>10. CASE ~Answers(w, c)
  <2>1. UNCHANGED <<outputs, responses>>
    BY <1>10, <1>c DEF WorkerStep, Answers
  <2>2. PathInv(w)'
    BY Zenon, <1>1, <1>2, <1>4, <1>5, <1>6, <2>1 DEF PathInv, use_async_scheduling, Failures
  <2>3. Carried(w)' = Carried(w)
    BY Zenon, <1>2, <1>4, <1>5, <1>10, <2>1 DEF Carried, Answers
  <2> QED  BY <1>3, <1>9, <2>1, <2>2, <2>3
<1>11. CASE Answers(w, c)
  <2>1. PICK failed \in {FALSE, Failures} :
          LET reply == [call |-> c, failed |-> failed] IN
          IF use_async_scheduling
          THEN outputs' = [outputs EXCEPT ![w] = Append(@, reply)] /\ UNCHANGED responses
          ELSE responses' = [responses EXCEPT ![w] = Append(@, reply)] /\ UNCHANGED outputs
    BY <1>11, <1>c DEF WorkerStep, Answers
  <2>x. PICK x : x = [call |-> c, failed |-> failed]
    BY Zenon
  <2>2. x \in Reply /\ x.call = c /\ (x.failed => Failures)
    <3>1. Failures \in BOOLEAN
      BY Zenon, <1>1, ExecutorAssumption DEF ExecutorTypes, Failures
    <3>2. failed \in BOOLEAN /\ (failed => Failures)
      <4>1. failed = FALSE \/ failed = Failures
        BY Zenon, <2>1
      <4>2. CASE failed = FALSE
        BY Zenon, <4>2
      <4>3. CASE failed = Failures
        BY <3>1, <4>3
      <4> QED  BY Zenon, <4>1, <4>2, <4>3
    <3>3. x.call = c /\ x.failed = failed
      BY <2>x
    <3>4. x \in Reply
      BY <1>4, <2>x, <3>2 DEF Reply
    <3> QED  BY <3>2, <3>3, <3>4
  <2>3. outputs[w] \in Seq(Reply) /\ responses[w] \in Seq(Reply)
    BY <1>3
  <2>4. /\ \A y \in Elems(responses[w]) \union Elems(outputs[w]) : y.call < x.call
        /\ x.call <= calls /\ (epc = "enqueue" => x.call < calls)
    BY Zenon, <1>1, <1>4, <2>2 DEF PathInv
  <2>5. {n \in Elems(requests[w]) : Answers(w, n)} = {n \in Elems(requests'[w]) : Answers(w, n)} \union {c}
    BY <1>4, <1>5, <1>11
  <2>6. CASE use_async_scheduling
    <3>1. /\ outputs' \in [Worker -> Seq(Reply)] /\ UNCHANGED responses
          /\ outputs'[w] = Append(outputs[w], x)
          /\ \A v \in Worker \ {w} : outputs'[v] = outputs[v]
      <4>1. UNCHANGED responses /\ outputs' = [outputs EXCEPT ![w] = Append(outputs[w], x)]
        BY <2>1, <2>6, <2>x
      <4>2. Append(outputs[w], x) \in Seq(Reply)
        BY <2>2, <2>3
      <4> QED  BY <1>3, <4>1, <4>2
    <3>2. Elems(outputs'[w]) = Elems(outputs[w]) \union {x} /\ InOrder(outputs'[w])
      <4>1. InOrder(outputs[w])
        BY Zenon, <1>1 DEF PathInv
      <4> QED  BY <2>3, <2>4, <3>1, <4>1, Sent, RecordSent
    <3>3. PathInv(w)'
      <4>1. \A y \in Elems(responses[w]) : \A z \in Elems(outputs'[w]) : y.call < z.call
        BY Zenon, <1>1, <2>4, <3>2 DEF PathInv
      <4>2. \A y \in Elems(outputs'[w]) : \A n \in Elems(requests'[w]) : y.call < n
        BY Zenon, <1>1, <1>6, <2>2, <3>2 DEF PathInv
      <4>3. \A z \in Elems(responses[w]) \union Elems(outputs'[w]) :
              z.call <= calls /\ (epc = "enqueue" => z.call < calls) /\ (z.failed => Failures)
        BY <1>1, <2>2, <2>4, <3>2 DEF PathInv
      <4> QED
        BY Zenon, <1>1, <1>2, <1>4, <1>5, <1>6, <2>6, <3>1, <3>2, <4>1, <4>2, <4>3
        DEF PathInv, use_async_scheduling, Failures
    <3>4. Carried(w)' = Carried(w)
      <4>1. Carried(w)' = {y.call : y \in Elems(responses[w]) \union Elems(outputs'[w])}
                            \union {n \in Elems(requests'[w]) : Answers(w, n)}
        BY Zenon, <1>2, <3>1 DEF Carried, Answers
      <4>2. {y.call : y \in Elems(responses[w]) \union Elems(outputs'[w])}
              = {y.call : y \in Elems(responses[w]) \union Elems(outputs[w])} \union {c}
        BY Zenon, <2>2, <3>2
      <4> QED  BY Zenon, <2>5, <4>1, <4>2 DEF Carried
    <3> QED  BY <1>3, <1>9, <3>1, <3>3, <3>4
  <2>7. CASE ~use_async_scheduling
    <3>1. /\ responses' \in [Worker -> Seq(Reply)] /\ UNCHANGED outputs
          /\ responses'[w] = Append(responses[w], x)
          /\ \A v \in Worker \ {w} : responses'[v] = responses[v]
      <4>1. UNCHANGED outputs /\ responses' = [responses EXCEPT ![w] = Append(responses[w], x)]
        BY <2>1, <2>7, <2>x
      <4>2. Append(responses[w], x) \in Seq(Reply)
        BY <2>2, <2>3
      <4> QED  BY <1>3, <4>1, <4>2
    <3>2. Elems(responses'[w]) = Elems(responses[w]) \union {x} /\ InOrder(responses'[w])
      <4>1. InOrder(responses[w])
        BY <1>1 DEF PathInv
      <4> QED  BY <2>3, <2>4, <3>1, <4>1, Sent, RecordSent
    <3>3. outputs[w] = <<>> /\ Elems(outputs[w]) = {}
      BY <1>1, <2>7, NothingSent DEF PathInv
    <3>4. PathInv(w)'
      <4>1. \A y \in Elems(responses'[w]) : \A n \in Elems(requests'[w]) : y.call < n
        BY Zenon, <1>1, <1>6, <2>2, <3>2 DEF PathInv
      <4>2. \A z \in Elems(responses'[w]) :
              z.call <= calls /\ (epc = "enqueue" => z.call < calls) /\ (z.failed => Failures)
        BY Zenon, <1>1, <2>2, <2>4, <3>2 DEF PathInv
      <4> QED
        BY Zenon, <1>1, <1>2, <1>4, <1>5, <1>6, <3>1, <3>2, <3>3, <4>1, <4>2
        DEF PathInv, use_async_scheduling, Failures
    <3>5. Carried(w)' = Carried(w)
      <4>1. Carried(w)' = {y.call : y \in Elems(responses'[w]) \union Elems(outputs[w])}
                            \union {n \in Elems(requests'[w]) : Answers(w, n)}
        BY <1>2, <3>1 DEF Carried, Answers
      <4>2. {y.call : y \in Elems(responses'[w]) \union Elems(outputs[w])}
              = {y.call : y \in Elems(responses[w]) \union Elems(outputs[w])} \union {c}
        BY <2>2, <3>2
      <4> QED  BY Zenon, <2>5, <4>1, <4>2 DEF Carried
    <3> QED  BY <1>3, <1>9, <3>1, <3>4, <3>5
  <2> QED  BY <2>6, <2>7
<1> QED  BY <1>10, <1>11

(* The output thread passes a reply on.                                     *)
LEMMA PassOn == ASSUME ExecutorInv, NEW w \in Worker, AsyncOutput(w) PROVE ExecutorInv'
<1> USE DEF notice, closing, caller
<1>x. PICK x : x = Head(outputs[w])
  OBVIOUS
<1>1. ExecutorTypes /\ \A v \in Worker : PathInv(v)
  BY Zenon DEF ExecutorInv
<1>2. /\ outputs[w] # <<>>
      /\ responses' = [responses EXCEPT ![w] = Append(responses[w], x)]
      /\ outputs' = [outputs EXCEPT ![w] = Tail(outputs[w])]
      /\ UNCHANGED <<scenario, epc, calls, output_rank, non_block, futures_queue, want, replies,
                     state, mqs_open, cancelled, spc, requests>>
  BY <1>x DEF AsyncOutput
<1>3. /\ outputs[w] \in Seq(Reply) /\ responses[w] \in Seq(Reply)
      /\ outputs \in [Worker -> Seq(Reply)] /\ responses \in [Worker -> Seq(Reply)]
  BY Zenon, <1>1, Queued DEF ExecutorTypes
<1>4. x \in Reply /\ Tail(outputs[w]) \in Seq(Reply)
  BY <1>2, <1>3, <1>x, HeadTail
<1>5. Append(responses[w], x) \in Seq(Reply)
  BY <1>3, <1>4
<1>6. /\ outputs' \in [Worker -> Seq(Reply)] /\ responses' \in [Worker -> Seq(Reply)]
      /\ outputs'[w] = Tail(outputs[w]) /\ responses'[w] = Append(responses[w], x)
      /\ \A v \in Worker \ {w} : outputs'[v] = outputs[v] /\ responses'[v] = responses[v]
  BY <1>2, <1>3, <1>4, <1>5
<1>7. /\ x \in Elems(outputs[w])
      /\ Elems(outputs'[w]) = Elems(outputs[w]) \ {x} /\ InOrder(outputs'[w])
      /\ \A y \in Elems(outputs'[w]) : x.call < y.call
  <2>1. InOrder(outputs[w]) /\ \A y \in Reply : y.call \in Nat
    BY <1>1, ReplyNumbers DEF PathInv
  <2> QED  BY <1>2, <1>3, <1>6, <1>x, <2>1, RecordReceived
<1>8. Elems(responses'[w]) = Elems(responses[w]) \union {x} /\ InOrder(responses'[w])
  <2>1. InOrder(responses[w]) /\ \A y \in Elems(responses[w]) : y.call < x.call
    BY Zenon, <1>1, <1>7 DEF PathInv
  <2>2. InOrder(responses'[w])
    BY <1>3, <1>6, <2>1, RecordSent
  <2> QED  BY <1>3, <1>6, <2>2, Sent
<1>9. PathInv(w)'
  <2>1. use_async_scheduling
    BY <1>1, <1>2 DEF PathInv
  <2>2. \A y \in Elems(responses'[w]) : \A z \in Elems(outputs'[w]) : y.call < z.call
    BY <1>1, <1>7, <1>8 DEF PathInv
  <2>3. /\ \A y \in Elems(responses'[w]) : \A c \in Elems(requests[w]) : y.call < c
        /\ \A y \in Elems(outputs'[w]) : \A c \in Elems(requests[w]) : y.call < c
    BY <1>1, <1>7, <1>8 DEF PathInv
  <2>4. Elems(responses'[w]) \union Elems(outputs'[w]) = Elems(responses[w]) \union Elems(outputs[w])
    BY Zenon, <1>7, <1>8
  <2> QED  BY Zenon, <1>1, <1>2, <1>7, <1>8, <2>1, <2>2, <2>3, <2>4 DEF PathInv, use_async_scheduling, Failures
<1>10. Carried(w)' = Carried(w)
  <2>1. Elems(responses'[w]) \union Elems(outputs'[w]) = Elems(responses[w]) \union Elems(outputs[w])
    BY Zenon, <1>7, <1>8
  <2> QED  BY <1>2, <2>1 DEF Carried, Answers
<1>11. ASSUME NEW v \in Worker \ {w} PROVE PathInv(v)' /\ Carried(v)' = Carried(v)
  BY Zenon, <1>1, <1>2, <1>6 DEF PathInv, Carried, Answers, use_async_scheduling, Failures
<1>12. \A v \in Worker : PathInv(v)' /\ Carried(v)' = Carried(v)
  BY <1>9, <1>10, <1>11
<1>13. \A v \in Worker : Awaited(v)' = Awaited(v)
  BY Zenon, <1>2 DEF Awaited, Calling, Answers
<1>14. ExecutorTypes'
  BY Zenon, <1>1, <1>2, <1>6 DEF ExecutorTypes
<1>15. FuturesInv'
  BY Zenon, <1>2 DEF ExecutorInv, FuturesInv, FutureCalls
<1> QED  BY Zenon, <1>2, <1>12, <1>13, <1>14, <1>15 DEF ExecutorInv, NoneLeft, Failures, OutputRanks

-----------------------------------------------------------------------------
LEMMA ExecutorStep == ExecutorInv /\ [Next]_vars => ExecutorInv'
<1> SUFFICES ASSUME ExecutorInv, [Next]_vars PROVE ExecutorInv'
  OBVIOUS
<1>1. CASE EngineProgress
  BY <1>1, Register, Broadcast, Bind, Collect, Done, Closing DEF EngineProgress
<1>2. CASE EngineChoice
  BY <1>2, MakeCall, AskResult, Closing DEF EngineChoice
<1>3. CASE MonitorStep
  BY <1>3, Closing
<1>4. ASSUME NEW w \in Worker, WorkerProgress(w) \/ WorkerDies(w) PROVE ExecutorInv'
  BY <1>4, Work, PassOn, Dies DEF WorkerProgress
<1>5. CASE UNCHANGED vars
  <2>1. ExecutorTypes'
    BY Zenon, <1>5 DEF ExecutorInv, ExecutorTypes, vars, caller, closing, workers
  <2>2. /\ UNCHANGED <<scenario, caller, requests, outputs, responses, epc, cancelled, mqs_open, spc>>
    BY <1>5 DEF vars, workers, closing
  <2>3. /\ ~mqs_open' => cancelled'
        /\ spc'["engine"] \in {"shutdown", "terminate", "drop", "drop responses"} => epc' = "shutdown"
    BY Zenon, <2>2 DEF ExecutorInv
  <2> QED  BY Zenon, <2>1, <2>2, <2>3, Bystander
<1> QED  BY <1>1, <1>2, <1>3, <1>4, <1>5 DEF Next

(* collective_rpc never takes a reply to one call for the reply to another, *)
(* as long as no reply stays behind in a response queue: none of several    *)
(* workers asked raises, and the queues have not been shut down.            *)
THEOREM RepliesAlwaysMatch == Spec => []RepliesMatch
<1>1. ExecutorInv => RepliesMatch
  <2> SUFFICES ASSUME ExecutorInv, NoneLeft, NEW c \in Call PROVE Range(replies[c]) \subseteq {c}
    BY DEF RepliesMatch, NoneLeft, AnswersOwnCall
  <2>1. replies[c] \in Seq(Call) /\ Elems(replies[c]) \subseteq {c}
    BY Zenon DEF ExecutorInv, ExecutorTypes
  <2>2. DOMAIN replies[c] = 1 .. Len(replies[c])
    BY <2>1
  <2> QED  BY Zenon, <2>1, <2>2 DEF Range, Elems
<1> QED  BY <1>1, ExecutorInit, ExecutorStep, PTL DEF Spec
=============================================================================
