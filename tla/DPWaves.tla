------------------------------ MODULE DPWaves ------------------------------
(***************************************************************************)
(* The waves of data-parallel engines (DPEngineCoreProc in                 *)
(* v1/engine/core.py, DPCoordinatorProc in v1/engine/coordinator.py,       *)
(* DPAsyncMPClient in v1/engine/core_client.py).                           *)
(*                                                                         *)
(* A forward pass of a mixture-of-experts model is a collective operation  *)
(* of all engines.  An engine with a request steps; the others must run    *)
(* dummy batches beside it, and all of them may pause, together, when no   *)
(* engine has a request: that ends a wave.  A client that sends a request  *)
(* while the engines are paused tells the coordinator, which wakes every   *)
(* engine but the one that got the request.  All four parties learn of the *)
(* wave's number and state through messages that overtake one another.     *)
(***************************************************************************)
EXTENDS Integers, Sequences, FiniteSets

CONSTANTS
    dp_size,        \* engines 0 .. dp_size - 1
    Client,         \* front-end processes
    Request,
    steps,          \* forward passes each request needs
    sync_interval,  \* steps between two all-reduces (32 in the code)
    Scenarios       \* the clients there are, and what may happen

Engine == 0 .. dp_size - 1
NoEngine == -1

ASSUME ConstantsOK ==
    /\ dp_size \in Nat \ {0, 1}
    /\ steps \in [Request -> Nat \ {0}]
    /\ sync_interval \in Nat \ {0}
    /\ \A s \in Scenarios : s.clients \subseteq Client /\ s.may \subseteq {"abort", "lag", "publish"}

VARIABLES
    scenario,           \* chosen once
    \* an engine
    current_wave, engines_running, step_counter,
    scheduled,          \* its unfinished requests, with the passes they need
    pc,                 \* "input" (_process_input_queue) or "forward"
    \* the coordinator
    coord_wave, coord_running,
    \* a client
    client_wave, client_running,
    first_reqs,         \* its in-process socket to the statistics task
    sent,               \* requests it has sent, and the engine
    \* the sockets
    input,              \* client to engine
    start,              \* coordinator to engine
    output,             \* engine to coordinator
    notified,           \* client to coordinator
    published           \* coordinator to client

engine == <<current_wave, engines_running, step_counter, scheduled, pc>>
coordinator == <<coord_wave, coord_running>>
client == <<client_wave, client_running, first_reqs, sent>>
vars == <<scenario, engine, coordinator, client, input, start, output, notified, published>>

Init ==
    /\ scenario \in Scenarios
    /\ current_wave = [e \in Engine |-> 0]
    /\ engines_running = [e \in Engine |-> FALSE]
    /\ step_counter = [e \in Engine |-> 0]
    /\ scheduled = [e \in Engine |-> [r \in {} |-> 0]]
    /\ pc = [e \in Engine |-> "input"]
    /\ coord_wave = 0
    /\ coord_running = FALSE
    /\ client_wave = [c \in Client |-> 0]
    /\ client_running = [c \in Client |-> FALSE]
    /\ first_reqs = [c \in Client |-> <<>>]
    /\ sent = [r \in {} |-> NoEngine]
    /\ input = [e \in Engine |-> <<>>]
    /\ start = [e \in Engine |-> <<>>]
    /\ output = [e \in Engine |-> <<>>]
    /\ notified = [c \in Client |-> <<>>]
    /\ published = [c \in Client |-> <<>>]

without(f, S) == [x \in DOMAIN f \ S |-> f[x]]

(***************************************************************************)
(* A client.                                                               *)
(***************************************************************************)
AddRequest(c, r, e) ==
    /\ c \in scenario.clients
    /\ r \notin DOMAIN sent
    /\ sent' = [q \in DOMAIN sent \cup {r} |-> IF q = r THEN e ELSE sent[q]]
    /\ input' = [input EXCEPT ![e] = Append(@, [kind |-> "ADD", req |-> r, wave |-> client_wave[c]])]
    /\ first_reqs' = IF client_running[c] THEN first_reqs
                     ELSE [first_reqs EXCEPT ![c] = Append(@, e)]
    /\ UNCHANGED <<scenario, engine, coordinator, client_wave, client_running, start, output, notified, published>>

(* A request may be aborted as soon as it is sent.                          *)
AbortRequest(r) ==
    /\ "abort" \in scenario.may
    /\ r \in DOMAIN sent
    /\ sent[r] # NoEngine
    /\ sent' = [sent EXCEPT ![r] = NoEngine]
    /\ input' = [input EXCEPT ![sent[r]] = Append(@, [kind |-> "ABORT", req |-> r])]
    /\ UNCHANGED <<scenario, engine, coordinator, client_wave, client_running, first_reqs, start, output, notified, published>>

(* The statistics task, for a message FIRST_REQ and for a publication.  A   *)
(* waiting FIRST_REQ comes first while the engines are thought to be        *)
(* paused.  Without "lag" it always does: the task never leaves one in the  *)
(* socket while a publication comes in.                                     *)
NotifyCoordinator(c) ==
    /\ first_reqs[c] # <<>>
    /\ first_reqs' = [first_reqs EXCEPT ![c] = Tail(@)]
    /\ client_running' = [client_running EXCEPT ![c] = TRUE]
    /\ notified' = [notified EXCEPT ![c] = Append(@, [engine |-> Head(first_reqs[c]), wave |-> client_wave[c]])]
    /\ UNCHANGED <<scenario, engine, coordinator, client_wave, sent, input, start, output, published>>

ReadPublished(c) ==
    /\ published[c] # <<>>
    /\ first_reqs[c] = <<>> \/ (client_running[c] /\ "lag" \in scenario.may)
    /\ client_wave' = [client_wave EXCEPT ![c] = Head(published[c]).wave]
    /\ client_running' = [client_running EXCEPT ![c] = Head(published[c]).running]
    /\ published' = [published EXCEPT ![c] = Tail(@)]
    /\ UNCHANGED <<scenario, engine, coordinator, first_reqs, sent, input, start, output, notified>>

(***************************************************************************)
(* The coordinator.                                                        *)
(***************************************************************************)
publish(wave, running) ==
    published' = [c \in Client |-> IF c \in scenario.clients
                                 THEN Append(published[c], [wave |-> wave, running |-> running])
                                 ELSE <<>>]

send_start_wave(wave, exclude) ==
    start' = [e \in Engine |-> Append(start[e], [wave |-> wave, exclude |-> exclude])]

(* The wave of the message is older than the coordinator's: no engine may   *)
(* be left out.                                                             *)
engine_to_exclude(m) == IF m.wave < coord_wave THEN NoEngine ELSE m.engine

FromClient(c) ==
    /\ notified[c] # <<>>
    /\ notified' = [notified EXCEPT ![c] = Tail(@)]
    /\ coord_running' = TRUE
    /\ IF coord_running THEN UNCHANGED <<start, published>>
       ELSE send_start_wave(coord_wave, engine_to_exclude(Head(notified[c]))) /\ publish(coord_wave, TRUE)
    /\ UNCHANGED <<scenario, engine, coord_wave, client, input, output>>

(* Mutant: the notification of the present wave is taken for an old one.    *)
only_newer(wave) == coord_wave < wave

is_current(wave) == coord_wave <= wave

needs_start(wave) == wave > coord_wave \/ (wave = coord_wave /\ ~coord_running)

FromEngine(e) ==
    /\ output[e] # <<>>
    /\ output' = [output EXCEPT ![e] = Tail(@)]
    /\ LET m == Head(output[e])
       IN IF m.kind = "wave_complete" /\ is_current(m.wave)
          THEN /\ coord_wave' = m.wave + 1
               /\ coord_running' = FALSE
               /\ publish(m.wave + 1, FALSE)
               /\ UNCHANGED start
          ELSE IF m.kind = "start_wave" /\ needs_start(m.wave)
          THEN /\ coord_wave' = m.wave
               /\ coord_running' = TRUE
               /\ publish(m.wave, TRUE)
               /\ send_start_wave(m.wave, e)
          ELSE UNCHANGED <<coordinator, start, published>>
    /\ UNCHANGED <<scenario, engine, client, input, notified>>

(* The poll timed out.  Bound: the clients have read what was published.    *)
PublishStats ==
    /\ "publish" \in scenario.may
    /\ \A c \in Client : published[c] = <<>>
    /\ publish(coord_wave, coord_running)
    /\ UNCHANGED <<scenario, engine, coordinator, client, input, start, output, notified>>

(***************************************************************************)
(* An engine.  A message that is still on its way may come before or after *)
(* the engine's next step.                                                 *)
(***************************************************************************)
has_unfinished_requests(e) == DOMAIN scheduled[e] # {}

(* Mutant: a paused engine that gets a request of an older wave tells       *)
(* nobody.                                                                  *)
wakes_nobody(e, wave) == FALSE

(* add_request: a request of an older wave came to a paused engine.         *)
wakes_others(e, wave) == wave < current_wave[e] /\ ~engines_running[e]

HandleAdd(e) ==
    /\ pc[e] = "input"
    /\ input[e] # <<>>
    /\ LET m == Head(input[e])
       IN /\ m.kind = "ADD"
          /\ scheduled' = [scheduled EXCEPT ![e] = [r \in DOMAIN @ \cup {m.req} |-> IF r = m.req THEN steps[r] ELSE @[r]]]
          /\ current_wave' = [current_wave EXCEPT ![e] = IF m.wave > @ THEN m.wave ELSE @]
          /\ output' = IF wakes_others(e, m.wave)
                       THEN [output EXCEPT ![e] = Append(@, [kind |-> "start_wave", wave |-> current_wave[e]])]
                       ELSE output
    /\ input' = [input EXCEPT ![e] = Tail(@)]
    /\ UNCHANGED <<scenario, engines_running, step_counter, pc, coordinator, client, start, notified, published>>

HandleAbort(e) ==
    /\ pc[e] = "input"
    /\ input[e] # <<>>
    /\ Head(input[e]).kind = "ABORT"
    /\ scheduled' = [scheduled EXCEPT ![e] = without(@, {Head(input[e]).req})]
    /\ input' = [input EXCEPT ![e] = Tail(@)]
    /\ UNCHANGED <<scenario, current_wave, engines_running, step_counter, pc, coordinator, client, start, output, notified, published>>

(* During a step aborts are also taken from a queue of their own, where     *)
(* they overtake what is waiting in the input queue; there they come again. *)
AbortInStep(e) ==
    /\ pc[e] = "forward"
    /\ \E i \in DOMAIN input[e] :
         /\ input[e][i].kind = "ABORT"
         /\ input[e][i].req \in DOMAIN scheduled[e]
         /\ scheduled' = [scheduled EXCEPT ![e] = without(@, {input[e][i].req})]
    /\ UNCHANGED <<scenario, current_wave, engines_running, step_counter, pc, coordinator, client, input, start, output, notified, published>>

(* Mutant: the wave of the message is not compared with the engine's.       *)
starts_any(e, m) == m.exclude # e

starts(e, m) == m.exclude # e /\ m.wave >= current_wave[e]

HandleStart(e) ==
    /\ pc[e] = "input"
    /\ start[e] # <<>>
    /\ start' = [start EXCEPT ![e] = Tail(@)]
    /\ IF starts(e, Head(start[e]))
       THEN /\ current_wave' = [current_wave EXCEPT ![e] = Head(start[e]).wave]
            /\ engines_running' = [engines_running EXCEPT ![e] = TRUE]
       ELSE UNCHANGED <<current_wave, engines_running>>
    /\ UNCHANGED <<scenario, step_counter, scheduled, pc, coordinator, client, input, output, notified, published>>

(* The engine enters the forward pass, with its requests or with a dummy    *)
(* batch.                                                                   *)
EnterForward(e) ==
    /\ pc[e] = "input"
    /\ has_unfinished_requests(e) \/ engines_running[e]
    /\ pc' = [pc EXCEPT ![e] = "forward"]
    /\ UNCHANGED <<scenario, current_wave, engines_running, step_counter, scheduled, coordinator, client, input, start, output, notified, published>>

(* What a pass leaves of an engine's requests.                              *)
after_pass(s) ==
    LET left == {r \in DOMAIN s : s[r] > 1} IN [r \in left |-> s[r] - 1]

(* The all-reduce in which the engines find that none has requests is due.  *)
syncs(e) == (step_counter[e] + 1) % sync_interval = 0

has_unfinished_dp == \E e \in Engine : DOMAIN after_pass(scheduled[e]) # {}

(* The pass completes when every engine has come to it.                     *)
Forward ==
    /\ \A e \in Engine : pc[e] = "forward" /\ ~syncs(e)
    /\ scheduled' = [e \in Engine |-> after_pass(scheduled[e])]
    /\ step_counter' = [e \in Engine |-> step_counter[e] + 1]
    /\ engines_running' = [e \in Engine |-> TRUE]
    /\ pc' = [e \in Engine |-> "input"]
    /\ UNCHANGED <<scenario, current_wave, coordinator, client, input, start, output, notified, published>>

completed_wave == current_wave[0]

(* So does the all-reduce after it.  When no request is left anywhere the   *)
(* wave is over, and rank 0 tells the coordinator.                          *)
ForwardAndSync ==
    /\ \A e \in Engine : pc[e] = "forward" /\ syncs(e)
    /\ scheduled' = [e \in Engine |-> after_pass(scheduled[e])]
    /\ engines_running' = [e \in Engine |-> has_unfinished_dp]
    /\ pc' = [e \in Engine |-> "input"]
    /\ IF has_unfinished_dp
       THEN /\ step_counter' = [e \in Engine |-> step_counter[e] + 1]
            /\ UNCHANGED <<current_wave, output>>
       ELSE /\ output' = [output EXCEPT ![0] = Append(@, [kind |-> "wave_complete", wave |-> completed_wave])]
            /\ current_wave' = [e \in Engine |-> current_wave[e] + 1]
            /\ step_counter' = [e \in Engine |-> 0]
    /\ UNCHANGED <<scenario, coordinator, client, input, start, notified, published>>

Next ==
    \/ \E c \in Client :
         \/ \E r \in Request, e \in Engine : AddRequest(c, r, e)
         \/ NotifyCoordinator(c)
         \/ ReadPublished(c)
         \/ FromClient(c)
    \/ \E r \in Request : AbortRequest(r)
    \/ PublishStats
    \/ \E e \in Engine :
         \/ FromEngine(e)
         \/ HandleAdd(e)
         \/ HandleAbort(e)
         \/ AbortInStep(e)
         \/ HandleStart(e)
         \/ EnterForward(e)
    \/ Forward
    \/ ForwardAndSync

(* Every loop runs on while it has something to do.  Nobody has to send or  *)
(* to abort a request.  A message in a socket is not passed over forever    *)
(* for a step or for messages of other sockets, hence the strong fairness   *)
(* of what an engine does between two passes.                               *)
Fairness ==
    /\ \A c \in Client : WF_vars(NotifyCoordinator(c)) /\ WF_vars(ReadPublished(c)) /\ WF_vars(FromClient(c))
    /\ \A e \in Engine :
         /\ WF_vars(FromEngine(e))
         /\ SF_vars(HandleAdd(e) \/ HandleAbort(e))
         /\ SF_vars(HandleStart(e))
         /\ WF_vars(EnterForward(e))
    /\ WF_vars(Forward)
    /\ WF_vars(ForwardAndSync)

Spec == Init /\ [][Next]_vars /\ Fairness
-----------------------------------------------------------------------------
(* The wave's number only grows, and is the same for every engine: the      *)
(* messages START_DP_WAVE and ADD never move one engine ahead of another,   *)
(* though both may carry a wave (DPEngineCoreProc.add_request,              *)
(* _handle_client_request).  The engines also count the same steps, or they *)
(* would not come to the all-reduce of _has_global_unfinished_reqs together.*)
EnginesInStep ==
    \A e, f \in Engine : current_wave[e] = current_wave[f] /\ step_counter[e] = step_counter[f]

Paused ==
    /\ \A e \in Engine : pc[e] = "input" /\ ~engines_running[e] /\ ~has_unfinished_requests(e)
    /\ \A e \in Engine : input[e] = <<>> /\ start[e] = <<>> /\ output[e] = <<>>
    /\ \A c \in scenario.clients : first_reqs[c] = <<>> /\ notified[c] = <<>> /\ published[c] = <<>>

(* Once the engines have paused and every message is read, the coordinator  *)
(* and the clients know it, and the wave: a client that thought the engines *)
(* were running would wake nobody with its next request.  (A client may     *)
(* abort a request before any engine has stepped for it: see the README.)   *)
EveryoneKnowsThePause ==
    Paused /\ "abort" \notin scenario.may =>
        /\ ~coord_running
        /\ \A c \in scenario.clients : ~client_running[c]
        /\ \A e \in Engine, c \in scenario.clients : client_wave[c] = current_wave[e]

(* When no more requests are sent, every wave comes to an end and the       *)
(* engines pause for good.  In particular every forward pass that an engine *)
(* enters, for a request or with a dummy batch, completes: the others come  *)
(* to it.  This is the purpose of the whole protocol.  It needs requests    *)
(* that are not aborted, and a statistics task that forwards FIRST_REQ      *)
(* before it reads of the end of the wave (run_engine_stats_update_task).   *)
EveryWaveEnds ==
    scenario.may \subseteq {"publish"} =>
        <>[](\A e \in Engine : pc[e] = "input" /\ ~engines_running[e] /\ ~has_unfinished_requests(e))
=============================================================================
