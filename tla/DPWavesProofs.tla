---------------------------- MODULE DPWavesProofs ----------------------------
(***************************************************************************)
(* The engines are always in the same wave and count the same steps, for   *)
(* any number of engines, clients and requests, any interval between two   *)
(* all-reduces, and with aborts and late or repeated notifications.        *)
(*                                                                         *)
(* The wave of an engine changes in three places: in the all-reduce, for   *)
(* all engines at once, and, for one engine alone, with a request or a     *)
(* START_DP_WAVE that carries a wave.  These two must never carry a later  *)
(* wave than the engine's.  Hence the invariant: whatever wave is known to *)
(* a client or the coordinator, or is on its way in a message, is at most  *)
(* that of the engines, and the wave of a wave_complete is less.           *)
(***************************************************************************)
EXTENDS DPWaves, SocketLemmas

(* Messages that carry waves up to w.                                       *)
InputUpTo(w) == [kind : {"ADD"}, req : Request, wave : 0..w] \union [kind : {"ABORT"}, req : Request]
StartUpTo(w) == [wave : 0..w, exclude : Engine \union {NoEngine}]
OutputUpTo(w) == [kind : {"start_wave"}, wave : 0..w] \union [kind : {"wave_complete"}, wave : 0..(w - 1)]
PublishedUpTo(w) == [wave : 0..w, running : BOOLEAN]
Notified == [engine : Engine, wave : Nat]

(* The inductive invariant; w is the wave of the engines.                   *)
KnownUpTo(w) ==
    /\ coord_wave \in 0..w
    /\ client_wave \in [Client -> 0..w]
    /\ input \in [Engine -> Seq(InputUpTo(w))]
    /\ start \in [Engine -> Seq(StartUpTo(w))]
    /\ output \in [Engine -> Seq(OutputUpTo(w))]
    /\ published \in [Client -> Seq(PublishedUpTo(w))]

WaveInv ==
    /\ current_wave \in [Engine -> Nat]
    /\ step_counter \in [Engine -> Nat]
    /\ EnginesInStep
    /\ coord_running \in BOOLEAN
    /\ first_reqs \in [Client -> Seq(Engine)]
    /\ notified \in [Client -> Seq(Notified)]
    /\ KnownUpTo(current_wave[0])

(* What is known up to a wave is known up to the next.                      *)
LEMMA KnownGrows ==
    ASSUME NEW w \in Nat
    PROVE  /\ 0..w \subseteq 0..(w + 1)
           /\ Seq(InputUpTo(w)) \subseteq Seq(InputUpTo(w + 1))
           /\ Seq(StartUpTo(w)) \subseteq Seq(StartUpTo(w + 1))
           /\ Seq(OutputUpTo(w)) \subseteq Seq(OutputUpTo(w + 1))
           /\ Seq(PublishedUpTo(w)) \subseteq Seq(PublishedUpTo(w + 1))
<1>1. /\ 0..w \subseteq 0..(w + 1)
      /\ 0..(w - 1) \subseteq 0..(w + 1 - 1)
  OBVIOUS
<1>2. /\ InputUpTo(w) \subseteq InputUpTo(w + 1)
      /\ StartUpTo(w) \subseteq StartUpTo(w + 1)
      /\ OutputUpTo(w) \subseteq OutputUpTo(w + 1)
      /\ PublishedUpTo(w) \subseteq PublishedUpTo(w + 1)
  BY <1>1 DEF InputUpTo, StartUpTo, OutputUpTo, PublishedUpTo
<1> QED  BY <1>1, <1>2, SeqGrows

(* There is an engine.                                                      *)
LEMMA RankZero == 0 \in Engine
BY ConstantsOK DEF Engine

(* At first nobody knows of any wave but the first.                         *)
LEMMA WaveInit == Init => WaveInv
BY RankZero DEF Init, WaveInv, EnginesInStep, KnownUpTo, InputUpTo, StartUpTo, OutputUpTo, PublishedUpTo, Notified

-----------------------------------------------------------------------------
(* The steps of clients and coordinator.                                    *)
LEMMA ClientStep ==
    ASSUME WaveInv, NEW c \in Client,
           \/ \E r \in Request, e \in Engine : AddRequest(c, r, e)
           \/ NotifyCoordinator(c)
           \/ ReadPublished(c)
    PROVE  WaveInv'
<1> DEFINE w == current_wave[0]
<1> USE RankZero
<1>0. /\ w \in Nat
      /\ client_wave[c] \in 0..w
  BY DEF WaveInv, KnownUpTo
<1>1. ASSUME NEW r \in Request, NEW e \in Engine, AddRequest(c, r, e)
      PROVE  WaveInv'
  <2>1. [kind |-> "ADD", req |-> r, wave |-> client_wave[c]] \in InputUpTo(w)
    BY <1>0 DEF InputUpTo
  <2>2. input' \in [Engine -> Seq(InputUpTo(w))]
    BY <1>1, <2>1 DEF AddRequest, WaveInv, KnownUpTo
  <2>3. first_reqs' \in [Client -> Seq(Engine)]
    BY <1>1 DEF AddRequest, WaveInv
  <2> QED
    BY <1>1, <2>2, <2>3 DEF AddRequest, WaveInv, KnownUpTo, EnginesInStep, engine, coordinator
<1>2. CASE NotifyCoordinator(c)
  <2>1. [engine |-> Head(first_reqs[c]), wave |-> client_wave[c]] \in Notified
    BY <1>0, <1>2 DEF NotifyCoordinator, WaveInv, Notified
  <2>2. /\ notified' \in [Client -> Seq(Notified)]
        /\ first_reqs' \in [Client -> Seq(Engine)]
    BY <1>2, <2>1 DEF NotifyCoordinator, WaveInv
  <2> QED
    BY <1>2, <2>2 DEF NotifyCoordinator, WaveInv, KnownUpTo, EnginesInStep, engine, coordinator
<1>3. CASE ReadPublished(c)
  <2>1. /\ published[c] \in Seq(PublishedUpTo(w))
        /\ published[c] # <<>>
    BY <1>3 DEF ReadPublished, WaveInv, KnownUpTo
  <2>2. /\ Head(published[c]) \in PublishedUpTo(w)
        /\ Tail(published[c]) \in Seq(PublishedUpTo(w))
    BY <2>1, HeadTail
  <2>3. Head(published[c]).wave \in 0..w
    BY <2>2 DEF PublishedUpTo
  <2>4. /\ client_wave' \in [Client -> 0..w]
        /\ published' \in [Client -> Seq(PublishedUpTo(w))]
    BY <1>3, <2>2, <2>3 DEF ReadPublished, WaveInv, KnownUpTo
  <2> QED
    BY <1>3, <2>4 DEF ReadPublished, WaveInv, KnownUpTo, EnginesInStep, engine, coordinator
<1> QED  BY <1>1, <1>2, <1>3

(* An abort carries no wave.                                                *)
LEMMA AbortStep ==
    ASSUME WaveInv, NEW r \in Request, AbortRequest(r)
    PROVE  WaveInv'
<1> DEFINE w == current_wave[0]
<1> USE RankZero
<1>1. [kind |-> "ABORT", req |-> r] \in InputUpTo(w)
  BY DEF InputUpTo
<1>2. input' \in [Engine -> Seq(InputUpTo(w))]
  <2>1. CASE sent[r] \in Engine
    BY <1>1, <2>1 DEF AbortRequest, WaveInv, KnownUpTo
  <2>2. CASE sent[r] \notin Engine
    <3>1. input' = input
      BY <2>2 DEF AbortRequest, WaveInv, KnownUpTo
    <3> QED  BY <3>1 DEF WaveInv, KnownUpTo
  <2> QED  BY <2>1, <2>2
<1> QED  BY <1>2 DEF AbortRequest, WaveInv, KnownUpTo, EnginesInStep, engine, coordinator

(* What the coordinator sends carries a wave that it may know.              *)
LEMMA Publishes ==
    ASSUME NEW w \in Nat, NEW v \in 0..w, NEW b \in BOOLEAN,
           published \in [Client -> Seq(PublishedUpTo(w))], publish(v, b)
    PROVE  published' \in [Client -> Seq(PublishedUpTo(w))]
<1>1. [wave |-> v, running |-> b] \in PublishedUpTo(w)
  BY DEF PublishedUpTo
<1> QED  BY <1>1 DEF publish

(* START_DP_WAVE carries a wave that is known.                              *)
LEMMA SendsStart ==
    ASSUME NEW w \in Nat, NEW v \in 0..w, NEW x \in Engine \union {NoEngine},
           start \in [Engine -> Seq(StartUpTo(w))], send_start_wave(v, x)
    PROVE  start' \in [Engine -> Seq(StartUpTo(w))]
<1>1. [wave |-> v, exclude |-> x] \in StartUpTo(w)
  BY DEF StartUpTo
<1> QED  BY <1>1 DEF send_start_wave

(* The coordinator reads a FIRST_REQ.                                       *)
LEMMA FromClientStep ==
    ASSUME WaveInv, NEW c \in Client, FromClient(c)
    PROVE  WaveInv'
<1> DEFINE w == current_wave[0]
           m == Head(notified[c])
<1> USE RankZero
<1>1. /\ w \in Nat /\ coord_wave \in 0..w
      /\ published \in [Client -> Seq(PublishedUpTo(w))]
      /\ start \in [Engine -> Seq(StartUpTo(w))]
  BY DEF WaveInv, KnownUpTo
<1>2. m \in Notified /\ Tail(notified[c]) \in Seq(Notified)
  BY DEF FromClient, WaveInv
<1>3. engine_to_exclude(m) \in Engine \union {NoEngine}
  BY <1>2 DEF engine_to_exclude, Notified
<1>4. /\ published' \in [Client -> Seq(PublishedUpTo(w))]
      /\ start' \in [Engine -> Seq(StartUpTo(w))]
  <2>1. CASE coord_running
    BY <1>1, <2>1 DEF FromClient
  <2>2. CASE ~coord_running
    <3>1. send_start_wave(coord_wave, engine_to_exclude(m)) /\ publish(coord_wave, TRUE)
      BY <2>2 DEF FromClient
    <3> QED  BY <1>1, <1>3, <3>1, Publishes, SendsStart
  <2> QED  BY <2>1, <2>2
<1>5. notified' \in [Client -> Seq(Notified)]
  BY <1>2 DEF FromClient, WaveInv
<1> QED  BY <1>4, <1>5 DEF FromClient, WaveInv, KnownUpTo, EnginesInStep, engine, client

(* The coordinator reads an engine's message.                               *)
LEMMA FromEngineStep ==
    ASSUME WaveInv, NEW e \in Engine, FromEngine(e)
    PROVE  WaveInv'
<1> DEFINE w == current_wave[0]
           m == Head(output[e])
<1> USE RankZero
<1>1. /\ w \in Nat /\ coord_wave \in 0..w
      /\ published \in [Client -> Seq(PublishedUpTo(w))]
      /\ start \in [Engine -> Seq(StartUpTo(w))]
      /\ coord_running \in BOOLEAN
  BY DEF WaveInv, KnownUpTo
<1>2. m \in OutputUpTo(w) /\ Tail(output[e]) \in Seq(OutputUpTo(w))
  BY DEF FromEngine, WaveInv, KnownUpTo
<1>3. output' \in [Engine -> Seq(OutputUpTo(w))]
  BY <1>2 DEF FromEngine, WaveInv, KnownUpTo
<1>4. /\ coord_wave' \in 0..w
      /\ coord_running' \in BOOLEAN
      /\ published' \in [Client -> Seq(PublishedUpTo(w))]
      /\ start' \in [Engine -> Seq(StartUpTo(w))]
  <2>1. CASE m.kind = "wave_complete" /\ is_current(m.wave)
    <3>1. m.wave + 1 \in 0..w
      BY <1>1, <1>2, <2>1 DEF OutputUpTo
    <3>2. coord_wave' = m.wave + 1 /\ coord_running' = FALSE /\ publish(m.wave + 1, FALSE) /\ start' = start
      BY <2>1 DEF FromEngine
    <3> QED  BY <1>1, <3>1, <3>2, Publishes
  <2>2. CASE m.kind = "start_wave" /\ needs_start(m.wave)
    <3>1. m.wave \in 0..w
      BY <1>1, <1>2, <2>2 DEF OutputUpTo
    <3>2. coord_wave' = m.wave /\ coord_running' = TRUE /\ publish(m.wave, TRUE) /\ send_start_wave(m.wave, e)
      BY <2>2 DEF FromEngine
    <3> QED  BY <1>1, <3>1, <3>2, Publishes, SendsStart
  <2>3. CASE ~(m.kind = "wave_complete" /\ is_current(m.wave)) /\ ~(m.kind = "start_wave" /\ needs_start(m.wave))
    BY <1>1, <2>3 DEF FromEngine, coordinator
  <2> QED  BY <2>1, <2>2, <2>3
<1> QED  BY <1>3, <1>4 DEF FromEngine, WaveInv, KnownUpTo, EnginesInStep, engine, client

(* The coordinator publishes its statistics.                                *)
LEMMA PublishStep == ASSUME WaveInv, PublishStats PROVE WaveInv'
<1> DEFINE w == current_wave[0]
<1> USE RankZero
<1>1. published' \in [Client -> Seq(PublishedUpTo(w))]
  <2>1. /\ w \in Nat /\ coord_wave \in 0..w /\ coord_running \in BOOLEAN
        /\ published \in [Client -> Seq(PublishedUpTo(w))] /\ publish(coord_wave, coord_running)
    BY DEF PublishStats, WaveInv, KnownUpTo
  <2> QED  BY <2>1, Publishes
<1> QED  BY <1>1 DEF PublishStats, WaveInv, KnownUpTo, EnginesInStep, engine, coordinator, client

-----------------------------------------------------------------------------
(* The steps of one engine.  A request does not move it to another wave,    *)
(* and neither does START_DP_WAVE.                                          *)
LEMMA AddKeepsWave == ASSUME WaveInv, NEW e \in Engine, HandleAdd(e) PROVE current_wave' = current_wave
<1> DEFINE w == current_wave[0]
           m == Head(input[e])
<1>1. w \in Nat /\ current_wave[e] = w
  BY RankZero DEF WaveInv, EnginesInStep
<1>2. m \in InputUpTo(w)
  BY DEF HandleAdd, WaveInv, KnownUpTo
<1>3. m.wave \in 0..w
  BY <1>2 DEF HandleAdd, InputUpTo
<1> QED  BY <1>1, <1>3 DEF HandleAdd, WaveInv

(* An engine reads a request.                                               *)
LEMMA AddStep == ASSUME WaveInv, NEW e \in Engine, HandleAdd(e) PROVE WaveInv'
<1> DEFINE w == current_wave[0]
<1>1. w \in Nat /\ current_wave[e] = w
  BY RankZero DEF WaveInv, EnginesInStep
<1>2. Tail(input[e]) \in Seq(InputUpTo(w))
  BY DEF HandleAdd, WaveInv, KnownUpTo
<1>3. input' \in [Engine -> Seq(InputUpTo(w))]
  BY <1>2 DEF HandleAdd, WaveInv, KnownUpTo
<1>4. output' \in [Engine -> Seq(OutputUpTo(w))]
  <2>1. [kind |-> "start_wave", wave |-> current_wave[e]] \in OutputUpTo(w)
    BY <1>1 DEF OutputUpTo
  <2> QED  BY <2>1 DEF HandleAdd, WaveInv, KnownUpTo
<1> QED  BY <1>3, <1>4, AddKeepsWave DEF HandleAdd, WaveInv, KnownUpTo, EnginesInStep, coordinator, client

(* START_DP_WAVE never moves an engine past the others.                     *)
LEMMA StartKeepsWave == ASSUME WaveInv, NEW e \in Engine, HandleStart(e) PROVE current_wave' = current_wave
<1> DEFINE w == current_wave[0]
           m == Head(start[e])
<1>1. w \in Nat /\ current_wave[e] = w
  BY RankZero DEF WaveInv, EnginesInStep
<1>2. m \in StartUpTo(w)
  BY DEF HandleStart, WaveInv, KnownUpTo
<1>3. CASE starts(e, m)
  <2>1. m.wave = w
    BY <1>1, <1>2, <1>3 DEF starts, StartUpTo
  <2> QED  BY <1>1, <1>3, <2>1 DEF HandleStart, WaveInv
<1>4. CASE ~starts(e, m)
  BY <1>4 DEF HandleStart
<1> QED  BY <1>3, <1>4

(* An engine reads START_DP_WAVE.                                           *)
LEMMA StartStep == ASSUME WaveInv, NEW e \in Engine, HandleStart(e) PROVE WaveInv'
<1> DEFINE w == current_wave[0]
<1>1. Tail(start[e]) \in Seq(StartUpTo(w))
  BY DEF HandleStart, WaveInv, KnownUpTo
<1>2. start' \in [Engine -> Seq(StartUpTo(w))]
  BY <1>1 DEF HandleStart, WaveInv, KnownUpTo
<1> QED  BY <1>2, StartKeepsWave DEF HandleStart, WaveInv, KnownUpTo, EnginesInStep, coordinator, client

(* The engine's other steps leave the waves alone.                          *)
LEMMA OtherEngineStep ==
    ASSUME WaveInv, NEW e \in Engine, HandleAbort(e) \/ AbortInStep(e) \/ EnterForward(e)
    PROVE  WaveInv'
<1> DEFINE w == current_wave[0]
<1> USE RankZero
<1>1. CASE HandleAbort(e)
  <2>1. Tail(input[e]) \in Seq(InputUpTo(w))
    BY <1>1 DEF HandleAbort, WaveInv, KnownUpTo
  <2>2. input' \in [Engine -> Seq(InputUpTo(w))]
    BY <1>1, <2>1 DEF HandleAbort, WaveInv, KnownUpTo
  <2> QED  BY <1>1, <2>2 DEF HandleAbort, WaveInv, KnownUpTo, EnginesInStep, coordinator, client
<1>2. CASE AbortInStep(e)
  BY <1>2 DEF AbortInStep, WaveInv, KnownUpTo, EnginesInStep, coordinator, client
<1>3. CASE EnterForward(e)
  BY <1>3 DEF EnterForward, WaveInv, KnownUpTo, EnginesInStep, coordinator, client
<1> QED  BY <1>1, <1>2, <1>3

-----------------------------------------------------------------------------
(* The steps of all engines together.                                       *)
LEMMA ForwardStep == ASSUME WaveInv, Forward PROVE WaveInv'
BY RankZero DEF Forward, WaveInv, KnownUpTo, EnginesInStep, coordinator, client

(* The all-reduce ends the wave on all engines at once.                     *)
LEMMA SyncStep == ASSUME WaveInv, ForwardAndSync PROVE WaveInv'
<1> DEFINE w == current_wave[0]
<1> USE RankZero
<1>1. w \in Nat /\ \A e \in Engine : current_wave[e] = w
  BY DEF WaveInv, EnginesInStep
<1>2. CASE has_unfinished_dp
  BY <1>2 DEF ForwardAndSync, WaveInv, KnownUpTo, EnginesInStep, coordinator, client
<1>3. CASE ~has_unfinished_dp
  <2>1. /\ current_wave' = [e \in Engine |-> current_wave[e] + 1]
        /\ step_counter' = [e \in Engine |-> 0]
        /\ output' = [output EXCEPT ![0] = Append(@, [kind |-> "wave_complete", wave |-> w])]
    BY <1>3 DEF ForwardAndSync, completed_wave
  <2>2. /\ current_wave' \in [Engine -> Nat] /\ step_counter' \in [Engine -> Nat]
        /\ EnginesInStep'
        /\ current_wave[0]' = w + 1
    BY <1>1, <2>1 DEF EnginesInStep
  <2>3. output' \in [Engine -> Seq(OutputUpTo(w + 1))]
    <3>1. [kind |-> "wave_complete", wave |-> w] \in OutputUpTo(w + 1)
      BY <1>1 DEF OutputUpTo
    <3>2. output \in [Engine -> Seq(OutputUpTo(w + 1))]
      BY <1>1, KnownGrows DEF WaveInv, KnownUpTo
    <3> QED  BY <2>1, <3>1, <3>2
  <2>4. /\ coord_wave \in 0..(w + 1)
        /\ client_wave \in [Client -> 0..(w + 1)]
        /\ input \in [Engine -> Seq(InputUpTo(w + 1))]
        /\ start \in [Engine -> Seq(StartUpTo(w + 1))]
        /\ published \in [Client -> Seq(PublishedUpTo(w + 1))]
    BY <1>1, KnownGrows DEF WaveInv, KnownUpTo
  <2> QED  BY <2>2, <2>3, <2>4 DEF ForwardAndSync, WaveInv, KnownUpTo, coordinator, client
<1> QED  BY <1>2, <1>3

-----------------------------------------------------------------------------
(* Every step keeps what is known of waves behind the engines.              *)
LEMMA WaveStep == WaveInv /\ [Next]_vars => WaveInv'
<1> SUFFICES ASSUME WaveInv, [Next]_vars PROVE WaveInv'
  OBVIOUS
<1>1. CASE Next
  BY <1>1, ClientStep, AbortStep, FromClientStep, FromEngineStep, PublishStep, AddStep, StartStep,
     OtherEngineStep, ForwardStep, SyncStep DEF Next
<1>2. CASE UNCHANGED vars
  BY <1>2 DEF vars, engine, coordinator, client, WaveInv, KnownUpTo, EnginesInStep
<1> QED  BY <1>1, <1>2

(* No engine is ever in another wave than the others or has counted other   *)
(* steps, whatever ADD and START_DP_WAVE carry and whenever they come: all  *)
(* of them come to every collective operation and to every all-reduce.      *)
THEOREM AlwaysInStep == Spec => []EnginesInStep
<1>1. WaveInv => EnginesInStep
  BY DEF WaveInv
<1> QED  BY <1>1, WaveInit, WaveStep, PTL DEF Spec
=============================================================================
