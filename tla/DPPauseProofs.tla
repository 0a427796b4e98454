---------------------------- MODULE DPPauseProofs ----------------------------
(***************************************************************************)
(* When the engines have paused and every message is read, coordinator and *)
(* clients know it: for any number of engines, clients and requests, also  *)
(* with clients that are late to forward their FIRST_REQ, and with         *)
(* periodic publications; but without aborts.                              *)
(*                                                                         *)
(* Three facts are inductive, each about one leg of the way from engine to *)
(* client.  The coordinator is in the wave of the engines, or the          *)
(* wave_complete that brings it there is on its way.  If it is in their    *)
(* wave and takes them to be running, then some engine runs or has reason  *)
(* to.  A client believes what the coordinator does, or the publication    *)
(* that tells it is the last on its way.                                   *)
(***************************************************************************)
EXTENDS DPWavesProofs

(* START_DP_WAVE is on its way to e and will start it.                      *)
Starting(e) == \E m \in Elems(start[e]) : m.wave = current_wave[0] /\ m.exclude # e

(* Engine e takes part in the wave or will, once it has read its messages.  *)
Active(e) ==
    engines_running[e] \/ pc[e] = "forward" \/ has_unfinished_requests(e) \/ input[e] # <<>> \/ Starting(e)

EngineTypes ==
    /\ scenario \in Scenarios
    /\ engines_running \in [Engine -> BOOLEAN]
    /\ pc \in [Engine -> {"input", "forward"}]
    /\ DOMAIN scheduled = Engine
    /\ client_running \in [Client -> BOOLEAN]

NoAborts ==
    "abort" \notin scenario.may =>
      \A e \in Engine : \A m \in Elems(input[e]) : m.kind = "ADD"

CoordinatorFollows ==
    \/ coord_wave = current_wave[0]
    \/ [kind |-> "wave_complete", wave |-> current_wave[0] - 1] \in Elems(output[0])

RunningIsJustified ==
    "abort" \notin scenario.may /\ coord_wave = current_wave[0] /\ coord_running =>
      \E e \in Engine : Active(e)

ClientFollows(c) ==
    IF published[c] = <<>>
    THEN /\ client_wave[c] = coord_wave
         /\ client_running[c] => coord_running \/ notified[c] # <<>>
    ELSE Newest(published[c]) = [wave |-> coord_wave, running |-> coord_running]

ClientsFollow == \A c \in scenario.clients : ClientFollows(c)

PauseInv ==
    WaveInv /\ EngineTypes /\ NoAborts /\ CoordinatorFollows /\ RunningIsJustified /\ ClientsFollow

-----------------------------------------------------------------------------
(* At first nothing runs, and everyone knows.                               *)
LEMMA PauseInit == Init => PauseInv
<1> SUFFICES ASSUME Init PROVE PauseInv
  OBVIOUS
<1>1. EngineTypes /\ CoordinatorFollows /\ RunningIsJustified
  BY RankZero DEF Init, EngineTypes, CoordinatorFollows, RunningIsJustified
<1>2. NoAborts
  BY NothingSent DEF Init, NoAborts
<1>3. ClientsFollow
  BY ConstantsOK DEF Init, ClientsFollow, ClientFollows
<1> QED  BY <1>1, <1>2, <1>3, WaveInit DEF PauseInv

(* Every step keeps the shape of the state.                                 *)
LEMMA TypesStep == ASSUME PauseInv, Next PROVE EngineTypes' /\ scenario' = scenario
<1> USE DEF PauseInv, EngineTypes
<1>1. CASE \E c \in Client :
             \/ \E r \in Request, e \in Engine : AddRequest(c, r, e)
             \/ NotifyCoordinator(c)
             \/ FromClient(c)
  BY <1>1 DEF AddRequest, NotifyCoordinator, FromClient, engine, client
<1>2. CASE \E c \in Client : ReadPublished(c)
  <2>1. PICK c \in Client : ReadPublished(c)
    BY <1>2
  <2>2. Head(published[c]) \in PublishedUpTo(current_wave[0])
    BY <2>1, HeadTail DEF ReadPublished, WaveInv, KnownUpTo
  <2> QED  BY <2>1, <2>2 DEF ReadPublished, PublishedUpTo, engine
<1>3. CASE \/ PublishStats
           \/ \E r \in Request : AbortRequest(r)
           \/ \E e \in Engine : FromEngine(e)
  BY <1>3 DEF PublishStats, AbortRequest, FromEngine, engine, client
<1>4. CASE \E e \in Engine : HandleAdd(e) \/ HandleAbort(e) \/ AbortInStep(e)
  BY <1>4 DEF HandleAdd, HandleAbort, AbortInStep, client
<1>5. CASE \E e \in Engine : HandleStart(e) \/ EnterForward(e)
  <2>1. PICK e \in Engine : HandleStart(e) \/ EnterForward(e)
    BY <1>5
  <2>2. CASE HandleStart(e)
    <3>1. /\ engines_running' = engines_running \/ engines_running' = [engines_running EXCEPT ![e] = TRUE]
          /\ UNCHANGED <<scenario, scheduled, pc, client_running>>
      BY <2>2 DEF HandleStart, client
    <3> QED  BY <3>1
  <2>3. CASE EnterForward(e)
    BY <2>3 DEF EnterForward, client
  <2> QED  BY <2>1, <2>2, <2>3
<1>6. CASE Forward
  BY <1>6 DEF Forward, client
<1>7. CASE ForwardAndSync
  BY <1>7 DEF ForwardAndSync, has_unfinished_dp, client
<1> QED  BY <1>1, <1>2, <1>3, <1>4, <1>5, <1>6, <1>7 DEF Next

(* Without aborts nobody sends an abort.                                    *)
LEMMA NoAbortsStep == ASSUME PauseInv, Next PROVE NoAborts'
<1> SUFFICES ASSUME "abort" \notin scenario.may, NEW e \in Engine, NEW m \in Elems(input'[e])
             PROVE  m.kind = "ADD"
  BY TypesStep DEF NoAborts
<1>1. /\ input \in [Engine -> Seq(InputUpTo(current_wave[0]))]
      /\ \A x \in Elems(input[e]) : x.kind = "ADD"
  BY DEF PauseInv, WaveInv, KnownUpTo, NoAborts
<1>2. CASE \E c \in Client, r \in Request, f \in Engine : AddRequest(c, r, f)
  <2>1. PICK c \in Client, r \in Request, f \in Engine : AddRequest(c, r, f)
    BY <1>2
  <2>2. CASE f = e
    <3>1. input'[e] = Append(input[e], [kind |-> "ADD", req |-> r, wave |-> client_wave[c]])
      BY <1>1, <2>1, <2>2 DEF AddRequest
    <3> QED  BY <1>1, <3>1, Sent
  <2>3. CASE f # e
    BY <1>1, <2>1, <2>3 DEF AddRequest
  <2> QED  BY <2>2, <2>3
<1>3. CASE \E f \in Engine : HandleAdd(f) \/ HandleAbort(f)
  <2>1. PICK f \in Engine : input[f] # <<>> /\ input' = [input EXCEPT ![f] = Tail(@)]
    BY <1>3 DEF HandleAdd, HandleAbort
  <2>2. CASE f = e
    BY <1>1, <2>1, <2>2, Received
  <2>3. CASE f # e
    BY <1>1, <2>1, <2>3
  <2> QED  BY <2>2, <2>3
<1>4. CASE input' = input
  BY <1>1, <1>4
<1>5. \A r \in Request : ~AbortRequest(r)
  BY DEF AbortRequest
<1> QED
  BY <1>2, <1>3, <1>4, <1>5 DEF Next, NotifyCoordinator, ReadPublished, FromClient, PublishStats, FromEngine,
     AbortInStep, HandleStart, EnterForward, Forward, ForwardAndSync

(* Only the all-reduce that ends a wave moves the engines to another.       *)
LEMMA WaveKept ==
    ASSUME PauseInv, Next
    PROVE  current_wave' = current_wave \/ (ForwardAndSync /\ ~has_unfinished_dp)
BY AddKeepsWave, StartKeepsWave DEF PauseInv, Next, AddRequest, NotifyCoordinator, ReadPublished, FromClient,
   AbortRequest, PublishStats, FromEngine, HandleAbort, AbortInStep, EnterForward, Forward, ForwardAndSync, engine

(* wave_complete brings the coordinator into the engines' wave.             *)
LEMMA CoordinatorStep == ASSUME PauseInv, Next PROVE CoordinatorFollows'
<1> DEFINE w == current_wave[0]
           done == [kind |-> "wave_complete", wave |-> w - 1]
<1> USE RankZero
<1>1. /\ w \in Nat /\ coord_wave \in 0..w
      /\ output \in [Engine -> Seq(OutputUpTo(w))]
      /\ coord_wave = w \/ done \in Elems(output[0])
  BY DEF PauseInv, WaveInv, KnownUpTo, CoordinatorFollows
<1>2. CASE ForwardAndSync /\ ~has_unfinished_dp
  <2>1. /\ current_wave'[0] = w + 1
        /\ output'[0] = Append(output[0], [kind |-> "wave_complete", wave |-> w])
    BY <1>1, <1>2 DEF ForwardAndSync, completed_wave
  <2>2. [kind |-> "wave_complete", wave |-> w] \in Elems(output'[0])
    BY <1>1, <2>1, Sent
  <2>3. current_wave'[0] - 1 = w
    BY <1>1, <2>1
  <2> QED  BY <2>2, <2>3 DEF CoordinatorFollows
<1>3. CASE current_wave' = current_wave
  <2>1. CASE \E e \in Engine : FromEngine(e)
    <3>1. PICK e \in Engine : FromEngine(e)
      BY <2>1
    <3>2. coord_wave' = coord_wave \/ coord_wave' > coord_wave
      <4>1. Head(output[e]) \in OutputUpTo(w)
        BY <1>1, <3>1, HeadTail DEF FromEngine
      <4>2. Head(output[e]).wave \in Int
        BY <1>1, <4>1 DEF OutputUpTo
      <4>3. \/ is_current(Head(output[e]).wave) /\ coord_wave' = Head(output[e]).wave + 1
            \/ needs_start(Head(output[e]).wave) /\ coord_wave' = Head(output[e]).wave
            \/ coord_wave' = coord_wave
        BY <3>1 DEF FromEngine, coordinator
      <4> QED  BY <1>1, <4>2, <4>3 DEF is_current, needs_start
    <3>3. coord_wave' \in 0..w
      BY <1>3, <3>1, FromEngineStep DEF PauseInv, WaveInv, KnownUpTo
    <3>4. CASE coord_wave = w
      BY <1>1, <1>3, <3>2, <3>3, <3>4 DEF CoordinatorFollows
    <3>5. CASE coord_wave # w /\ e # 0
      <4>1. output'[0] = output[0]
        BY <1>1, <3>1, <3>5 DEF FromEngine
      <4> QED  BY <1>1, <1>3, <3>5, <4>1 DEF CoordinatorFollows
    <3>6. CASE coord_wave # w /\ e = 0
      <4>1. /\ output[0] # <<>>
            /\ output'[0] = Tail(output[0])
            /\ Elems(output[0]) = Elems(output'[0]) \union {Head(output[0])}
        BY <1>1, <3>1, <3>6, Received DEF FromEngine
      <4>2. CASE Head(output[0]) = done
        <5>1. is_current(Head(output[0]).wave) /\ Head(output[0]).kind = "wave_complete"
          BY <1>1, <3>6, <4>2 DEF is_current
        <5>2. coord_wave' = Head(output[0]).wave + 1
          BY <3>1, <3>6, <5>1 DEF FromEngine
        <5>3. coord_wave' = w
          BY <1>1, <4>2, <5>2
        <5> QED  BY <1>3, <5>3 DEF CoordinatorFollows
      <4>3. CASE Head(output[0]) # done
        BY <1>1, <1>3, <3>6, <4>1, <4>3 DEF CoordinatorFollows
      <4> QED  BY <4>2, <4>3
    <3> QED  BY <3>4, <3>5, <3>6
  <2>2. CASE \E e \in Engine : HandleAdd(e)
    <3>1. PICK e \in Engine : HandleAdd(e)
      BY <2>2
    <3>2. output'[0] = output[0] \/ \E x : output'[0] = Append(output[0], x)
      BY <1>1, <3>1 DEF HandleAdd
    <3>3. Elems(output[0]) \subseteq Elems(output'[0])
      BY <1>1, <3>2, Sent
    <3> QED  BY <1>1, <1>3, <3>1, <3>3 DEF HandleAdd, CoordinatorFollows, coordinator
  <2>3. CASE coord_wave' = coord_wave /\ output' = output
    BY <1>1, <1>3, <2>3 DEF CoordinatorFollows
  <2>4. CASE \/ \E c \in Client :
                 \/ \E r \in Request, e \in Engine : AddRequest(c, r, e)
                 \/ NotifyCoordinator(c) \/ ReadPublished(c) \/ FromClient(c)
             \/ \E r \in Request : AbortRequest(r)
             \/ PublishStats
    BY <2>3, <2>4 DEF AddRequest, NotifyCoordinator, ReadPublished, FromClient, AbortRequest, PublishStats, coordinator
  <2>5. CASE \E e \in Engine : HandleAbort(e) \/ AbortInStep(e) \/ HandleStart(e) \/ EnterForward(e)
    BY <2>3, <2>5 DEF HandleAbort, AbortInStep, HandleStart, EnterForward, coordinator
  <2>6. CASE Forward \/ (ForwardAndSync /\ has_unfinished_dp)
    BY <2>3, <2>6 DEF Forward, ForwardAndSync, coordinator
  <2> QED  BY <1>2, <2>1, <2>2, <2>4, <2>5, <2>6 DEF Next
<1> QED  BY <1>2, <1>3, WaveKept

-----------------------------------------------------------------------------
(* When the coordinator sends START_DP_WAVE in the engines' wave, there is  *)
(* an engine besides the one that is left out.                              *)
LEMMA StartActivates ==
    ASSUME PauseInv, NEW x, send_start_wave(current_wave[0], x), current_wave' = current_wave
    PROVE  \E e \in Engine : Active(e)'
<1>1. PICK f \in Engine : f # x
  <2>1. 0 \in Engine /\ 1 \in Engine
    BY ConstantsOK DEF Engine
  <2> QED  BY <2>1
<1>2. start'[f] = Append(start[f], [wave |-> current_wave[0], exclude |-> x])
  BY DEF send_start_wave
<1>3. [wave |-> current_wave[0], exclude |-> x] \in Elems(start'[f])
  BY <1>2, Sent DEF PauseInv, WaveInv, KnownUpTo
<1>4. Starting(f)'
  BY <1>1, <1>3 DEF Starting
<1> QED  BY <1>4 DEF Active

(* The coordinator says that the engines run only with good reason.         *)
LEMMA RunningStep == ASSUME PauseInv, Next PROVE RunningIsJustified'
<1> DEFINE w == current_wave[0]
<1> USE RankZero
<1>0. scenario' = scenario
  BY TypesStep
<1> SUFFICES ASSUME "abort" \notin scenario.may, coord_wave' = current_wave'[0], coord_running'
             PROVE  \E e \in Engine : Active(e)'
  BY <1>0 DEF RunningIsJustified
<1>1. /\ w \in Nat /\ coord_wave \in 0..w /\ coord_running \in BOOLEAN
      /\ \A e \in Engine : current_wave[e] = w
      /\ \A e \in Engine : \A m \in Elems(input[e]) : m.kind = "ADD"
      /\ input \in [Engine -> Seq(InputUpTo(w))]
      /\ start \in [Engine -> Seq(StartUpTo(w))]
      /\ EngineTypes
  BY DEF PauseInv, WaveInv, EnginesInStep, KnownUpTo, NoAborts
<1>2. coord_wave = w /\ coord_running => \E e \in Engine : Active(e)
  BY DEF PauseInv, RunningIsJustified
<1>3. CASE \E c \in Client, r \in Request, f \in Engine : AddRequest(c, r, f)
  <2>1. PICK c \in Client, r \in Request, f \in Engine : AddRequest(c, r, f)
    BY <1>3
  <2>2. input'[f] # <<>>
    <3>1. input'[f] = Append(input[f], [kind |-> "ADD", req |-> r, wave |-> client_wave[c]])
      BY <1>1, <2>1 DEF AddRequest
    <3> QED  BY <1>1, <3>1, Sent
  <2> QED  BY <2>2 DEF Active
<1>4. CASE UNCHANGED <<engine, coordinator, input, start>>
  BY <1>2, <1>4 DEF engine, coordinator, Active, Starting, has_unfinished_requests
<1>5. CASE PublishStats \/ \E c \in Client : NotifyCoordinator(c) \/ ReadPublished(c)
  BY <1>4, <1>5 DEF NotifyCoordinator, ReadPublished, PublishStats
<1>6. CASE \E c \in Client : FromClient(c)
  <2>1. PICK c \in Client : FromClient(c)
    BY <1>6
  <2>2. coord_wave = w /\ current_wave' = current_wave
    BY <2>1 DEF FromClient, engine
  <2>3. CASE coord_running
    BY <1>2, <2>1, <2>2, <2>3 DEF FromClient, engine, Active, Starting, has_unfinished_requests
  <2>4. CASE ~coord_running
    <3>1. send_start_wave(w, engine_to_exclude(Head(notified[c])))
      BY <2>1, <2>2, <2>4 DEF FromClient
    <3> QED  BY <2>2, <3>1, StartActivates
  <2> QED  BY <2>3, <2>4
<1>7. CASE \E e \in Engine : FromEngine(e)
  <2>1. PICK e \in Engine : FromEngine(e)
    BY <1>7
  <2>2. current_wave' = current_wave
    BY <2>1 DEF FromEngine, engine
  <2>3. \/ send_start_wave(w, e)
        \/ UNCHANGED <<coordinator, start, published>>
    BY <2>1, <2>2 DEF FromEngine
  <2>4. CASE UNCHANGED <<coordinator, start, published>>
    BY <1>2, <2>1, <2>4 DEF FromEngine, engine, coordinator, Active, Starting, has_unfinished_requests
  <2> QED  BY <2>2, <2>3, <2>4, StartActivates
<1>8. CASE \E e \in Engine : HandleAdd(e)
  <2>1. PICK e \in Engine : HandleAdd(e)
    BY <1>8
  <2>2. DOMAIN scheduled'[e] # {}
    BY <1>1, <2>1 DEF HandleAdd, EngineTypes
  <2> QED  BY <2>2 DEF Active, has_unfinished_requests
<1>9. ~(\E r \in Request : AbortRequest(r))
  BY DEF AbortRequest
<1>10. ~(\E e \in Engine : HandleAbort(e))
  <2> SUFFICES ASSUME NEW e \in Engine, HandleAbort(e) PROVE FALSE
    OBVIOUS
  <2>1. input[e] # <<>> /\ Head(input[e]).kind = "ABORT"
    BY DEF HandleAbort
  <2>2. Head(input[e]) \in Elems(input[e])
    BY <1>1, <2>1, Received
  <2> QED  BY <1>1, <2>1, <2>2
<1>11. ~(\E e \in Engine : AbortInStep(e))
  <2> SUFFICES ASSUME NEW e \in Engine, AbortInStep(e) PROVE FALSE
    OBVIOUS
  <2>1. PICK i \in 1..Len(input[e]) : input[e][i].kind = "ABORT"
    BY <1>1 DEF AbortInStep
  <2> QED  BY <1>1, <2>1 DEF Elems
<1>12. CASE \E e \in Engine : HandleStart(e)
  <2>1. PICK e \in Engine : HandleStart(e)
    BY <1>12
  <2>2. current_wave' = current_wave
    BY <2>1, StartKeepsWave DEF PauseInv
  <2>3. PICK f \in Engine : Active(f)
    BY <1>2, <2>1, <2>2 DEF HandleStart, coordinator
  <2>4. CASE starts(e, Head(start[e]))
    BY <1>1, <2>1, <2>4 DEF HandleStart, EngineTypes, Active
  <2>5. CASE ~starts(e, Head(start[e]))
    <3>1. UNCHANGED <<engines_running, pc, scheduled, input>>
      BY <2>1, <2>5 DEF HandleStart
    <3>2. Starting(f) => Starting(f)'
      <4>1. CASE f # e
        BY <1>1, <2>1, <2>2, <4>1 DEF HandleStart, Starting
      <4>2. CASE f = e
        <5>1. /\ start'[e] = Tail(start[e])
              /\ Elems(start[e]) = Elems(start'[e]) \union {Head(start[e])}
          BY <1>1, <2>1, Received DEF HandleStart
        <5>2. ~(Head(start[e]).wave = w /\ Head(start[e]).exclude # e)
          BY <1>1, <2>5 DEF starts
        <5> QED  BY <2>2, <4>2, <5>1, <5>2 DEF Starting
      <4> QED  BY <4>1, <4>2
    <3> QED  BY <2>3, <3>1, <3>2 DEF Active, has_unfinished_requests
  <2> QED  BY <2>4, <2>5
<1>13. CASE \E e \in Engine : EnterForward(e)
  BY <1>1, <1>13 DEF EnterForward, EngineTypes, Active
<1>14. CASE Forward
  BY <1>14 DEF Forward, Active
<1>15. CASE ForwardAndSync
  <2>1. has_unfinished_dp
    <3> SUFFICES ASSUME ~has_unfinished_dp PROVE FALSE
      OBVIOUS
    <3>1. current_wave'[0] = w + 1 /\ coord_wave' = coord_wave
      BY <1>15 DEF ForwardAndSync, coordinator
    <3> QED  BY <1>1, <3>1
  <2>2. engines_running'[0]
    BY <1>15, <2>1 DEF ForwardAndSync
  <2> QED  BY <2>2 DEF Active
<1> QED
  BY <1>3, <1>5, <1>6, <1>7, <1>8, <1>9, <1>10, <1>11, <1>12, <1>13, <1>14, <1>15 DEF Next

-----------------------------------------------------------------------------
(* A publication is the newest message to every client.                     *)
LEMMA PublicationFollowed ==
    ASSUME PauseInv, scenario' = scenario, publish(coord_wave', coord_running')
    PROVE  ClientsFollow'
<1> SUFFICES ASSUME NEW c \in scenario.clients PROVE ClientFollows(c)'
  BY DEF ClientsFollow
<1>1. c \in Client
  BY ConstantsOK DEF PauseInv, EngineTypes
<1>2. published'[c] = Append(published[c], [wave |-> coord_wave', running |-> coord_running'])
  BY <1>1 DEF publish
<1>3. published[c] \in Seq(PublishedUpTo(current_wave[0]))
  BY <1>1 DEF PauseInv, WaveInv, KnownUpTo
<1>4. /\ published'[c] # <<>>
      /\ Newest(published'[c]) = [wave |-> coord_wave', running |-> coord_running']
  BY <1>2, <1>3, Sent
<1> QED  BY <1>4 DEF ClientFollows

(* A client believes what it was told last.                                 *)
LEMMA ClientsStep == ASSUME PauseInv, Next PROVE ClientsFollow'
<1>1. scenario' = scenario
  BY TypesStep
<1>2. /\ published \in [Client -> Seq(PublishedUpTo(current_wave[0]))]
      /\ notified \in [Client -> Seq(Notified)]
      /\ client_wave \in [Client -> 0..current_wave[0]]
      /\ client_running \in [Client -> BOOLEAN]
      /\ \A c \in scenario.clients : c \in Client /\ ClientFollows(c)
  BY ConstantsOK DEF PauseInv, WaveInv, KnownUpTo, EngineTypes, ClientsFollow
<1>3. CASE \E d \in Client : NotifyCoordinator(d)
  <2> SUFFICES ASSUME NEW c \in scenario.clients PROVE ClientFollows(c)'
    BY <1>1 DEF ClientsFollow
  <2>1. PICK d \in Client : NotifyCoordinator(d)
    BY <1>3
  <2>2. CASE c = d
    <3>1. notified'[c] # <<>>
      <4>1. PICK x : notified'[c] = Append(notified[c], x)
        BY <1>2, <2>1, <2>2 DEF NotifyCoordinator
      <4>2. notified[c] \in Seq(Notified)
        BY <1>2
      <4> QED  BY <4>1, <4>2, Sent
    <3> QED  BY <1>2, <2>1, <3>1 DEF NotifyCoordinator, ClientFollows, coordinator
  <2>3. CASE c # d
    BY <1>2, <2>1, <2>3 DEF NotifyCoordinator, ClientFollows, coordinator
  <2> QED  BY <2>2, <2>3
<1>4. CASE \E d \in Client : ReadPublished(d)
  <2> SUFFICES ASSUME NEW c \in scenario.clients PROVE ClientFollows(c)'
    BY <1>1 DEF ClientsFollow
  <2>1. PICK d \in Client : ReadPublished(d)
    BY <1>4
  <2>2. CASE c = d
    <3>1. /\ published[c] # <<>>
          /\ published'[c] = Tail(published[c])
          /\ client_wave'[c] = Head(published[c]).wave
          /\ client_running'[c] = Head(published[c]).running
      BY <1>2, <2>1, <2>2 DEF ReadPublished
    <3>2. /\ Newest(published[c]) = [wave |-> coord_wave', running |-> coord_running']
          /\ IF published'[c] = <<>> THEN Head(published[c]) = Newest(published[c])
             ELSE Newest(published'[c]) = Newest(published[c])
      BY <1>2, <2>1, <3>1, Received DEF ReadPublished, ClientFollows, coordinator
    <3> QED  BY <3>1, <3>2 DEF ClientFollows
  <2>3. CASE c # d
    BY <1>2, <2>1, <2>3 DEF ReadPublished, ClientFollows, coordinator
  <2> QED  BY <2>2, <2>3
<1>5. CASE \E d \in Client : FromClient(d)
  <2>1. PICK d \in Client : FromClient(d)
    BY <1>5
  <2>2. CASE coord_running
    BY <1>1, <1>2, <2>1, <2>2 DEF FromClient, ClientsFollow, ClientFollows, client
  <2>3. CASE ~coord_running
    <3>1. publish(coord_wave', coord_running')
      BY <2>1, <2>3 DEF FromClient
    <3> QED  BY <1>1, <3>1, PublicationFollowed
  <2> QED  BY <2>2, <2>3
<1>6. CASE \E e \in Engine : FromEngine(e)
  <2>1. PICK e \in Engine : FromEngine(e)
    BY <1>6
  <2>2. publish(coord_wave', coord_running') \/ UNCHANGED <<coordinator, published>>
    BY <2>1 DEF FromEngine
  <2>3. CASE UNCHANGED <<coordinator, published>>
    BY <1>1, <1>2, <2>1, <2>3 DEF FromEngine, ClientsFollow, ClientFollows, client, coordinator
  <2> QED  BY <1>1, <2>2, <2>3, PublicationFollowed
<1>7. CASE PublishStats
  BY <1>1, <1>7, PublicationFollowed DEF PublishStats, coordinator
<1>8. CASE UNCHANGED <<coordinator, published, client_wave, client_running, notified>>
  BY <1>1, <1>2, <1>8 DEF ClientsFollow, ClientFollows, coordinator
<1>9. CASE \/ \E c \in Client, r \in Request, e \in Engine : AddRequest(c, r, e)
           \/ \E r \in Request : AbortRequest(r)
  BY <1>8, <1>9 DEF AddRequest, AbortRequest
<1>10. CASE \E e \in Engine :
              HandleAdd(e) \/ HandleAbort(e) \/ AbortInStep(e) \/ HandleStart(e) \/ EnterForward(e)
  BY <1>8, <1>10 DEF HandleAdd, HandleAbort, AbortInStep, HandleStart, EnterForward, client
<1>11. CASE Forward \/ ForwardAndSync
  BY <1>8, <1>11 DEF Forward, ForwardAndSync, client
<1> QED  BY <1>3, <1>4, <1>5, <1>6, <1>7, <1>9, <1>10, <1>11 DEF Next

-----------------------------------------------------------------------------
(* Every step keeps coordinator and clients behind the engines.             *)
LEMMA PauseStep == PauseInv /\ [Next]_vars => PauseInv'
<1> SUFFICES ASSUME PauseInv, [Next]_vars PROVE PauseInv'
  OBVIOUS
<1>1. CASE Next
  BY <1>1, WaveStep, TypesStep, NoAbortsStep, CoordinatorStep, RunningStep, ClientsStep DEF PauseInv
<1>2. CASE UNCHANGED vars
  <2>1. WaveInv'
    BY <1>2, WaveStep DEF PauseInv
  <2>2. EngineTypes' /\ NoAborts' /\ CoordinatorFollows' /\ ClientsFollow'
    BY <1>2 DEF PauseInv, vars, engine, coordinator, client, EngineTypes, NoAborts, CoordinatorFollows,
       ClientsFollow, ClientFollows
  <2>3. RunningIsJustified'
    BY <1>2 DEF PauseInv, vars, engine, coordinator, client, RunningIsJustified, Active, Starting,
       has_unfinished_requests
  <2> QED  BY <2>1, <2>2, <2>3 DEF PauseInv
<1> QED  BY <1>1, <1>2

(* After a pause the coordinator and every client know that the engines     *)
(* have paused, and their wave, so that the next request wakes them.        *)
THEOREM PauseIsKnown == Spec => []EveryoneKnowsThePause
<1>1. PauseInv => EveryoneKnowsThePause
  <2> SUFFICES ASSUME PauseInv, Paused, "abort" \notin scenario.may
               PROVE  /\ ~coord_running
                      /\ \A c \in scenario.clients : ~client_running[c]
                      /\ \A e \in Engine, c \in scenario.clients : client_wave[c] = current_wave[e]
    BY DEF EveryoneKnowsThePause
  <2> USE RankZero
  <2>1. coord_wave = current_wave[0]
    BY NothingSent DEF Paused, PauseInv, CoordinatorFollows
  <2>2. \A e \in Engine : ~Active(e)
    BY NothingSent DEF Paused, PauseInv, EngineTypes, Active, Starting
  <2>3. ~coord_running
    BY <2>1, <2>2 DEF PauseInv, RunningIsJustified
  <2>4. \A c \in scenario.clients : client_wave[c] = coord_wave /\ ~client_running[c]
    BY <2>3 DEF Paused, PauseInv, ClientsFollow, ClientFollows
  <2>5. \A e \in Engine : current_wave[e] = coord_wave
    BY <2>1 DEF PauseInv, WaveInv, EnginesInStep
  <2> QED  BY <2>3, <2>4, <2>5
<1> QED  BY <1>1, PauseInit, PauseStep, PTL DEF Spec
=============================================================================
