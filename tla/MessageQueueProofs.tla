-------------------------- MODULE MessageQueueProofs --------------------------
(***************************************************************************)
(* Ring and overflow socket stay in step.  For every number of readers,    *)
(* chunks and messages, whatever fails or dies and whenever a reader is    *)
(* shut down, dequeue returns the message whose chunk it has just given    *)
(* back, as long as no call has a timeout.                                 *)
(*                                                                         *)
(* RingInv holds of the queue because each of its steps is one of the ring *)
(* or leaves the ring alone.  On top of it the invariant says exactly      *)
(* which payloads are in the socket to a reader: those of the large        *)
(* messages in chunks that it has not read, and of the one whose chunk it  *)
(* has given back and whose payload it waits for, but for the message that *)
(* was published last if its payload is still to be sent; in ascending     *)
(* order.                                                                  *)
(***************************************************************************)
EXTENDS MessageQueue, ShmRingBufferProofs, SocketLemmas

(* Chunk c holds message n, which is too large for it.                      *)
Announces(c, n) == written[c] = 1 /\ overflow[c] /\ msg(c) = n

(* The payload of message n is in the socket to reader r.                   *)
InSocket(r, n) ==
    /\ ~(wtail = "send" /\ n = sent)
    /\ \/ rtail[r] = "recv" /\ n = delivered[r]
       \/ n > delivered[r] /\ \E c \in Chunk : Announces(c, n)

QueueTypes ==
    /\ overflow \in [Chunk -> BOOLEAN]
    /\ wtail \in {"none", "send", "notify"}
    /\ sock \in [Reader -> Seq(Nat)]
    /\ rtail \in [Reader -> {"none", "recv"}]
    /\ DOMAIN returned = Reader
    /\ wtail # "none" => wpc = "idle"
    /\ \A r \in Reader : rtail[r] = "recv" => rpc[r] = "idle"

PayloadsExact == \A r \in Reader : \A n \in Nat : n \in Elems(sock[r]) <=> InSocket(r, n)

(* The newest message whose payload, if it has one, has been sent.          *)
last_payload == IF wtail = "send" THEN sent - 1 ELSE sent

PayloadsInOrder ==
    \A r \in Reader :
      /\ \A i, j \in 1..Len(sock[r]) : i < j => sock[r][i] < sock[r][j]
      /\ \A i \in 1..Len(sock[r]) : sock[r][i] + Len(sock[r]) - i <= last_payload

(* Nobody has finished a message whose payload is still to be sent.         *)
PayloadDue ==
    wtail = "send" =>
      /\ \E c \in Chunk : Announces(c, sent)
      /\ \A r \in Reader : delivered[r] = sent => rtail[r] = "recv"

QueueInv ==
    /\ RingInv
    /\ QueueTypes
    /\ ~Timeouts => PayloadsExact /\ PayloadsInOrder /\ PayloadDue

-----------------------------------------------------------------------------
(* The queue uses the ring as its specification allows.                     *)
LEMMA RingSteps == [QNext]_allvars => [Next]_vars
BY DEF QNext, allvars, WriterStep, Enqueue, Fill, EnqueueStep, EnqueuePublish, SendPayload, Notify,
       WriterDies, ReaderStep, Dequeue, DequeueStep, Spin, GoIdle, Wake, DequeueMark, Recv, RecvTimeout,
       Shutdown, Next, Writer, Read

(* The messages in the chunks are different and have been published.        *)
LEMMA Messages ==
    ASSUME RingInv
    PROVE  /\ sent \in Nat
           /\ \A r \in Reader : delivered[r] \in Nat /\ delivered[r] <= sent
           /\ \A c \in Chunk : msg(c) \in Int /\ msg(c) <= sent
           /\ \A b, c \in Chunk : msg(b) = msg(c) => b = c
<1>1. /\ sent \in Nat /\ widx \in Int /\ 0 <= widx /\ widx < max_chunks /\ max_chunks \in Int
      /\ \A c \in Chunk : c \in Int /\ 0 <= c /\ c < max_chunks
  BY RingAssumption DEF RingInv, TypeOK, Chunk
<1>2. \A r \in Reader : delivered[r] \in Nat /\ delivered[r] <= sent
  BY <1>1 DEF RingInv, TypeOK, Lag
<1> QED  BY <1>1, <1>2 DEF msg

(* Publishing a message makes it the one of the writer's chunk.             *)
LEMMA Published ==
    ASSUME RingInv, Publish, NEW c \in Chunk
    PROVE  msg(c)' = IF c = widx THEN sent + 1 ELSE msg(c)
<1>1. /\ sent \in Int /\ widx \in Chunk /\ widx \in Int /\ 0 <= widx /\ widx < max_chunks /\ max_chunks \in Int
      /\ c \in Int /\ 0 <= c /\ c < max_chunks
  BY RingAssumption DEF RingInv, TypeOK, Chunk
<1>2. sent' = sent + 1 /\ widx' = IF widx = max_chunks - 1 THEN 0 ELSE widx + 1
  BY <1>1, NextIdx DEF Publish
<1> QED  BY <1>1, <1>2 DEF msg

(* An empty ring, and nothing in the socket.                                *)
LEMMA QueueInit == QInit => QueueInv
<1> SUFFICES ASSUME QInit PROVE QueueInv
  OBVIOUS
<1>1. RingInv
  BY InitInv DEF QInit
<1>2. QueueTypes
  BY DEF QInit, Init, QueueTypes
<1>3. PayloadsInOrder /\ PayloadDue
  BY DEF QInit, PayloadsInOrder, PayloadDue
<1>4. PayloadsExact
  BY NothingSent DEF QInit, Init, PayloadsExact, InSocket, Announces
<1> QED  BY <1>1, <1>2, <1>3, <1>4 DEF QueueInv

-----------------------------------------------------------------------------
(* What the payloads in the socket depend on.                               *)
payload_vars == <<written, overflow, wtail, sock, rtail, sent, widx, delivered>>

(* Every other step leaves the payloads and their announcements alone.      *)
LEMMA OtherSteps ==
    ASSUME QNext
    PROVE  \/ UNCHANGED payload_vars
           \/ Fill \/ EnqueuePublish \/ SendPayload \/ Notify
           \/ \E r \in Reader : DequeueMark(r) \/ Recv(r) \/ (Timeouts /\ RecvTimeout(r))
<1> USE DEF payload_vars, qvars, vars, mem, wvars, rvars
<1>1. CASE WriterStep
  <2>1. CASE Enqueue \/ EnqueueStep
    BY <2>1 DEF Enqueue, EnqueueStep, StartWrite, WriteTimeout, WriteFails, WriteWord, EndCopy, ClearReadFlag
  <2> QED  BY <1>1, <2>1 DEF WriterStep
<1>2. CASE WriterDies
  BY <1>2 DEF WriterDies
<1>3. CASE \E r \in Reader : Shutdown(r)
  BY <1>3 DEF Shutdown
<1>4. CASE \E r \in Reader : ReaderStep(r)
  <2>1. PICK r \in Reader : ReaderStep(r)
    BY <1>4
  <2>2. CASE Dequeue(r) \/ DequeueStep(r)
    BY <2>2 DEF Dequeue, DequeueStep, StartRead, LoadReadFlag, LoadWrittenFlag, CopyWord, ReadFails, ReadTimeout
  <2>3. CASE Spin(r) \/ GoIdle(r) \/ Wake(r)
    BY <2>3 DEF Spin, GoIdle, Wake, ReadTimeout, Wait
  <2>4. CASE RecvTimeout(r)
    BY <2>4 DEF RecvTimeout
  <2> QED  BY <2>1, <2>2, <2>3, <2>4 DEF ReaderStep
<1> QED  BY <1>1, <1>2, <1>3, <1>4 DEF QNext

(* Every step keeps the shape of the state, and the faults chosen at first. *)
LEMMA QueueTypesStep == ASSUME QueueInv, QNext PROVE QueueTypes' /\ faults' = faults
<1> USE DEF QueueInv, QueueTypes, qvars
<1>0. widx \in Chunk /\ sent \in Nat /\ rpc \in [Reader -> {"idle", "flag", "written", "wait", "copy"}]
  BY DEF RingInv, TypeOK
<1>1. CASE Enqueue \/ EnqueueStep
  BY <1>1 DEF Enqueue, EnqueueStep, StartWrite, WriteTimeout, WriteFails, WriteWord, EndCopy, ClearReadFlag, rvars
<1>2. CASE Fill
  BY <1>0, <1>2 DEF Fill, AcquireWrite, rvars
<1>3. CASE EnqueuePublish
  BY <1>3 DEF EnqueuePublish, Publish, rvars
<1>4. CASE SendPayload
  BY <1>0, <1>4 DEF SendPayload, vars, wvars, rvars
<1>5. CASE Notify \/ WriterDies \/ \E r \in Reader : Shutdown(r)
  BY <1>5 DEF Notify, WriterDies, Shutdown, vars, wvars, rvars
<1>6. ASSUME NEW r \in Reader, Dequeue(r) \/ DequeueStep(r)
      PROVE  QueueTypes' /\ faults' = faults
  BY <1>0, <1>6 DEF Dequeue, DequeueStep, StartRead, LoadReadFlag, LoadWrittenFlag, CopyWord, ReadFails, ReadTimeout,
     wvars
<1>7. ASSUME NEW r \in Reader, Spin(r) \/ GoIdle(r) \/ Wake(r)
      PROVE  QueueTypes' /\ faults' = faults
  BY <1>0, <1>7 DEF Spin, GoIdle, Wake, ReadTimeout, Wait, vars, wvars, rvars
<1>8. ASSUME NEW r \in Reader, DequeueMark(r)
      PROVE  QueueTypes' /\ faults' = faults
  BY <1>0, <1>8 DEF DequeueMark, MarkRead, wvars
<1>9. ASSUME NEW r \in Reader, Recv(r) \/ RecvTimeout(r)
      PROVE  QueueTypes' /\ faults' = faults
  <2>1. sock[r] # <<>> => Tail(sock[r]) \in Seq(Nat)
    BY HeadTail
  <2>2. CASE Recv(r)
    BY <2>1, <2>2 DEF Recv, vars, wvars, rvars
  <2>3. CASE RecvTimeout(r)
    BY <2>3 DEF RecvTimeout, vars, wvars, rvars
  <2> QED  BY <1>9, <2>2, <2>3
<1> HIDE DEF QueueInv, QueueTypes, qvars
<1> QED
  BY <1>1, <1>2, <1>3, <1>4, <1>5, <1>6, <1>7, <1>8, <1>9 DEF QNext, WriterStep, ReaderStep

(* What is said of the payloads when no call has a timeout.                 *)
Payloads == PayloadsExact /\ PayloadsInOrder /\ PayloadDue

(* What the payloads depend on has not changed.                             *)
LEMMA PayloadsKept == ASSUME Payloads, UNCHANGED payload_vars PROVE Payloads'
<1>1. \A c \in Chunk, n \in Nat : Announces(c, n)' <=> Announces(c, n)
  BY DEF payload_vars, Announces, msg
<1>2. \A r \in Reader, n \in Nat : InSocket(r, n)' <=> InSocket(r, n)
  BY <1>1 DEF payload_vars, InSocket
<1>3. PayloadsExact'
  BY <1>2 DEF payload_vars, Payloads, PayloadsExact
<1>4. PayloadsInOrder'
  BY DEF payload_vars, Payloads, PayloadsInOrder, last_payload
<1>5. PayloadDue'
  BY DEF payload_vars, Payloads, PayloadDue, Announces, msg
<1> QED  BY <1>3, <1>4, <1>5 DEF Payloads

(* The writer takes a chunk only when every reader has read its message.    *)
LEMMA FillStep == ASSUME QueueInv, Payloads, Fill PROVE Payloads'
<1>1. /\ wtail = "none" /\ wtail' = "none"
      /\ UNCHANGED <<sock, rtail, sent, widx, delivered>>
      /\ widx \in Chunk
      /\ written' = [written EXCEPT ![widx] = 0]
      /\ \A c \in Chunk : c # widx => overflow'[c] = overflow[c]
  BY DEF QueueInv, QueueTypes, RingInv, TypeOK, Fill, AcquireWrite, rvars
<1>2. written \in [Chunk -> {0, 1}] /\ overflow \in [Chunk -> BOOLEAN]
  BY DEF QueueInv, QueueTypes, RingInv, TypeOK
<1>3. \A r \in Reader : written[widx] = 1 => delivered[r] >= msg(widx)
  BY <1>1 DEF QueueInv, RingInv, Flags, Fill, AcquireWrite, can_write
<1>4. \A c \in Chunk : msg(c)' = msg(c)
  BY <1>1 DEF msg
<1>5. \A r \in Reader, n \in Nat, c \in Chunk : n > delivered[r] => (Announces(c, n)' <=> Announces(c, n))
  <2> SUFFICES ASSUME NEW r \in Reader, NEW n \in Nat, NEW c \in Chunk, n > delivered[r]
               PROVE  Announces(c, n)' <=> Announces(c, n)
    OBVIOUS
  <2>1. CASE c = widx
    <3>1. ~Announces(c, n)'
      BY <1>1, <1>2, <2>1 DEF Announces
    <3>2. ~Announces(c, n)
      BY <1>3, <2>1, Messages DEF Announces, QueueInv
    <3> QED  BY <3>1, <3>2
  <2>2. CASE c # widx
    BY <1>1, <1>2, <1>4, <2>2 DEF Announces
  <2> QED  BY <2>1, <2>2
<1>6. PayloadsExact'
  BY <1>1, <1>5 DEF Payloads, PayloadsExact, InSocket
<1>7. PayloadsInOrder' /\ PayloadDue'
  BY <1>1 DEF Payloads, PayloadsInOrder, PayloadDue, last_payload
<1> QED  BY <1>6, <1>7 DEF Payloads

(* A large message announces its payload when it is published.              *)
LEMMA PublishStep == ASSUME QueueInv, Payloads, EnqueuePublish PROVE Payloads'
<1>1. /\ wtail = "none" /\ wtail' = (IF overflow[widx] THEN "send" ELSE "notify")
      /\ UNCHANGED <<overflow, sock, rtail, delivered>>
      /\ widx \in Chunk /\ sent' = sent + 1
      /\ written[widx] = 0 /\ written' = [written EXCEPT ![widx] = 1]
  BY DEF QueueInv, QueueTypes, RingInv, TypeOK, WriterAt, EnqueuePublish, Publish, rvars
<1>2. written \in [Chunk -> {0, 1}] /\ overflow \in [Chunk -> BOOLEAN] /\ sock \in [Reader -> Seq(Nat)]
  BY DEF QueueInv, QueueTypes, RingInv, TypeOK
<1>3. /\ sent \in Nat
      /\ \A r \in Reader : delivered[r] \in Nat /\ delivered[r] <= sent
      /\ \A c \in Chunk : msg(c) \in Int /\ msg(c) <= sent
  BY Messages DEF QueueInv
<1>4. \A c \in Chunk : msg(c)' = IF c = widx THEN sent + 1 ELSE msg(c)
  BY Published DEF QueueInv, EnqueuePublish
<1>5. \A c \in Chunk, n \in Nat :
        /\ c # widx => (Announces(c, n)' <=> Announces(c, n))
        /\ c = widx => (Announces(c, n)' <=> overflow[widx] /\ n = sent + 1) /\ ~Announces(c, n)
        /\ Announces(c, n) => n <= sent
  BY <1>1, <1>2, <1>3, <1>4 DEF Announces
<1>6. ASSUME NEW r \in Reader, NEW n \in Nat PROVE InSocket(r, n)' <=> InSocket(r, n)
  <2>1. CASE n = sent + 1
    <3>1. ~InSocket(r, n)
      BY <1>3, <1>5, <2>1 DEF InSocket
    <3>2. ~InSocket(r, n)'
      BY <1>1, <1>3, <1>5, <2>1 DEF InSocket
    <3> QED  BY <3>1, <3>2
  <2>2. CASE n # sent + 1
    BY <1>1, <1>3, <1>5, <2>2 DEF InSocket
  <2> QED  BY <2>1, <2>2
<1>7. PayloadsExact'
  BY <1>1, <1>6 DEF Payloads, PayloadsExact
<1>8. PayloadsInOrder'
  BY <1>1, <1>2, <1>3 DEF Payloads, PayloadsInOrder, last_payload
<1>9. PayloadDue'
  <2> SUFFICES ASSUME overflow[widx]
               PROVE  /\ \E c \in Chunk : Announces(c, sent)'
                      /\ \A r \in Reader : delivered'[r] = sent' => rtail'[r] = "recv"
    BY <1>1 DEF PayloadDue
  <2>1. PICK w \in Chunk : w = widx
    BY <1>1
  <2>2. Announces(w, sent)'
    BY <1>1, <1>2, <1>4, <2>1 DEF Announces
  <2>3. \A r \in Reader : delivered'[r] # sent'
    BY <1>1, <1>3
  <2> QED  BY <2>2, <2>3
<1> QED  BY <1>7, <1>8, <1>9 DEF Payloads

(* The payload follows the message that announced it.                       *)
LEMMA SendStep == ASSUME QueueInv, Payloads, SendPayload PROVE Payloads'
<1>1. /\ wtail = "send" /\ wtail' = "notify"
      /\ sock' = [r \in Reader |-> Append(sock[r], sent)]
      /\ UNCHANGED <<written, overflow, rtail, sent, widx, delivered>>
  BY DEF SendPayload, vars, mem, wvars, rvars
<1>2. sock \in [Reader -> Seq(Nat)]
  BY DEF QueueInv, QueueTypes
<1>3. sent \in Nat /\ \A r \in Reader : delivered[r] \in Nat /\ delivered[r] <= sent
  BY Messages DEF QueueInv
<1>4. \A c \in Chunk, n \in Nat : Announces(c, n)' <=> Announces(c, n)
  BY <1>1 DEF Announces, msg
<1>5. ASSUME NEW r \in Reader, NEW n \in Nat PROVE n \in Elems(sock'[r]) <=> InSocket(r, n)'
  <2>1. Elems(sock'[r]) = Elems(sock[r]) \union {sent}
    BY <1>1, <1>2, Sent
  <2>2. CASE n # sent
    BY <1>1, <1>4, <2>1, <2>2 DEF Payloads, PayloadsExact, InSocket
  <2>3. CASE n = sent
    <3>1. delivered[r] = sent \/ sent > delivered[r]
      BY <1>3
    <3>2. InSocket(r, n)'
      BY <1>1, <1>4, <2>3, <3>1 DEF Payloads, PayloadDue, InSocket
    <3> QED  BY <2>1, <2>3, <3>2
  <2> QED  BY <2>2, <2>3
<1>6. PayloadsInOrder'
  <2> SUFFICES ASSUME NEW r \in Reader
               PROVE  /\ \A i, j \in 1..Len(sock'[r]) : i < j => sock'[r][i] < sock'[r][j]
                      /\ \A i \in 1..Len(sock'[r]) : sock'[r][i] + Len(sock'[r]) - i <= sent
    BY <1>1 DEF PayloadsInOrder, last_payload
  <2> DEFINE s == sock[r]
             t == sock'[r]
  <2>1. /\ s \in Seq(Nat) /\ t = Append(s, sent)
    BY <1>1, <1>2
  <2>2. /\ \A i, j \in 1..Len(s) : i < j => s[i] < s[j]
        /\ \A i \in 1..Len(s) : s[i] + Len(s) - i <= sent - 1
    BY <1>1 DEF Payloads, PayloadsInOrder, last_payload
  <2> HIDE DEF s, t
  <2>3. /\ Len(s) \in Nat /\ Len(t) = Len(s) + 1 /\ t[Len(s) + 1] = sent
        /\ \A i \in 1..Len(s) : t[i] = s[i] /\ s[i] \in Nat
    BY <1>3, <2>1
  <2>4. \A i \in 1..Len(t) : t[i] + Len(t) - i <= sent
    <3> SUFFICES ASSUME NEW i \in 1..Len(t) PROVE t[i] + Len(t) - i <= sent
      OBVIOUS
    <3>1. CASE i = Len(s) + 1
      BY <1>3, <2>3, <3>1
    <3>2. CASE i # Len(s) + 1
      BY <1>3, <2>2, <2>3, <3>2
    <3> QED  BY <3>1, <3>2
  <2>5. \A i, j \in 1..Len(t) : i < j => t[i] < t[j]
    <3> SUFFICES ASSUME NEW i \in 1..Len(t), NEW j \in 1..Len(t), i < j PROVE t[i] < t[j]
      OBVIOUS
    <3>1. i \in 1..Len(s) /\ t[i] = s[i] /\ s[i] \in Nat /\ s[i] <= sent - 1
      BY <1>3, <2>2, <2>3
    <3>2. CASE j = Len(s) + 1
      BY <1>3, <2>3, <3>1, <3>2
    <3>3. CASE j # Len(s) + 1
      <4>1. j \in 1..Len(s)
        BY <2>3, <3>3
      <4> QED  BY <2>2, <2>3, <3>1, <4>1
    <3> QED  BY <3>2, <3>3
  <2> QED  BY <2>4, <2>5 DEF t
<1>7. PayloadDue'
  BY <1>1 DEF PayloadDue
<1> QED  BY <1>5, <1>6, <1>7 DEF Payloads, PayloadsExact

(* A notification carries no payload.                                       *)
LEMMA NotifyStep == ASSUME Payloads, Notify PROVE Payloads'
<1>1. /\ wtail = "notify" /\ wtail' = "none"
      /\ UNCHANGED <<written, overflow, sock, rtail, sent, widx, delivered>>
  BY DEF Notify, vars, mem, wvars, rvars
<1>2. \A c \in Chunk, n \in Nat : Announces(c, n)' <=> Announces(c, n)
  BY <1>1 DEF Announces, msg
<1>3. \A r \in Reader, n \in Nat : InSocket(r, n)' <=> InSocket(r, n)
  BY <1>1, <1>2 DEF InSocket
<1> QED  BY <1>1, <1>3 DEF Payloads, PayloadsExact, PayloadsInOrder, PayloadDue, last_payload

(* Giving the chunk of a large message back starts the wait for its payload. *)
LEMMA MarkStep == ASSUME QueueInv, Payloads, NEW r \in Reader, DequeueMark(r) PROVE Payloads'
<1> DEFINE d == delivered[r]
<1>1. /\ rpc[r] = "copy" /\ ridx[r] \in Chunk /\ written[ridx[r]] = 1
      /\ rtail \in [Reader -> {"none", "recv"}] /\ rtail[r] = "none"
      /\ overflow \in [Chunk -> BOOLEAN] /\ delivered \in [Reader -> Nat]
  BY DEF QueueInv, QueueTypes, RingInv, TypeOK, ReaderAt, DequeueMark, MarkRead
<1>2. /\ UNCHANGED <<written, overflow, sock, wtail, sent, widx>>
      /\ delivered' = [delivered EXCEPT ![r] = d + 1]
      /\ rtail' = IF overflow[ridx[r]] THEN [rtail EXCEPT ![r] = "recv"] ELSE rtail
  BY DEF DequeueMark, MarkRead, wvars
<1>3. /\ \A c \in Chunk, n \in Nat : Announces(c, n)' <=> Announces(c, n)
      /\ (\E c \in Chunk : Announces(c, d + 1)) <=> overflow[ridx[r]]
  <2>1. \A c \in Chunk, n \in Nat : Announces(c, n)' <=> Announces(c, n)
    BY <1>2 DEF Announces, msg
  <2>2. msg(ridx[r]) = d + 1
    BY <1>1, CopyMsg DEF QueueInv
  <2>3. \A c \in Chunk : msg(c) = d + 1 => c = ridx[r]
    BY <1>1, <2>2, Messages DEF QueueInv
  <2> QED  BY <1>1, <2>1, <2>2, <2>3 DEF Announces
<1>4. ASSUME NEW q \in Reader, NEW n \in Nat PROVE InSocket(q, n)' <=> InSocket(q, n)
  <2>1. CASE q # r
    BY <1>1, <1>2, <1>3, <2>1 DEF InSocket
  <2>2. CASE q = r
    <3>1. /\ d \in Nat /\ delivered'[q] = d + 1
          /\ rtail'[q] = (IF overflow[ridx[r]] THEN "recv" ELSE "none")
      BY <1>1, <1>2, <2>2
    <3>2. CASE n = d + 1
      BY <1>1, <1>2, <1>3, <2>2, <3>1, <3>2 DEF InSocket
    <3>3. CASE n # d + 1
      BY <1>1, <1>2, <1>3, <2>2, <3>1, <3>3 DEF InSocket
    <3> QED  BY <3>2, <3>3
  <2> QED  BY <2>1, <2>2
<1>5. PayloadsExact' /\ PayloadsInOrder'
  BY <1>2, <1>4 DEF Payloads, PayloadsExact, PayloadsInOrder, last_payload
<1>6. PayloadDue'
  <2> SUFFICES ASSUME wtail = "send"
               PROVE  /\ \E c \in Chunk : Announces(c, sent)'
                      /\ \A q \in Reader : delivered'[q] = sent => rtail'[q] = "recv"
    BY <1>2 DEF PayloadDue
  <2>1. /\ \E c \in Chunk : Announces(c, sent)
        /\ \A q \in Reader : delivered[q] = sent => rtail[q] = "recv"
    BY DEF Payloads, PayloadDue
  <2>2. \E c \in Chunk : Announces(c, sent)'
    BY <1>2, <2>1 DEF Announces, msg
  <2>3. ASSUME NEW q \in Reader, delivered'[q] = sent PROVE rtail'[q] = "recv"
    <3>1. CASE q = r
      BY <1>1, <1>2, <1>3, <2>1, <2>3, <3>1
    <3>2. CASE q # r
      BY <1>1, <1>2, <2>1, <2>3, <3>2
    <3> QED  BY <3>1, <3>2
  <2> QED  BY <2>2, <2>3
<1> QED  BY <1>5, <1>6 DEF Payloads

(* The payload at the head of the socket is the one the reader waits for.   *)
LEMMA HeadIsDue ==
    ASSUME QueueInv, Payloads, NEW r \in Reader, rtail[r] = "recv", sock[r] # <<>>
    PROVE  Head(sock[r]) = delivered[r] /\ ~(wtail = "send" /\ delivered[r] = sent)
<1>1. sock[r] \in Seq(Nat)
  BY DEF QueueInv, QueueTypes
<1>2. /\ delivered[r] \in Nat /\ delivered[r] <= sent /\ sent \in Nat
      /\ \A c \in Chunk : msg(c) \in Int /\ msg(c) <= sent
  BY Messages DEF QueueInv
<1>3. /\ Head(sock[r]) \in Nat /\ Head(sock[r]) \in Elems(sock[r])
      /\ \A n \in Elems(sock[r]) : Head(sock[r]) <= n
  <2>1. Head(sock[r]) \in Elems(sock[r])
    BY <1>1, Received
  <2>2. \A n \in Elems(sock[r]) : Head(sock[r]) <= n
    BY <1>1, LeastReceived DEF Payloads, PayloadsInOrder
  <2> QED  BY <1>1, <2>1, <2>2, HeadTail
<1>4. InSocket(r, Head(sock[r]))
  BY <1>3 DEF Payloads, PayloadsExact
<1>5. ~(wtail = "send" /\ delivered[r] = sent)
  BY <1>2, <1>3, <1>4 DEF InSocket, Announces
<1>6. delivered[r] \in Elems(sock[r])
  BY <1>2, <1>5 DEF Payloads, PayloadsExact, InSocket
<1>7. Head(sock[r]) <= delivered[r] /\ Head(sock[r]) >= delivered[r]
  BY <1>2, <1>3, <1>4, <1>6 DEF InSocket
<1> QED  BY <1>2, <1>3, <1>5, <1>7

(* The reader takes the payload it waits for and leaves the later ones.     *)
LEMMA RecvStep == ASSUME QueueInv, Payloads, NEW r \in Reader, Recv(r) PROVE Payloads'
<1>1. /\ rtail[r] = "recv" /\ sock[r] # <<>>
      /\ rtail' = [rtail EXCEPT ![r] = "none"]
      /\ sock' = [sock EXCEPT ![r] = Tail(@)]
      /\ UNCHANGED <<written, overflow, wtail, sent, widx, delivered>>
  BY DEF Recv, vars, mem, wvars, rvars
<1>2. /\ sock \in [Reader -> Seq(Nat)] /\ rtail \in [Reader -> {"none", "recv"}]
      /\ \A q \in Reader : delivered[q] \in Nat
  BY Messages DEF QueueInv, QueueTypes
<1>3. Head(sock[r]) = delivered[r] /\ ~(wtail = "send" /\ delivered[r] = sent)
  BY <1>1, HeadIsDue
<1>4. Elems(Tail(sock[r])) = Elems(sock[r]) \ {delivered[r]}
  BY <1>1, <1>2, <1>3, LeastReceived DEF Payloads, PayloadsInOrder
<1>5. \A c \in Chunk, n \in Nat : Announces(c, n)' <=> Announces(c, n)
  BY <1>1 DEF Announces, msg
<1>6. ASSUME NEW q \in Reader, NEW n \in Nat PROVE n \in Elems(sock'[q]) <=> InSocket(q, n)'
  <2>1. CASE q # r
    BY <1>1, <1>2, <1>5, <2>1 DEF Payloads, PayloadsExact, InSocket
  <2>2. CASE q = r
    <3>1. sock'[q] = Tail(sock[r]) /\ rtail'[q] = "none"
      BY <1>1, <1>2, <2>2
    <3>2. n \in Elems(sock[r]) <=> InSocket(r, n)
      BY DEF Payloads, PayloadsExact
    <3>3. n \in Elems(sock'[q]) <=> InSocket(r, n) /\ n # delivered[r]
      BY <1>4, <3>1, <3>2
    <3> QED  BY <1>1, <1>2, <1>5, <2>2, <3>1, <3>3 DEF InSocket
  <2> QED  BY <2>1, <2>2
<1>7. PayloadsInOrder'
  <2> SUFFICES ASSUME NEW q \in Reader
               PROVE  /\ \A i, j \in 1..Len(sock'[q]) : i < j => sock'[q][i] < sock'[q][j]
                      /\ \A i \in 1..Len(sock'[q]) : sock'[q][i] + Len(sock'[q]) - i <= last_payload
    BY <1>1 DEF PayloadsInOrder, last_payload
  <2> DEFINE s == sock[q]
             t == sock'[q]
  <2>1. /\ s \in Seq(Nat)
        /\ \A i, j \in 1..Len(s) : i < j => s[i] < s[j]
        /\ \A i \in 1..Len(s) : s[i] + Len(s) - i <= last_payload
    BY <1>2 DEF Payloads, PayloadsInOrder
  <2>2. t = IF q = r THEN Tail(s) ELSE s
    BY <1>1, <1>2
  <2>3. q = r => s # <<>>
    BY <1>1
  <2>4. last_payload \in Int
    BY Messages DEF QueueInv, last_payload
  <2> HIDE DEF s, t
  <2>5. CASE q # r
    BY <2>1, <2>2, <2>5 DEF t
  <2>6. CASE q = r
    <3>1. /\ Len(s) \in Nat /\ Len(t) = Len(s) - 1
          /\ \A i \in 1..Len(t) : t[i] = s[i + 1] /\ i + 1 \in 1..Len(s)
          /\ \A i \in 1..Len(s) : s[i] \in Nat
      BY <2>1, <2>2, <2>3, <2>6
    <3>2. ASSUME NEW i \in 1..Len(t), NEW j \in 1..Len(t), i < j PROVE t[i] < t[j]
      <4>1. i + 1 \in 1..Len(s) /\ j + 1 \in 1..Len(s) /\ i + 1 < j + 1
        BY <3>1, <3>2
      <4>2. s[i + 1] < s[j + 1]
        BY <2>1, <4>1
      <4> QED  BY <3>1, <4>2
    <3>3. ASSUME NEW i \in 1..Len(t) PROVE t[i] + Len(t) - i <= last_payload
      <4>1. s[i + 1] + Len(s) - (i + 1) <= last_payload
        BY <2>1, <3>1
      <4> QED  BY <2>4, <3>1, <4>1
    <3> QED  BY <3>2, <3>3 DEF t
  <2> QED  BY <2>5, <2>6
<1>8. PayloadDue'
  <2> SUFFICES ASSUME wtail = "send"
               PROVE  /\ \E c \in Chunk : Announces(c, sent)'
                      /\ \A q \in Reader : delivered[q] = sent => rtail'[q] = "recv"
    BY <1>1 DEF PayloadDue
  <2>1. /\ \E c \in Chunk : Announces(c, sent)
        /\ \A q \in Reader : delivered[q] = sent => rtail[q] = "recv"
    BY DEF Payloads, PayloadDue
  <2>2. \E c \in Chunk : Announces(c, sent)'
    BY <1>1, <2>1 DEF Announces, msg
  <2> QED  BY <1>1, <1>2, <1>3, <2>1, <2>2
<1> QED  BY <1>6, <1>7, <1>8 DEF Payloads, PayloadsExact

-----------------------------------------------------------------------------
(* Every step of writer and readers keeps ring and socket in step.          *)
LEMMA QueueStep == QueueInv /\ [QNext]_allvars => QueueInv'
<1> SUFFICES ASSUME QueueInv, [QNext]_allvars PROVE QueueInv'
  OBVIOUS
<1>1. RingInv'
  BY RingSteps, StepInv DEF QueueInv
<1>2. CASE UNCHANGED allvars
  <2>1. UNCHANGED payload_vars /\ UNCHANGED <<faults, returned, wpc, rpc>>
    BY <1>2 DEF allvars, vars, mem, wvars, rvars, qvars, payload_vars
  <2>2. QueueTypes'
    BY <2>1 DEF QueueInv, QueueTypes, payload_vars
  <2>3. ~Timeouts => Payloads'
    BY <2>1, PayloadsKept DEF QueueInv, Payloads
  <2> QED  BY <1>1, <2>1, <2>2, <2>3 DEF QueueInv, Payloads, Timeouts
<1>3. CASE QNext
  <2>1. QueueTypes' /\ (Timeouts' <=> Timeouts)
    BY <1>3, QueueTypesStep DEF Timeouts
  <2>2. ASSUME ~Timeouts PROVE Payloads'
    <3>1. Payloads
      BY <2>2 DEF QueueInv, Payloads
    <3> QED
      BY <1>3, <2>2, <3>1, OtherSteps, PayloadsKept, FillStep, PublishStep, SendStep, NotifyStep,
         MarkStep, RecvStep
  <2> QED  BY <1>1, <2>1, <2>2 DEF QueueInv, Payloads
<1> QED  BY <1>2, <1>3

(* The payloads in the socket are always those the ring announces.          *)
LEMMA QueueConsistent == QSpec => []QueueInv
BY QueueInit, QueueStep, PTL DEF QSpec

(* dequeue returns the message whose chunk it has just given back, through  *)
(* ring or socket, for any number of readers, chunks and messages.          *)
THEOREM DequeueInOrder == QSpec => DequeueReturnsNext
<1>1. QueueInv /\ [QNext]_allvars =>
        [~Timeouts => \A r \in Reader :
           returned'[r] # returned[r] => returned'[r] = delivered'[r]]_allvars
  <2> SUFFICES ASSUME QueueInv, QNext, ~Timeouts, NEW r \in Reader, returned'[r] # returned[r]
               PROVE  returned'[r] = delivered'[r]
    OBVIOUS
  <2>1. DequeueMark(r) \/ Recv(r)
    <3>1. DOMAIN returned = Reader
      BY DEF QueueInv, QueueTypes
    <3>2. CASE WriterStep \/ WriterDies
      BY <3>2 DEF WriterStep, WriterDies, Enqueue, Fill, EnqueueStep, EnqueuePublish, SendPayload, Notify, qvars
    <3>3. ASSUME NEW q \in Reader, ReaderStep(q) \/ Shutdown(q) PROVE DequeueMark(r) \/ Recv(r)
      <4>1. DequeueMark(q) \/ Recv(q)
        BY <3>3 DEF ReaderStep, Shutdown, Dequeue, DequeueStep, Spin, GoIdle, Wake, RecvTimeout, qvars
      <4>2. q = r
        BY <3>1, <4>1 DEF DequeueMark, Recv
      <4> QED  BY <4>1, <4>2
    <3> QED  BY <3>2, <3>3 DEF QNext
  <2>2. CASE DequeueMark(r)
    <3>1. /\ rpc[r] = "copy" /\ copied[r] = Words /\ delivered \in [Reader -> Nat]
          /\ delivered' = [delivered EXCEPT ![r] = @ + 1]
      BY <2>2 DEF DequeueMark, MarkRead, QueueInv, RingInv, TypeOK
    <3>2. got[r][1] = delivered[r] + 1
      BY <3>1, RingAssumption DEF QueueInv, RingInv, ReadsNextWhole, Word
    <3>3. returned'[r] = got[r][1]
      BY <2>2 DEF DequeueMark, QueueInv, QueueTypes
    <3> QED  BY <3>1, <3>2, <3>3
  <2>3. CASE Recv(r)
    <3>1. rtail[r] = "recv" /\ sock[r] # <<>> /\ returned'[r] = Head(sock[r]) /\ delivered' = delivered
      BY <2>3 DEF Recv, QueueInv, QueueTypes, vars, rvars
    <3> QED  BY <3>1, HeadIsDue DEF QueueInv, Payloads
  <2> QED  BY <2>1, <2>2, <2>3
<1> QED  BY <1>1, QueueConsistent, PTL DEF QSpec, DequeueReturnsNext

(* The overflow socket stays far below its high-water mark: it never holds  *)
(* more payloads than the ring has chunks, and one.                         *)
THEOREM SocketBounded == QSpec => []BacklogBounded
<1>1. QueueInv => BacklogBounded
  <2> SUFFICES ASSUME QueueInv, ~Timeouts, NEW r \in Reader, sock[r] # <<>>
               PROVE  Len(sock[r]) <= max_chunks + 1
    BY RingAssumption DEF BacklogBounded
  <2> DEFINE s == sock[r]
  <2>1. s \in Seq(Nat) /\ PayloadsExact /\ PayloadsInOrder
    BY DEF QueueInv, QueueTypes
  <2>2. /\ sent \in Nat /\ max_chunks \in Nat /\ delivered[r] \in Nat
        /\ sent - delivered[r] <= max_chunks /\ last_payload \in Int /\ last_payload <= sent
    BY RingAssumption, Messages DEF QueueInv, RingInv, Lag, last_payload
  <2>3. s[1] + Len(s) - 1 <= last_payload
    BY <2>1 DEF PayloadsInOrder
  <2>4. s[1] \in Nat /\ Len(s) \in Nat /\ s[1] \in Elems(s)
    BY <2>1 DEF Elems
  <2>5. InSocket(r, s[1])
    BY <2>1, <2>4 DEF PayloadsExact
  <2>6. s[1] >= delivered[r]
    BY <2>2, <2>4, <2>5 DEF InSocket
  <2> QED  BY <2>2, <2>3, <2>4, <2>6
<1> QED  BY <1>1, QueueConsistent, PTL
=============================================================================
