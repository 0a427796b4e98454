------------------------- MODULE ShmRingBufferProofs -------------------------
(***************************************************************************)
(* RingInv is an inductive invariant of the shared-memory ring, for every  *)
(* number of readers, chunks and words, and the ring implements the        *)
(* broadcast queue.                                                        *)
(***************************************************************************)
EXTENDS ShmRingBuffer, TLAPS

(* next_idx, the (current_idx + 1) % max_chunks of the code, stays in the   *)
(* ring and wraps around at its end.                                        *)
LEMMA NextIdx ==
    ASSUME NEW i \in Chunk
    PROVE  /\ next_idx(i) \in Chunk
           /\ next_idx(i) = IF i = max_chunks - 1 THEN 0 ELSE i + 1
  <1>1. CASE i = max_chunks - 1
    BY <1>1, RingAssumption DEF next_idx, Chunk
  <1>2. CASE i # max_chunks - 1
    BY <1>2, RingAssumption DEF next_idx, Chunk
  <1>3. QED
    BY <1>1, <1>2

(* A freshly created ring satisfies the invariant.                          *)
LEMMA InitInv == Init => RingInv
  BY RingAssumption DEF Init, RingInv, TypeOK, Lag, Flags, WriterAt, ReaderAt,
     ReadsNextWhole, msg, Reader, Chunk, Word

(* A reader past both checks of acquire_read looks at the message after the *)
(* last one it finished.                                                    *)
LEMMA CopyMsg ==
    ASSUME RingInv, NEW r \in Reader, rpc[r] = "copy"
    PROVE  msg(ridx[r]) = delivered[r] + 1 /\ delivered[r] + 1 <= sent
  <1> DEFINE c == ridx[r]
             d == delivered[r]
  <1>1. /\ c \in Chunk /\ c \in Int /\ 0 <= c /\ c < max_chunks
        /\ widx \in Int /\ 0 <= widx /\ widx < max_chunks
        /\ sent \in Int /\ d \in Int /\ max_chunks \in Int
    BY RingAssumption DEF RingInv, TypeOK, Chunk
  <1>2. d < msg(c)
    BY <1>1 DEF RingInv, TypeOK, Flags, ReaderAt, msg
  <1>3. /\ 0 <= sent - d /\ sent - d <= max_chunks
        /\ sent - d = widx - c \/ sent - d = widx - c + max_chunks
    BY DEF RingInv, Lag
  <1> HIDE DEF c, d
  <1>4. msg(c) = d + 1 /\ d + 1 <= sent
    BY <1>1, <1>2, <1>3 DEF msg
  <1>5. QED
    BY <1>4 DEF c, d

(* Every load, store and control step of writer and readers preserves it.   *)
LEMMA StepInv == RingInv /\ [Next]_vars => RingInv'
  <1> SUFFICES ASSUME RingInv, [Next]_vars
               PROVE  RingInv'
    OBVIOUS
  <1> USE RingAssumption DEF RingInv, mem, wvars, rvars
  <1>1. CASE StartWrite
    BY <1>1 DEF StartWrite, TypeOK, Lag, Flags, WriterAt, ReaderAt, ReadsNextWhole, msg
  <1>2. CASE AcquireWrite
    <2>1. TypeOK'
      BY <1>2 DEF AcquireWrite, can_write, TypeOK
    <2>2. Lag'
      BY <1>2 DEF AcquireWrite, can_write, TypeOK, Lag
    <2>3. Flags'
      BY <1>2 DEF AcquireWrite, can_write, TypeOK, Lag, Flags, WriterAt, msg
    <2>4. WriterAt'
      BY <1>2 DEF AcquireWrite, TypeOK, WriterAt, Word
    <2>5. ReaderAt'
      BY <1>2 DEF AcquireWrite, can_write, TypeOK, WriterAt, ReaderAt
    <2>6. ReadsNextWhole'
      BY <1>2 DEF AcquireWrite, can_write, TypeOK, ReadsNextWhole
    <2>7. QED
      BY <2>1, <2>2, <2>3, <2>4, <2>5, <2>6
  <1>3. CASE WriteTimeout
    BY <1>3 DEF WriteTimeout, TypeOK, Lag, Flags, WriterAt, ReaderAt, ReadsNextWhole, msg
  <1>4. CASE WriteWord
    <2>a. wrote + 1 \in Word /\ wrote + 1 \in 0..Words /\ sent + 1 \in Nat
      BY <1>4 DEF WriteWord, TypeOK, Word
    <2>1. TypeOK'
      BY <1>4, <2>a DEF WriteWord, TypeOK
    <2>2. Lag'
      BY <1>4 DEF WriteWord, TypeOK, Lag
    <2>3. Flags'
      BY <1>4 DEF WriteWord, TypeOK, Lag, Flags, WriterAt, msg
    <2>4. WriterAt'
      BY <1>4 DEF WriteWord, TypeOK, WriterAt, Word
    <2>5. ReaderAt'
      BY <1>4 DEF WriteWord, TypeOK, WriterAt, ReaderAt
    <2>6. ReadsNextWhole'
      BY <1>4 DEF WriteWord, TypeOK, ReadsNextWhole
    <2>7. QED
      BY <2>1, <2>2, <2>3, <2>4, <2>5, <2>6
  <1>5. CASE WriteFails
    BY <1>5 DEF WriteFails, TypeOK, Lag, Flags, WriterAt, ReaderAt, ReadsNextWhole, msg
  <1>6. CASE EndCopy
    <2>1. TypeOK'
      BY <1>6 DEF EndCopy, TypeOK
    <2>2. Lag'
      BY <1>6 DEF EndCopy, TypeOK, Lag
    <2>3. Flags'
      BY <1>6 DEF EndCopy, TypeOK, Lag, Flags, WriterAt, msg
    <2>4. WriterAt'
      BY <1>6 DEF EndCopy, TypeOK, WriterAt, Word, Reader
    <2>5. ReaderAt'
      BY <1>6 DEF EndCopy, TypeOK, WriterAt, ReaderAt
    <2>6. ReadsNextWhole'
      BY <1>6 DEF EndCopy, TypeOK, ReadsNextWhole
    <2>7. QED
      BY <2>1, <2>2, <2>3, <2>4, <2>5, <2>6
  <1>7. CASE ClearReadFlag
    <2>a. cleared \in Reader /\ cleared + 1 \in 0..n_reader
      BY <1>7 DEF ClearReadFlag, TypeOK, Reader
    <2>1. TypeOK'
      BY <1>7, <2>a DEF ClearReadFlag, TypeOK
    <2>2. Lag'
      BY <1>7 DEF ClearReadFlag, TypeOK, Lag
    <2>3. Flags'
      BY <1>7 DEF ClearReadFlag, TypeOK, Lag, Flags, WriterAt, msg
    <2>4. WriterAt'
      BY <1>7 DEF ClearReadFlag, TypeOK, WriterAt, Reader
    <2>5. ReaderAt'
      BY <1>7 DEF ClearReadFlag, TypeOK, WriterAt, ReaderAt
    <2>6. ReadsNextWhole'
      BY <1>7 DEF ClearReadFlag, TypeOK, ReadsNextWhole
    <2>7. QED
      BY <2>1, <2>2, <2>3, <2>4, <2>5, <2>6
  <1>8. CASE Publish
    <2>1. TypeOK'
      BY <1>8, NextIdx DEF Publish, TypeOK
    <2> DEFINE j == next_idx(widx)
    <2>a. /\ widx \in Chunk /\ j \in Chunk /\ widx \in Int /\ j \in Int
          /\ j = IF widx = max_chunks - 1 THEN 0 ELSE widx + 1
          /\ widx' = j /\ sent' = sent + 1
          /\ \A c \in Chunk : c \in Int /\ 0 <= c /\ c < max_chunks
      BY <1>8, NextIdx DEF Publish, TypeOK, Chunk
    <2>b. \A r \in Reader : delivered[r] \in Nat /\ delivered[r] >= sent + 1 - max_chunks
      BY <1>8, <2>a DEF Publish, TypeOK, Flags, WriterAt, msg
    <2> HIDE DEF j
    <2>2. Lag'
      <3> SUFFICES ASSUME NEW q \in Reader
                   PROVE  /\ 0 <= sent' - delivered'[q] /\ sent' - delivered'[q] <= max_chunks
                          /\ \/ sent' - delivered'[q] = widx' - ridx'[q]
                             \/ sent' - delivered'[q] = widx' - ridx'[q] + max_chunks
        BY DEF Lag
      <3>1. ridx[q] \in Int /\ 0 <= ridx[q] /\ ridx[q] < max_chunks
        BY DEF TypeOK, Chunk
      <3>2. /\ 0 <= sent - delivered[q] /\ sent - delivered[q] <= max_chunks
            /\ \/ sent - delivered[q] = widx - ridx[q]
               \/ sent - delivered[q] = widx - ridx[q] + max_chunks
            /\ sent \in Int /\ delivered[q] \in Int
            /\ delivered[q] >= sent + 1 - max_chunks
        BY <2>b DEF TypeOK, Lag
      <3>3. delivered' = delivered /\ ridx' = ridx
        BY <1>8 DEF Publish
      <3>4. QED
        BY <2>a, <3>1, <3>2, <3>3
    <2>c. \A c \in Chunk : msg(c)' = (IF c = widx THEN sent + 1 ELSE msg(c)) /\ msg(c) \in Int
      BY <1>8, <2>a DEF Publish, TypeOK, msg
    <2>3. Flags'
      <3> SUFFICES ASSUME NEW c \in Chunk
                   PROVE  /\ c # j => (written'[c] = 1 <=> msg(c)' >= 1)
                          /\ written'[c] = 1 =>
                               /\ msg(c)' >= 1
                               /\ \A k \in Word : data[c][k] = msg(c)'
                               /\ \A r \in Reader : read_flag[c][r] = 1 <=> delivered[r] >= msg(c)'
                          /\ written'[c] = 0 => \A r \in Reader : delivered[r] >= msg(c)'
        BY <1>8, <2>a DEF Publish, Flags
      <3>1. CASE c = widx
        <4>1. \A r \in Reader : read_flag[c][r] = 0 /\ delivered[r] < sent + 1
          BY <1>8, <3>1 DEF Publish, TypeOK, Lag, WriterAt, Reader
        <4>2. QED
          BY <1>8, <2>a, <2>c, <3>1, <4>1 DEF Publish, TypeOK, WriterAt
      <3>2. CASE c # widx
        BY <1>8, <2>a, <2>c, <3>2 DEF Publish, TypeOK, Flags
      <3>3. QED
        BY <3>1, <3>2
    <2>4. WriterAt'
      BY <1>8, NextIdx DEF Publish, TypeOK, WriterAt
    <2>5. ReaderAt'
      BY <1>8, NextIdx DEF Publish, TypeOK, WriterAt, ReaderAt
    <2>6. ReadsNextWhole'
      BY <1>8, NextIdx DEF Publish, TypeOK, ReadsNextWhole
    <2>7. QED
      BY <2>1, <2>2, <2>3, <2>4, <2>5, <2>6
  <1>9. ASSUME NEW r \in Reader, StartRead(r)
       PROVE  RingInv'
    BY <1>9 DEF StartRead, TypeOK, Lag, Flags, WriterAt, ReaderAt, ReadsNextWhole, msg
  <1>10. ASSUME NEW r \in Reader, LoadReadFlag(r)
       PROVE  RingInv'
    <2>1. TypeOK'
      BY <1>10 DEF LoadReadFlag, TypeOK
    <2>2. Lag'
      BY <1>10 DEF LoadReadFlag, TypeOK, Lag
    <2>3. Flags'
      BY <1>10 DEF LoadReadFlag, TypeOK, Lag, Flags, WriterAt, msg
    <2>4. WriterAt'
      BY <1>10 DEF LoadReadFlag, TypeOK, WriterAt
    <2>5. ReaderAt'
      BY <1>10 DEF LoadReadFlag, TypeOK, WriterAt, ReaderAt
    <2>6. ReadsNextWhole'
      BY <1>10 DEF LoadReadFlag, TypeOK, ReadsNextWhole
    <2>7. QED
      BY <2>1, <2>2, <2>3, <2>4, <2>5, <2>6
  <1>11. ASSUME NEW r \in Reader, LoadWrittenFlag(r)
       PROVE  RingInv'
    <2>1. TypeOK'
      BY <1>11 DEF LoadWrittenFlag, TypeOK
    <2>2. Lag'
      BY <1>11 DEF LoadWrittenFlag, TypeOK, Lag
    <2>3. Flags'
      BY <1>11 DEF LoadWrittenFlag, TypeOK, Lag, Flags, WriterAt, msg
    <2>4. WriterAt'
      BY <1>11 DEF LoadWrittenFlag, TypeOK, WriterAt
    <2>5. ReaderAt'
      BY <1>11 DEF LoadWrittenFlag, TypeOK, WriterAt, ReaderAt
    <2>6. ReadsNextWhole'
      BY <1>11 DEF LoadWrittenFlag, TypeOK, ReadsNextWhole, Word
    <2>7. QED
      BY <2>1, <2>2, <2>3, <2>4, <2>5, <2>6
  <1>12. ASSUME NEW r \in Reader, Wait(r)
       PROVE  RingInv'
    BY <1>12 DEF Wait, TypeOK, Lag, Flags, WriterAt, ReaderAt, ReadsNextWhole, msg
  <1>13. ASSUME NEW r \in Reader, ReadTimeout(r)
       PROVE  RingInv'
    BY <1>13 DEF ReadTimeout, TypeOK, Lag, Flags, WriterAt, ReaderAt, ReadsNextWhole, msg
  <1>14. ASSUME NEW r \in Reader, CopyWord(r)
       PROVE  RingInv'
    <2>a. copied[r] + 1 \in Word /\ copied[r] + 1 \in 0..Words
      BY <1>14 DEF CopyWord, TypeOK, Word
    <2>1. TypeOK'
      BY <1>14, <2>a DEF CopyWord, TypeOK
    <2>2. Lag'
      BY <1>14 DEF CopyWord, TypeOK, Lag
    <2>3. Flags'
      BY <1>14 DEF CopyWord, TypeOK, Lag, Flags, WriterAt, msg
    <2>4. WriterAt'
      BY <1>14 DEF CopyWord, TypeOK, WriterAt
    <2>5. ReaderAt'
      BY <1>14 DEF CopyWord, TypeOK, WriterAt, ReaderAt
    <2>b. data[ridx[r]][copied[r] + 1] = delivered[r] + 1
      BY <1>14, <2>a, CopyMsg DEF CopyWord, TypeOK, Flags, ReaderAt
    <2>6. ReadsNextWhole'
      <3> SUFFICES ASSUME NEW q \in Reader, NEW k \in Word, rpc[q] = "copy", k <= copied'[q]
                   PROVE  got'[q][k] = delivered[q] + 1
        BY <1>14 DEF CopyWord, ReadsNextWhole
      <3>0. copied[r] \in Int /\ copied[q] \in Int /\ k \in Int
        BY DEF TypeOK, Word
      <3>1. CASE q # r \/ k # copied[r] + 1
        <4>1. got'[q][k] = got[q][k]
          BY <1>14, <2>a, <3>1 DEF CopyWord, TypeOK
        <4>2. copied'[q] = IF q = r THEN copied[r] + 1 ELSE copied[q]
          BY <1>14 DEF CopyWord, TypeOK
        <4>3. k <= copied[q]
          BY <3>0, <3>1, <4>2
        <4>4. QED
          BY <4>1, <4>3 DEF ReadsNextWhole
      <3>2. CASE q = r /\ k = copied[r] + 1
        BY <1>14, <2>a, <2>b, <3>2 DEF CopyWord, TypeOK
      <3>3. QED
        BY <3>1, <3>2
    <2>7. QED
      BY <2>1, <2>2, <2>3, <2>4, <2>5, <2>6
  <1>15. ASSUME NEW r \in Reader, ReadFails(r)
       PROVE  RingInv'
    BY <1>15 DEF ReadFails, TypeOK, Lag, Flags, WriterAt, ReaderAt, ReadsNextWhole, msg
  <1>16. ASSUME NEW r \in Reader, MarkRead(r)
       PROVE  RingInv'
    <2>1. TypeOK'
      BY <1>16, NextIdx DEF MarkRead, TypeOK
    <2>a. msg(ridx[r]) = delivered[r] + 1 /\ delivered[r] + 1 <= sent
      BY <1>16, CopyMsg DEF MarkRead
    <2>2. Lag'
      <3> SUFFICES ASSUME NEW q \in Reader
                   PROVE  /\ 0 <= sent - delivered'[q] /\ sent - delivered'[q] <= max_chunks
                          /\ \/ sent - delivered'[q] = widx - ridx'[q]
                             \/ sent - delivered'[q] = widx - ridx'[q] + max_chunks
        BY <1>16 DEF MarkRead, Lag
      <3>1. CASE q # r
        BY <1>16, <3>1 DEF MarkRead, TypeOK, Lag
      <3>2. CASE q = r
        <4>1. /\ ridx[r] \in Chunk /\ ridx[r] \in Int /\ widx \in Int /\ sent \in Int
              /\ 0 <= widx /\ widx < max_chunks /\ delivered[r] \in Int
              /\ ridx'[r] = IF ridx[r] = max_chunks - 1 THEN 0 ELSE ridx[r] + 1
              /\ delivered'[r] = delivered[r] + 1
          <5>1. /\ ridx[r] \in Chunk /\ ridx[r] \in Int /\ widx \in Int /\ sent \in Int
                /\ 0 <= widx /\ widx < max_chunks /\ delivered[r] \in Int
            BY DEF TypeOK, Chunk
          <5>2. ridx'[r] = next_idx(ridx[r]) /\ delivered'[r] = delivered[r] + 1
            BY <1>16 DEF MarkRead, TypeOK
          <5>3. QED
            BY <5>1, <5>2, NextIdx
        <4>2. /\ 0 <= sent - delivered[r] /\ sent - delivered[r] <= max_chunks
              /\ \/ sent - delivered[r] = widx - ridx[r]
                 \/ sent - delivered[r] = widx - ridx[r] + max_chunks
          BY DEF Lag
        <4>3. QED
          BY <2>a, <3>2, <4>1, <4>2
      <3>3. QED
        BY <3>1, <3>2
    <2>3. Flags'
      <3>1. \A c \in Chunk : msg(c)' = msg(c) /\ msg(c) \in Int
        BY <1>16 DEF MarkRead, TypeOK, msg, Chunk
      <3> SUFFICES ASSUME NEW c \in Chunk, NEW q \in Reader
                   PROVE  /\ written[c] = 1 =>
                               (read_flag'[c][q] = 1 <=> delivered'[q] >= msg(c))
                          /\ written[c] = 0 => delivered'[q] >= msg(c)
        BY <1>16, <3>1 DEF MarkRead, Flags
      <3>2. CASE q # r
        BY <1>16, <3>2 DEF MarkRead, TypeOK, Flags
      <3>3. CASE q = r /\ c = ridx[r]
        BY <1>16, <2>a, <3>1, <3>3 DEF MarkRead, TypeOK, Flags
      <3>4. CASE q = r /\ c # ridx[r]
        <4>1. msg(c) # delivered[r] + 1
          BY <2>a, <3>4 DEF msg, TypeOK, Chunk
        <4>2. /\ delivered[r] \in Int /\ delivered'[r] = delivered[r] + 1
              /\ read_flag'[c][r] = read_flag[c][r]
          BY <1>16, <3>4 DEF MarkRead, TypeOK
        <4>3. /\ written[c] = 1 => (read_flag[c][r] = 1 <=> delivered[r] >= msg(c))
              /\ written[c] = 0 => delivered[r] >= msg(c)
          BY DEF Flags
        <4>4. QED
          BY <3>1, <3>4, <4>1, <4>2, <4>3
      <3>5. QED
        BY <3>2, <3>3, <3>4
    <2>4. WriterAt'
      BY <1>16 DEF MarkRead, TypeOK, WriterAt, ReaderAt
    <2>5. ReaderAt'
      BY <1>16, NextIdx DEF MarkRead, TypeOK, WriterAt, ReaderAt, Flags
    <2>6. ReadsNextWhole'
      BY <1>16, NextIdx DEF MarkRead, TypeOK, ReadsNextWhole
    <2>7. QED
      BY <2>1, <2>2, <2>3, <2>4, <2>5, <2>6
  <1>17. CASE UNCHANGED vars
    BY <1>17 DEF vars, TypeOK, Lag, Flags, WriterAt, ReaderAt, ReadsNextWhole, msg
  <1>18. QED
    BY <1>1, <1>2, <1>3, <1>4, <1>5, <1>6, <1>7, <1>8, <1>9, <1>10, <1>11, <1>12, <1>13, <1>14, <1>15, <1>16, <1>17 DEF Next, Writer, Read

(* The indices and flags of the ring stay consistent with the messages.     *)
THEOREM RingConsistent == Spec => []RingInv
  BY InitInv, StepInv, PTL DEF Spec

(* Every word a reader copies out of a chunk belongs to its next message    *)
(* (acquire_read, acquire_write), for any number of readers and chunks.     *)
THEOREM ReadsAreWhole == Spec => []ReadsNextWhole
  <1>1. RingInv => ReadsNextWhole
    BY DEF RingInv
  <1>2. QED
    BY <1>1, RingConsistent, PTL

(* The ring implements the broadcast queue: every reader gets every message *)
(* once and in order, and the writer never overwrites an unread one.        *)
THEOREM Implements == Spec => ImplementsBroadcast
  <1>1. Init => Abstract!AInit
    BY DEF Init, Abstract!AInit
  <1>2. RingInv /\ [Next]_vars => [Abstract!ANext]_(Abstract!avars)
    <2> SUFFICES ASSUME RingInv, [Next]_vars
                 PROVE  [Abstract!ANext]_(Abstract!avars)
      OBVIOUS
    <2> USE RingAssumption DEF mem, wvars, rvars, Abstract!avars
    <2>publish. CASE Publish
      <3>1. \A r \in Reader : sent - delivered[r] < max_chunks
        <4>1. /\ widx \in Chunk /\ written[widx] = 0 /\ sent \in Int /\ widx \in Int
              /\ delivered \in [Reader -> Nat]
          BY <2>publish DEF Publish, RingInv, TypeOK, WriterAt, Chunk
        <4>2. \A r \in Reader : delivered[r] >= sent + 1 - max_chunks
          BY <4>1 DEF RingInv, Flags, msg
        <4>3. QED
          BY <4>1, <4>2
      <3>2. QED
        BY <2>publish, <3>1 DEF Publish, RingInv, WriterAt, Abstract!ANext, Abstract!Send
    <2>mark. ASSUME NEW r \in Reader, MarkRead(r)
          PROVE  Abstract!Deliver(r)
      <3>1. delivered[r] + 1 <= sent /\ delivered[r] \in Int /\ sent \in Int
        BY <2>mark, CopyMsg DEF MarkRead, RingInv, TypeOK
      <3>2. QED
        BY <2>mark, <3>1 DEF MarkRead, Abstract!Deliver
    <2>write. CASE StartWrite \/ AcquireWrite \/ WriteTimeout \/ WriteWord \/ WriteFails
                 \/ EndCopy \/ ClearReadFlag
      BY <2>write DEF StartWrite, AcquireWrite, WriteTimeout, WriteWord, WriteFails,
                  EndCopy, ClearReadFlag
    <2>read. ASSUME NEW r \in Reader,
                 StartRead(r) \/ LoadReadFlag(r) \/ LoadWrittenFlag(r) \/ Wait(r)
                   \/ ReadTimeout(r) \/ CopyWord(r) \/ ReadFails(r)
          PROVE  UNCHANGED <<sent, delivered>>
      BY <2>read DEF StartRead, LoadReadFlag, LoadWrittenFlag, Wait, ReadTimeout,
                  CopyWord, ReadFails
    <2>stutter. CASE UNCHANGED vars
      BY <2>stutter DEF vars
    <2>all. QED
      BY <2>publish, <2>mark, <2>write, <2>read, <2>stutter DEF Next, Writer, Read, Abstract!ANext
  <1>3. QED
    BY <1>1, <1>2, InitInv, StepInv, PTL DEF Spec, ImplementsBroadcast, Abstract!ASpec
=============================================================================
