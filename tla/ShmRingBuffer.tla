---------------------------- MODULE ShmRingBuffer ----------------------------
(***************************************************************************)
(* The shared-memory ring of vllm/distributed/device_communicators/        *)
(* shm_broadcast.py: one writer in acquire_write, n_reader readers in      *)
(* acquire_read, no lock.  Every load or store of a metadata byte and      *)
(* every word of a chunk is a step of its own, so the processes interleave *)
(* between any two of them.  The memory fences of the code are taken to do *)
(* what their comments say: steps take effect in program order.            *)
(*                                                                         *)
(* A message is its number; a chunk is a few words, each holding the       *)
(* number of the message it was written for, so a torn read is visible.    *)
(***************************************************************************)
EXTENDS Integers

CONSTANTS
    n_reader,    \* local readers
    max_chunks,  \* chunks of the ring
    Words,       \* words of a chunk
    MaxMsg       \* bound on the number of messages

ASSUME RingAssumption ==
    /\ n_reader \in Nat \ {0} /\ max_chunks \in Nat \ {0}
    /\ Words \in Nat \ {0} /\ MaxMsg \in Nat

Reader == 0..(n_reader - 1)
Chunk  == 0..(max_chunks - 1)
Word   == 1..Words

VARIABLES
    written,    \* written[c]: byte 0 of the metadata of chunk c
    read_flag,  \* read_flag[c][r]: byte r + 1
    data,       \* data[c][k]: word k of chunk c
    wpc,        \* where the writer is
    widx,       \* the writer's current_idx
    wrote,      \* words the writer has copied
    cleared,    \* reader flags the writer has reset
    sent,       \* messages published so far
    rpc,        \* where each reader is
    ridx,       \* each reader's current_idx
    seen,       \* the read_flag each reader loaded
    got,        \* got[r][k]: words reader r has copied
    copied,     \* how many
    delivered   \* messages each reader has finished reading

wvars == <<wpc, widx, wrote, cleared, sent>>
rvars == <<rpc, ridx, seen, got, copied, delivered>>
mem   == <<written, read_flag, data>>
vars  == <<mem, wvars, rvars>>

(* ShmRingBuffer.__init__ zeroes the metadata; the chunks hold anything,    *)
(* here 0, which is no message.                                             *)
Init ==
    /\ written = [c \in Chunk |-> 0]
    /\ read_flag = [c \in Chunk |-> [r \in Reader |-> 0]]
    /\ data = [c \in Chunk |-> [k \in Word |-> 0]]
    /\ wpc = "idle" /\ widx = 0 /\ wrote = 0 /\ cleared = 0 /\ sent = 0
    /\ rpc = [r \in Reader |-> "idle"]
    /\ ridx = [r \in Reader |-> 0]
    /\ seen = [r \in Reader |-> 0]
    /\ got = [r \in Reader |-> [k \in Word |-> 0]]
    /\ copied = [r \in Reader |-> 0]
    /\ delivered = [r \in Reader |-> 0]

next_idx(i) == (i + 1) % max_chunks

-----------------------------------------------------------------------------
(********************************* The writer ********************************)
StartWrite ==
    /\ wpc = "idle" /\ sent < MaxMsg
    /\ wpc' = "poll"
    /\ UNCHANGED <<mem, widx, wrote, cleared, sent, rvars>>

(* The loads of the reader flags are one step: while the writer polls they  *)
(* only go from 0 to 1, so a sum taken flag by flag decides the same.       *)
(* Mutant of can_write: a chunk some reader has read is taken again.        *)
read_by_some(c) == written[c] = 0 \/ \E r \in Reader : read_flag[c][r] = 1

can_write(c) == written[c] = 0 \/ \A r \in Reader : read_flag[c][r] = 1

AcquireWrite ==
    /\ wpc = "poll" /\ can_write(widx)
    /\ written' = [written EXCEPT ![widx] = 0]
    /\ wpc' = "copy" /\ wrote' = 0
    /\ UNCHANGED <<read_flag, data, widx, cleared, sent, rvars>>

(* TimeoutError: nothing has been changed.                                  *)
WriteTimeout ==
    /\ wpc = "poll" /\ ~can_write(widx)
    /\ wpc' = "idle"
    /\ UNCHANGED <<mem, widx, wrote, cleared, sent, rvars>>

WriteWord ==
    /\ wpc = "copy" /\ wrote < Words
    /\ data' = [data EXCEPT ![widx][wrote + 1] = sent + 1]
    /\ wrote' = wrote + 1
    /\ UNCHANGED <<written, read_flag, wpc, widx, cleared, sent, rvars>>

(* An exception in the caller's block leaves the chunk unwritten.           *)
WriteFails ==
    /\ wpc = "copy"
    /\ wpc' = "idle"
    /\ UNCHANGED <<mem, widx, wrote, cleared, sent, rvars>>

EndCopy ==
    /\ wpc = "copy" /\ wrote = Words
    /\ wpc' = "clear" /\ cleared' = 0
    /\ UNCHANGED <<mem, widx, wrote, sent, rvars>>

ClearReadFlag ==
    /\ wpc = "clear" /\ cleared < n_reader
    /\ read_flag' = [read_flag EXCEPT ![widx][cleared] = 0]
    /\ cleared' = cleared + 1
    /\ UNCHANGED <<written, data, wpc, widx, wrote, sent, rvars>>

(* Mutant: the last reader flag is not reset (range off by one).            *)
PublishOneEarly ==
    /\ wpc = "clear" /\ cleared = n_reader - 1
    /\ written' = [written EXCEPT ![widx] = 1]
    /\ widx' = next_idx(widx) /\ sent' = sent + 1
    /\ wpc' = "idle"
    /\ UNCHANGED <<read_flag, data, wrote, cleared, rvars>>

Publish ==
    /\ wpc = "clear" /\ cleared = n_reader
    /\ written' = [written EXCEPT ![widx] = 1]
    /\ widx' = next_idx(widx) /\ sent' = sent + 1
    /\ wpc' = "idle"
    /\ UNCHANGED <<read_flag, data, wrote, cleared, rvars>>

Writer ==
    \/ StartWrite \/ AcquireWrite \/ WriteTimeout \/ WriteWord \/ WriteFails
    \/ EndCopy \/ ClearReadFlag \/ Publish

-----------------------------------------------------------------------------
(********************************* A reader **********************************)
StartRead(r) ==
    /\ rpc[r] = "idle"
    /\ rpc' = [rpc EXCEPT ![r] = "flag"]
    /\ UNCHANGED <<mem, wvars, ridx, seen, got, copied, delivered>>

(* The reader's own flag is loaded first, the written flag second.          *)
LoadReadFlag(r) ==
    /\ rpc[r] = "flag"
    /\ seen' = [seen EXCEPT ![r] = read_flag[ridx[r]][r]]
    /\ rpc' = [rpc EXCEPT ![r] = "written"]
    /\ UNCHANGED <<mem, wvars, ridx, got, copied, delivered>>

LoadWrittenFlag(r) ==
    /\ rpc[r] = "written"
    /\ rpc' = [rpc EXCEPT ![r] =
                 IF written[ridx[r]] = 0 \/ seen[r] = 1 THEN "wait" ELSE "copy"]
    /\ copied' = [copied EXCEPT ![r] = 0]
    /\ UNCHANGED <<mem, wvars, ridx, seen, got, delivered>>

Wait(r) ==
    /\ rpc[r] = "wait"
    /\ rpc' = [rpc EXCEPT ![r] = "flag"]
    /\ UNCHANGED <<mem, wvars, ridx, seen, got, copied, delivered>>

(* TimeoutError, or RuntimeError("cancelled") after shutdown.               *)
ReadTimeout(r) ==
    /\ rpc[r] = "wait"
    /\ rpc' = [rpc EXCEPT ![r] = "idle"]
    /\ UNCHANGED <<mem, wvars, ridx, seen, got, copied, delivered>>

CopyWord(r) ==
    /\ rpc[r] = "copy" /\ copied[r] < Words
    /\ got' = [got EXCEPT ![r][copied[r] + 1] = data[ridx[r]][copied[r] + 1]]
    /\ copied' = [copied EXCEPT ![r] = @ + 1]
    /\ UNCHANGED <<mem, wvars, rpc, ridx, seen, delivered>>

(* An exception in the caller's block (unpickling): the message stays.      *)
ReadFails(r) ==
    /\ rpc[r] = "copy"
    /\ rpc' = [rpc EXCEPT ![r] = "idle"]
    /\ UNCHANGED <<mem, wvars, ridx, seen, got, copied, delivered>>

(* Mutant: the flag is set before the chunk has been copied.                *)
MarkReadEarly(r) ==
    /\ rpc[r] = "copy" /\ copied[r] = 0 /\ read_flag[ridx[r]][r] = 0
    /\ read_flag' = [read_flag EXCEPT ![ridx[r]][r] = 1]
    /\ UNCHANGED <<written, data, wvars, rvars>>

MarkRead(r) ==
    /\ rpc[r] = "copy" /\ copied[r] = Words
    /\ read_flag' = [read_flag EXCEPT ![ridx[r]][r] = 1]
    /\ ridx' = [ridx EXCEPT ![r] = next_idx(@)]
    /\ delivered' = [delivered EXCEPT ![r] = @ + 1]
    /\ rpc' = [rpc EXCEPT ![r] = "idle"]
    /\ UNCHANGED <<written, data, wvars, seen, got, copied>>

Read(r) ==
    \/ StartRead(r) \/ LoadReadFlag(r) \/ LoadWrittenFlag(r) \/ Wait(r)
    \/ ReadTimeout(r) \/ CopyWord(r) \/ ReadFails(r) \/ MarkRead(r)

Next == Writer \/ \E r \in Reader : Read(r)

Spec == Init /\ [][Next]_vars

-----------------------------------------------------------------------------
(******************************** Properties ********************************)
(* Shapes of the state.                                                     *)
TypeOK ==
    /\ written \in [Chunk -> {0, 1}]
    /\ read_flag \in [Chunk -> [Reader -> {0, 1}]]
    /\ data \in [Chunk -> [Word -> Nat]]
    /\ wpc \in {"idle", "poll", "copy", "clear"}
    /\ widx \in Chunk /\ wrote \in 0..Words /\ cleared \in 0..n_reader
    /\ sent \in Nat
    /\ rpc \in [Reader -> {"idle", "flag", "written", "wait", "copy"}]
    /\ ridx \in [Reader -> Chunk]
    /\ seen \in [Reader -> {0, 1}]
    /\ got \in [Reader -> [Word -> Nat]]
    /\ copied \in [Reader -> 0..Words]
    /\ delivered \in [Reader -> Nat]

(* What a reader copies out of acquire_read belongs, word for word, to the  *)
(* message after the last one it finished: no message is torn, skipped,     *)
(* read twice or read out of order, however writer and readers interleave   *)
(* and whatever times out or fails on the way.                              *)
ReadsNextWhole ==
    \A r \in Reader : \A k \in Word :
      rpc[r] = "copy" /\ k <= copied[r] => got[r][k] = delivered[r] + 1

(* The ring implements the broadcast queue: in particular no message is     *)
(* published over one that some reader has not finished.                    *)
Abstract == INSTANCE BroadcastQueue WITH published <- sent, finished <- delivered
ImplementsBroadcast == Abstract!ASpec

(* The message last published in chunk c; not positive: none yet.           *)
msg(c) == (sent - widx) + c + 1 - (IF c < widx THEN 0 ELSE max_chunks)

(* How far a reader is behind, and that both indices agree with it.         *)
Lag ==
    \A r \in Reader :
      /\ 0 <= sent - delivered[r] /\ sent - delivered[r] <= max_chunks
      /\ \/ sent - delivered[r] = widx - ridx[r]
         \/ sent - delivered[r] = widx - ridx[r] + max_chunks

(* What the flags of a chunk say about its message.                         *)
Flags ==
    \A c \in Chunk :
      /\ c # widx => (written[c] = 1 <=> msg(c) >= 1)
      /\ written[c] = 1 =>
           /\ msg(c) >= 1
           /\ \A k \in Word : data[c][k] = msg(c)
           /\ \A r \in Reader : read_flag[c][r] = 1 <=> delivered[r] >= msg(c)
      /\ written[c] = 0 => \A r \in Reader : delivered[r] >= msg(c)

(* What the writer has done to its chunk so far.                            *)
WriterAt ==
    /\ wpc # "idle" => sent < MaxMsg
    /\ wpc \in {"copy", "clear"} => written[widx] = 0
    /\ wpc = "copy" => \A k \in Word : k <= wrote => data[widx][k] = sent + 1
    /\ wpc = "clear" => \A k \in Word : data[widx][k] = sent + 1
    /\ wpc = "clear" => \A r \in Reader : r < cleared => read_flag[widx][r] = 0

(* What a reader knows of its chunk.                                        *)
ReaderAt ==
    \A r \in Reader :
      /\ rpc[r] = "written" /\ seen[r] = 0 => read_flag[ridx[r]][r] = 0
      /\ rpc[r] = "copy" => written[ridx[r]] = 1 /\ read_flag[ridx[r]][r] = 0

(* The inductive invariant behind the proofs: flags, indices and message    *)
(* counts describe the same ring.                                           *)
RingInv == TypeOK /\ Lag /\ Flags /\ WriterAt /\ ReaderAt /\ ReadsNextWhole
=============================================================================
