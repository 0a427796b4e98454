---------------------------- MODULE MessageQueue ----------------------------
(***************************************************************************)
(* enqueue and dequeue of shm_broadcast.py: the ring of module             *)
(* ShmRingBuffer, the socket that carries messages too large for a chunk,  *)
(* and the SpinCondition on which an idle reader sleeps until the writer   *)
(* notifies it or its own process shuts the queue down.                    *)
(*                                                                         *)
(* External: the zmq sockets.  The overflow socket delivers to every       *)
(* reader in order; the notification socket keeps at most one message per  *)
(* reader (CONFLATE, SNDHWM 1), so a pending notification is a flag.       *)
(***************************************************************************)
EXTENDS ShmRingBuffer, Sequences

CONSTANT FaultSets   \* the sets of faults to consider

ASSUME QueueAssumption == FaultSets \subseteq SUBSET {"timeout", "failure", "crash"}

VARIABLES
    faults,         \* which faults may happen, chosen once
    overflow,       \* overflow[c]: byte 0 of chunk c
    alive,          \* the writer's process runs
    wtail,          \* what enqueue has left to do after the chunk
    sock,           \* sock[r]: payloads on their way to reader r
    notified,       \* notified[r]: a notification is pending
    polling,        \* polling[r]: reader r sleeps in poll
    rtail,          \* rtail[r]: reader r waits for a payload
    returned,       \* returned[r]: the message dequeue returned last
    shutting_down   \* shutting_down[r]

Timeouts == "timeout" \in faults   \* enqueue and dequeue are called with a timeout
Failures == "failure" \in faults   \* the caller's block may raise
Crashes == "crash" \in faults      \* the writer's process may die

qvars == <<faults, overflow, alive, wtail, sock, notified, polling, rtail, returned, shutting_down>>
allvars == <<vars, qvars>>

QInit ==
    /\ Init
    /\ faults \in FaultSets
    /\ overflow = [c \in Chunk |-> FALSE]
    /\ alive = TRUE
    /\ wtail = "none"
    /\ sock = [r \in Reader |-> <<>>]
    /\ notified = [r \in Reader |-> FALSE]
    /\ polling = [r \in Reader |-> FALSE]
    /\ rtail = [r \in Reader |-> "none"]
    /\ returned = [r \in Reader |-> 0]
    /\ shutting_down = [r \in Reader |-> FALSE]

-----------------------------------------------------------------------------
(********************************** enqueue **********************************)
Enqueue ==
    /\ wtail = "none"
    /\ StartWrite
    /\ UNCHANGED qvars

(* The size of the message decides where its payload goes.                  *)
Fill ==
    /\ AcquireWrite
    /\ \E large \in BOOLEAN : overflow' = [overflow EXCEPT ![widx] = large]
    /\ UNCHANGED <<faults, alive, wtail, sock, notified, polling, rtail, returned, shutting_down>>

EnqueueStep ==
    /\ \/ Timeouts /\ WriteTimeout
       \/ Failures /\ WriteFails
       \/ WriteWord \/ EndCopy \/ ClearReadFlag
    /\ UNCHANGED qvars

EnqueuePublish ==
    /\ Publish
    /\ wtail' = IF overflow[widx] THEN "send" ELSE "notify"
    /\ UNCHANGED <<faults, overflow, alive, sock, notified, polling, rtail, returned, shutting_down>>

SendPayload ==
    /\ wtail = "send"
    /\ sock' = [r \in Reader |-> Append(sock[r], sent)]
    /\ wtail' = "notify"
    /\ UNCHANGED <<faults, vars, overflow, alive, notified, polling, rtail, returned, shutting_down>>

(* Mutant: the notification is forgotten.                                   *)
NotifyDropped ==
    /\ wtail = "notify"
    /\ wtail' = "none"
    /\ UNCHANGED <<faults, vars, overflow, alive, sock, notified, polling, rtail, returned, shutting_down>>

Notify ==
    /\ wtail = "notify"
    /\ notified' = [r \in Reader |-> TRUE]
    /\ wtail' = "none"
    /\ UNCHANGED <<faults, vars, overflow, alive, sock, polling, rtail, returned, shutting_down>>

-----------------------------------------------------------------------------
(********************************** dequeue **********************************)
Dequeue(r) ==
    /\ rtail[r] = "none" /\ ~shutting_down[r]
    /\ StartRead(r)
    /\ UNCHANGED qvars

DequeueStep(r) ==
    /\ \/ LoadReadFlag(r) \/ LoadWrittenFlag(r) \/ CopyWord(r)
       \/ Failures /\ ReadFails(r)
       \/ Timeouts /\ ~polling[r] /\ ReadTimeout(r)
    /\ UNCHANGED qvars

(* SpinCondition.wait returns at once while reads are frequent.             *)
Spin(r) ==
    /\ ~polling[r]
    /\ IF shutting_down[r] THEN ReadTimeout(r) ELSE Wait(r)
    /\ UNCHANGED qvars

GoIdle(r) ==
    /\ rpc[r] = "wait" /\ ~polling[r]
    /\ polling' = [polling EXCEPT ![r] = TRUE]
    /\ UNCHANGED <<faults, vars, overflow, alive, wtail, sock, notified, rtail, returned, shutting_down>>

(* Mutant: the cancellation socket is not registered with the poller.       *)
WakeIfNotified(r) ==
    /\ polling[r]
    /\ notified[r] \/ Timeouts
    /\ polling' = [polling EXCEPT ![r] = FALSE]
    /\ notified' = [notified EXCEPT ![r] = FALSE]
    /\ IF shutting_down[r] THEN ReadTimeout(r) ELSE Wait(r)
    /\ UNCHANGED <<faults, overflow, alive, wtail, sock, rtail, returned, shutting_down>>

(* poll returns for a cancellation, else for a notification, which is       *)
(* consumed, else when its timeout is over.  A cancelled read raises.       *)
Wake(r) ==
    /\ polling[r]
    /\ shutting_down[r] \/ notified[r] \/ Timeouts
    /\ polling' = [polling EXCEPT ![r] = FALSE]
    /\ notified' = [notified EXCEPT ![r] = @ /\ shutting_down[r]]
    /\ IF shutting_down[r] THEN ReadTimeout(r) ELSE Wait(r)
    /\ UNCHANGED <<faults, overflow, alive, wtail, sock, rtail, returned, shutting_down>>

(* The chunk is given back; a small message is complete with it.            *)
DequeueMark(r) ==
    /\ MarkRead(r)
    /\ IF overflow[ridx[r]]
       THEN rtail' = [rtail EXCEPT ![r] = "recv"] /\ UNCHANGED returned
       ELSE returned' = [returned EXCEPT ![r] = got[r][1]] /\ UNCHANGED rtail
    /\ UNCHANGED <<faults, overflow, alive, wtail, sock, notified, polling, shutting_down>>

(* Mutant: the payload is looked at but not taken.                          *)
RecvKeeping(r) ==
    /\ rtail[r] = "recv" /\ sock[r] # <<>>
    /\ returned' = [returned EXCEPT ![r] = Head(sock[r])]
    /\ rtail' = [rtail EXCEPT ![r] = "none"]
    /\ UNCHANGED <<faults, vars, overflow, alive, wtail, sock, notified, polling, shutting_down>>

Recv(r) ==
    /\ rtail[r] = "recv" /\ sock[r] # <<>>
    /\ returned' = [returned EXCEPT ![r] = Head(sock[r])]
    /\ sock' = [sock EXCEPT ![r] = Tail(@)]
    /\ rtail' = [rtail EXCEPT ![r] = "none"]
    /\ UNCHANGED <<faults, vars, overflow, alive, wtail, notified, polling, shutting_down>>

(* TimeoutError after the chunk has been given back.                        *)
RecvTimeout(r) ==
    /\ Timeouts
    /\ rtail[r] = "recv" /\ sock[r] = <<>>
    /\ rtail' = [rtail EXCEPT ![r] = "none"]
    /\ UNCHANGED <<faults, vars, overflow, alive, wtail, sock, notified, polling, returned, shutting_down>>

(* shutdown, called by a monitor thread of the reader's process.            *)
Shutdown(r) ==
    /\ ~shutting_down[r]
    /\ shutting_down' = [shutting_down EXCEPT ![r] = TRUE]
    /\ UNCHANGED <<faults, vars, overflow, alive, wtail, sock, notified, polling, rtail, returned>>

-----------------------------------------------------------------------------
(* The writer's process dies between any two steps.                         *)
WriterDies ==
    /\ Crashes /\ alive
    /\ alive' = FALSE
    /\ UNCHANGED <<faults, vars, overflow, wtail, sock, notified, polling, rtail, returned, shutting_down>>

WriterStep ==
    alive /\ (Enqueue \/ Fill \/ EnqueueStep \/ EnqueuePublish \/ SendPayload \/ Notify)

ReaderStep(r) ==
    \/ Dequeue(r) \/ DequeueStep(r) \/ Spin(r) \/ GoIdle(r) \/ Wake(r)
    \/ DequeueMark(r) \/ Recv(r) \/ RecvTimeout(r)

QNext == WriterStep \/ WriterDies \/ \E r \in Reader : ReaderStep(r) \/ Shutdown(r)

(* Writer and readers are running processes; nothing forces a shutdown, a   *)
(* message or a failure to happen.                                          *)
Fairness ==
    /\ WF_allvars(WriterStep)
    /\ \A r \in Reader : WF_allvars(ReaderStep(r))

QSpec == QInit /\ [][QNext]_allvars /\ Fairness

-----------------------------------------------------------------------------
(******************************** Properties ********************************)
(* dequeue returns the message whose chunk it has just consumed, whether it *)
(* came through the ring or through the socket.  A dequeue that times out   *)
(* between the two leaves them out of step, so this needs calls without a   *)
(* timeout.                                                                 *)
DequeueReturnsNext ==
    [][~Timeouts => \A r \in Reader :
         returned'[r] # returned[r] => returned'[r] = delivered'[r]]_allvars

(* The overflow socket never holds more than the ring could announce, far   *)
(* below the high-water mark at which a PUB socket drops messages, as long  *)
(* as no dequeue times out and leaves its payload there.                    *)
BacklogBounded == ~Timeouts => \A r \in Reader : Len(sock[r]) <= max_chunks + 1

(* A message that was published reaches every reader that is not shut down, *)
(* even one that had gone idle: the notification cannot be missed.  (A      *)
(* reader that keeps timing out or raising, or that a dying writer did not  *)
(* notify, need not get it.)                                                *)
EveryoneGetsEverything ==
    \A r \in Reader : \A n \in 1..MaxMsg :
      (faults = {} /\ sent >= n) ~> (delivered[r] >= n \/ shutting_down[r])

(* A reader that is shut down leaves dequeue, wherever it waits: this is    *)
(* how a worker ends.  A reader that waits for a payload is not woken, so   *)
(* the writer must live to send it.                                         *)
ShutdownEndsDequeue ==
    \A r \in Reader : (shutting_down[r] /\ ~Crashes) ~> (rpc[r] = "idle" /\ rtail[r] = "none")
=============================================================================
