----------------------------- MODULE SendQueue -----------------------------
(***************************************************************************)
(* The outbound half of a socket: the bounded asyncio queue every frame    *)
(* goes through, the writer task that drains it, the `_closing' flag and   *)
(* the close the peer sees.  consumers.py, BaseStreamConsumer.             *)
(*                                                                         *)
(* The module is shared: StreamSocket (the substrate) and JournalStream    *)
(* (the resumable consumer) extend it with the tasks that produce frames.  *)
(* It does not look inside a frame.                                        *)
(*                                                                         *)
(* asyncio is cooperative: code between two awaits that suspend is one     *)
(* step.  `_enqueue' never suspends (put_nowait), so a run of calls of it  *)
(* in one handler is one step here (EnqueueAll) and the writer cannot      *)
(* take a frame in the middle.                                             *)
(***************************************************************************)
EXTENDS Integers, Sequences

CONSTANTS
  SEND_QUEUE_SIZE,   \* realtime_settings.SEND_QUEUE_SIZE
  NoFrame,           \* the writer has no frame in hand, or sent none yet
  NoCode             \* the peer has not been sent a close

ASSUME QueueAssumption ==
  /\ SEND_QUEUE_SIZE \in Nat \ {0}
  /\ NoCode \notin Nat

VARIABLES
  outbox,     \* self._outbox: frames put and not yet taken by the writer
  inFlight,   \* the frame _writer_loop took and is sending, or NoFrame
  writer,     \* self._writer_task: "none", "running", "stopped" or "failed"
  closing,    \* self._closing
  code,       \* the first close code the peer was sent, or NoCode
  lastSent,   \* the last frame that reached the wire, or NoFrame
  gone        \* the peer or the server ended the connection

queueVars == <<outbox, inFlight, writer, closing, code, lastSent, gone>>

QueueInit ==
  /\ outbox = <<>>
  /\ inFlight = NoFrame
  /\ writer = "none"
  /\ closing = FALSE
  /\ code = NoCode
  /\ lastSent = NoFrame
  /\ gone = FALSE

-----------------------------------------------------------------------------
(* What asyncio.Queue.join() waits for: task_done() has not been called.   *)
Unfinished == Len(outbox) + (IF inFlight = NoFrame THEN 0 ELSE 1)

(* self.close(code): the transport honours the first close of a live       *)
(* connection; a later one, or one after the peer left, reaches nobody.    *)
CloseCode(c) == IF code = NoCode /\ ~gone THEN c ELSE code

(* Consecutive _enqueue calls.  Once closing, a frame is dropped; the      *)
(* frame that finds the queue full closes the socket and is lost with all  *)
(* that follow it.                                                         *)
CLOSE_OVERFLOW == 4413

Room == SEND_QUEUE_SIZE - Len(outbox)

(* Mutant of EnqueueAll: the queue has no maxsize.                         *)
EnqueueAllUnbounded(frames) ==
  /\ outbox' = IF closing THEN outbox ELSE outbox \o frames
  /\ UNCHANGED <<closing, code>>

(* Mutant of EnqueueAll: an overflow sets _closing and forgets close().    *)
EnqueueAllWithoutClose(frames) ==
  /\ outbox' = IF closing THEN outbox
               ELSE outbox \o SubSeq(frames, 1, IF Len(frames) < Room THEN Len(frames) ELSE Room)
  /\ closing' = (closing \/ Len(frames) > Room)
  /\ UNCHANGED code

EnqueueAll(frames) ==
  \/ /\ closing
     /\ UNCHANGED <<outbox, closing, code>>
  \/ /\ ~closing
     /\ Len(frames) <= Room
     /\ outbox' = outbox \o frames
     /\ UNCHANGED <<closing, code>>
  \/ /\ ~closing
     /\ Len(frames) > Room
     /\ outbox' = outbox \o SubSeq(frames, 1, Room)
     /\ closing' = TRUE
     /\ code' = CloseCode(CLOSE_OVERFLOW)

(* Mutant of EnqueueThenClosing: _closing is set before the frame is queued. *)
ClosingThenEnqueue(frame) ==
  /\ closing' = TRUE
  /\ UNCHANGED <<outbox, code>>

(* A frame queued by _drain_then_close's caller just before closing is     *)
(* set: as EnqueueAll, except that closing holds afterwards either way.    *)
EnqueueThenClosing(frame) ==
  /\ closing' = TRUE
  /\ IF closing
       THEN UNCHANGED <<outbox, code>>
       ELSE IF Room > 0
         THEN outbox' = Append(outbox, frame) /\ UNCHANGED code
         ELSE UNCHANGED outbox /\ code' = CloseCode(CLOSE_OVERFLOW)

-----------------------------------------------------------------------------
(* _writer_loop: one frame at a time, taken, sent, then marked done.       *)
WriterTake ==
  /\ writer = "running"
  /\ inFlight = NoFrame
  /\ outbox # <<>>
  /\ inFlight' = Head(outbox)
  /\ outbox' = Tail(outbox)
  /\ UNCHANGED <<writer, closing, code, lastSent, gone>>

(* The send returns.  After a close, or once the peer left, the transport  *)
(* swallows the frame.                                                     *)
OnWire == code = NoCode /\ ~gone

WriterSend ==
  /\ writer = "running"
  /\ inFlight # NoFrame
  /\ lastSent' = IF OnWire THEN inFlight ELSE lastSent
  /\ inFlight' = NoFrame
  /\ UNCHANGED <<outbox, writer, closing, code, gone>>

(* The send raises, whether the peer is there or not: the frame is marked  *)
(* done and the loop returns, with whatever is still queued.               *)
WriterFails ==
  /\ writer = "running"
  /\ inFlight # NoFrame
  /\ inFlight' = NoFrame
  /\ writer' = "failed"
  /\ UNCHANGED <<outbox, closing, code, lastSent, gone>>

(* The connection ends: the peer left, or the server finished a close.     *)
(* The websocket.disconnect message it causes is queued behind every frame *)
(* already received.                                                       *)
PeerGone ==
  /\ ~gone
  /\ gone' = TRUE
  /\ UNCHANGED <<outbox, inFlight, writer, closing, code, lastSent>>

=============================================================================
