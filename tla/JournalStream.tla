--------------------------- MODULE JournalStream ---------------------------
(***************************************************************************)
(* A subscriber of a resumable stream: the module's journal, the           *)
(* best-effort fan-out of its rows (delivery.deliver_frame), one socket of *)
(* ResumableStreamConsumer at a time, and the client that reconnects and   *)
(* says hello with what it holds.                                          *)
(*                                                                         *)
(* The dispatcher handles one message at a time: while a hello awaits a    *)
(* hook of the module, live frames wait in the channel.  Only the writer   *)
(* runs meanwhile.  A value a hook read from the database is used when the *)
(* handler resumes; a commit between the two moves past the handler's      *)
(* step, which it shares no state with, so the hook and the code after it  *)
(* are one action.                                                         *)
(***************************************************************************)
EXTENDS SendQueue

CONSTANTS
  MAX_REPLAY,   \* realtime_settings.MAX_REPLAY
  MaxSeq,       \* bound: rows the module ever commits
  MaxChannel,   \* bound: journal events waiting in the socket's channel
  MaxHellos,    \* bound: hellos a client sends on one socket
  MaxDrops      \* bound: connections lost for no reason of the server's

ASSUME JournalAssumption ==
  /\ MAX_REPLAY \in Nat
  /\ MaxSeq \in Nat
  /\ MaxChannel \in Nat
  /\ MaxHellos \in Nat
  /\ MaxDrops \in Nat

VARIABLES
  head,        \* rows 1..head are committed
  unsent,      \* committed rows whose deliver_frame has not run yet
  channel,     \* rows fanned out to the socket and not yet dispatched
  connected,   \* the socket is open and in the group
  greeting,    \* the last_seq of a hello not yet dispatched, or -1
  handler,     \* "idle", or the hook on_hello awaits: "seq", "rows"
  lastSeq,     \* on_hello's last_seq
  serverSeq,   \* on_hello's server_seq
  clean,       \* history: the hello found _max_seq_sent <= last_seq
  maxSeqSent,  \* self._max_seq_sent
  hellos,      \* hellos the client sent on this socket
  have,        \* rows the client holds, over all its sockets
  received,    \* history: rows this socket delivered, in order
  mustHydrate, \* the client was told to resync
  drops        \* connections lost so far

helloVars == <<handler, lastSeq, serverSeq, clean, maxSeqSent>>
journalVars == <<head, unsent, channel>>
clientVars == <<greeting, hellos, have, received, mustHydrate, drops>>

vars == <<queueVars, helloVars, journalVars, clientVars, connected>>

Greatest(a, b) == IF a >= b THEN a ELSE b
Least(a, b) == IF a <= b THEN a ELSE b

(* An outbound frame: its type, the row of a journal frame or the up_to_seq *)
(* of a replay_done, and for the latter the history of its hello.          *)
Plain(type) == [type |-> type, seq |-> 0, clean |-> FALSE]
Row(type, n) == [type |-> type, seq |-> n, clean |-> FALSE]
Done(n, wasClean) == [type |-> "replay_done", seq |-> n, clean |-> wasClean]

IsRow(frame) == frame.type \in {"replay", "live"}

SocketInit ==
  /\ handler = "idle"
  /\ lastSeq = 0
  /\ serverSeq = 0
  /\ clean = FALSE
  /\ maxSeqSent = 0

Init ==
  /\ QueueInit
  /\ SocketInit
  /\ head = 0
  /\ unsent = {}
  /\ channel = <<>>
  /\ connected = FALSE
  /\ greeting = -1
  /\ hellos = 0
  /\ have = {}
  /\ received = <<>>
  /\ mustHydrate = FALSE
  /\ drops = 0

-----------------------------------------------------------------------------
(* The module and the channel layer.                                       *)

Commit ==
  /\ head < MaxSeq
  /\ head' = head + 1
  /\ unsent' = unsent \cup {head + 1}
  /\ UNCHANGED <<queueVars, helloVars, clientVars, channel, connected>>

(* deliver_frame runs on commit, in the worker that committed: two rows    *)
(* may be sent in either order.                                            *)
DeliverFrame ==
  /\ connected
  /\ Len(channel) < MaxChannel
  /\ \E n \in unsent :
       /\ channel' = Append(channel, n)
       /\ unsent' = unsent \ {n}
  /\ UNCHANGED <<queueVars, helloVars, clientVars, head, connected>>

(* _group_send failed, or there was nobody in the group.                   *)
FrameLost ==
  /\ \E n \in unsent : unsent' = unsent \ {n}
  /\ UNCHANGED <<queueVars, helloVars, clientVars, head, channel, connected>>

-----------------------------------------------------------------------------
(* The consumer.                                                           *)

(* connect() accepted: the group was joined first, so rows may reach the   *)
(* channel before the client's hello does.                                 *)
Connect ==
  /\ ~connected
  /\ ~mustHydrate
  /\ connected' = TRUE
  /\ writer' = "running"
  /\ received' = <<>>
  /\ UNCHANGED <<outbox, inFlight, closing, code, lastSent, gone, helloVars,
                 journalVars, greeting, hellos, have, mustHydrate,
                 drops>>

(* Mutant of RealtimeFrame: `<' for `<=' in the dedup by seq.              *)
RealtimeFrameRepeats ==
  /\ connected
  /\ handler = "idle"
  /\ channel # <<>>
  /\ channel' = Tail(channel)
  /\ LET n == Head(channel) IN
       IF n < maxSeqSent
         THEN UNCHANGED <<maxSeqSent, outbox, closing, code>>
         ELSE /\ maxSeqSent' = n
              /\ EnqueueAll(<<Row("live", n)>>)
  /\ UNCHANGED <<inFlight, writer, lastSent, gone, handler, lastSeq, serverSeq,
                 clean, head, unsent, clientVars, connected>>

(* realtime_frame(): a row at or below the cursor is not sent.             *)
RealtimeFrame ==
  /\ connected
  /\ handler = "idle"
  /\ channel # <<>>
  /\ channel' = Tail(channel)
  /\ LET n == Head(channel) IN
       IF n <= maxSeqSent
         THEN UNCHANGED <<maxSeqSent, outbox, closing, code>>
         ELSE /\ maxSeqSent' = n
              /\ EnqueueAll(<<Row("live", n)>>)
  /\ UNCHANGED <<inFlight, writer, lastSent, gone, handler, lastSeq, serverSeq,
                 clean, head, unsent, clientVars, connected>>

HelloStart ==
  /\ connected
  /\ handler = "idle"
  /\ greeting >= 0
  /\ lastSeq' = greeting
  /\ greeting' = -1
  /\ handler' = "seq"
  /\ UNCHANGED <<queueVars, serverSeq, clean, maxSeqSent, journalVars, hellos,
                 have, received, mustHydrate, drops, connected>>

(* Mutant of HelloServerSeq: the cursor advances to server_seq.            *)
HelloServerSeqJumps ==
  /\ connected
  /\ handler = "seq"
  /\ serverSeq' = head
  /\ clean' = (maxSeqSent <= lastSeq)
  /\ maxSeqSent' = Greatest(maxSeqSent, head)
  /\ IF head - lastSeq > MAX_REPLAY
       THEN /\ EnqueueAll(<<Plain("welcome"), Plain("resync")>>)
            /\ handler' = "idle"
       ELSE /\ EnqueueAll(<<Plain("welcome")>>)
            /\ handler' = "rows"
  /\ UNCHANGED <<inFlight, writer, lastSent, gone, lastSeq, journalVars,
                 clientVars, connected>>

(* Mutant of HelloServerSeq: a gap wider than the window is not announced. *)
HelloServerSeqSilent ==
  /\ connected
  /\ handler = "seq"
  /\ serverSeq' = head
  /\ clean' = (maxSeqSent <= lastSeq)
  /\ maxSeqSent' = Greatest(maxSeqSent, lastSeq)
  /\ EnqueueAll(<<Plain("welcome")>>)
  /\ handler' = IF head - lastSeq > MAX_REPLAY THEN "idle" ELSE "rows"
  /\ UNCHANGED <<inFlight, writer, lastSent, gone, lastSeq, journalVars,
                 clientVars, connected>>

(* Mutant of HelloServerSeq: the hello rewinds the cursor to last_seq.     *)
HelloServerSeqRewinds ==
  /\ connected
  /\ handler = "seq"
  /\ serverSeq' = head
  /\ clean' = (maxSeqSent <= lastSeq)
  /\ maxSeqSent' = lastSeq
  /\ IF head - lastSeq > MAX_REPLAY
       THEN /\ EnqueueAll(<<Plain("welcome"), Plain("resync")>>)
            /\ handler' = "idle"
       ELSE /\ EnqueueAll(<<Plain("welcome")>>)
            /\ handler' = "rows"
  /\ UNCHANGED <<inFlight, writer, lastSent, gone, lastSeq, journalVars,
                 clientVars, connected>>

(* get_server_seq() answered: welcome, advance the cursor, and either tell *)
(* the client to resync or ask for the rows.                               *)
HelloServerSeq ==
  /\ connected
  /\ handler = "seq"
  /\ serverSeq' = head
  /\ clean' = (maxSeqSent <= lastSeq)
  /\ maxSeqSent' = Greatest(maxSeqSent, lastSeq)
  /\ IF head - lastSeq > MAX_REPLAY
       THEN /\ EnqueueAll(<<Plain("welcome"), Plain("resync")>>)
            /\ handler' = "idle"
       ELSE /\ EnqueueAll(<<Plain("welcome")>>)
            /\ handler' = "rows"
  /\ UNCHANGED <<inFlight, writer, lastSent, gone, lastSeq, journalVars,
                 clientVars, connected>>

(* get_replay_rows(last_seq, limit) answered: at most MAX_REPLAY rows above *)
(* last_seq, ascending.  Those above the cursor are queued, then           *)
(* replay_done, all in one step.                                           *)
LastReplayed == Least(head, lastSeq + MAX_REPLAY)

ReplayFrames ==
  [i \in 1..Greatest(0, LastReplayed - maxSeqSent) |->
     Row("replay", maxSeqSent + i)]

HelloRows ==
  /\ connected
  /\ handler = "rows"
  /\ maxSeqSent' = Greatest(maxSeqSent, LastReplayed)
  /\ EnqueueAll(Append(ReplayFrames, Done(serverSeq, clean)))
  /\ handler' = "idle"
  /\ UNCHANGED <<inFlight, writer, lastSent, gone, lastSeq, serverSeq, clean,
                 journalVars, clientVars, connected>>

TakeFrame ==
  /\ WriterTake
  /\ UNCHANGED <<helloVars, journalVars, clientVars, connected>>

(* A frame that reaches the wire reaches the client.                       *)
SendFrame ==
  /\ WriterSend
  /\ IF OnWire /\ IsRow(inFlight)
       THEN /\ have' = have \cup {inFlight.seq}
            /\ received' = Append(received, inFlight.seq)
       ELSE UNCHANGED <<have, received>>
  /\ mustHydrate' = (mustHydrate \/ (OnWire /\ inFlight.type = "resync"))
  /\ UNCHANGED <<helloVars, journalVars, greeting, hellos, drops, connected>>

(* The end of a socket, whatever its cause, in one step (StreamSocket has  *)
(* the detail): its queue, channel and cursor go with it.                  *)
SocketEnds ==
  /\ connected
  /\ connected' = FALSE
  /\ outbox' = <<>>
  /\ inFlight' = NoFrame
  /\ writer' = "none"
  /\ closing' = FALSE
  /\ code' = NoCode
  /\ lastSent' = NoFrame
  /\ gone' = FALSE
  /\ handler' = "idle"
  /\ lastSeq' = 0
  /\ serverSeq' = 0
  /\ clean' = FALSE
  /\ maxSeqSent' = 0
  /\ channel' = <<>>
  /\ greeting' = -1
  /\ hellos' = 0
  /\ received' = <<>>
  /\ UNCHANGED <<head, unsent, have>>

-----------------------------------------------------------------------------
(* The client and the network.                                             *)

(* "I have everything up to last_seq."                                     *)
Holds(n) == 1..n \subseteq have

ClientHello ==
  /\ connected
  /\ greeting = -1
  /\ hellos < MaxHellos
  /\ hellos' = hellos + 1
  /\ ~mustHydrate
  /\ \E n \in 0..MaxSeq :
       /\ Holds(n)
       /\ ~Holds(n + 1)
       /\ greeting' = n
  /\ UNCHANGED <<queueVars, helloVars, journalVars, have, received,
                 mustHydrate, drops, connected>>

(* The consumer closed the socket, or a told-to-resync client does.        *)
Closed ==
  /\ code # NoCode \/ mustHydrate
  /\ SocketEnds
  /\ UNCHANGED <<mustHydrate, drops>>

(* The connection is lost: network, worker crash, a hook that raised.      *)
Drop ==
  /\ code = NoCode
  /\ drops < MaxDrops
  /\ drops' = drops + 1
  /\ SocketEnds
  /\ UNCHANGED mustHydrate

(* A client that is behind and whose socket has nothing more for it starts *)
(* over.                                                                   *)
Quiet == handler = "idle" /\ Unfinished = 0 /\ channel = <<>> /\ greeting = -1

Retry ==
  /\ code = NoCode
  /\ Quiet
  /\ hellos > 0
  /\ unsent = {}
  /\ have # 1..head
  /\ SocketEnds
  /\ UNCHANGED <<mustHydrate, drops>>

(* HTTP pagination reads the whole journal.                                *)
Hydrate ==
  /\ mustHydrate
  /\ ~connected
  /\ have' = have \cup 1..head
  /\ mustHydrate' = FALSE
  /\ UNCHANGED <<queueVars, helloVars, journalVars, greeting, hellos, received, drops,
                 connected>>

-----------------------------------------------------------------------------
Next ==
  \/ Commit
  \/ DeliverFrame
  \/ FrameLost
  \/ Connect
  \/ RealtimeFrame
  \/ HelloStart
  \/ HelloServerSeq
  \/ HelloRows
  \/ TakeFrame
  \/ SendFrame
  \/ ClientHello
  \/ Closed
  \/ Drop
  \/ Retry
  \/ Hydrate

Spec == Init /\ [][Next]_vars

(* Fairness for recovery: the module's commits are all fanned out or lost, *)
(* handlers and hooks return, the client reads what is written, says hello *)
(* on a new socket, and starts over while it is behind.  Connections drop  *)
(* at random only MaxDrops times.                                          *)
FairSpec ==
  /\ Spec
  /\ WF_vars(DeliverFrame \/ FrameLost)
  /\ WF_vars(Connect)
  /\ WF_vars(RealtimeFrame)
  /\ WF_vars(HelloStart)
  /\ WF_vars(HelloServerSeq)
  /\ WF_vars(HelloRows)
  /\ WF_vars(TakeFrame)
  /\ WF_vars(SendFrame)
  /\ WF_vars(ClientHello)
  /\ WF_vars(Closed)
  /\ WF_vars(Retry)
  /\ WF_vars(Hydrate)

-----------------------------------------------------------------------------
(* Properties                                                              *)

FrameTypes == {"welcome", "replay", "replay_done", "live", "resync"}
Frames == [type : FrameTypes, seq : Nat, clean : BOOLEAN]

ASSUME NoFrameAssumption == NoFrame \notin Frames

(* The type invariant.                                                     *)
TypeOK ==
  /\ outbox \in Seq(Frames)
  /\ Len(outbox) <= SEND_QUEUE_SIZE
  /\ inFlight \in Frames \cup {NoFrame}
  /\ writer \in {"none", "running"}
  /\ closing \in BOOLEAN
  /\ code \in {CLOSE_OVERFLOW, NoCode}
  /\ lastSent \in Frames \cup {NoFrame}
  /\ gone = FALSE
  /\ head \in 0..MaxSeq
  /\ unsent \subseteq 1..head
  /\ channel \in Seq(1..head)
  /\ connected \in BOOLEAN
  /\ greeting \in -1..MaxSeq
  /\ handler \in {"idle", "seq", "rows"}
  /\ lastSeq \in 0..MaxSeq
  /\ serverSeq \in 0..head
  /\ clean \in BOOLEAN
  /\ maxSeqSent \in Nat
  /\ hellos \in 0..MaxHellos
  /\ have \subseteq 1..head
  /\ received \in Seq(1..head)
  /\ mustHydrate \in BOOLEAN
  /\ drops \in 0..MaxDrops

(* One socket never delivers a row twice nor goes back: over any           *)
(* interleaving of replays, live frames in any order and repeated hellos,  *)
(* the rows it sends ascend strictly (send_frame's dedup by _max_seq_sent).*)
RowsAscend ==
  \A i, j \in 1..Len(received) : i < j => received[i] < received[j]

(* A hello that finds nothing above its last_seq sent on the socket is     *)
(* caught up when it is told so: once replay_done is on the wire the       *)
(* client holds every row up to up_to_seq, also when rows are committed    *)
(* between the two hooks and live frames wait behind the hello (on_hello). *)
CleanHelloCatchesUp ==
  (lastSent # NoFrame /\ lastSent.type = "replay_done" /\ lastSent.clean)
    => Holds(lastSent.seq)

(* The cursor is final: a row it has passed that is neither held nor on    *)
(* its way is not sent by this socket any more, whatever the client says   *)
(* in further hellos.  Only another socket, or a resync, brings it         *)
(* (send_frame and on_hello, _max_seq_sent).                               *)
OnItsWay(n) ==
  \/ inFlight # NoFrame /\ IsRow(inFlight) /\ inFlight.seq = n
  \/ \E i \in 1..Len(outbox) : IsRow(outbox[i]) /\ outbox[i].seq = n

Skipped(n) == connected /\ n <= maxSeqSent /\ n \notin have /\ ~OnItsWay(n)

SkippedStaysSkipped ==
  [][\A n \in 1..head : (Skipped(n) /\ connected') => Skipped(n)']_vars

(* Every committed row reaches the client in the end, through lost,        *)
(* reordered and duplicated live frames, drops, overflows and resyncs.     *)
EveryRowArrives == \A n \in 1..MaxSeq : head >= n ~> n \in have

-----------------------------------------------------------------------------
(* What the documentation says and the code does not do.                   *)

(* envelope.v1.json: replay_done is "Catch-up finished"; delivery.py: a    *)
(* subscriber that misses a live frame "replays the row by seq".           *)
ReplayDoneMeansCaughtUp ==
  (lastSent # NoFrame /\ lastSent.type = "replay_done")
    => Holds(lastSent.seq)
=============================================================================
