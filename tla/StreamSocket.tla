---------------------------- MODULE StreamSocket ----------------------------
(***************************************************************************)
(* The life of one socket under BaseStreamConsumer (consumers.py), with    *)
(* the EphemeralStreamConsumer's hello.                                    *)
(*                                                                         *)
(* Four tasks share the socket.  The dispatcher runs connect(), then one   *)
(* client frame or group event at a time, then disconnect(); a handler     *)
(* that awaits a verdict, a thread or the drain blocks the messages behind *)
(* it.  The writer is SendQueue's.  The heartbeat task sleeps, renews the  *)
(* presence lease in a thread, pings, waits, and closes.  The peer sends,  *)
(* stalls or leaves.  Each action runs from one suspending await to the    *)
(* next.  Time is abstract: a sleep or a timeout may end at any moment.    *)
(***************************************************************************)
EXTENDS SendQueue, FiniteSets

CONSTANTS
  ClientFrames,   \* what the peer sends, a subset of AllClientFrames
  GroupEvents,    \* what the group carries, a subset of AllGroupEvents
  MaxInbox,       \* bound: received frames not yet dispatched
  MaxEvents,      \* bound: group events not yet dispatched
  HEARTBEAT       \* HEARTBEAT_S > 0

(* "undecodable" is no JSON and "garbage" no envelope; "plain" is a ping   *)
(* or a frame of an unknown type, both answered with one frame.            *)
AllClientFrames == {"hello", "pong", "garbage", "plain", "undecodable"}

(* "ignored" is a signal without a frame or a revoke of somebody else.     *)
AllGroupEvents == {"signal", "ignored", "revoke"}

ASSUME SocketAssumption ==
  /\ ClientFrames \subseteq AllClientFrames
  /\ GroupEvents \subseteq AllGroupEvents
  /\ MaxInbox \in Nat
  /\ MaxEvents \in Nat
  /\ HEARTBEAT \in BOOLEAN

CLOSE_PROTOCOL_ERROR == 4400
CLOSE_UNAUTHENTICATED == 4401
CLOSE_FORBIDDEN == 4403
CLOSE_STREAM_UNKNOWN == 4404
CLOSE_HEARTBEAT_TIMEOUT == 4408
CLOSE_REVOKED == 4410
CLOSE_HANDLER_RAISED == 1011   \* the server's own, when the application dies

PROTOCOL_STRIKES == 3

(* What _drain_then_close's callers queue before they close.               *)
DrainCodes == {CLOSE_PROTOCOL_ERROR, CLOSE_FORBIDDEN, CLOSE_REVOKED}

Explanation ==
  [c \in DrainCodes |->
     CASE c = CLOSE_PROTOCOL_ERROR -> "error_bad_envelope"
       [] c = CLOSE_FORBIDDEN -> "error_unauthorized"
       [] c = CLOSE_REVOKED -> "kick"]

(* "plain" is any other frame: nothing depends on which.                   *)
ServerFrames == {"plain", "kick", "error_bad_envelope", "error_unauthorized"}

ASSUME NoFrameAssumption == NoFrame \notin ServerFrames

VARIABLES
  dispatcher,    \* where the handler in progress is suspended
  drainCode,     \* the code of the _drain_then_close in progress, or NoCode
  timedOut,      \* history: a drain gave up on a slow reader
  heartbeat,     \* where _heartbeat_loop is suspended
  pongPending,   \* self._pong_pending
  strikes,       \* self._protocol_strikes, saturating at PROTOCOL_STRIKES
  allowed,       \* the last verdict authorize() gave this socket
  accepted,      \* accept() was sent
  member,        \* the channel is in the stream's group
  session,       \* self._presence_session is set: disconnect() will uncount it
  tokenExpired,  \* the token's exp passed
  inbox,         \* client frames received and not dispatched
  events         \* group events received and not dispatched

handlerVars == <<dispatcher, drainCode, timedOut>>
heartbeatVars == <<heartbeat, pongPending>>
joinVars == <<accepted, member, session>>

vars == <<queueVars, handlerVars, heartbeatVars, strikes, allowed, joinVars,
          tokenExpired, inbox, events>>

Init ==
  /\ QueueInit
  /\ dispatcher = "connect"
  /\ drainCode = NoCode
  /\ timedOut = FALSE
  /\ heartbeat = "none"
  /\ pongPending = FALSE
  /\ strikes = 0
  /\ allowed = FALSE
  /\ accepted = FALSE
  /\ member = FALSE
  /\ session = FALSE
  /\ tokenExpired = FALSE
  /\ inbox = <<>>
  /\ events = <<>>

-----------------------------------------------------------------------------
(* connect()                                                               *)

(* No authenticated user, or no stream key for this URL.                   *)
ConnectRefuse ==
  /\ dispatcher = "connect"
  /\ \E c \in {CLOSE_UNAUTHENTICATED, CLOSE_STREAM_UNKNOWN} :
       code' = CloseCode(c)
  /\ dispatcher' = "idle"
  /\ UNCHANGED <<outbox, inFlight, writer, closing, lastSent, gone, drainCode,
                 timedOut, heartbeatVars, strikes, allowed, joinVars,
                 tokenExpired, inbox, events>>

(* Mutant of ConnectAsk: the group is joined before authorize() is asked.  *)
ConnectAskJoined ==
  /\ dispatcher = "connect"
  /\ dispatcher' = "authorizing"
  /\ member' = TRUE
  /\ UNCHANGED <<queueVars, drainCode, timedOut, heartbeatVars, strikes,
                 allowed, accepted, session, tokenExpired, inbox, events>>

ConnectAsk ==
  /\ dispatcher = "connect"
  /\ dispatcher' = "authorizing"
  /\ UNCHANGED <<queueVars, drainCode, timedOut, heartbeatVars, strikes,
                 allowed, joinVars, tokenExpired, inbox, events>>

(* authorize() answers; a cached verdict is never used here (force).       *)
ConnectVerdict ==
  /\ dispatcher = "authorizing"
  /\ \E verdict \in BOOLEAN :
       /\ allowed' = verdict
       /\ dispatcher' = IF verdict THEN "subscribing" ELSE "idle"
       /\ code' = IF verdict THEN code ELSE CloseCode(CLOSE_FORBIDDEN)
  /\ UNCHANGED <<outbox, inFlight, writer, closing, lastSent, gone, drainCode,
                 timedOut, heartbeatVars, strikes, joinVars, tokenExpired,
                 inbox, events>>

(* group_add returned; accept() is sent and the presence thread starts.    *)
ConnectSubscribe ==
  /\ dispatcher = "subscribing"
  /\ member' = TRUE
  /\ dispatcher' = "accepting"
  /\ UNCHANGED <<queueVars, drainCode, timedOut, heartbeatVars, strikes,
                 allowed, accepted, session, tokenExpired, inbox,
                 events>>

ConnectAccept ==
  /\ dispatcher = "accepting"
  /\ accepted' = TRUE
  /\ session' = TRUE
  /\ dispatcher' = "counting"
  /\ UNCHANGED <<queueVars, drainCode, timedOut, heartbeatVars, strikes,
                 allowed, member, tokenExpired, inbox, events>>

(* The presence thread returned (PresenceRegistry models what it wrote);   *)
(* the writer and the heartbeat task start.                                *)
ConnectOpen ==
  /\ dispatcher = "counting"
  /\ writer' = "running"
  /\ heartbeat' = IF HEARTBEAT THEN "sleeping" ELSE "none"
  /\ dispatcher' = "idle"
  /\ UNCHANGED <<outbox, inFlight, closing, code, lastSent, gone, drainCode,
                 timedOut, pongPending, strikes, allowed, accepted, member,
                 session, tokenExpired, inbox, events>>

-----------------------------------------------------------------------------
(* receive_json(): one client frame.                                       *)

TakesFrame(frame) ==
  /\ dispatcher = "idle"
  /\ inbox # <<>>
  /\ Head(inbox) = frame
  /\ inbox' = Tail(inbox)
  /\ UNCHANGED <<inFlight, writer, lastSent, gone, timedOut, heartbeat,
                 joinVars, tokenExpired, events>>

(* Queue `frame', set _closing and wait for the queue to drain.            *)
StartDrain(frame, c) ==
  /\ EnqueueThenClosing(frame)
  /\ dispatcher' = "draining"
  /\ drainCode' = c

Garbage ==
  /\ TakesFrame("garbage")
  /\ strikes' = IF strikes < PROTOCOL_STRIKES THEN strikes + 1 ELSE strikes
  /\ IF strikes' >= PROTOCOL_STRIKES
       THEN StartDrain("error_bad_envelope", CLOSE_PROTOCOL_ERROR)
       ELSE /\ EnqueueAll(<<"error_bad_envelope">>)
            /\ UNCHANGED <<dispatcher, drainCode>>
  /\ UNCHANGED <<pongPending, allowed>>

(* channels decodes the text before receive_json() sees it, and raises.    *)
Undecodable ==
  /\ TakesFrame("undecodable")
  /\ dispatcher' = "crashed"
  /\ code' = CloseCode(CLOSE_HANDLER_RAISED)
  /\ UNCHANGED <<outbox, closing, drainCode, pongPending, strikes, allowed>>

(* The last yes is younger than AUTHORIZE_CACHE_S (StreamAccess has the    *)
(* clock).                                                                 *)
HelloCached ==
  /\ TakesFrame("hello")
  /\ allowed
  /\ EnqueueAll(<<"plain">>)
  /\ UNCHANGED <<dispatcher, drainCode, pongPending, strikes, allowed>>

HelloAsk ==
  /\ TakesFrame("hello")
  /\ dispatcher' = "reauthorizing"
  /\ UNCHANGED <<outbox, closing, code, drainCode, pongPending, strikes,
                 allowed>>

(* on_ping(), and the answer to a type nobody handles.                     *)
Answered ==
  /\ TakesFrame("plain")
  /\ EnqueueAll(<<"plain">>)
  /\ UNCHANGED <<dispatcher, drainCode, pongPending, strikes, allowed>>

OnPong ==
  /\ TakesFrame("pong")
  /\ pongPending' = FALSE
  /\ UNCHANGED <<outbox, closing, code, dispatcher, drainCode, strikes,
                 allowed>>

(* Mutant of HelloVerdict: a refused hello is told so and stays open.      *)
HelloVerdictLenient ==
  /\ dispatcher = "reauthorizing"
  /\ \E verdict \in BOOLEAN :
       /\ allowed' = verdict
       /\ EnqueueAll(<<IF verdict THEN "plain" ELSE "error_unauthorized">>)
  /\ dispatcher' = "idle"
  /\ UNCHANGED <<inFlight, writer, lastSent, gone, drainCode, timedOut,
                 heartbeatVars, strikes, joinVars, tokenExpired, inbox, events>>

(* The verdict a hello waited for.                                         *)
HelloVerdict ==
  /\ dispatcher = "reauthorizing"
  /\ \E verdict \in BOOLEAN :
       /\ allowed' = verdict
       /\ IF verdict
            THEN /\ EnqueueAll(<<"plain">>)
                 /\ dispatcher' = "idle"
                 /\ UNCHANGED drainCode
            ELSE StartDrain("error_unauthorized", CLOSE_FORBIDDEN)
  /\ UNCHANGED <<inFlight, writer, lastSent, gone, timedOut, heartbeatVars,
                 strikes, joinVars, tokenExpired, inbox, events>>

-----------------------------------------------------------------------------
(* Group events.                                                           *)

TakesEvent(event) ==
  /\ dispatcher = "idle"
  /\ events # <<>>
  /\ Head(events) = event
  /\ events' = Tail(events)
  /\ UNCHANGED <<inFlight, writer, lastSent, gone, timedOut, heartbeatVars,
                 strikes, allowed, joinVars, tokenExpired, inbox>>

RealtimeSignal ==
  /\ TakesEvent("signal")
  /\ EnqueueAll(<<"plain">>)
  /\ UNCHANGED <<dispatcher, drainCode>>

(* realtime_signal() and realtime_revoke() return at once.                 *)
IgnoredEvent ==
  /\ TakesEvent("ignored")
  /\ UNCHANGED <<outbox, closing, code, dispatcher, drainCode>>

RealtimeRevoke ==
  /\ TakesEvent("revoke")
  /\ StartDrain("kick", CLOSE_REVOKED)

-----------------------------------------------------------------------------
(* _drain_then_close() after the wait: the queue drained, or one second    *)
(* went by.                                                                *)
DrainEnds ==
  /\ dispatcher = "draining"
  /\ code' = CloseCode(drainCode)
  /\ drainCode' = NoCode
  /\ dispatcher' = "idle"
  /\ UNCHANGED <<outbox, inFlight, writer, closing, lastSent, gone,
                 heartbeatVars, strikes, allowed, joinVars, tokenExpired,
                 inbox, events>>

Drained ==
  /\ DrainEnds
  /\ Unfinished = 0
  /\ UNCHANGED timedOut

(* Mutant of DrainTimeout: the queue's join() is awaited without a timeout. *)
DrainWithoutTimeout == FALSE

DrainTimeout ==
  /\ DrainEnds
  /\ Unfinished # 0
  /\ timedOut' = TRUE

(* get_stream_key(), the authorizer or the channel layer raises.  The      *)
(* exception leaves the consumer: the server closes, and nobody calls      *)
(* disconnect().                                                           *)
HandlerRaises ==
  /\ dispatcher \in {"connect", "authorizing", "subscribing", "reauthorizing",
                    "leaving"}
  /\ dispatcher' = "crashed"
  /\ code' = CloseCode(CLOSE_HANDLER_RAISED)
  /\ UNCHANGED <<outbox, inFlight, writer, closing, lastSent, gone, drainCode,
                 timedOut, heartbeatVars, strikes, allowed, joinVars,
                 tokenExpired, inbox, events>>

-----------------------------------------------------------------------------
(* Mutant of Disconnect: the heartbeat task is not cancelled.              *)
DisconnectKeepsHeartbeat ==
  /\ dispatcher = "idle"
  /\ gone
  /\ inbox = <<>>
  /\ closing' = TRUE
  /\ writer' = IF writer = "running" THEN "stopped" ELSE writer
  /\ inFlight' = NoFrame
  /\ session' = FALSE
  /\ dispatcher' = IF session THEN "uncounting" ELSE "leaving"
  /\ UNCHANGED <<outbox, code, lastSent, gone, drainCode, timedOut,
                 heartbeatVars, strikes, allowed, accepted, member,
                 tokenExpired, inbox, events>>

(* disconnect(), once the frames received before it are dispatched.        *)
Disconnect ==
  /\ dispatcher = "idle"
  /\ gone
  /\ inbox = <<>>
  /\ closing' = TRUE
  /\ writer' = IF writer = "running" THEN "stopped" ELSE writer
  /\ heartbeat' = IF heartbeat = "none" THEN "none" ELSE "done"
  /\ inFlight' = NoFrame
  /\ session' = FALSE
  /\ dispatcher' = IF session THEN "uncounting" ELSE "leaving"
  /\ UNCHANGED <<outbox, code, lastSent, gone, drainCode, timedOut,
                 pongPending, strikes, allowed, accepted, member,
                 tokenExpired, inbox, events>>

Uncount ==
  /\ dispatcher = "uncounting"
  /\ dispatcher' = "leaving"
  /\ UNCHANGED <<queueVars, drainCode, timedOut, heartbeatVars, strikes,
                 allowed, accepted, member, session, tokenExpired, inbox,
                 events>>

Leave ==
  /\ dispatcher = "leaving"
  /\ member' = FALSE
  /\ dispatcher' = "ended"
  /\ UNCHANGED <<queueVars, drainCode, timedOut, heartbeatVars, strikes,
                 allowed, accepted, session, tokenExpired, inbox,
                 events>>

-----------------------------------------------------------------------------
(* _heartbeat_loop()                                                       *)

(* Mutant of HeartbeatTick: the token's exp is not looked at.              *)
HeartbeatTickBlind ==
  /\ heartbeat = "sleeping"
  /\ heartbeat' = IF closing THEN "done" ELSE "renewing"
  /\ UNCHANGED <<queueVars, handlerVars, pongPending, strikes, allowed,
                 joinVars, tokenExpired, inbox, events>>

(* The sleep is over: stop, close an expired token, or start renewing.     *)
HeartbeatTick ==
  /\ heartbeat = "sleeping"
  /\ \/ /\ closing
        /\ heartbeat' = "done"
        /\ UNCHANGED <<closing, code>>
     \/ /\ ~closing
        /\ tokenExpired
        /\ closing' = TRUE
        /\ code' = CloseCode(CLOSE_UNAUTHENTICATED)
        /\ heartbeat' = "done"
     \/ /\ ~closing
        /\ ~tokenExpired
        /\ heartbeat' = "renewing"
        /\ UNCHANGED <<closing, code>>
  /\ UNCHANGED <<outbox, inFlight, writer, lastSent, gone, handlerVars,
                 pongPending, strikes, allowed, joinVars, tokenExpired, inbox,
                 events>>

(* The presence thread returned; arm the pong and ping.                    *)
HeartbeatPing ==
  /\ heartbeat = "renewing"
  /\ pongPending' = TRUE
  /\ EnqueueAll(<<"plain">>)
  /\ heartbeat' = "waiting"
  /\ UNCHANGED <<inFlight, writer, lastSent, gone, handlerVars, strikes,
                 allowed, accepted, member, session, tokenExpired, inbox,
                 events>>

(* Mutant of HeartbeatVerdict: the pong is never looked at.                *)
HeartbeatVerdictBlind ==
  /\ heartbeat = "waiting"
  /\ heartbeat' = "sleeping"
  /\ UNCHANGED <<queueVars, handlerVars, pongPending, strikes, allowed,
                 joinVars, tokenExpired, inbox, events>>

(* Mutant of HeartbeatVerdict: the loop closes a socket that is closing.   *)
HeartbeatVerdictHasty ==
  /\ heartbeat = "waiting"
  /\ IF pongPending
       THEN /\ closing' = TRUE
            /\ code' = CloseCode(CLOSE_HEARTBEAT_TIMEOUT)
            /\ heartbeat' = "done"
       ELSE /\ heartbeat' = "sleeping"
            /\ UNCHANGED <<closing, code>>
  /\ UNCHANGED <<outbox, inFlight, writer, lastSent, gone, handlerVars,
                 pongPending, strikes, allowed, joinVars, tokenExpired, inbox,
                 events>>

(* The pong's grace is over.                                               *)
HeartbeatVerdict ==
  /\ heartbeat = "waiting"
  /\ IF pongPending /\ ~closing
       THEN /\ closing' = TRUE
            /\ code' = CloseCode(CLOSE_HEARTBEAT_TIMEOUT)
            /\ heartbeat' = "done"
       ELSE /\ heartbeat' = "sleeping"
            /\ UNCHANGED <<closing, code>>
  /\ UNCHANGED <<outbox, inFlight, writer, lastSent, gone, handlerVars,
                 pongPending, strikes, allowed, joinVars, tokenExpired, inbox,
                 events>>

-----------------------------------------------------------------------------
(* The peer, the server, the group and the clocks.                         *)

PeerSends ==
  /\ accepted
  /\ ~gone
  /\ Len(inbox) < MaxInbox
  /\ \E frame \in ClientFrames : inbox' = Append(inbox, frame)
  /\ UNCHANGED <<queueVars, handlerVars, heartbeatVars, strikes, allowed,
                 joinVars, tokenExpired, events>>

ConnectionEnds ==
  /\ PeerGone
  /\ UNCHANGED <<handlerVars, heartbeatVars, strikes, allowed, joinVars,
                 tokenExpired, inbox, events>>

PeerLeaves == code = NoCode /\ ConnectionEnds
ServerEnds == code # NoCode /\ ConnectionEnds

GroupSends ==
  /\ member
  /\ Len(events) < MaxEvents
  /\ \E event \in GroupEvents : events' = Append(events, event)
  /\ UNCHANGED <<queueVars, handlerVars, heartbeatVars, strikes, allowed,
                 joinVars, tokenExpired, inbox>>

TokenExpires ==
  /\ ~tokenExpired
  /\ tokenExpired' = TRUE
  /\ UNCHANGED <<queueVars, handlerVars, heartbeatVars, strikes, allowed,
                 joinVars, inbox, events>>

-----------------------------------------------------------------------------
Connect ==
  \/ ConnectRefuse
  \/ ConnectAsk
  \/ ConnectVerdict
  \/ ConnectSubscribe
  \/ ConnectAccept
  \/ ConnectOpen

ReceiveJson ==
  \/ Undecodable
  \/ Garbage
  \/ Answered
  \/ HelloCached
  \/ HelloAsk
  \/ OnPong

GroupEvent ==
  \/ RealtimeSignal
  \/ IgnoredEvent
  \/ RealtimeRevoke

DrainOver == Drained \/ DrainTimeout

Heartbeat ==
  \/ HeartbeatTick
  \/ HeartbeatPing
  \/ HeartbeatVerdict

SendStep ==
  /\ WriterTake \/ WriterSend \/ WriterFails
  /\ UNCHANGED <<handlerVars, heartbeatVars, strikes, allowed, joinVars,
                 tokenExpired, inbox, events>>

Environment ==
  \/ PeerSends
  \/ PeerLeaves
  \/ ServerEnds
  \/ GroupSends
  \/ TokenExpires

Next ==
  \/ Connect
  \/ ReceiveJson
  \/ HelloVerdict
  \/ GroupEvent
  \/ DrainOver
  \/ HandlerRaises
  \/ Disconnect
  \/ Uncount
  \/ Leave
  \/ Heartbeat
  \/ SendStep
  \/ Environment

Spec == Init /\ [][Next]_vars

(* Fairness.  Timers fire (DrainOver, Heartbeat), threads and authorizers  *)
(* return or raise, the server tears a closed connection down.  The        *)
(* dispatch loop takes a message of every source that has one each time    *)
(* round, so neither source starves the other (strong fairness).  Nothing  *)
(* is assumed of the peer, and nothing of the writer: its send returns     *)
(* when the peer reads.                                                    *)
TimersFire == WF_vars(DrainOver) /\ WF_vars(Heartbeat)

HandlersReturn ==
  /\ WF_vars(Connect)
  /\ WF_vars(HelloVerdict \/ HandlerRaises)
  /\ WF_vars(Uncount)
  /\ WF_vars(Leave)

LoopIsFair == SF_vars(ReceiveJson) /\ SF_vars(GroupEvent) /\ SF_vars(Disconnect)

FairSpec ==
  Spec /\ TimersFire /\ HandlersReturn /\ LoopIsFair /\ WF_vars(ServerEnds)

-----------------------------------------------------------------------------
(* Properties                                                              *)

Stages == {"connect", "authorizing", "subscribing", "accepting", "counting",
           "idle", "reauthorizing", "draining", "uncounting", "leaving",
           "ended", "crashed"}

CloseCodes ==
  {CLOSE_PROTOCOL_ERROR, CLOSE_UNAUTHENTICATED, CLOSE_FORBIDDEN,
   CLOSE_STREAM_UNKNOWN, CLOSE_HEARTBEAT_TIMEOUT, CLOSE_REVOKED,
   CLOSE_OVERFLOW, CLOSE_HANDLER_RAISED}

(* The type invariant; the outbox never holds more than SEND_QUEUE_SIZE    *)
(* frames (_outbox, _enqueue).                                             *)
QueueTypeOK ==
  /\ outbox \in Seq(ServerFrames)
  /\ Len(outbox) <= SEND_QUEUE_SIZE
  /\ inFlight \in ServerFrames \cup {NoFrame}
  /\ writer \in {"none", "running", "stopped", "failed"}
  /\ closing \in BOOLEAN
  /\ code \in CloseCodes \cup {NoCode}
  /\ lastSent \in ServerFrames \cup {NoFrame}
  /\ gone \in BOOLEAN

TasksTypeOK ==
  /\ dispatcher \in Stages
  /\ drainCode \in DrainCodes \cup {NoCode}
  /\ timedOut \in BOOLEAN
  /\ heartbeat \in {"none", "sleeping", "renewing", "waiting", "done"}
  /\ pongPending \in BOOLEAN
  /\ strikes \in 0..PROTOCOL_STRIKES

SocketTypeOK ==
  /\ allowed \in BOOLEAN
  /\ accepted \in BOOLEAN
  /\ member \in BOOLEAN
  /\ session \in BOOLEAN
  /\ tokenExpired \in BOOLEAN
  /\ inbox \in Seq(AllClientFrames)
  /\ events \in Seq(AllGroupEvents)

TypeOK == QueueTypeOK /\ TasksTypeOK /\ SocketTypeOK

(* A peer closed 4400, 4403 or 4410 on an open socket has just read why:   *)
(* the frame queued by the handler that closes is the last one on the      *)
(* wire, whatever the heartbeat and the writer did meanwhile, unless the   *)
(* one-second drain gave up on a slow reader or a send raised, which marks *)
(* the frame done all the same (_drain_then_close and its three callers,   *)
(* _writer_loop).                                                          *)
DrainedCloseIsExplained ==
  (accepted /\ code \in DrainCodes /\ ~timedOut /\ writer # "failed")
    => lastSent = Explanation[code]

(* Nobody is left mute: of the five places that set _closing, in three     *)
(* tasks, each either closes at once or waits in a drain that will, so an  *)
(* open connection that silently drops what is sent to it (_enqueue) is    *)
(* one whose dispatcher is about to close it, with a code to close it by   *)
(* (_enqueue, _drain_then_close, _heartbeat_loop, disconnect).             *)
MuteSocketIsClosing ==
  (closing /\ code = NoCode /\ ~gone)
    => dispatcher = "draining" /\ drainCode \in DrainCodes

(* Fail-closed connect(): until authorize() says yes, and for ever if it   *)
(* says no, the socket is not in the group, has no presence session to     *)
(* uncount and has started no task.                                        *)
RefusedLeavesNoTrace ==
  (~allowed /\ ~accepted)
    => ~member /\ ~session /\ writer = "none" /\ heartbeat = "none"

(* When disconnect() is over nothing of the socket is left behind: not in  *)
(* the group, no presence session, no running task.                        *)
ReleasedWhenEnded ==
  dispatcher = "ended"
    => /\ ~member
       /\ ~session
       /\ writer # "running"
       /\ heartbeat \in {"none", "done"}

(* Stream data is queued for a socket only while its latest verdict is a   *)
(* yes and the handshake is over: the hello that is refused stops the      *)
(* signals that are already waiting in the group channel                   *)
(* (receive_json, _drain_then_close, _enqueue).                            *)
DataNeedsVerdict ==
  [][(RealtimeSignal /\ outbox' # outbox) => allowed /\ accepted]_vars

(* While a drain is in progress no other task closes the socket under it:  *)
(* the heartbeat and an overflow both respect _closing.                    *)
DrainNotPreempted ==
  [][dispatcher = "draining" /\ dispatcher' = "draining"
       => code' = code]_vars

(* A revoke that reached an open socket's channel ends the connection even *)
(* if the peer never reads again (_drain_then_close's bounded wait), unless *)
(* a handler before it raised.                                             *)
RevokeEndsSocket ==
  (events # <<>> /\ Head(events) = "revoke" /\ accepted)
    ~> (gone \/ dispatcher = "crashed")

(* A token that expires while the socket is open closes it, whatever the   *)
(* dispatcher is blocked on (_heartbeat_loop).                             *)
ExpiredTokenCloses ==
  (tokenExpired /\ heartbeat # "none") ~> closing

(* A peer that leaves a ping unanswered is closed at the end of the grace  *)
(* period: the heartbeat is never armed for ever.                          *)
SilentPeerCloses ==
  (heartbeat = "waiting" /\ pongPending)
    ~> (~pongPending \/ closing)

(* Once a socket is closing, by whichever task, it ends up released.       *)
ClosingIsReleased == closing ~> dispatcher \in {"ended", "crashed"}

-----------------------------------------------------------------------------
(* What the documentation says and the code does not do.                   *)

(* delivery.revoke(): the subscribers it names "get a `kick' frame and     *)
(* close 4410".  The revoke handled by an open socket closes it 4410.      *)
RevokeCloses4410 ==
  [][(events' # events /\ Len(events') < Len(events)
       /\ Head(events) = "revoke" /\ ~closing)
     => code' \in {NoCode, CLOSE_REVOKED}]_vars
=============================================================================
