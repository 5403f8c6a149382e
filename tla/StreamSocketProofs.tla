------------------------- MODULE StreamSocketProofs -------------------------
(***************************************************************************)
(* Proofs about StreamSocket, for every size of the queue and every bound  *)
(* of the environment: types, what a refused or ended socket leaves        *)
(* behind, whom a signal is queued for, that nobody closes under a drain,  *)
(* and the frame that precedes a drained close.                            *)
(*                                                                         *)
(* The last needs the most.  A handler queues the explanation, sets        *)
(* _closing and waits; until the wait ends nothing may be queued behind    *)
(* the explanation and nobody else may close.  The invariant says where    *)
(* the explanation is meanwhile (ExplanationIsLast), and that a socket     *)
(* which refuses frames before it was closed is in such a wait             *)
(* (ClosingHasCause).                                                      *)
(***************************************************************************)
EXTENDS StreamSocket, SendQueueProofs

(* The stages of connect().                                                *)
Opening == {"connect", "authorizing", "subscribing", "accepting", "counting"}

(* What connect() has and has not done at each stage, and what is true of  *)
(* a socket that was never accepted.                                       *)
Handshake ==
  /\ ~accepted =>
       ~session /\ writer = "none" /\ heartbeat = "none" /\ inbox = <<>>
  /\ (~accepted /\ ~allowed) => ~member
  /\ (~accepted /\ ~member) => events = <<>>
  /\ dispatcher \in {"connect", "authorizing"} => ~accepted /\ ~member
  /\ dispatcher \in {"subscribing", "accepting"} => allowed /\ ~accepted
  /\ dispatcher \in {"counting", "reauthorizing", "draining", "uncounting"}
       => accepted
  /\ (dispatcher \in {"idle", "leaving", "ended"} /\ ~accepted) => ~member
  /\ dispatcher \in Opening => code = NoCode /\ ~closing /\ heartbeat = "none"

(* disconnect() stops the tasks first and leaves the group last.           *)
Releasing ==
  /\ dispatcher \in {"uncounting", "leaving", "ended"}
       => ~session /\ writer # "running" /\ heartbeat \in {"none", "done"}
  /\ dispatcher = "ended" => ~member

(* A live socket that refuses frames is waiting for its queue to drain.    *)
ClosingHasCause ==
  (closing /\ code = NoCode /\ ~gone) => dispatcher = "draining"

(* While it waits, the explanation is the last frame on its way.           *)
LastFrame(frame) ==
  \/ outbox # <<>> /\ outbox[Len(outbox)] = frame
  \/ outbox = <<>> /\ inFlight = frame
  \/ outbox = <<>> /\ inFlight = NoFrame /\ lastSent = frame

ExplanationIsLast ==
  dispatcher = "draining" =>
    /\ drainCode \in DrainCodes
    /\ closing
    /\ (code = NoCode /\ ~gone /\ writer # "failed")
         => LastFrame(Explanation[drainCode])

(* A socket whose verdict became a no takes no more frames.                *)
RefusedIsClosing == (accepted /\ ~allowed) => closing

IInv ==
  /\ TypeOK
  /\ RefusedIsClosing
  /\ Handshake
  /\ Releasing
  /\ ClosingHasCause
  /\ ExplanationIsLast
  /\ DrainedCloseIsExplained

-----------------------------------------------------------------------------
(* Types.                                                                  *)

(* The frames and codes of the handlers.                                   *)
LEMMA Names ==
  /\ {"plain", "kick", "error_bad_envelope", "error_unauthorized"} \subseteq ServerFrames
  /\ DrainCodes = {CLOSE_PROTOCOL_ERROR, CLOSE_FORBIDDEN, CLOSE_REVOKED}
  /\ DrainCodes \subseteq CloseCodes
  /\ Explanation[CLOSE_PROTOCOL_ERROR] = "error_bad_envelope"
  /\ Explanation[CLOSE_FORBIDDEN] = "error_unauthorized"
  /\ Explanation[CLOSE_REVOKED] = "kick"
BY DEF ServerFrames, Explanation, DrainCodes, CloseCodes, CLOSE_PROTOCOL_ERROR,
       CLOSE_FORBIDDEN, CLOSE_REVOKED

(* self.close() keeps the first code.                                      *)
LEMMA CloseCodeOK ==
  ASSUME QueueTypeOK, NEW c \in CloseCodes
  PROVE  CloseCode(c) \in CloseCodes \cup {NoCode}
BY DEF QueueTypeOK, CloseCode

(* _enqueue keeps the queue's type and bound.                              *)
LEMMA EnqueueTypeOK ==
  ASSUME QueueTypeOK, NEW frame \in ServerFrames, EnqueueAll(<<frame>>),
         UNCHANGED <<inFlight, writer, lastSent, gone>>
  PROVE  QueueTypeOK'
<1>1. <<frame>> \in Seq(ServerFrames)
  OBVIOUS
<1>2. code' \in CloseCodes \cup {NoCode}
  BY CloseCodeOK DEF EnqueueAll, CloseCodes, QueueTypeOK
<1> QED BY <1>1, <1>2, EnqueueAllTakesPrefix DEF QueueTypeOK

(* So does the frame queued before a drain (_drain_then_close's callers).  *)
LEMMA StartDrainTypeOK ==
  ASSUME QueueTypeOK, NEW frame \in ServerFrames, NEW c, StartDrain(frame, c),
         UNCHANGED <<inFlight, writer, lastSent, gone>>
  PROVE  QueueTypeOK'
<1>1. code' \in CloseCodes \cup {NoCode}
  BY CloseCodeOK DEF StartDrain, EnqueueThenClosing, CloseCodes, QueueTypeOK
<1>2. CASE outbox' = outbox
  BY <1>1, <1>2 DEF QueueTypeOK, StartDrain, EnqueueThenClosing
<1>3. CASE outbox' = Append(outbox, frame) /\ Room > 0
  <2>1. outbox' \in Seq(ServerFrames) /\ Len(outbox') = Len(outbox) + 1
    BY <1>3 DEF QueueTypeOK
  <2>2. Len(outbox') <= SEND_QUEUE_SIZE
    BY <1>3, <2>1, QueueAssumption DEF QueueTypeOK, Room
  <2> QED BY <1>1, <2>1, <2>2 DEF QueueTypeOK, StartDrain, EnqueueThenClosing
<1> QED BY <1>2, <1>3 DEF StartDrain, EnqueueThenClosing

(* Before connect() everything has its type.                               *)
THEOREM InitTypeOK == Init => TypeOK
<1> SUFFICES ASSUME Init PROVE TypeOK
  OBVIOUS
<1>1. QueueTypeOK
  <2>1. outbox \in Seq(ServerFrames) /\ Len(outbox) <= SEND_QUEUE_SIZE
    BY QueueAssumption DEF Init, QueueInit
  <2>2. writer \in {"none", "running", "stopped", "failed"}
    BY DEF Init, QueueInit
  <2> QED BY <2>1, <2>2, Zenon DEF Init, QueueInit, QueueTypeOK
<1>2. TasksTypeOK
  <2>1. dispatcher \in Stages
    BY DEF Init, Stages
  <2>2. heartbeat \in {"none", "sleeping", "renewing", "waiting", "done"}
    BY DEF Init
  <2>3. strikes \in 0..PROTOCOL_STRIKES
    BY DEF Init, PROTOCOL_STRIKES
  <2>4. drainCode \in DrainCodes \cup {NoCode}
    BY DEF Init
  <2>5. timedOut \in BOOLEAN /\ pongPending \in BOOLEAN
    BY DEF Init
  <2> QED BY ONLY <2>1, <2>2, <2>3, <2>4, <2>5 DEF TasksTypeOK
<1>3. SocketTypeOK
  <2>1. inbox \in Seq(AllClientFrames) /\ events \in Seq(AllGroupEvents)
    BY DEF Init
  <2> QED BY <2>1 DEF Init, SocketTypeOK
<1> QED BY <1>1, <1>2, <1>3 DEF TypeOK

(* The queue keeps its type and bound.                                     *)
LEMMA NextQueueTypeOK == TypeOK /\ ExplanationIsLast /\ [Next]_vars => QueueTypeOK'
<1> SUFFICES ASSUME QueueTypeOK, ExplanationIsLast, [Next]_vars PROVE QueueTypeOK'
  BY DEF TypeOK
<1>1. CASE UNCHANGED queueVars
  BY <1>1 DEF queueVars, QueueTypeOK
<1>2. CASE /\ \E frame \in ServerFrames : EnqueueAll(<<frame>>)
           /\ UNCHANGED <<inFlight, writer, lastSent, gone>>
  BY <1>2, EnqueueTypeOK
<1>3. CASE /\ \E frame \in ServerFrames, c \in DrainCodes : StartDrain(frame, c)
           /\ UNCHANGED <<inFlight, writer, lastSent, gone>>
  BY <1>3, StartDrainTypeOK
<1>4. CASE /\ \E c \in CloseCodes : code' = CloseCode(c)
           /\ closing' \in {closing, TRUE}
           /\ UNCHANGED <<outbox, inFlight, writer, lastSent, gone>>
  BY <1>4, CloseCodeOK DEF QueueTypeOK
<1>5. CASE WriterTake
  <2>1. /\ outbox' \in Seq(ServerFrames)
        /\ Len(outbox') = Len(outbox) - 1
        /\ inFlight' \in ServerFrames
    BY <1>5, TailOfQueue DEF WriterTake, QueueTypeOK
  <2>2. Len(outbox') <= SEND_QUEUE_SIZE
    BY <2>1, QueueAssumption DEF QueueTypeOK
  <2> QED BY <1>5, <2>1, <2>2 DEF WriterTake, QueueTypeOK
<1>6. CASE WriterSend \/ WriterFails
  BY <1>6 DEF WriterSend, WriterFails, QueueTypeOK
<1>7. CASE ConnectOpen \/ PeerGone \/ Disconnect
  BY <1>7 DEF ConnectOpen, PeerGone, Disconnect, QueueTypeOK
<1>8. CASE Connect
  <2>1. CASE ConnectRefuse \/ ConnectVerdict
    BY <2>1, <1>1, <1>4 DEF ConnectRefuse, ConnectVerdict, CloseCodes, queueVars
  <2>2. CASE ConnectAsk \/ ConnectSubscribe \/ ConnectAccept
    BY <2>2, <1>1 DEF ConnectAsk, ConnectSubscribe, ConnectAccept
  <2> QED BY <1>7, <1>8, <2>1, <2>2 DEF Connect
<1>9. CASE ReceiveJson
  <2>1. CASE Garbage
    BY <2>1, <1>2, <1>3, Names DEF Garbage, TakesFrame
  <2>2. CASE Answered \/ HelloCached
    BY <2>2, <1>2, Names DEF Answered, HelloCached, TakesFrame
  <2>3. CASE HelloAsk \/ OnPong
    BY <2>3, <1>1 DEF HelloAsk, OnPong, TakesFrame, queueVars
  <2>4. CASE Undecodable
    BY <2>4, <1>4 DEF Undecodable, TakesFrame, CloseCodes
  <2> QED BY <1>9, <2>1, <2>2, <2>3, <2>4 DEF ReceiveJson
<1>10. CASE HelloVerdict
  <2>1. \/ EnqueueAll(<<"plain">>)
        \/ StartDrain("error_unauthorized", CLOSE_FORBIDDEN)
    BY <1>10 DEF HelloVerdict
  <2> QED BY <1>10, <2>1, <1>2, <1>3, Names DEF HelloVerdict
<1>11. CASE GroupEvent
  BY <1>11, <1>1, <1>2, <1>3, Names
     DEF GroupEvent, RealtimeSignal, IgnoredEvent, RealtimeRevoke, TakesEvent,
         queueVars
<1>12. CASE DrainOver
  <2>1. drainCode \in CloseCodes
    BY <1>12, Names DEF ExplanationIsLast, DrainOver, Drained, DrainTimeout, DrainEnds
  <2> QED BY <1>12, <2>1, <1>4 DEF DrainOver, Drained, DrainTimeout, DrainEnds
<1>13. CASE HandlerRaises
  BY <1>13, <1>4 DEF HandlerRaises, CloseCodes
<1>14. CASE Uncount \/ Leave
  BY <1>14, <1>1 DEF Uncount, Leave
<1>15. CASE Heartbeat
  <2>1. CASE HeartbeatPing
    BY <2>1, <1>2, Names DEF HeartbeatPing
  <2>2. CASE HeartbeatTick \/ HeartbeatVerdict
    BY <2>2, <1>1, <1>4 DEF HeartbeatTick, HeartbeatVerdict, CloseCodes, queueVars
  <2> QED BY <1>15, <2>1, <2>2 DEF Heartbeat
<1>16. CASE SendStep
  BY <1>16, <1>5, <1>6 DEF SendStep
<1>17. CASE Environment
  BY <1>17, <1>1, <1>7 DEF Environment, PeerSends, PeerLeaves, ServerEnds,
     ConnectionEnds, GroupSends, TokenExpires
<1>18. CASE UNCHANGED vars
  BY <1>18, <1>1 DEF vars
<1> QED BY <1>7, <1>8, <1>9, <1>10, <1>11, <1>12, <1>13, <1>14, <1>15, <1>16,
           <1>17, <1>18 DEF Next

(* The stages, the code of the drain, the pong and the strikes.            *)
LEMMA NextTasksTypeOK == TypeOK /\ [Next]_vars => TasksTypeOK'
<1> SUFFICES ASSUME TasksTypeOK, [Next]_vars PROVE TasksTypeOK'
  BY DEF TypeOK
<1>1. dispatcher' \in Stages
  <2> DEFINE Known == {dispatcher, "authorizing", "subscribing", "accepting",
                       "counting", "idle", "reauthorizing", "draining",
                       "uncounting", "leaving", "ended", "crashed"}
  <2>1. dispatcher' \in Known
    <3>1. CASE Connect
      BY <3>1 DEF Connect, ConnectRefuse, ConnectAsk, ConnectVerdict,
         ConnectSubscribe, ConnectAccept, ConnectOpen
    <3>2. CASE ReceiveJson
      BY <3>2 DEF ReceiveJson, Undecodable, Garbage, Answered,
         HelloCached, HelloAsk, OnPong,
         StartDrain
    <3>3. CASE HelloVerdict \/ GroupEvent
      BY <3>3 DEF HelloVerdict, GroupEvent, RealtimeSignal, IgnoredEvent,
         RealtimeRevoke, StartDrain
    <3>4. CASE DrainOver \/ HandlerRaises \/ Disconnect \/ Uncount \/ Leave
      BY <3>4 DEF DrainOver, Drained, DrainTimeout, DrainEnds, HandlerRaises,
         Disconnect, Uncount, Leave
    <3>5. CASE Heartbeat \/ SendStep
      BY <3>5 DEF Heartbeat, HeartbeatTick, HeartbeatPing, HeartbeatVerdict,
         SendStep, handlerVars
    <3>6. CASE Environment \/ UNCHANGED vars
      BY <3>6 DEF Environment, PeerSends, PeerLeaves, ServerEnds,
         ConnectionEnds, GroupSends, TokenExpires, handlerVars, vars
    <3> QED BY <3>1, <3>2, <3>3, <3>4, <3>5, <3>6 DEF Next
  <2> QED BY <2>1 DEF TasksTypeOK, Stages
<1>2. drainCode' \in DrainCodes \cup {NoCode} /\ timedOut' \in BOOLEAN
  <2> DEFINE Codes == drainCode' \in {drainCode, NoCode, CLOSE_PROTOCOL_ERROR,
                                     CLOSE_FORBIDDEN, CLOSE_REVOKED}
  <2>1. Codes /\ timedOut' \in {timedOut, TRUE}
    <3>1. CASE Connect
      BY <3>1 DEF Connect, ConnectRefuse, ConnectAsk, ConnectVerdict,
         ConnectSubscribe, ConnectAccept, ConnectOpen
    <3>2. CASE ReceiveJson
      BY <3>2 DEF ReceiveJson, Undecodable, Garbage, Answered,
         HelloCached, HelloAsk, OnPong,
         StartDrain, TakesFrame
    <3>3. CASE HelloVerdict \/ GroupEvent
      BY <3>3 DEF HelloVerdict, GroupEvent, RealtimeSignal, IgnoredEvent,
         RealtimeRevoke, StartDrain, TakesEvent
    <3>4. CASE DrainOver \/ HandlerRaises \/ Disconnect \/ Uncount \/ Leave
      BY <3>4 DEF DrainOver, Drained, DrainTimeout, DrainEnds, HandlerRaises,
         Disconnect, Uncount, Leave
    <3>5. CASE Heartbeat \/ SendStep
      BY <3>5 DEF Heartbeat, HeartbeatTick, HeartbeatPing, HeartbeatVerdict,
         SendStep, handlerVars
    <3>6. CASE Environment \/ UNCHANGED vars
      BY <3>6 DEF Environment, PeerSends, PeerLeaves, ServerEnds,
         ConnectionEnds, GroupSends, TokenExpires, handlerVars, vars
    <3> QED BY <3>1, <3>2, <3>3, <3>4, <3>5, <3>6 DEF Next
  <2> QED BY <2>1, Names DEF TasksTypeOK
<1>3. /\ heartbeat' \in {heartbeat, "sleeping", "none", "done", "renewing", "waiting"}
      /\ pongPending' \in {pongPending, TRUE, FALSE}
  <2>1. CASE Connect
    BY <2>1 DEF Connect, ConnectRefuse, ConnectAsk, ConnectVerdict,
       ConnectSubscribe, ConnectAccept, ConnectOpen, heartbeatVars
  <2>2. CASE ReceiveJson
    BY <2>2 DEF ReceiveJson, Undecodable, Garbage, Answered,
       HelloCached, HelloAsk, OnPong,
       TakesFrame
  <2>3. CASE HelloVerdict \/ GroupEvent
    BY <2>3 DEF HelloVerdict, GroupEvent, RealtimeSignal, IgnoredEvent,
       RealtimeRevoke, TakesEvent, heartbeatVars
  <2>4. CASE DrainOver \/ HandlerRaises \/ Disconnect \/ Uncount \/ Leave
    BY <2>4 DEF DrainOver, Drained, DrainTimeout, DrainEnds, HandlerRaises,
       Disconnect, Uncount, Leave, heartbeatVars
  <2>5. CASE Heartbeat \/ SendStep
    BY <2>5 DEF Heartbeat, HeartbeatTick, HeartbeatPing, HeartbeatVerdict,
       SendStep, heartbeatVars
  <2>6. CASE Environment \/ UNCHANGED vars
    BY <2>6 DEF Environment, PeerSends, PeerLeaves, ServerEnds,
       ConnectionEnds, GroupSends, TokenExpires, heartbeatVars, vars
  <2> QED BY <2>1, <2>2, <2>3, <2>4, <2>5, <2>6 DEF Next
<1>4. strikes' \in 0..PROTOCOL_STRIKES
  <2>1. CASE Garbage
    BY <2>1 DEF Garbage, TasksTypeOK, PROTOCOL_STRIKES
  <2>2. CASE ~Garbage
    <3>1. strikes' = strikes
      <4>1. CASE Connect
        BY <4>1 DEF Connect, ConnectRefuse, ConnectAsk, ConnectVerdict,
           ConnectSubscribe, ConnectAccept, ConnectOpen
      <4>2. CASE ReceiveJson
        BY <4>2, <2>2 DEF ReceiveJson, Undecodable, Answered, HelloCached,
           HelloAsk, OnPong
      <4>3. CASE HelloVerdict \/ GroupEvent
        BY <4>3 DEF HelloVerdict, GroupEvent, RealtimeSignal, IgnoredEvent,
           RealtimeRevoke, TakesEvent
      <4>4. CASE DrainOver \/ HandlerRaises \/ Disconnect \/ Uncount \/ Leave
        BY <4>4 DEF DrainOver, Drained, DrainTimeout, DrainEnds, HandlerRaises,
           Disconnect, Uncount, Leave
      <4>5. CASE Heartbeat \/ SendStep
        BY <4>5 DEF Heartbeat, HeartbeatTick, HeartbeatPing, HeartbeatVerdict,
           SendStep
      <4>6. CASE Environment \/ UNCHANGED vars
        BY <4>6 DEF Environment, PeerSends, PeerLeaves, ServerEnds,
           ConnectionEnds, GroupSends, TokenExpires, vars
      <4> QED BY <4>1, <4>2, <4>3, <4>4, <4>5, <4>6 DEF Next
    <3> QED BY <3>1 DEF TasksTypeOK
  <2> QED BY <2>1, <2>2
<1>5. /\ heartbeat' \in {"none", "sleeping", "renewing", "waiting", "done"}
      /\ pongPending' \in BOOLEAN
  BY <1>3 DEF TasksTypeOK
<1> QED BY ONLY <1>1, <1>2, <1>4, <1>5 DEF TasksTypeOK

(* The verdict, the handshake and what waits for the dispatcher.           *)
LEMMA NextSocketTypeOK == TypeOK /\ [Next]_vars => SocketTypeOK'
<1> SUFFICES ASSUME SocketTypeOK, [Next]_vars PROVE SocketTypeOK'
  BY DEF TypeOK
<1> DEFINE Flags ==
      /\ allowed' \in BOOLEAN
      /\ accepted' \in {accepted, TRUE}
      /\ member' \in {member, TRUE, FALSE}
      /\ session' \in {session, TRUE, FALSE}
      /\ tokenExpired' \in {tokenExpired, TRUE}
<1>1. Flags
  <2>1. CASE Connect
    BY <2>1 DEF Connect, ConnectRefuse, ConnectAsk, ConnectVerdict,
       ConnectSubscribe, ConnectAccept, ConnectOpen, joinVars, SocketTypeOK
  <2>2. CASE ReceiveJson
    BY <2>2 DEF ReceiveJson, Undecodable, Garbage, Answered,
       HelloCached, HelloAsk, OnPong,
       TakesFrame, joinVars, SocketTypeOK
  <2>3. CASE HelloVerdict \/ GroupEvent
    BY <2>3 DEF HelloVerdict, GroupEvent, RealtimeSignal, IgnoredEvent,
       RealtimeRevoke, TakesEvent, joinVars, SocketTypeOK
  <2>4. CASE DrainOver \/ HandlerRaises \/ Disconnect \/ Uncount \/ Leave
    BY <2>4 DEF DrainOver, Drained, DrainTimeout, DrainEnds, HandlerRaises,
       Disconnect, Uncount, Leave, joinVars, SocketTypeOK
  <2>5. CASE Heartbeat \/ SendStep
    BY <2>5 DEF Heartbeat, HeartbeatTick, HeartbeatPing, HeartbeatVerdict,
       SendStep, joinVars, SocketTypeOK
  <2>6. CASE Environment \/ UNCHANGED vars
    BY <2>6 DEF Environment, PeerSends, PeerLeaves, ServerEnds,
       ConnectionEnds, GroupSends, TokenExpires, joinVars, vars, SocketTypeOK
  <2> QED BY <2>1, <2>2, <2>3, <2>4, <2>5, <2>6 DEF Next
<1>2. \/ UNCHANGED inbox
      \/ inbox # <<>> /\ inbox' = Tail(inbox)
      \/ \E frame \in AllClientFrames : inbox' = Append(inbox, frame)
  <2>1. CASE Connect
    BY <2>1 DEF Connect, ConnectRefuse, ConnectAsk, ConnectVerdict,
       ConnectSubscribe, ConnectAccept, ConnectOpen
  <2>2. CASE ReceiveJson
    BY <2>2 DEF ReceiveJson, Undecodable, Garbage, Answered,
       HelloCached, HelloAsk, OnPong,
       TakesFrame
  <2>3. CASE HelloVerdict \/ GroupEvent
    BY <2>3 DEF HelloVerdict, GroupEvent, RealtimeSignal, IgnoredEvent,
       RealtimeRevoke, TakesEvent
  <2>4. CASE DrainOver \/ HandlerRaises \/ Disconnect \/ Uncount \/ Leave
    BY <2>4 DEF DrainOver, Drained, DrainTimeout, DrainEnds, HandlerRaises,
       Disconnect, Uncount, Leave
  <2>5. CASE Heartbeat \/ SendStep
    BY <2>5 DEF Heartbeat, HeartbeatTick, HeartbeatPing, HeartbeatVerdict,
       SendStep
  <2>6. CASE Environment \/ UNCHANGED vars
    BY <2>6, SocketAssumption DEF Environment, PeerSends, PeerLeaves,
       ServerEnds, ConnectionEnds, GroupSends, TokenExpires, vars
  <2> QED BY <2>1, <2>2, <2>3, <2>4, <2>5, <2>6 DEF Next
<1>3. \/ UNCHANGED events
      \/ events # <<>> /\ events' = Tail(events)
      \/ \E event \in AllGroupEvents : events' = Append(events, event)
  <2>1. CASE Connect
    BY <2>1 DEF Connect, ConnectRefuse, ConnectAsk, ConnectVerdict,
       ConnectSubscribe, ConnectAccept, ConnectOpen
  <2>2. CASE ReceiveJson
    BY <2>2 DEF ReceiveJson, Undecodable, Garbage, Answered,
       HelloCached, HelloAsk, OnPong,
       TakesFrame
  <2>3. CASE HelloVerdict \/ GroupEvent
    BY <2>3 DEF HelloVerdict, GroupEvent, RealtimeSignal, IgnoredEvent,
       RealtimeRevoke, TakesEvent
  <2>4. CASE DrainOver \/ HandlerRaises \/ Disconnect \/ Uncount \/ Leave
    BY <2>4 DEF DrainOver, Drained, DrainTimeout, DrainEnds, HandlerRaises,
       Disconnect, Uncount, Leave
  <2>5. CASE Heartbeat \/ SendStep
    BY <2>5 DEF Heartbeat, HeartbeatTick, HeartbeatPing, HeartbeatVerdict,
       SendStep
  <2>6. CASE Environment \/ UNCHANGED vars
    BY <2>6, SocketAssumption DEF Environment, PeerSends, PeerLeaves,
       ServerEnds, ConnectionEnds, GroupSends, TokenExpires, vars
  <2> QED BY <2>1, <2>2, <2>3, <2>4, <2>5, <2>6 DEF Next
<1>4. inbox' \in Seq(AllClientFrames)
  <2>1. inbox \in Seq(AllClientFrames)
    BY DEF SocketTypeOK
  <2>2. CASE UNCHANGED inbox
    BY <2>1, <2>2
  <2>3. CASE inbox # <<>> /\ inbox' = Tail(inbox)
    BY ONLY <2>1, <2>3, TailOfQueue
  <2>4. CASE \E frame \in AllClientFrames : inbox' = Append(inbox, frame)
    BY ONLY <2>1, <2>4
  <2> QED BY <1>2, <2>2, <2>3, <2>4
<1>5. events' \in Seq(AllGroupEvents)
  <2>1. events \in Seq(AllGroupEvents)
    BY DEF SocketTypeOK
  <2>2. CASE UNCHANGED events
    BY <2>1, <2>2
  <2>3. CASE events # <<>> /\ events' = Tail(events)
    BY ONLY <2>1, <2>3, TailOfQueue
  <2>4. CASE \E event \in AllGroupEvents : events' = Append(events, event)
    BY ONLY <2>1, <2>4
  <2> QED BY <1>3, <2>2, <2>3, <2>4
<1> QED BY <1>1, <1>4, <1>5 DEF SocketTypeOK

LEMMA NextTypeOK == TypeOK /\ ExplanationIsLast /\ [Next]_vars => TypeOK'
BY NextQueueTypeOK, NextTasksTypeOK, NextSocketTypeOK DEF TypeOK

-----------------------------------------------------------------------------
(* The handshake and its undoing.                                          *)

(* Every step keeps the stages of connect() in order.                      *)
LEMMA NextHandshake == TypeOK /\ Handshake /\ [Next]_vars => Handshake'
<1> SUFFICES ASSUME TypeOK, Handshake, [Next]_vars PROVE Handshake'
  OBVIOUS
<1>1. CASE Connect
  BY <1>1 DEF Connect, ConnectRefuse, ConnectAsk, ConnectVerdict,
     ConnectSubscribe, ConnectAccept, ConnectOpen, queueVars, heartbeatVars,
     joinVars, Handshake, Opening
<1>2. CASE ReceiveJson
  BY <1>2 DEF ReceiveJson, Undecodable, Garbage, Answered,
     HelloCached, HelloAsk, OnPong,
     TakesFrame, StartDrain, joinVars, Handshake, Opening
<1>3. CASE HelloVerdict
  BY <1>3 DEF HelloVerdict, StartDrain, joinVars, heartbeatVars, Handshake, Opening
<1>4. CASE GroupEvent
  BY <1>4 DEF GroupEvent, RealtimeSignal, IgnoredEvent, RealtimeRevoke,
     TakesEvent, StartDrain, joinVars, heartbeatVars, Handshake, Opening
<1>5. CASE DrainOver
  BY <1>5 DEF DrainOver, Drained, DrainTimeout, DrainEnds, joinVars,
     heartbeatVars, Handshake, Opening
<1>6. CASE HandlerRaises
  BY <1>6 DEF HandlerRaises, joinVars, heartbeatVars, Handshake, Opening
<1>7. CASE Disconnect
  BY <1>7 DEF Disconnect, Handshake, Opening
<1>8. CASE Uncount \/ Leave
  BY <1>8 DEF Uncount, Leave, queueVars, heartbeatVars, Handshake, Opening
<1>9. CASE Heartbeat
  BY <1>9 DEF Heartbeat, HeartbeatTick, HeartbeatPing, HeartbeatVerdict,
     handlerVars, joinVars, Handshake, Opening
<1>10. CASE SendStep
  BY <1>10 DEF SendStep, WriterTake, WriterSend, WriterFails, handlerVars,
     heartbeatVars, joinVars, Handshake, Opening
<1>11. CASE Environment
  BY <1>11 DEF Environment, PeerSends, PeerLeaves, ServerEnds, ConnectionEnds,
     PeerGone, GroupSends, TokenExpires, queueVars, handlerVars,
     heartbeatVars, joinVars, Handshake, Opening
<1>12. CASE UNCHANGED vars
  BY <1>12 DEF vars, queueVars, handlerVars, heartbeatVars, joinVars,
     Handshake, Opening
<1> QED BY <1>1, <1>2, <1>3, <1>4, <1>5, <1>6, <1>7, <1>8, <1>9, <1>10, <1>11,
           <1>12 DEF Next

(* Once disconnect() began, no task and no membership comes back.          *)
LEMMA NextReleasing ==
  TypeOK /\ Handshake /\ Releasing /\ [Next]_vars => Releasing'
<1> SUFFICES ASSUME TypeOK, Handshake, Releasing, [Next]_vars PROVE Releasing'
  OBVIOUS
<1>1. CASE Connect
  BY <1>1 DEF Connect, ConnectRefuse, ConnectAsk, ConnectVerdict,
     ConnectSubscribe, ConnectAccept, ConnectOpen,
     queueVars, handlerVars, heartbeatVars, joinVars, Releasing, Handshake, Opening
<1>2. CASE ReceiveJson
  BY <1>2 DEF ReceiveJson, Undecodable, Garbage, Answered,
     HelloCached, HelloAsk, OnPong,
     TakesFrame, StartDrain,
     queueVars, handlerVars, heartbeatVars, joinVars, Releasing, Handshake, Opening
<1>3. CASE HelloVerdict
  BY <1>3 DEF HelloVerdict, StartDrain,
     queueVars, handlerVars, heartbeatVars, joinVars, Releasing, Handshake, Opening
<1>4. CASE GroupEvent
  BY <1>4 DEF GroupEvent, RealtimeSignal, IgnoredEvent, RealtimeRevoke,
     TakesEvent, StartDrain,
     queueVars, handlerVars, heartbeatVars, joinVars, Releasing, Handshake, Opening
<1>5. CASE DrainOver
  BY <1>5 DEF DrainOver, Drained, DrainTimeout, DrainEnds,
     queueVars, handlerVars, heartbeatVars, joinVars, Releasing, Handshake, Opening
<1>6. CASE HandlerRaises
  BY <1>6 DEF HandlerRaises,
     queueVars, handlerVars, heartbeatVars, joinVars, Releasing, Handshake, Opening
<1>7. CASE Disconnect
  BY <1>7 DEF Disconnect,
     queueVars, handlerVars, heartbeatVars, joinVars, Releasing, Handshake, Opening
<1>8. CASE Uncount \/ Leave
  BY <1>8 DEF Uncount, Leave,
     queueVars, handlerVars, heartbeatVars, joinVars, Releasing, Handshake, Opening
<1>9. CASE Heartbeat
  BY <1>9 DEF Heartbeat, HeartbeatTick, HeartbeatPing, HeartbeatVerdict,
     queueVars, handlerVars, heartbeatVars, joinVars, Releasing, Handshake, Opening
<1>10. CASE SendStep
  BY <1>10 DEF SendStep, WriterTake, WriterSend, WriterFails,
     queueVars, handlerVars, heartbeatVars, joinVars, Releasing, Handshake, Opening
<1>11. CASE Environment
  BY <1>11 DEF Environment, PeerSends, PeerLeaves, ServerEnds,
     ConnectionEnds, PeerGone, GroupSends, TokenExpires,
     queueVars, handlerVars, heartbeatVars, joinVars, Releasing, Handshake, Opening
<1>12. CASE UNCHANGED vars
  BY <1>12 DEF vars,
     queueVars, handlerVars, heartbeatVars, joinVars, Releasing, Handshake, Opening
<1> QED BY <1>1, <1>2, <1>3, <1>4, <1>5, <1>6, <1>7, <1>8, <1>9, <1>10, <1>11,
           <1>12 DEF Next

-----------------------------------------------------------------------------
(* The close that is explained.                                            *)

(* What one frame queued by _enqueue does to the flags and the code.       *)
LEMMA EnqueueOne ==
  ASSUME TypeOK, NEW frame, EnqueueAll(<<frame>>)
  PROVE  /\ closing => UNCHANGED <<outbox, closing, code>>
         /\ (closing' /\ ~closing) => (code' = CloseCode(CLOSE_OVERFLOW))
         /\ ~closing' => UNCHANGED code
BY DEF EnqueueAll

(* A code that was sent, by whoever sent it, is there to stay; a live      *)
(* connection gets the code.                                               *)
LEMMA CloseCodeOf ==
  ASSUME TypeOK, NEW c \in CloseCodes
  PROVE  /\ (~gone => CloseCode(c) # NoCode)
         /\ (code # NoCode => CloseCode(c) = code)
         /\ CloseCode(c) \in {c, code}
BY QueueAssumption DEF CloseCode, CloseCodes, CLOSE_PROTOCOL_ERROR,
   CLOSE_UNAUTHENTICATED, CLOSE_FORBIDDEN, CLOSE_STREAM_UNKNOWN,
   CLOSE_HEARTBEAT_TIMEOUT, CLOSE_REVOKED, CLOSE_OVERFLOW, CLOSE_HANDLER_RAISED

LEMMA NamedCodes ==
  {CLOSE_PROTOCOL_ERROR, CLOSE_UNAUTHENTICATED, CLOSE_FORBIDDEN,
   CLOSE_STREAM_UNKNOWN, CLOSE_HEARTBEAT_TIMEOUT, CLOSE_REVOKED,
   CLOSE_OVERFLOW, CLOSE_HANDLER_RAISED} \subseteq CloseCodes
BY DEF CloseCodes

(* A socket only starts to refuse frames when it is closed or drains.      *)
LEMMA NextClosingHasCause ==
  TypeOK /\ Handshake /\ ClosingHasCause /\ ExplanationIsLast /\ [Next]_vars
    => ClosingHasCause'
<1> SUFFICES ASSUME TypeOK, Handshake, ClosingHasCause, ExplanationIsLast,
                    [Next]_vars
             PROVE  ClosingHasCause'
  OBVIOUS
<1> USE CloseCodeOf, NamedCodes
<1>1. CASE Connect
  BY <1>1 DEF Connect, ConnectRefuse, ConnectAsk, ConnectVerdict,
     ConnectSubscribe, ConnectAccept, ConnectOpen,
     queueVars, handlerVars, heartbeatVars, joinVars, ClosingHasCause, Handshake, Opening
<1>2. CASE ReceiveJson
  <2>1. CASE Garbage
    BY <1>2, <2>1, EnqueueOne DEF Garbage, TakesFrame, StartDrain,
       EnqueueThenClosing, ClosingHasCause
  <2>2. CASE Answered \/ HelloCached
    BY <1>2, <2>2, EnqueueOne DEF Answered, HelloCached, TakesFrame, ClosingHasCause
  <2>3. CASE HelloAsk \/ OnPong
    BY <1>2, <2>3 DEF HelloAsk, OnPong, TakesFrame, ClosingHasCause
  <2>4. CASE Undecodable
    BY <2>4 DEF Undecodable, TakesFrame, ClosingHasCause
  <2> QED BY <1>2, <2>1, <2>2, <2>3, <2>4 DEF ReceiveJson
<1>3. CASE HelloVerdict
  BY <1>3, EnqueueOne DEF HelloVerdict, StartDrain, ClosingHasCause
<1>4. CASE GroupEvent
  BY <1>4, EnqueueOne DEF GroupEvent, RealtimeSignal, IgnoredEvent, RealtimeRevoke,
     TakesEvent, StartDrain, ClosingHasCause
<1>5. CASE DrainOver
  <2>1. drainCode \in CloseCodes
    BY <1>5, Names DEF DrainOver, Drained, DrainTimeout, DrainEnds, ExplanationIsLast
  <2>2. code' = CloseCode(drainCode) /\ gone' = gone
    BY <1>5 DEF DrainOver, Drained, DrainTimeout, DrainEnds
  <2>3. ~gone => CloseCode(drainCode) # NoCode
    BY <2>1
  <2> QED BY <2>2, <2>3 DEF ClosingHasCause
<1>6. CASE HandlerRaises
  BY <1>6 DEF HandlerRaises,
     queueVars, handlerVars, heartbeatVars, joinVars, ClosingHasCause, Handshake, Opening
<1>7. CASE Disconnect
  BY <1>7 DEF Disconnect,
     queueVars, handlerVars, heartbeatVars, joinVars, ClosingHasCause, Handshake, Opening
<1>8. CASE Uncount \/ Leave
  BY <1>8 DEF Uncount, Leave,
     queueVars, handlerVars, heartbeatVars, joinVars, ClosingHasCause, Handshake, Opening
<1>9. CASE Heartbeat
  BY <1>9, EnqueueOne DEF Heartbeat, HeartbeatTick, HeartbeatPing, HeartbeatVerdict,
     handlerVars, ClosingHasCause
<1>10. CASE SendStep
  BY <1>10 DEF SendStep, WriterTake, WriterSend, WriterFails,
     queueVars, handlerVars, heartbeatVars, joinVars, ClosingHasCause, Handshake, Opening
<1>11. CASE Environment
  BY <1>11 DEF Environment, PeerSends, PeerLeaves, ServerEnds,
     ConnectionEnds, PeerGone, GroupSends, TokenExpires,
     queueVars, handlerVars, heartbeatVars, joinVars, ClosingHasCause, Handshake, Opening
<1>12. CASE UNCHANGED vars
  BY <1>12 DEF vars,
     queueVars, handlerVars, heartbeatVars, joinVars, ClosingHasCause, Handshake, Opening
<1> QED BY <1>1, <1>2, <1>3, <1>4, <1>5, <1>6, <1>7, <1>8, <1>9, <1>10, <1>11,
           <1>12 DEF Next

(* Beginning to drain puts the explanation last, if the socket still       *)
(* takes frames and lives.                                                 *)
LEMMA StartDrainExplains ==
  ASSUME TypeOK, ClosingHasCause, dispatcher # "draining",
         NEW c \in DrainCodes, StartDrain(Explanation[c], c),
         UNCHANGED <<inFlight, lastSent, gone>>
  PROVE  ExplanationIsLast'
<1>1. dispatcher' = "draining" /\ drainCode' = c /\ closing'
  BY DEF StartDrain, EnqueueThenClosing
<1>2. CASE closing
  BY <1>1, <1>2 DEF StartDrain, EnqueueThenClosing, ClosingHasCause, ExplanationIsLast
<1>3. CASE ~closing /\ Room > 0
  <2>1. outbox' = Append(outbox, Explanation[c]) /\ outbox \in Seq(ServerFrames)
    BY <1>3 DEF StartDrain, EnqueueThenClosing, TypeOK, QueueTypeOK
  <2>2. outbox' # <<>> /\ outbox'[Len(outbox')] = Explanation[c]
    BY <2>1
  <2> QED BY <1>1, <2>2 DEF ExplanationIsLast, LastFrame
<1>4. CASE ~closing /\ ~(Room > 0)
  <2>1. ~gone => code' # NoCode
    BY <1>4, CloseCodeOf, NamedCodes DEF StartDrain, EnqueueThenClosing
  <2> QED BY <1>1, <2>1 DEF ExplanationIsLast
<1> QED BY <1>2, <1>3, <1>4

(* The writer only moves the explanation towards the peer.                 *)
LEMMA SendKeepsLast ==
  ASSUME TypeOK, SendStep, NEW frame \in ServerFrames, LastFrame(frame),
         code = NoCode, ~gone, writer' # "failed"
  PROVE  LastFrame(frame)'
<1>1. CASE WriterTake
  <2>1. outbox \in Seq(ServerFrames)
    BY DEF TypeOK, QueueTypeOK
  <2>2. CASE Len(outbox) = 1
    BY <1>1, <2>1, <2>2 DEF WriterTake, LastFrame
  <2>3. CASE Len(outbox) > 1
    <3>1. /\ Tail(outbox) # <<>>
          /\ Tail(outbox)[Len(Tail(outbox))] = outbox[Len(outbox)]
      <4>1. outbox # <<>> /\ Len(outbox) \in Nat
        BY <1>1, <2>1 DEF WriterTake
      <4>2. /\ Tail(outbox) \in Seq(ServerFrames)
            /\ Len(Tail(outbox)) = Len(outbox) - 1
            /\ \A i \in 1..Len(Tail(outbox)) : Tail(outbox)[i] = outbox[i + 1]
        BY <2>1, <4>1, TailOfQueue
      <4>3. Len(outbox) - 1 \in 1..Len(Tail(outbox)) /\ Len(Tail(outbox)) # 0
        BY <2>3, <4>1, <4>2
      <4>4. Tail(outbox)[Len(outbox) - 1] = outbox[(Len(outbox) - 1) + 1]
        BY <4>2, <4>3
      <4>5. Tail(outbox) # <<>>
        <5>1. Len(<<>>) = 0
          OBVIOUS
        <5> QED BY <4>3, <5>1, Zenon
      <4>6. (Len(outbox) - 1) + 1 = Len(outbox)
        BY <4>1
      <4> QED BY <4>2, <4>4, <4>5, <4>6, Zenon
    <3> QED BY <1>1, <3>1 DEF WriterTake, LastFrame
  <2>4. Len(outbox) = 1 \/ Len(outbox) > 1
    <3>1. outbox # <<>>
      BY <1>1 DEF WriterTake
    <3>2. Len(outbox) \in Nat /\ (Len(outbox) = 0 => outbox = <<>>)
      BY <2>1
    <3>3. \A n \in Nat : n # 0 => n = 1 \/ n > 1
      OBVIOUS
    <3> QED BY <3>1, <3>2, <3>3, Zenon
  <2> QED BY <2>2, <2>3, <2>4
<1>2. CASE WriterSend
  <2>1. inFlight # frame => outbox # <<>> /\ outbox[Len(outbox)] = frame
    BY <1>2 DEF WriterSend, LastFrame
  <2>2. CASE outbox # <<>>
    BY <1>2, <2>2 DEF WriterSend, LastFrame
  <2>3. CASE outbox = <<>>
    BY <1>2, <2>1, <2>3 DEF WriterSend, LastFrame, OnWire
  <2> QED BY <2>2, <2>3
<1>3. CASE WriterFails
  BY <1>3 DEF WriterFails
<1> QED BY <1>1, <1>2, <1>3 DEF SendStep

(* Nothing gets between the explanation and the close.                     *)
LEMMA NextExplanationIsLast ==
  TypeOK /\ ClosingHasCause /\ ExplanationIsLast /\ [Next]_vars
    => ExplanationIsLast'
<1> SUFFICES ASSUME TypeOK, ClosingHasCause, ExplanationIsLast, [Next]_vars
             PROVE  ExplanationIsLast'
  OBVIOUS
<1>1. CASE Connect
  BY <1>1 DEF Connect, ConnectRefuse, ConnectAsk, ConnectVerdict,
     ConnectSubscribe, ConnectAccept, ConnectOpen,
     queueVars, handlerVars, heartbeatVars, joinVars, ExplanationIsLast, LastFrame
<1>2. CASE ReceiveJson
  <2>1. CASE Garbage
    <3>1. CASE StartDrain("error_bad_envelope", CLOSE_PROTOCOL_ERROR)
      BY <1>2, <2>1, <3>1, Names, StartDrainExplains DEF Garbage, TakesFrame
    <3>2. CASE UNCHANGED <<dispatcher, drainCode>>
      BY <1>2, <2>1, <3>2 DEF Garbage, TakesFrame, ExplanationIsLast
    <3> QED BY <2>1, <3>1, <3>2 DEF Garbage
  <2>2. CASE Answered \/ HelloCached \/ HelloAsk \/ OnPong
    BY <1>2, <2>2 DEF Answered, HelloCached, HelloAsk, OnPong, TakesFrame,
       ExplanationIsLast
  <2>3. CASE Undecodable
    BY <2>3 DEF Undecodable, ExplanationIsLast
  <2> QED BY <1>2, <2>1, <2>2, <2>3 DEF ReceiveJson
<1>3. CASE HelloVerdict
  <2>1. CASE dispatcher' = "idle"
    BY <2>1 DEF ExplanationIsLast
  <2>2. CASE StartDrain("error_unauthorized", CLOSE_FORBIDDEN)
    BY <1>3, <2>2, Names, StartDrainExplains DEF HelloVerdict
  <2> QED BY <1>3, <2>1, <2>2 DEF HelloVerdict
<1>4. CASE GroupEvent
  <2>1. CASE RealtimeSignal \/ IgnoredEvent
    BY <2>1 DEF RealtimeSignal, IgnoredEvent, TakesEvent, ExplanationIsLast
  <2>2. CASE RealtimeRevoke
    BY <2>2, Names, StartDrainExplains DEF RealtimeRevoke, TakesEvent
  <2> QED BY <1>4, <2>1, <2>2 DEF GroupEvent
<1>5. CASE DrainOver
  BY <1>5 DEF DrainOver, Drained, DrainTimeout, DrainEnds,
     queueVars, handlerVars, heartbeatVars, joinVars, ExplanationIsLast, LastFrame
<1>6. CASE HandlerRaises
  BY <1>6 DEF HandlerRaises,
     queueVars, handlerVars, heartbeatVars, joinVars, ExplanationIsLast, LastFrame
<1>7. CASE Disconnect
  BY <1>7 DEF Disconnect,
     queueVars, handlerVars, heartbeatVars, joinVars, ExplanationIsLast, LastFrame
<1>8. CASE Uncount \/ Leave
  BY <1>8 DEF Uncount, Leave,
     queueVars, handlerVars, heartbeatVars, joinVars, ExplanationIsLast, LastFrame
<1>9. CASE Heartbeat
  <2>1. CASE dispatcher = "draining"
    <3>1. closing
      BY <2>1 DEF ExplanationIsLast
    <3>2. UNCHANGED <<outbox, inFlight, writer, closing, code, lastSent, gone,
                      dispatcher, drainCode>>
      BY <1>9, <3>1, EnqueueOne DEF Heartbeat, HeartbeatTick, HeartbeatPing,
         HeartbeatVerdict, queueVars, handlerVars
    <3> QED BY <3>2, <2>1 DEF ExplanationIsLast, LastFrame
  <2>2. CASE dispatcher # "draining"
    BY <1>9, <2>2 DEF Heartbeat, HeartbeatTick, HeartbeatPing, HeartbeatVerdict,
       handlerVars, ExplanationIsLast
  <2> QED BY <2>1, <2>2
<1>10. CASE SendStep
  <2>1. UNCHANGED <<closing, code, gone, dispatcher, drainCode>>
    BY <1>10 DEF SendStep, WriterTake, WriterSend, WriterFails, handlerVars
  <2>2. CASE dispatcher = "draining" /\ code = NoCode /\ ~gone /\ writer' # "failed"
    <3>0. writer # "failed"
      BY <1>10, <2>2 DEF SendStep, WriterTake, WriterSend, WriterFails
    <3>1. LastFrame(Explanation[drainCode]) /\ drainCode \in DrainCodes
      BY <2>2, <3>0 DEF ExplanationIsLast
    <3>2. Explanation[drainCode] \in ServerFrames
      BY <3>1, Names
    <3>3. LastFrame(Explanation[drainCode])'
      BY <1>10, <2>1, <2>2, <3>1, <3>2, SendKeepsLast
    <3> QED BY <2>1, <2>2, <3>3 DEF ExplanationIsLast
  <2>3. CASE ~(dispatcher = "draining" /\ code = NoCode /\ ~gone /\ writer' # "failed")
    BY <2>1, <2>3 DEF ExplanationIsLast
  <2> QED BY <2>2, <2>3
<1>11. CASE Environment
  BY <1>11 DEF Environment, PeerSends, PeerLeaves, ServerEnds,
     ConnectionEnds, PeerGone, GroupSends, TokenExpires,
     queueVars, handlerVars, heartbeatVars, joinVars, ExplanationIsLast, LastFrame
<1>12. CASE UNCHANGED vars
  BY <1>12 DEF vars,
     queueVars, handlerVars, heartbeatVars, joinVars, ExplanationIsLast, LastFrame
<1> QED BY <1>1, <1>2, <1>3, <1>4, <1>5, <1>6, <1>7, <1>8, <1>9, <1>10, <1>11,
           <1>12 DEF Next

(* A step that leaves the sent frame, the verdict of the drain, the        *)
(* acceptance and a failed writer alone, and sends at most a code that     *)
(* needs no explanation.                                                   *)
LEMMA StaysExplained ==
  ASSUME DrainedCloseIsExplained, UNCHANGED <<lastSent, timedOut, accepted>>,
         writer = "failed" => writer' = "failed",
         code' = code \/ code' \notin DrainCodes
  PROVE  DrainedCloseIsExplained'
BY DEF DrainedCloseIsExplained

(* The closes nobody explains: the plain sends of the code.                *)
LEMMA OtherCodes ==
  /\ CLOSE_UNAUTHENTICATED \notin DrainCodes
  /\ CLOSE_STREAM_UNKNOWN \notin DrainCodes
  /\ CLOSE_HEARTBEAT_TIMEOUT \notin DrainCodes
  /\ CLOSE_OVERFLOW \notin DrainCodes
  /\ CLOSE_HANDLER_RAISED \notin DrainCodes
BY DEF DrainCodes, CLOSE_PROTOCOL_ERROR, CLOSE_UNAUTHENTICATED,
   CLOSE_FORBIDDEN, CLOSE_STREAM_UNKNOWN, CLOSE_HEARTBEAT_TIMEOUT,
   CLOSE_REVOKED, CLOSE_OVERFLOW, CLOSE_HANDLER_RAISED

(* Queueing a frame closes, at most, with the overflow's code.             *)
LEMMA EnqueueCode ==
  ASSUME NEW frame,
         EnqueueAll(<<frame>>) \/ EnqueueThenClosing(frame)
  PROVE  code' = code \/ code' \notin DrainCodes
BY OtherCodes DEF EnqueueAll, EnqueueThenClosing, CloseCode

LEMMA NextDrainedCloseIsExplained ==
  IInv /\ [Next]_vars => DrainedCloseIsExplained'
<1> SUFFICES ASSUME IInv, [Next]_vars PROVE DrainedCloseIsExplained'
  OBVIOUS
<1> USE DEF IInv
<1> USE StaysExplained
<1>1. CASE Connect
  <2>1. CASE ConnectRefuse
    BY <2>1, OtherCodes DEF ConnectRefuse, CloseCode, joinVars
  <2>2. CASE ConnectAsk \/ ConnectSubscribe
    BY <2>2 DEF ConnectAsk, ConnectSubscribe, queueVars, joinVars
  <2>3. CASE ConnectVerdict
    BY <2>3 DEF ConnectVerdict, Handshake, joinVars, DrainedCloseIsExplained
  <2>4. CASE ConnectAccept \/ ConnectOpen
    <3>1. code' = NoCode
      BY <2>4 DEF ConnectAccept, ConnectOpen, Handshake, Opening, queueVars
    <3>2. NoCode \notin DrainCodes
      BY QueueAssumption DEF DrainCodes, CLOSE_PROTOCOL_ERROR, CLOSE_FORBIDDEN,
         CLOSE_REVOKED
    <3> QED BY <3>1, <3>2 DEF DrainedCloseIsExplained
  <2> QED BY <1>1, <2>1, <2>2, <2>3, <2>4 DEF Connect
<1>2. CASE ReceiveJson
  <2>1. code' = code \/ code' \notin DrainCodes
    <3>1. CASE Undecodable
      BY <3>1, OtherCodes DEF Undecodable, CloseCode
    <3> QED
      BY <1>2, <3>1, EnqueueCode DEF ReceiveJson, Garbage, Answered, HelloCached,
         HelloAsk, OnPong, StartDrain
  <2>2. UNCHANGED <<lastSent, timedOut, accepted, writer>>
    BY <1>2 DEF ReceiveJson, Undecodable, Garbage, Answered,
       HelloCached, HelloAsk, OnPong,
       TakesFrame, joinVars
  <2> QED BY <2>1, <2>2
<1>3. CASE HelloVerdict
  BY <1>3, EnqueueCode DEF HelloVerdict, StartDrain, joinVars
<1>4. CASE GroupEvent
  <2>1. code' = code \/ code' \notin DrainCodes
    BY <1>4, EnqueueCode DEF GroupEvent, RealtimeSignal, IgnoredEvent,
       RealtimeRevoke, StartDrain
  <2>2. UNCHANGED <<lastSent, timedOut, accepted, writer>>
    BY <1>4 DEF GroupEvent, RealtimeSignal, IgnoredEvent, RealtimeRevoke,
       TakesEvent, joinVars
  <2> QED BY <2>1, <2>2
<1>5. CASE DrainOver
  <2>1. CASE Drained
    <3>1. dispatcher = "draining" /\ drainCode \in DrainCodes
      BY <2>1 DEF Drained, DrainEnds, ExplanationIsLast
    <3>2. CASE code = NoCode /\ ~gone /\ writer # "failed"
      <4>1. code' = drainCode /\ lastSent' = lastSent
        BY <2>1, <3>2 DEF Drained, DrainEnds, CloseCode
      <4>2. outbox = <<>> /\ inFlight = NoFrame
        <5>1. Len(outbox) \in Nat /\ outbox \in Seq(ServerFrames)
          BY DEF TypeOK, QueueTypeOK
        <5>2. Len(outbox) = 0 /\ inFlight = NoFrame
          BY <2>1, <5>1 DEF Drained, Unfinished
        <5> QED BY ONLY <5>1, <5>2
      <4>3. LastFrame(Explanation[drainCode]) /\ Explanation[drainCode] \in ServerFrames
        BY <3>1, <3>2, Names DEF ExplanationIsLast
      <4>4. lastSent = Explanation[drainCode]
        BY <4>2, <4>3, NoFrameAssumption DEF LastFrame
      <4> QED BY <4>1, <4>4 DEF DrainedCloseIsExplained
    <3>3. CASE ~(code = NoCode /\ ~gone)
      BY <2>1, <3>3 DEF Drained, DrainEnds, CloseCode, joinVars
    <3>4. CASE writer = "failed"
      BY <2>1, <3>4 DEF Drained, DrainEnds, DrainedCloseIsExplained
    <3> QED BY <3>2, <3>3, <3>4
  <2>2. CASE DrainTimeout
    BY <2>2 DEF DrainTimeout, DrainedCloseIsExplained
  <2> QED BY <1>5, <2>1, <2>2 DEF DrainOver
<1>6. CASE HandlerRaises
  BY <1>6, OtherCodes DEF HandlerRaises, CloseCode, joinVars
<1>7. CASE Disconnect
  BY <1>7 DEF Disconnect,
     queueVars, handlerVars, heartbeatVars, joinVars, DrainedCloseIsExplained
<1>8. CASE Uncount \/ Leave
  BY <1>8 DEF Uncount, Leave,
     queueVars, handlerVars, heartbeatVars, joinVars, DrainedCloseIsExplained
<1>9. CASE Heartbeat
  <2>1. CASE HeartbeatPing
    BY <2>1, EnqueueCode DEF HeartbeatPing, handlerVars
  <2>2. CASE HeartbeatTick \/ HeartbeatVerdict
    BY <2>2, OtherCodes DEF HeartbeatTick, HeartbeatVerdict, CloseCode,
       handlerVars, joinVars
  <2> QED BY <1>9, <2>1, <2>2 DEF Heartbeat
<1>10. CASE SendStep
  <2>1. CASE WriterTake \/ WriterFails
    BY <1>10, <2>1 DEF SendStep, WriterTake, WriterFails, handlerVars, joinVars
  <2>2. CASE WriterSend
    <3>1. CASE OnWire
      <4>1. code' = NoCode /\ NoCode \notin DrainCodes
        BY <2>2, <3>1, QueueAssumption DEF WriterSend, OnWire, DrainCodes,
           CLOSE_PROTOCOL_ERROR, CLOSE_FORBIDDEN, CLOSE_REVOKED
      <4> QED BY <4>1 DEF DrainedCloseIsExplained
    <3>2. CASE ~OnWire
      BY <1>10, <2>2, <3>2 DEF SendStep, WriterSend, handlerVars, joinVars
    <3> QED BY <3>1, <3>2
  <2> QED BY <1>10, <2>1, <2>2 DEF SendStep
<1>11. CASE Environment
  BY <1>11 DEF Environment, PeerSends, PeerLeaves, ServerEnds,
     ConnectionEnds, PeerGone, GroupSends, TokenExpires,
     queueVars, handlerVars, heartbeatVars, joinVars, DrainedCloseIsExplained
<1>12. CASE UNCHANGED vars
  BY <1>12 DEF vars,
     queueVars, handlerVars, heartbeatVars, joinVars, DrainedCloseIsExplained
<1> QED BY <1>1, <1>2, <1>3, <1>4, <1>5, <1>6, <1>7, <1>8, <1>9, <1>10, <1>11,
           <1>12 DEF Next

(* closing is never reset, and a refused hello sets it.                    *)
LEMMA NextRefusedIsClosing == IInv /\ [Next]_vars => RefusedIsClosing'
<1> SUFFICES ASSUME TypeOK, Handshake, RefusedIsClosing, [Next]_vars
             PROVE  RefusedIsClosing'
  BY DEF IInv
<1>1. CASE Connect
  BY <1>1 DEF Connect, ConnectRefuse, ConnectAsk, ConnectVerdict,
     ConnectSubscribe, ConnectAccept, ConnectOpen,
     queueVars, handlerVars, heartbeatVars, joinVars, RefusedIsClosing, Handshake, EnqueueAll, EnqueueThenClosing
<1>2. CASE ReceiveJson
  BY <1>2 DEF ReceiveJson, Undecodable, Garbage, Answered,
     HelloCached, HelloAsk, OnPong,
     TakesFrame, StartDrain,
     queueVars, handlerVars, heartbeatVars, joinVars, RefusedIsClosing, Handshake, EnqueueAll, EnqueueThenClosing
<1>3. CASE HelloVerdict
  BY <1>3 DEF HelloVerdict, StartDrain,
     queueVars, handlerVars, heartbeatVars, joinVars, RefusedIsClosing, Handshake, EnqueueAll, EnqueueThenClosing
<1>4. CASE GroupEvent
  BY <1>4 DEF GroupEvent, RealtimeSignal, IgnoredEvent, RealtimeRevoke,
     TakesEvent, StartDrain,
     queueVars, handlerVars, heartbeatVars, joinVars, RefusedIsClosing, Handshake, EnqueueAll, EnqueueThenClosing
<1>5. CASE DrainOver
  BY <1>5 DEF DrainOver, Drained, DrainTimeout, DrainEnds,
     queueVars, handlerVars, heartbeatVars, joinVars, RefusedIsClosing, Handshake, EnqueueAll, EnqueueThenClosing
<1>6. CASE HandlerRaises
  BY <1>6 DEF HandlerRaises,
     queueVars, handlerVars, heartbeatVars, joinVars, RefusedIsClosing, Handshake, EnqueueAll, EnqueueThenClosing
<1>7. CASE Disconnect
  BY <1>7 DEF Disconnect,
     queueVars, handlerVars, heartbeatVars, joinVars, RefusedIsClosing, Handshake, EnqueueAll, EnqueueThenClosing
<1>8. CASE Uncount \/ Leave
  BY <1>8 DEF Uncount, Leave,
     queueVars, handlerVars, heartbeatVars, joinVars, RefusedIsClosing, Handshake, EnqueueAll, EnqueueThenClosing
<1>9. CASE Heartbeat
  BY <1>9 DEF Heartbeat, HeartbeatTick, HeartbeatPing, HeartbeatVerdict,
     queueVars, handlerVars, heartbeatVars, joinVars, RefusedIsClosing, Handshake, EnqueueAll, EnqueueThenClosing
<1>10. CASE SendStep
  BY <1>10 DEF SendStep, WriterTake, WriterSend, WriterFails,
     queueVars, handlerVars, heartbeatVars, joinVars, RefusedIsClosing, Handshake, EnqueueAll, EnqueueThenClosing
<1>11. CASE Environment
  BY <1>11 DEF Environment, PeerSends, PeerLeaves, ServerEnds,
     ConnectionEnds, PeerGone, GroupSends, TokenExpires,
     queueVars, handlerVars, heartbeatVars, joinVars, RefusedIsClosing, Handshake, EnqueueAll, EnqueueThenClosing
<1>12. CASE UNCHANGED vars
  BY <1>12 DEF vars,
     queueVars, handlerVars, heartbeatVars, joinVars, RefusedIsClosing, Handshake, EnqueueAll, EnqueueThenClosing
<1> QED BY <1>1, <1>2, <1>3, <1>4, <1>5, <1>6, <1>7, <1>8, <1>9, <1>10, <1>11,
           <1>12 DEF Next

-----------------------------------------------------------------------------
(* The theorems.                                                           *)

(* Before connect() nothing is open, nothing closes, nothing drains.       *)
LEMMA InitIInv == Init => IInv
<1> SUFFICES ASSUME Init PROVE IInv
  OBVIOUS
<1>1. TypeOK
  BY InitTypeOK
<1>2. Handshake
  BY DEF Init, QueueInit, Handshake, Opening
<1>3. RefusedIsClosing /\ Releasing /\ ClosingHasCause /\ ExplanationIsLast /\ DrainedCloseIsExplained
  BY DEF Init, QueueInit, RefusedIsClosing, Releasing, ClosingHasCause,
     ExplanationIsLast, DrainedCloseIsExplained
<1> QED BY <1>1, <1>2, <1>3 DEF IInv

(* Every step of every task keeps the invariant.                           *)
LEMMA NextIInv == IInv /\ [Next]_vars => IInv'
BY NextTypeOK, NextRefusedIsClosing, NextHandshake, NextReleasing, NextClosingHasCause,
   NextExplanationIsLast, NextDrainedCloseIsExplained DEF IInv

THEOREM Inductive == Spec => []IInv
BY InitIInv, NextIInv, PTL DEF Spec

(* The types of the consumer's state, and the bound of the send queue:     *)
(* no interleaving of handlers, heartbeat and writer grows it over         *)
(* SEND_QUEUE_SIZE.                                                        *)
THEOREM TypeCorrect == Spec => []TypeOK
<1>1. IInv => TypeOK
  BY DEF IInv
<1> QED BY <1>1, Inductive, PTL

(* A socket authorize() never said yes to leaves no trace.                 *)
THEOREM NoTrace == Spec => []RefusedLeavesNoTrace
<1>1. IInv => RefusedLeavesNoTrace
  BY DEF IInv, Handshake, RefusedLeavesNoTrace
<1> QED BY <1>1, Inductive, PTL

(* disconnect() releases everything connect() took.                        *)
THEOREM Released == Spec => []ReleasedWhenEnded
<1>1. IInv => ReleasedWhenEnded
  BY DEF IInv, Releasing, ReleasedWhenEnded
<1> QED BY <1>1, Inductive, PTL

(* The peer that is closed by a handler reads the reason first, for every  *)
(* size of the queue.                                                      *)
THEOREM Explained == Spec => []DrainedCloseIsExplained
<1>1. IInv => DrainedCloseIsExplained
  BY DEF IInv
<1> QED BY <1>1, Inductive, PTL

(* A connection that drops its frames is about to be closed, whichever     *)
(* task made it drop them (_enqueue, _heartbeat_loop, _drain_then_close).  *)
THEOREM MuteIsClosing == Spec => []MuteSocketIsClosing
<1>1. IInv => MuteSocketIsClosing
  BY DEF IInv, ClosingHasCause, ExplanationIsLast, MuteSocketIsClosing
<1> QED BY <1>1, Inductive, PTL

(* A signal is queued only for an open socket whose latest verdict is a    *)
(* yes, however the hello and the signal interleave.                       *)
THEOREM DataAllowed == Spec => DataNeedsVerdict
<1>1. IInv /\ [Next]_vars
        => [(RealtimeSignal /\ outbox' # outbox) => allowed /\ accepted]_vars
  <2> SUFFICES ASSUME IInv, RealtimeSignal, outbox' # outbox
               PROVE  allowed /\ accepted
    OBVIOUS
  <2>1. dispatcher = "idle" /\ events # <<>> /\ ~closing
    BY DEF RealtimeSignal, TakesEvent, EnqueueAll
  <2>2. accepted
    BY <2>1 DEF IInv, Handshake
  <2> QED BY <2>1, <2>2 DEF IInv, RefusedIsClosing
<1> QED BY <1>1, Inductive, PTL DEF Spec, DataNeedsVerdict

(* Nobody closes the socket under a handler that is draining the queue.    *)
THEOREM NotPreempted == Spec => DrainNotPreempted
<1>1. IInv /\ [Next]_vars
        => [dispatcher = "draining" /\ dispatcher' = "draining"
              => code' = code]_vars
  <2> SUFFICES ASSUME IInv, Next, dispatcher = "draining", dispatcher' = "draining"
               PROVE  code' = code
    BY DEF vars, queueVars
  <2>1. closing
    BY DEF IInv, ExplanationIsLast
  <2>2. CASE Heartbeat
    BY <2>1, <2>2 DEF Heartbeat, HeartbeatTick, HeartbeatPing, HeartbeatVerdict,
       EnqueueAll
  <2>3. CASE SendStep \/ Environment
    BY <2>3 DEF SendStep, WriterTake, WriterSend, WriterFails, Environment,
       PeerSends, PeerLeaves, ServerEnds, ConnectionEnds, PeerGone, GroupSends,
       TokenExpires, queueVars
  <2>4. CASE DrainOver
    BY <2>4 DEF DrainOver, Drained, DrainTimeout, DrainEnds
  <2>5. CASE Undecodable
    BY <2>5 DEF Undecodable
  <2>6. CASE Connect \/ (ReceiveJson /\ ~Undecodable) \/ HelloVerdict \/ GroupEvent
             \/ HandlerRaises \/ Disconnect \/ Uncount \/ Leave
    BY <2>6 DEF Connect, ConnectRefuse, ConnectAsk, ConnectVerdict,
       ConnectSubscribe, ConnectAccept, ConnectOpen, ReceiveJson, Garbage,
       Answered, HelloCached, HelloAsk, OnPong, TakesFrame, HelloVerdict,
       GroupEvent, RealtimeSignal, IgnoredEvent, RealtimeRevoke, TakesEvent,
       HandlerRaises, Disconnect, Uncount, Leave
  <2> QED BY <2>2, <2>3, <2>4, <2>5, <2>6 DEF Next
<1> QED BY <1>1, Inductive, PTL DEF Spec, DrainNotPreempted
=============================================================================
