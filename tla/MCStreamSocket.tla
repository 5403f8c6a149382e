--------------------------- MODULE MCStreamSocket ---------------------------
(* StreamSocket for TLC: what each run lets the peer and the group send.   *)
EXTENDS StreamSocket

(* For the safety run: everything.                                         *)
Everything == AllClientFrames
AnyEvent == AllGroupEvents

(* For the run about a revoke on a full queue.                             *)
FaultyPeer == {"hello", "garbage"}
RevokingGroup == {"revoke"}

(* For the liveness run: handlers that block, answer and drain.            *)
TalkingPeer == {"hello", "pong"}
=============================================================================
