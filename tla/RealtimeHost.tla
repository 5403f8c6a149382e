---------------------------- MODULE RealtimeHost ----------------------------
(***************************************************************************)
(* A host of several workers: which sockets a fan-out reaches, and which   *)
(* of them live through an idle stream, for every way to configure the     *)
(* channel layer and the workers, and what the system checks said of it.   *)
(* delivery.py, streams.py and checks.py, with connect() and disconnect()  *)
(* of consumers.py as far as the group goes.                               *)
(*                                                                         *)
(* StreamAccess has the rights and StreamSocket the tasks of a socket;     *)
(* PresenceRegistry has the leases and JournalStream the rows a fan-out    *)
(* announces.  Here the layer's clock is the only one.                     *)
(***************************************************************************)
EXTENDS StreamGroups, SystemChecks

CONSTANTS
  Sockets,      \* by channel name, unique for ever
  Calls,        \* what callers pass as a stream key, not always a legal one
  SignalTypes,  \* types of the signals of modules
  EXPIRY,       \* the layer lets a consumer wait that long at a time
  Capacity,     \* messages the layer keeps for one channel
  Configurations   \* the settings looked at

(* envelope.py: every name the protocol owns.                              *)
PROTOCOL_FRAME_TYPES ==
  {"hello", "ping", "pong", "welcome", "replay", "replay_done", "live",
   "resync", "kick", "error", "ephemeral"}

Keys == Calls \cap StreamKeys

ASSUME HostAssumption ==
  /\ Keys # {}
  /\ SignalTypes \cap PROTOCOL_FRAME_TYPES = {}
  /\ EXPIRY \in Nat \ {0}
  /\ Capacity \in Nat
  /\ Configurations \subseteq Settings

VARIABLES
  settings,   \* the host's configuration
  workers,    \* how many workers the ASGI server runs
  socket,     \* each socket: its stage, worker, stream key and redis host
  groups,     \* <<where, name, socket>>: the layer's groups
  channel,    \* the messages the layer holds for each socket
  waited      \* how long each socket's consumer is parked in BZPOPMIN

vars == <<settings, workers, socket, groups, channel, waited>>

Workers == 1..workers
SHARED == 0   \* a layer that is not inside a process

Open(s) == socket[s].stage = "open"

(* The number the server runs is the one the environment tells.            *)
TellsWorkers(env, count) ==
  /\ \A i \in DOMAIN env : env[i] \in {Unset, NotANumber, count}
  /\ count > 1 => \E i \in DOMAIN env : env[i] = count

Nowhere(key, host) == [stage |-> "new", worker |-> 1, key |-> key, host |-> host]

Init ==
  /\ settings \in Configurations
  /\ workers \in 1..MaxWorkers
  /\ TellsWorkers(settings.env, workers)
  /\ socket \in [Sockets -> {Nowhere(key, host) : key \in Keys, host \in RedisHosts}]
  /\ groups = {}
  /\ channel = [s \in Sockets |-> <<>>]
  /\ waited = [s \in Sockets |-> 0]

-----------------------------------------------------------------------------
(* Where a process keeps its groups.                                       *)
LayerOf(process) == IF settings.layer = "memory" THEN process ELSE SHARED

Membership(s, w) == <<LayerOf(w), GroupName(socket[s].key), s>>

(* connect(), authorized: group_add and accept.  Without a layer group_add *)
(* raises and the socket is never open.                                    *)
Connect(s, w) ==
  /\ socket[s].stage = "new"
  /\ settings.layer # "none"
  /\ socket' = [socket EXCEPT ![s].stage = "open", ![s].worker = w]
  /\ groups' = groups \cup {Membership(s, w)}
  /\ UNCHANGED <<settings, workers, channel, waited>>

Ends(ended) ==
  /\ socket' = [s \in Sockets |->
       IF s \in ended THEN [socket[s] EXCEPT !.stage = "ended"] ELSE socket[s]]
  /\ channel' = [s \in Sockets |-> IF s \in ended THEN <<>> ELSE channel[s]]
  /\ waited' = [s \in Sockets |-> IF s \in ended THEN 0 ELSE waited[s]]
  /\ UNCHANGED <<settings, workers>>

(* disconnect(): group_discard.                                            *)
Disconnect(s) ==
  /\ Open(s)
  /\ Ends({s})
  /\ groups' = groups \ {Membership(s, socket[s].worker)}

(* A worker dies and is started again: what was in its memory is gone.     *)
Restart(w) ==
  /\ Ends({s \in Sockets : Open(s) /\ socket[s].worker = w})
  /\ groups' = {g \in groups : g[1] # w}

-----------------------------------------------------------------------------
(* _group_send() in one process: the sockets whose channel takes it.       *)
Reached(process, key) ==
  {s \in Sockets : /\ settings.layer # "none"
                   /\ <<LayerOf(process), GroupName(key), s>> \in groups
                   /\ Len(channel[s]) < Capacity}

(* An illegal key raises in group_name() and nothing is sent.  A send that *)
(* raises is swallowed and changes nothing: it is no step.                 *)
GroupSend(process, call, message) ==
  /\ call \in StreamKeys
  /\ channel' = [s \in Sockets |->
       IF s \in Reached(process, call) THEN Append(channel[s], message)
                                       ELSE channel[s]]
  /\ UNCHANGED <<settings, workers, socket, groups, waited>>

(* Mutant of Deliver: the type of the frame is not looked at.              *)
DeliverAnything(process, call, type) ==
  GroupSend(process, call, [event |-> "signal", stream |-> call, type |-> type])

(* deliver(): a type the protocol owns is refused.                         *)
Deliver(process, call, type) ==
  /\ type \notin PROTOCOL_FRAME_TYPES
  /\ GroupSend(process, call, [event |-> "signal", stream |-> call, type |-> type])

(* deliver_frame() and revoke(): read as "live" and "kick".                *)
DeliverFrame(process, call) ==
  GroupSend(process, call, [event |-> "frame", stream |-> call, type |-> "live"])

(* Mutant of Revoke: the kick takes the place of whatever waits.           *)
RevokeReplaces(process, call) ==
  /\ call \in StreamKeys
  /\ channel' = [s \in Sockets |->
       IF settings.layer # "none" /\ <<LayerOf(process), GroupName(call), s>> \in groups
         THEN <<[event |-> "revoke", stream |-> call, type |-> "kick"]>>
         ELSE channel[s]]
  /\ UNCHANGED <<settings, workers, socket, groups, waited>>

Revoke(process, call) ==
  GroupSend(process, call, [event |-> "revoke", stream |-> call, type |-> "kick"])

-----------------------------------------------------------------------------
(* The consumer takes a message, and parks again.                          *)
Receive(s) ==
  /\ Open(s)
  /\ channel[s] # <<>>
  /\ channel' = [channel EXCEPT ![s] = Tail(@)]
  /\ waited' = [waited EXCEPT ![s] = 0]
  /\ UNCHANGED <<settings, workers, socket, groups>>

(* A second of silence; a wait of EXPIRY seconds ends and the next begins. *)
Idle ==
  /\ settings.layer = "redis"
  /\ waited' = [s \in Sockets |->
       IF Open(s) /\ channel[s] = <<>> THEN (waited[s] + 1) % EXPIRY ELSE 0]
  /\ UNCHANGED <<settings, workers, socket, groups, channel>>

(* redis-py gives up on a read that lasts socket_timeout: the one of the   *)
(* host's own entry, the only shape the layer forwards, or the library's.  *)
SocketTimeout(s) ==
  LET stated == settings.timeouts[socket[s].host]
  IN  IF stated = Absent THEN settings.inherited ELSE stated

TornDown(s) ==
  /\ settings.layer = "redis"
  /\ Open(s)
  /\ channel[s] = <<>>
  /\ SocketTimeout(s) # Forever
  /\ waited[s] + 1 >= SocketTimeout(s)
  /\ Ends({s})
  /\ UNCHANGED groups

-----------------------------------------------------------------------------
Fanout(process, call) ==
  \/ \E type \in SignalTypes \cup PROTOCOL_FRAME_TYPES : Deliver(process, call, type)
  \/ DeliverFrame(process, call)
  \/ Revoke(process, call)

Next ==
  \/ \E s \in Sockets :
       \/ \E w \in Workers : Connect(s, w)
       \/ Disconnect(s)
       \/ Receive(s)
       \/ TornDown(s)
  \/ \E w \in Workers : Restart(w)
  \/ \E w \in Workers, call \in Calls : Fanout(w, call)
  \/ Idle

Spec == Init /\ [][Next]_vars

-----------------------------------------------------------------------------
(* Properties                                                              *)

Messages ==
  [event : {"signal"}, stream : Keys, type : SignalTypes]
    \cup [event : {"frame"}, stream : Keys, type : {"live"}]
    \cup [event : {"revoke"}, stream : Keys, type : {"kick"}]

Stages == [stage : {"new", "open", "ended"}, worker : 1..MaxWorkers, key : Keys,
           host : RedisHosts]

(* The type invariant.  A courtesy frame never wears a protocol name:      *)
(* "live" and "kick" reach a socket only from deliver_frame() and          *)
(* revoke().                                                               *)
TypeOK ==
  /\ settings \in Configurations
  /\ workers \in 1..MaxWorkers
  /\ socket \in [Sockets -> Stages]
  /\ \A g \in groups : g[1] \in 0..MaxWorkers /\ g[3] \in Sockets
  /\ channel \in [Sockets -> Seq(Messages)]
  /\ \A s \in Sockets : Len(channel[s]) <= Capacity
  /\ waited \in [Sockets -> 0..(EXPIRY - 1)]

(* streams.py: a group "physically cannot deliver a frame" across streams. *)
(* Whatever sockets come and go in whatever workers, and however long      *)
(* their keys are, what waits for a socket was sent to its own stream.     *)
SignalsStayOnTheirStream ==
  \A s \in Sockets : \A i \in DOMAIN channel[s] :
    channel[s][i].stream = socket[s].key

(* If neither E001 nor W001 is reported, what any worker sends to a stream *)
(* gets to every socket open on it, in whichever worker, also after other  *)
(* workers were restarted, unless the socket's channel is full             *)
(* (check_channel_layer, _worker_count, _group_send).                      *)
SilentCheckReachesEverySocket ==
  [][\A w \in Workers, call \in Keys :
       (Fanout(w, call) /\ CheckChannelLayer(settings) = {})
         => \A s \in Sockets :
              (Open(s) /\ socket[s].key = call /\ Len(channel[s]) < Capacity)
                => Len(channel'[s]) = Len(channel[s]) + 1]_vars

(* If E002 is not reported and the floor is above the layer's expiry, a    *)
(* consumer dies of an idle stream in one way only: its redis host is one  *)
(* whose entry states no timeout, behind a statement somewhere else, in    *)
(* CONFIG, in connection_kwargs or for another host, which the check takes *)
(* for an answer about this one too (check_layer_socket_timeout,           *)
(* stated_anywhere).  Whoever states a timeout for each host, or nowhere,  *)
(* is told the truth.                                                      *)
Overlooked(s) ==
  /\ settings.timeouts[socket[s].host] = Absent
  /\ \E source \in Sources \ {socket[s].host} : settings.timeouts[source] # Absent

SilentCheckKeepsIdleSockets ==
  [][(CheckLayerSocketTimeout(settings) = {} /\ settings.floor > EXPIRY)
       => \A s \in Sockets : TornDown(s) => Overlooked(s)]_vars

(* To its sockets the host is one process: whichever workers they are on,  *)
(* restart and fan out, and whatever waits for a socket that is no longer  *)
(* there, an open socket is sent what BroadcastContract says, by a host of *)
(* which E001 and W001 say nothing every time there is room (delivery.py;  *)
(* connect, disconnect).                                                   *)
NothingReported == CheckChannelLayer(settings) = {}
ListensTo == [s \in Sockets |-> IF Open(s) THEN socket[s].key ELSE <<>>]
WaitsFor == [s \in Sockets |-> IF Open(s) THEN channel[s] ELSE <<>>]

Broadcaster == INSTANCE BroadcastContract WITH
  Listeners <- Sockets,
  Streams <- Keys,
  NoStream <- <<>>,
  reliable <- NothingReported,
  stream <- ListensTo,
  mailbox <- WaitsFor

ImplementsBroadcast == Broadcaster!Broadcast
=============================================================================
