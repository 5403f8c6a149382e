------------------------- MODULE RealtimeHostProofs -------------------------
(***************************************************************************)
(* What the system checks promise when they are silent, and that a group   *)
(* name keeps streams apart, for every number of sockets and workers and   *)
(* every configuration.                                                    *)
(*                                                                         *)
(* The properties rest on one inductive invariant: a group entry carries   *)
(* the name of its socket's own stream; an open socket has its entry in    *)
(* the layer of its worker; and the environment tells the number of        *)
(* workers that really run.                                                *)
(***************************************************************************)
EXTENDS RealtimeHost, TLAPS

-----------------------------------------------------------------------------
(* Stream keys and their group names.                                      *)

(* streams.py: the name of a group determines the stream key, also when    *)
(* the key is too long and is hashed.                                      *)
THEOREM NamesAreDistinct ==
  ASSUME NEW a \in StreamKeys, NEW b \in StreamKeys,
         GroupName(a) = GroupName(b)
  PROVE  a = b
<1>1. a[3] \in Segments /\ b[3] \in Segments
  BY DEF StreamKeys
<1>2. CASE Fits(a) /\ Fits(b)
  BY <1>2 DEF GroupName
<1>3. CASE Fits(a) /\ ~Fits(b)
  <2>1. a = <<Module(b), H, Digest[b]>>
    BY <1>3 DEF GroupName
  <2>2. a[3] = Digest[b]
    BY <2>1
  <2> QED
    BY <2>2, <1>1, DigestAssumption
<1>4. CASE ~Fits(a) /\ Fits(b)
  <2>1. b = <<Module(a), H, Digest[a]>>
    BY <1>4 DEF GroupName
  <2>2. b[3] = Digest[a]
    BY <2>1
  <2> QED
    BY <2>2, <1>1, DigestAssumption
<1>5. CASE ~Fits(a) /\ ~Fits(b)
  <2>1. <<Module(a), H, Digest[a]>> = <<Module(b), H, Digest[b]>>
    BY <1>5 DEF GroupName
  <2>2. Digest[a] = Digest[b]
    BY <2>1
  <2> QED
    BY <2>2, DigestAssumption
<1> QED
  BY <1>2, <1>3, <1>4, <1>5

-----------------------------------------------------------------------------
(* The system checks.                                                      *)

(* The first of some variables is one of them (_worker_count's loop).      *)
LEMMA FirstOfSome ==
  ASSUME NEW S \in SUBSET (1..3), S # {}
  PROVE  First(S) \in S
<1>1. \E i \in S : \A j \in S : i <= j
  <2>1. CASE 1 \in S
    BY <2>1
  <2>2. CASE 1 \notin S /\ 2 \in S
    BY <2>2
  <2>3. CASE 1 \notin S /\ 2 \notin S
    <3>1. \A j \in S : j = 3
      BY <2>3
    <3>2. PICK i \in S : TRUE
      OBVIOUS
    <3>3. \A j \in S : i <= j
      BY <3>1
    <3> QED
      BY <3>2, <3>3
  <2> QED
    BY <2>1, <2>2, <2>3
<1> QED
  BY <1>1 DEF First

(* An in-memory layer is only left alone with one worker.                  *)
LEMMA SilentMemoryIsAlone ==
  ASSUME NEW c \in Settings, NEW count \in 1..MaxWorkers,
         TellsWorkers(c.env, count),
         c.layer = "memory", CheckChannelLayer(c) = {}
  PROVE  count = 1
<1>1. ~(WorkerCount(c.env) > 1)
  <2>1. "E001" \notin CheckChannelLayer(c)
    OBVIOUS
  <2> QED
    BY <2>1 DEF CheckChannelLayer
<1>2. c.env \in [1..3 -> (1..MaxWorkers) \cup {Unset, NotANumber}]
  BY DEF Settings
<1>3. count \in Nat /\ count \notin {Unset, NotANumber}
  BY ChecksAssumption
<1>4. SUFFICES ASSUME count > 1 PROVE FALSE
  BY <1>3
<1>5. PICK i \in DOMAIN c.env : c.env[i] = count
  BY <1>4 DEF TellsWorkers
<1>6. Numbers(c.env) \in SUBSET (1..3) /\ Numbers(c.env) # {}
  BY <1>2, <1>3, <1>5 DEF Numbers
<1>7. First(Numbers(c.env)) \in Numbers(c.env)
  BY <1>6, FirstOfSome
<1>8. c.env[First(Numbers(c.env))] = count
  BY <1>7 DEF Numbers, TellsWorkers
<1> QED
  BY <1>1, <1>4, <1>6, <1>8 DEF WorkerCount

(* What a read on a redis host may last is not below the floor, unless the *)
(* statement that silences the check is about something else.              *)
LEMMA SilentTimeoutIsLong ==
  ASSUME NEW c \in Settings, NEW h \in RedisHosts,
         c.layer = "redis", CheckLayerSocketTimeout(c) = {},
         c.timeouts[h] # Absent \/ \A source \in Sources \ {h} : c.timeouts[source] = Absent,
         NEW timeout,
         timeout = IF c.timeouts[h] = Absent THEN c.inherited ELSE c.timeouts[h],
         timeout # Forever
  PROVE  timeout \in Nat /\ timeout >= c.floor
<1>1. /\ c.timeouts \in [Sources -> Seconds \cup {Absent, Forever}]
      /\ c.inherited \in Seconds \cup {Forever}
      /\ c.floor \in Seconds
      /\ h \in Sources
  BY DEF Settings, Sources
<1>2. timeout \in Nat /\ timeout \notin {Absent, Forever} /\ c.floor \in Nat
  BY <1>1, ChecksAssumption
<1>3. "E002" \notin CheckLayerSocketTimeout(c)
  OBVIOUS
<1>4. /\ \A source \in Sources : ~TooShort(c.timeouts[source], c)
      /\ Stated(c) \/ ~TooShort(c.inherited, c)
  BY <1>3 DEF CheckLayerSocketTimeout
<1>5. ~TooShort(timeout, c)
  <2>1. CASE c.timeouts[h] # Absent
    BY <2>1, <1>1, <1>4
  <2>2. CASE c.timeouts[h] = Absent
    <3>1. ~Stated(c)
      BY <2>2 DEF Stated
    <3> QED
      BY <3>1, <2>2, <1>4
  <2> QED
    BY <2>1, <2>2
<1> QED
  BY <1>2, <1>5 DEF TooShort

-----------------------------------------------------------------------------
(* The inductive invariant.                                                *)

Told == TellsWorkers(settings.env, workers)

GroupsAreNamed ==
  \A g \in groups :
    \E where \in 0..MaxWorkers, s \in Sockets :
      g = <<where, GroupName(socket[s].key), s>>

OpenIsReachable ==
  \A s \in Sockets : Open(s) =>
    /\ socket[s].worker \in Workers
    /\ settings.layer # "none"
    /\ Membership(s, socket[s].worker) \in groups

IInv ==
  /\ TypeOK
  /\ Told
  /\ GroupsAreNamed
  /\ OpenIsReachable
  /\ SignalsStayOnTheirStream

(* What the type invariant says of the configuration.                      *)
LEMMA SettingsAreTyped ==
  ASSUME TypeOK
  PROVE  /\ settings \in Settings
         /\ workers \in Nat \ {0}
         /\ Workers \subseteq 1..MaxWorkers
         /\ MaxWorkers \in Nat \ {0}
BY HostAssumption, ChecksAssumption DEF TypeOK, Workers

(* A process keeps its groups at its number, or at SHARED.                 *)
LEMMA Places ==
  ASSUME TypeOK, NEW w \in Workers
  PROVE  LayerOf(w) \in 0..MaxWorkers
BY SettingsAreTyped DEF LayerOf, SHARED

(* A host that starts has no sockets and no groups.                        *)
THEOREM InitInvariant == Init => IInv
<1> SUFFICES ASSUME Init PROVE IInv
  OBVIOUS
<1> USE DEF Init
<1>1. socket \in [Sockets -> Stages]
  <2>1. \A key \in Keys, host \in RedisHosts : Nowhere(key, host) \in Stages
    BY ChecksAssumption DEF Nowhere, Stages
  <2> QED
    BY <2>1
<1>2. \A s \in Sockets : socket[s].stage = "new"
  BY DEF Nowhere
<1>3. channel \in [Sockets -> Seq(Messages)] /\ \A s \in Sockets : Len(channel[s]) = 0
  OBVIOUS
<1>4. TypeOK
  BY <1>1, <1>3, HostAssumption DEF TypeOK
<1>5. GroupsAreNamed /\ Told
  BY DEF GroupsAreNamed, Told
<1>6. OpenIsReachable
  BY <1>2 DEF OpenIsReachable, Open
<1>7. SignalsStayOnTheirStream
  BY DEF SignalsStayOnTheirStream
<1> QED
  BY <1>4, <1>5, <1>6, <1>7 DEF IInv

-----------------------------------------------------------------------------
(* One lemma for each way a socket can end and for a fan-out.              *)

LEMMA EndsKeepsTypes ==
  ASSUME IInv, NEW ended \in SUBSET Sockets, Ends(ended),
         groups' \in SUBSET groups
  PROVE  /\ TypeOK'
         /\ Told'
         /\ GroupsAreNamed'
         /\ SignalsStayOnTheirStream'
         /\ \A s \in Sockets : Open(s)' => s \notin ended /\ socket'[s] = socket[s]
<1> USE DEF IInv
<1>1. socket' \in [Sockets -> Stages]
  BY DEF Ends, TypeOK, Stages
<1>2. \A s \in Sockets : socket'[s].key = socket[s].key
  BY DEF Ends, TypeOK, Stages
<1>3. \A s \in Sockets : channel'[s] = <<>> \/ channel'[s] = channel[s]
  BY DEF Ends
<1>4. /\ channel' \in [Sockets -> Seq(Messages)]
      /\ \A s \in Sockets : Len(channel'[s]) <= Capacity
  <2>1. <<>> \in Seq(Messages) /\ Len(<<>>) = 0
    OBVIOUS
  <2>2. 0 <= Capacity
    BY HostAssumption
  <2>3. \A s \in Sockets : channel[s] \in Seq(Messages) /\ Len(channel[s]) <= Capacity
    BY DEF TypeOK
  <2>4. \A s \in Sockets : channel'[s] \in Seq(Messages) /\ Len(channel'[s]) <= Capacity
    BY ONLY <1>3, <2>1, <2>2, <2>3, Zenon
  <2> QED
    BY <2>4 DEF Ends
<1>5. waited' \in [Sockets -> 0..(EXPIRY - 1)]
  BY HostAssumption DEF Ends, TypeOK
<1>6. TypeOK'
  BY <1>1, <1>4, <1>5 DEF TypeOK, Ends
<1>7. Told'
  BY DEF Told, Ends
<1>8. GroupsAreNamed'
  BY <1>2 DEF GroupsAreNamed
<1>9. SignalsStayOnTheirStream'
  BY <1>2, <1>3 DEF SignalsStayOnTheirStream
<1>10. \A s \in Sockets : Open(s)' => s \notin ended /\ socket'[s] = socket[s]
  BY DEF Ends, Open, TypeOK, Stages
<1> QED
  BY <1>6, <1>7, <1>8, <1>9, <1>10

(* A fan-out appends one message of the stream it was sent to.             *)
LEMMA GroupSendKeeps ==
  ASSUME IInv, NEW p, NEW call \in Calls, NEW message \in Messages,
         GroupSend(p, call, message), message.stream = call
  PROVE  IInv'
<1> USE DEF IInv
<1>0. call \in StreamKeys /\ UNCHANGED <<settings, workers, socket, groups, waited>>
  BY DEF GroupSend
<1>1. \A s \in Reached(p, call) : socket[s].key = call
  <2> SUFFICES ASSUME NEW s \in Reached(p, call) PROVE socket[s].key = call
    OBVIOUS
  <2>1. s \in Sockets /\ <<LayerOf(p), GroupName(call), s>> \in groups
    BY DEF Reached
  <2>2. GroupName(call) = GroupName(socket[s].key)
    BY <2>1 DEF GroupsAreNamed
  <2>3. socket[s].key \in StreamKeys
    BY <2>1 DEF TypeOK, Stages, Keys
  <2> QED
    BY <2>2, <2>3, <1>0, NamesAreDistinct
<1>2. \A s \in Sockets :
        \/ channel'[s] = channel[s]
        \/ s \in Reached(p, call) /\ channel'[s] = Append(channel[s], message)
  BY DEF GroupSend
<1>3. /\ channel' \in [Sockets -> Seq(Messages)]
      /\ \A s \in Sockets : Len(channel'[s]) <= Capacity
  <2>1. \A s \in Sockets : channel'[s] \in Seq(Messages) /\ Len(channel'[s]) <= Capacity
    <3> SUFFICES ASSUME NEW s \in Sockets
                 PROVE  channel'[s] \in Seq(Messages) /\ Len(channel'[s]) <= Capacity
      OBVIOUS
    <3>1. channel[s] \in Seq(Messages) /\ Len(channel[s]) <= Capacity
      BY DEF TypeOK
    <3>2. CASE channel'[s] = channel[s]
      BY <3>1, <3>2
    <3>3. CASE s \in Reached(p, call) /\ channel'[s] = Append(channel[s], message)
      <4>1. Len(channel[s]) < Capacity
        BY <3>3 DEF Reached
      <4> QED
        BY <3>1, <3>3, <4>1, HostAssumption
    <3> QED
      BY <1>2, <3>2, <3>3
  <2> QED
    BY <2>1 DEF GroupSend
<1>4. TypeOK'
  BY <1>0, <1>3 DEF TypeOK
<1>5. Told' /\ GroupsAreNamed'
  BY <1>0 DEF Told, GroupsAreNamed
<1>6. OpenIsReachable'
  BY <1>0 DEF OpenIsReachable, Open, Workers, Membership, LayerOf
<1>7. SignalsStayOnTheirStream'
  <2> SUFFICES ASSUME NEW s \in Sockets, NEW i \in DOMAIN channel'[s]
               PROVE  channel'[s][i].stream = socket[s].key
    BY <1>0 DEF SignalsStayOnTheirStream
  <2>1. channel[s] \in Seq(Messages)
    BY DEF TypeOK
  <2>2. CASE channel'[s] = channel[s]
    BY <2>2 DEF SignalsStayOnTheirStream
  <2>3. CASE s \in Reached(p, call) /\ channel'[s] = Append(channel[s], message)
    <3>1. CASE i = Len(channel[s]) + 1
      BY <2>1, <2>3, <3>1, <1>1
    <3>2. CASE i # Len(channel[s]) + 1
      <4>1. i \in DOMAIN channel[s] /\ channel'[s][i] = channel[s][i]
        BY <2>1, <2>3, <3>2
      <4> QED
        BY <4>1 DEF SignalsStayOnTheirStream
    <3> QED
      BY <3>1, <3>2
  <2> QED
    BY <1>2, <2>2, <2>3
<1> QED
  BY <1>4, <1>5, <1>6, <1>7

-----------------------------------------------------------------------------
(* Every step keeps the invariant.                                         *)

(* connect() enters a socket where its worker keeps its groups.            *)
LEMMA ConnectKeeps ==
  ASSUME IInv, NEW s \in Sockets, NEW w \in Workers, Connect(s, w)
  PROVE  IInv'
<1> USE DEF IInv
<1>0. /\ socket[s].stage = "new" /\ settings.layer # "none"
      /\ UNCHANGED <<settings, workers, channel, waited>>
  BY DEF Connect
<1>1. w \in 1..MaxWorkers
  BY SettingsAreTyped
<1>2. \A x \in Sockets :
        /\ socket'[x].key = socket[x].key
        /\ x # s => socket'[x] = socket[x]
        /\ socket'[x] \in Stages
  BY <1>1 DEF Connect, TypeOK, Stages
<1>3. socket'[s].worker = w
  BY DEF Connect, TypeOK, Stages
<1>4. socket' \in [Sockets -> Stages]
  <2>1. socket' = [x \in Sockets |-> socket'[x]]
    BY DEF Connect, TypeOK
  <2> QED
    BY <1>2, <2>1
<1>5. groups' = groups \cup {Membership(s, w)} /\ groups \subseteq groups'
  BY DEF Connect
<1>6. TypeOK'
  <2>1. \A g \in groups' : g[1] \in 0..MaxWorkers /\ g[3] \in Sockets
    BY <1>5, Places DEF TypeOK, Membership
  <2> QED
    BY <1>0, <1>4, <2>1 DEF TypeOK
<1>7. Told' /\ SignalsStayOnTheirStream'
  BY <1>0, <1>2 DEF Told, SignalsStayOnTheirStream
<1>8. GroupsAreNamed'
  <2> SUFFICES ASSUME NEW g \in groups'
               PROVE  \E where \in 0..MaxWorkers, x \in Sockets :
                        g = <<where, GroupName(socket'[x].key), x>>
    BY DEF GroupsAreNamed
  <2>1. CASE g \in groups
    BY <2>1, <1>2 DEF GroupsAreNamed
  <2>2. CASE g = Membership(s, w)
    BY <2>2, <1>2, Places DEF Membership
  <2> QED
    BY <1>5, <2>1, <2>2
<1>9. OpenIsReachable'
  <2> SUFFICES ASSUME NEW x \in Sockets, Open(x)'
               PROVE  /\ socket'[x].worker \in Workers
                      /\ Membership(x, socket[x].worker)' \in groups'
    BY <1>0 DEF OpenIsReachable, Workers
  <2>1. CASE x = s
    <3>1. Membership(x, socket[x].worker)' = Membership(s, w)
      BY <2>1, <1>0, <1>2, <1>3 DEF Membership, LayerOf
    <3> QED
      BY <2>1, <1>0, <1>3, <1>5, <3>1 DEF Workers
  <2>2. CASE x # s
    <3>1. Open(x) /\ socket'[x] = socket[x]
      BY <2>2, <1>2 DEF Open
    <3>2. Membership(x, socket[x].worker)' = Membership(x, socket[x].worker)
      BY <3>1, <1>0 DEF Membership, LayerOf
    <3> QED
      BY <3>1, <3>2, <1>0, <1>5 DEF OpenIsReachable, Workers
  <2> QED
    BY <2>1, <2>2
<1> QED
  BY <1>6, <1>7, <1>8, <1>9

(* An open socket that a step leaves alone stays reachable if its entry    *)
(* does.                                                                   *)
LEMMA StaysReachable ==
  ASSUME IInv, UNCHANGED <<settings, workers>>,
         \A s \in Sockets : Open(s)' =>
           /\ socket'[s] = socket[s]
           /\ Membership(s, socket[s].worker) \in groups
                => Membership(s, socket[s].worker) \in groups'
  PROVE  OpenIsReachable'
<1> SUFFICES ASSUME NEW s \in Sockets, Open(s)'
             PROVE  /\ socket'[s].worker \in Workers
                    /\ settings.layer # "none"
                    /\ Membership(s, socket[s].worker)' \in groups'
  BY DEF OpenIsReachable, Workers
<1>1. socket'[s] = socket[s] /\ Open(s)
  BY DEF Open
<1>2. Membership(s, socket[s].worker)' = Membership(s, socket[s].worker)
  BY <1>1 DEF Membership, LayerOf
<1>3. /\ socket[s].worker \in Workers
      /\ settings.layer # "none"
      /\ Membership(s, socket[s].worker) \in groups
  BY <1>1 DEF IInv, OpenIsReachable
<1> QED
  BY <1>1, <1>2, <1>3

(* disconnect() takes away the entry of its own socket only.               *)
LEMMA DisconnectKeeps ==
  ASSUME IInv, NEW s \in Sockets, Disconnect(s)
  PROVE  IInv'
<1>1. Ends({s}) /\ groups' \subseteq groups
  BY DEF Disconnect
<1>2. \A x \in Sockets : Open(x)' => x # s /\ socket'[x] = socket[x]
  BY <1>1, EndsKeepsTypes
<1>3. \A x \in Sockets : x # s =>
        (Membership(x, socket[x].worker) \in groups
           => Membership(x, socket[x].worker) \in groups')
  BY DEF Disconnect, Membership
<1>4. OpenIsReachable'
  BY <1>1, <1>2, <1>3, StaysReachable DEF Ends
<1> QED
  BY <1>1, <1>4, EndsKeepsTypes DEF IInv

(* Another worker's memory, and what is shared, survive a restart.         *)
LEMMA RestartKeeps ==
  ASSUME IInv, NEW w \in Workers, Restart(w)
  PROVE  IInv'
<1> DEFINE ended == {s \in Sockets : Open(s) /\ socket[s].worker = w}
<1>1. Ends(ended) /\ groups' \subseteq groups
  BY DEF Restart
<1>2. \A x \in Sockets : Open(x)' => x \notin ended /\ socket'[x] = socket[x]
  BY <1>1, EndsKeepsTypes
<1>3. \A x \in Sockets : Open(x)' => LayerOf(socket[x].worker) # w
  <2> SUFFICES ASSUME NEW x \in Sockets, Open(x)'
               PROVE  LayerOf(socket[x].worker) # w
    OBVIOUS
  <2>1. Open(x) /\ socket[x].worker # w
    BY <1>2 DEF Open
  <2>2. w # SHARED
    BY SettingsAreTyped DEF IInv, SHARED
  <2> QED
    BY <2>1, <2>2 DEF LayerOf
<1>4. \A x \in Sockets : Open(x)' =>
        (Membership(x, socket[x].worker) \in groups
           => Membership(x, socket[x].worker) \in groups')
  BY <1>3 DEF Restart, Membership
<1>5. OpenIsReachable'
  BY <1>1, <1>2, <1>4, StaysReachable DEF Ends
<1> QED
  BY <1>1, <1>5, EndsKeepsTypes DEF IInv

(* A consumer that dies takes nothing from the others.                     *)
LEMMA TornDownKeeps ==
  ASSUME IInv, NEW s \in Sockets, TornDown(s)
  PROVE  IInv'
<1>1. Ends({s}) /\ groups' = groups
  BY DEF TornDown
<1>2. \A x \in Sockets : Open(x)' => socket'[x] = socket[x]
  BY <1>1, EndsKeepsTypes
<1>3. OpenIsReachable'
  BY <1>1, <1>2, StaysReachable DEF Ends
<1> QED
  BY <1>1, <1>3, EndsKeepsTypes DEF IInv

(* The messages behind the one taken stay what they are.                   *)
LEMMA ReceiveKeeps ==
  ASSUME IInv, NEW s \in Sockets, Receive(s)
  PROVE  IInv'
<1> USE DEF IInv
<1>1. UNCHANGED <<settings, workers, socket, groups>>
  BY DEF Receive
<1>2. channel[s] \in Seq(Messages) /\ channel[s] # <<>> /\ Len(channel[s]) <= Capacity
  BY DEF Receive, TypeOK
<1>3. /\ channel' \in [Sockets -> Seq(Messages)]
      /\ channel'[s] = Tail(channel[s])
      /\ \A x \in Sockets : x # s => channel'[x] = channel[x]
  BY <1>2 DEF Receive, TypeOK
<1>4. /\ Len(Tail(channel[s])) <= Capacity
      /\ \A i \in DOMAIN Tail(channel[s]) :
           i + 1 \in DOMAIN channel[s] /\ Tail(channel[s])[i] = channel[s][i + 1]
  BY <1>2, HostAssumption
<1>5. waited' \in [Sockets -> 0..(EXPIRY - 1)]
  BY HostAssumption DEF Receive, TypeOK
<1>6. \A x \in Sockets : Len(channel'[x]) <= Capacity
  BY <1>3, <1>4 DEF TypeOK
<1>7. TypeOK'
  BY <1>1, <1>3, <1>5, <1>6 DEF TypeOK
<1>8. SignalsStayOnTheirStream'
  <2> SUFFICES ASSUME NEW x \in Sockets, NEW i \in DOMAIN channel'[x]
               PROVE  channel'[x][i].stream = socket[x].key
    BY <1>1 DEF SignalsStayOnTheirStream
  <2>1. CASE x = s
    <3>1. i + 1 \in DOMAIN channel[x] /\ channel'[x][i] = channel[x][i + 1]
      BY <2>1, <1>3, <1>4
    <3> QED
      BY <3>1 DEF SignalsStayOnTheirStream
  <2>2. CASE x # s
    BY <2>2, <1>3 DEF SignalsStayOnTheirStream
  <2> QED
    BY <2>1, <2>2
<1>9. Told' /\ GroupsAreNamed'
  BY <1>1 DEF Told, GroupsAreNamed
<1>10. OpenIsReachable'
  BY <1>1, StaysReachable
<1> QED
  BY <1>7, <1>8, <1>9, <1>10

(* A wait of EXPIRY seconds starts again from nothing.                     *)
LEMMA IdleKeeps ==
  ASSUME IInv, Idle
  PROVE  IInv'
<1> USE DEF IInv
<1>1. UNCHANGED <<settings, workers, socket, groups, channel>>
  BY DEF Idle
<1>2. waited' \in [Sockets -> 0..(EXPIRY - 1)]
  <2>1. \A s \in Sockets : waited[s] \in Nat
    BY DEF TypeOK
  <2>2. \A n \in Nat : (n + 1) % EXPIRY \in 0..(EXPIRY - 1)
    BY HostAssumption
  <2>3. 0 \in 0..(EXPIRY - 1)
    BY HostAssumption
  <2> QED
    BY <2>1, <2>2, <2>3 DEF Idle
<1>3. TypeOK'
  BY <1>1, <1>2 DEF TypeOK
<1>4. Told' /\ GroupsAreNamed' /\ SignalsStayOnTheirStream'
  BY <1>1 DEF Told, GroupsAreNamed, SignalsStayOnTheirStream
<1>5. OpenIsReachable'
  BY <1>1, StaysReachable
<1> QED
  BY <1>3, <1>4, <1>5

(* deliver() sends no name of the protocol's; the two others send no other. *)
LEMMA FanoutKeeps ==
  ASSUME IInv, NEW p, NEW call \in Calls, Fanout(p, call)
  PROVE  IInv'
<1>1. call \in Keys
  BY DEF Fanout, Deliver, DeliverFrame, Revoke, GroupSend, Keys
<1>2. CASE \E type \in SignalTypes \cup PROTOCOL_FRAME_TYPES : Deliver(p, call, type)
  <2>1. PICK type \in SignalTypes \cup PROTOCOL_FRAME_TYPES : Deliver(p, call, type)
    BY <1>2
  <2> DEFINE message == [event |-> "signal", stream |-> call, type |-> type]
  <2>2. type \in SignalTypes /\ GroupSend(p, call, message)
    BY <2>1 DEF Deliver
  <2>3. message \in Messages /\ message.stream = call
    BY <1>1, <2>2 DEF Messages
  <2> QED
    BY <2>2, <2>3, GroupSendKeeps
<1>3. CASE DeliverFrame(p, call)
  <2> DEFINE message == [event |-> "frame", stream |-> call, type |-> "live"]
  <2>1. GroupSend(p, call, message)
    BY <1>3 DEF DeliverFrame
  <2>2. message \in Messages /\ message.stream = call
    BY <1>1 DEF Messages
  <2> QED
    BY <2>1, <2>2, GroupSendKeeps
<1>4. CASE Revoke(p, call)
  <2> DEFINE message == [event |-> "revoke", stream |-> call, type |-> "kick"]
  <2>1. GroupSend(p, call, message)
    BY <1>4 DEF Revoke
  <2>2. message \in Messages /\ message.stream = call
    BY <1>1 DEF Messages
  <2> QED
    BY <2>1, <2>2, GroupSendKeeps
<1> QED
  BY <1>2, <1>3, <1>4 DEF Fanout

(* Every step of the host keeps the invariant.                             *)
THEOREM NextKeeps == IInv /\ [Next]_vars => IInv'
<1> SUFFICES ASSUME IInv, [Next]_vars PROVE IInv'
  OBVIOUS
<1>1. ASSUME NEW s \in Sockets, NEW w \in Workers, Connect(s, w) PROVE IInv'
  BY <1>1, ConnectKeeps
<1>2. ASSUME NEW s \in Sockets, Disconnect(s) PROVE IInv'
  BY <1>2, DisconnectKeeps
<1>3. ASSUME NEW s \in Sockets, Receive(s) PROVE IInv'
  BY <1>3, ReceiveKeeps
<1>4. ASSUME NEW s \in Sockets, TornDown(s) PROVE IInv'
  BY <1>4, TornDownKeeps
<1>5. ASSUME NEW w \in Workers, Restart(w) PROVE IInv'
  BY <1>5, RestartKeeps
<1>6. ASSUME NEW w \in Workers, NEW call \in Calls, Fanout(w, call) PROVE IInv'
  BY <1>6, FanoutKeeps
<1>7. CASE Idle
  BY <1>7, IdleKeeps
<1>8. CASE UNCHANGED vars
  <2>1. UNCHANGED <<settings, workers, socket, groups, channel, waited>>
    BY <1>8 DEF vars
  <2>2. OpenIsReachable'
    BY <2>1, StaysReachable
  <2> QED
    BY <2>1, <2>2 DEF IInv, TypeOK, Told, GroupsAreNamed, SignalsStayOnTheirStream
<1> QED
  BY <1>1, <1>2, <1>3, <1>4, <1>5, <1>6, <1>7, <1>8 DEF Next

(* The invariant holds of every host at any time.                          *)
THEOREM Inductive == Spec => []IInv
<1> QED
  BY InitInvariant, NextKeeps, PTL DEF Spec

-----------------------------------------------------------------------------
(* The variables keep their types, and no courtesy frame wears a name of   *)
(* the protocol's (deliver's refusal of PROTOCOL_FRAME_TYPES).             *)
THEOREM TypeCorrect == Spec => []TypeOK
<1>1. IInv => TypeOK
  BY DEF IInv
<1> QED
  BY <1>1, Inductive, PTL

(* What waits for a socket was sent to its own stream, whatever the length *)
(* of the keys (group_name).                                               *)
THEOREM StreamsStayApart == Spec => []SignalsStayOnTheirStream
<1>1. IInv => SignalsStayOnTheirStream
  BY DEF IInv
<1> QED
  BY <1>1, Inductive, PTL

(* With E001 and W001 silent a worker's fan-out is sent where an open      *)
(* socket's worker keeps its groups, so it reaches the socket.             *)
LEMMA SilentReaches ==
  ASSUME IInv, NEW w \in Workers, NEW call, CheckChannelLayer(settings) = {},
         NEW s \in Sockets, Open(s), socket[s].key = call,
         Len(channel[s]) < Capacity
  PROVE  s \in Reached(w, call)
<1>1. settings \in Settings /\ workers \in 1..MaxWorkers
  BY SettingsAreTyped DEF IInv, TypeOK
<1>2. LayerOf(w) = LayerOf(socket[s].worker)
  <2>1. CASE settings.layer # "memory"
    BY <2>1 DEF LayerOf
  <2>2. CASE settings.layer = "memory"
    <3>1. workers = 1
      BY <1>1, <2>2, SilentMemoryIsAlone DEF IInv, Told
    <3>2. w = 1 /\ socket[s].worker = 1
      BY <3>1 DEF IInv, OpenIsReachable, Workers
    <3> QED
      BY <3>2
  <2> QED
    BY <2>1, <2>2
<1> QED
  BY <1>2 DEF IInv, OpenIsReachable, Membership, Reached

(* With E001 and W001 silent a fan-out from any worker gets to every open  *)
(* socket of the stream whose channel has room (check_channel_layer).      *)
THEOREM ReachesEverySocket == Spec => SilentCheckReachesEverySocket
<1>1. ASSUME IInv, NEW w \in Workers, NEW call \in Keys, Fanout(w, call),
             CheckChannelLayer(settings) = {},
             NEW s \in Sockets, Open(s), socket[s].key = call,
             Len(channel[s]) < Capacity
      PROVE  Len(channel'[s]) = Len(channel[s]) + 1
  <2>1. s \in Reached(w, call)
    BY <1>1, SilentReaches
  <2>2. PICK message : channel'[s] = Append(channel[s], message)
    BY <1>1, <2>1 DEF Fanout, Deliver, DeliverFrame, Revoke, GroupSend
  <2>3. channel[s] \in Seq(Messages)
    BY <1>1 DEF IInv, TypeOK
  <2> QED
    BY <2>2, <2>3
<1>2. IInv => [\A w \in Workers, call \in Keys :
       (Fanout(w, call) /\ CheckChannelLayer(settings) = {})
         => \A s \in Sockets :
              (Open(s) /\ socket[s].key = call /\ Len(channel[s]) < Capacity)
                => Len(channel'[s]) = Len(channel[s]) + 1]_vars
  BY <1>1
<1> QED
  BY <1>2, Inductive, PTL DEF SilentCheckReachesEverySocket

(* With E002 silent a parked consumer is torn down on an idle stream only  *)
(* if its host states nothing and something else does                      *)
(* (check_layer_socket_timeout, stated_anywhere).                          *)
THEOREM IdleSocketsLive == Spec => SilentCheckKeepsIdleSockets
<1>1. ASSUME IInv, CheckLayerSocketTimeout(settings) = {},
             settings.floor > EXPIRY,
             NEW s \in Sockets, TornDown(s), ~Overlooked(s)
      PROVE  FALSE
  <2>1. settings \in Settings /\ settings.floor \in Nat
    BY <1>1, SettingsAreTyped, ChecksAssumption DEF IInv, Settings
  <2>2. socket[s].host \in RedisHosts /\ waited[s] \in 0..(EXPIRY - 1)
    BY <1>1 DEF IInv, TypeOK, Stages
  <2>3. settings.layer = "redis" /\ SocketTimeout(s) # Forever
    BY <1>1 DEF TornDown
  <2>4. \/ settings.timeouts[socket[s].host] # Absent
        \/ \A source \in Sources \ {socket[s].host} : settings.timeouts[source] = Absent
    BY <1>1 DEF Overlooked
  <2>5. SocketTimeout(s) \in Nat /\ SocketTimeout(s) >= settings.floor
    BY <1>1, <2>1, <2>2, <2>3, <2>4, SilentTimeoutIsLong DEF SocketTimeout
  <2>6. waited[s] + 1 >= SocketTimeout(s)
    BY <1>1 DEF TornDown
  <2> QED
    BY <1>1, <2>1, <2>2, <2>5, <2>6, HostAssumption
<1>2. IInv => [(CheckLayerSocketTimeout(settings) = {} /\ settings.floor > EXPIRY)
       => \A s \in Sockets : TornDown(s) => Overlooked(s)]_vars
  BY <1>1
<1> QED
  BY <1>2, Inductive, PTL DEF SilentCheckKeepsIdleSockets

-----------------------------------------------------------------------------
(* The host implements BroadcastContract.                                  *)

(* A socket nobody has connected yet is in no group, and nothing waits for *)
(* it.                                                                     *)
NewIsUnknown ==
  \A s \in Sockets : socket[s].stage = "new" =>
    channel[s] = <<>> /\ \A g \in groups : g[3] # s

RInv == IInv /\ NewIsUnknown

(* Only Connect makes a socket known.                                      *)
LEMMA NewStaysUnknown == RInv /\ [Next]_vars => NewIsUnknown'
<1> SUFFICES ASSUME RInv, [Next]_vars, NEW s \in Sockets, socket'[s].stage = "new"
             PROVE  channel'[s] = <<>> /\ \A g \in groups' : g[3] # s
  BY DEF NewIsUnknown
<1>0. TypeOK
  BY DEF RInv, IInv
<1>1. ASSUME NEW x \in Sockets, NEW w \in Workers, Connect(x, w)
      PROVE  /\ socket[s].stage = "new" /\ channel' = channel
             /\ \A g \in groups' : g \in groups \/ g[3] # s
  BY <1>0, <1>1 DEF Connect, Membership, TypeOK, Stages
<1>2. ASSUME NEW ended \in SUBSET Sockets, Ends(ended), groups' \subseteq groups
      PROVE  /\ socket[s].stage = "new" /\ channel'[s] = channel[s]
             /\ groups' \subseteq groups
  BY <1>0, <1>2 DEF Ends, TypeOK, Stages
<1>3. ASSUME NEW x \in Sockets, Disconnect(x) \/ TornDown(x)
      PROVE  \E ended \in SUBSET Sockets : Ends(ended) /\ groups' \subseteq groups
  BY <1>3 DEF Disconnect, TornDown
<1>4. ASSUME NEW w \in Workers, Restart(w)
      PROVE  \E ended \in SUBSET Sockets : Ends(ended) /\ groups' \subseteq groups
  BY <1>4 DEF Restart
<1>5. ASSUME NEW x \in Sockets, Receive(x)
      PROVE  /\ socket' = socket /\ groups' = groups
             /\ s # x => channel'[s] = channel[s]
             /\ Open(x)
  BY <1>0, <1>5 DEF Receive, TypeOK
<1>6. ASSUME NEW p, NEW call, Fanout(p, call)
      PROVE  /\ socket' = socket /\ groups' = groups
             /\ s \notin Reached(p, call) => channel'[s] = channel[s]
  BY <1>6 DEF Fanout, Deliver, DeliverFrame, Revoke, GroupSend
<1>7. ASSUME NEW p, NEW call, Fanout(p, call)
      PROVE  s \notin Reached(p, call)
  <2>1. socket[s].stage = "new"
    BY <1>6, <1>7
  <2>2. \A g \in groups : g[3] # s
    BY <2>1 DEF RInv, NewIsUnknown
  <2> QED
    BY <2>2 DEF Reached
<1>8. ASSUME UNCHANGED <<socket, groups, channel>>
      PROVE  channel'[s] = <<>> /\ \A g \in groups' : g[3] # s
  BY <1>8 DEF RInv, NewIsUnknown
<1>9. CASE Idle
  BY <1>8, <1>9 DEF Idle
<1>10. CASE UNCHANGED vars
  BY <1>8, <1>10 DEF vars
<1>11. ASSUME NEW x \in Sockets, NEW w \in Workers, Connect(x, w)
       PROVE  channel'[s] = <<>> /\ \A g \in groups' : g[3] # s
  BY <1>1, <1>11 DEF RInv, NewIsUnknown
<1>12. ASSUME NEW ended \in SUBSET Sockets, Ends(ended), groups' \subseteq groups
       PROVE  channel'[s] = <<>> /\ \A g \in groups' : g[3] # s
  BY <1>2, <1>12 DEF RInv, NewIsUnknown
<1>13. ASSUME NEW x \in Sockets, Receive(x)
       PROVE  channel'[s] = <<>> /\ \A g \in groups' : g[3] # s
  BY <1>5, <1>13 DEF RInv, NewIsUnknown, Open
<1>14. ASSUME NEW p, NEW call, Fanout(p, call)
       PROVE  channel'[s] = <<>> /\ \A g \in groups' : g[3] # s
  BY <1>6, <1>7, <1>14 DEF RInv, NewIsUnknown
<1> QED
  BY <1>3, <1>4, <1>8, <1>9, <1>10, <1>11, <1>12, <1>13, <1>14 DEF Next

(* What the step of one socket does to what sockets listen to and wait for. *)
LEMMA EndsParts ==
  ASSUME TypeOK, NEW ended \in SUBSET Sockets, Ends(ended)
  PROVE  Broadcaster!Part
<1>1. NothingReported' = NothingReported
  BY DEF Ends, NothingReported
<1>2. ASSUME NEW s \in Sockets
      PROVE  /\ s \in ended => ~Open(s)'
             /\ s \notin ended =>
                  socket'[s] = socket[s] /\ channel'[s] = channel[s]
  BY DEF Ends, Open, TypeOK, Stages
<1>3. ListensTo' = [s \in Sockets |-> IF s \in ended THEN <<>> ELSE ListensTo[s]]
  BY <1>2 DEF ListensTo, Open
<1>4. WaitsFor' = [s \in Sockets |-> IF s \in ended THEN <<>> ELSE WaitsFor[s]]
  BY <1>2 DEF WaitsFor, Open
<1> QED
  BY <1>1, <1>3, <1>4 DEF Broadcaster!Part

(* A fan-out puts one message of its stream behind what waits for the open *)
(* sockets it reaches: some of those that listen, or all.                  *)
LEMMA FanoutPublishes ==
  ASSUME IInv, NEW w \in Workers, NEW call \in Calls, Fanout(w, call)
  PROVE  Broadcaster!Publish
<1>1. call \in Keys /\ UNCHANGED <<settings, socket>>
  BY DEF Fanout, Deliver, DeliverFrame, Revoke, GroupSend, Keys
<1>2. PICK message \in Messages :
        message.stream = call /\ GroupSend(w, call, message)
  <2>1. CASE \E type \in SignalTypes \cup PROTOCOL_FRAME_TYPES : Deliver(w, call, type)
    <3>1. PICK type \in SignalTypes \cup PROTOCOL_FRAME_TYPES : Deliver(w, call, type)
      BY <2>1
    <3> DEFINE m == [event |-> "signal", stream |-> call, type |-> type]
    <3>2. type \in SignalTypes /\ GroupSend(w, call, m)
      BY <3>1 DEF Deliver
    <3>3. m \in Messages /\ m.stream = call
      BY <1>1, <3>2 DEF Messages
    <3> QED
      BY <3>2, <3>3
  <2>2. CASE DeliverFrame(w, call)
    <3> DEFINE m == [event |-> "frame", stream |-> call, type |-> "live"]
    <3>1. m \in Messages /\ m.stream = call /\ GroupSend(w, call, m)
      BY <1>1, <2>2 DEF Messages, DeliverFrame
    <3> QED
      BY <3>1
  <2>3. CASE Revoke(w, call)
    <3> DEFINE m == [event |-> "revoke", stream |-> call, type |-> "kick"]
    <3>1. m \in Messages /\ m.stream = call /\ GroupSend(w, call, m)
      BY <1>1, <2>3 DEF Messages, Revoke
    <3> QED
      BY <3>1
  <2> QED
    BY <2>1, <2>2, <2>3 DEF Fanout
<1> DEFINE reached == {s \in Reached(w, call) : Open(s)}
           room == {s \in Sockets : ListensTo[s] = call /\ Len(WaitsFor[s]) < Capacity}
<1>3. reached \in SUBSET room
  <2> SUFFICES ASSUME NEW s \in reached PROVE s \in room
    OBVIOUS
  <2>1. /\ s \in Sockets /\ Open(s) /\ Len(channel[s]) < Capacity
        /\ <<LayerOf(w), GroupName(call), s>> \in groups
    BY DEF Reached
  <2>2. GroupName(call) = GroupName(socket[s].key)
    BY <2>1 DEF IInv, GroupsAreNamed
  <2>3. socket[s].key \in StreamKeys
    BY <2>1 DEF IInv, TypeOK, Stages, Keys
  <2>4. socket[s].key = call
    BY <1>1, <2>2, <2>3, NamesAreDistinct DEF Keys
  <2> QED
    BY <2>1, <2>4 DEF ListensTo, WaitsFor
<1>4. NothingReported => reached = room
  <2> SUFFICES ASSUME NothingReported, NEW s \in room PROVE s \in reached
    BY <1>3
  <2>1. Open(s)
    <3>1. <<>> \notin StreamKeys
      BY DEF StreamKeys
    <3> QED
      BY <1>1, <3>1 DEF ListensTo, Keys
  <2>2. s \in Sockets /\ socket[s].key = call /\ Len(channel[s]) < Capacity
    BY <2>1 DEF ListensTo, WaitsFor
  <2> QED
    BY <2>1, <2>2, SilentReaches DEF NothingReported
<1>5. WaitsFor' = [s \in Sockets |->
        IF s \in reached THEN Append(WaitsFor[s], message) ELSE WaitsFor[s]]
  BY <1>1, <1>2 DEF GroupSend, WaitsFor, Open
<1>6. UNCHANGED <<NothingReported, ListensTo>>
  BY <1>1 DEF NothingReported, ListensTo, Open
<1> HIDE DEF reached
<1>7. reached \in SUBSET Broadcaster!WithRoom(message.stream)
  BY <1>2, <1>3 DEF Broadcaster!WithRoom
<1>8. NothingReported => reached = Broadcaster!WithRoom(message.stream)
  BY <1>2, <1>4 DEF Broadcaster!WithRoom
<1> QED
  BY <1>5, <1>6, <1>7, <1>8 DEF Broadcaster!Publish

(* For any number of workers and sockets, any keys and any size of the     *)
(* channels, sockets cannot tell the host from one process                 *)
(* (delivery.py, _group_send).                                             *)
THEOREM HostIsOneProcess == Spec => ImplementsBroadcast
<1>1. Init => Broadcaster!BroadcastInit /\ NewIsUnknown
  <2> SUFFICES ASSUME Init PROVE Broadcaster!BroadcastInit /\ NewIsUnknown
    OBVIOUS
  <2>1. \A s \in Sockets : ~Open(s) /\ channel[s] = <<>>
    BY DEF Init, Open, Nowhere
  <2>2. NothingReported \in BOOLEAN
    BY DEF NothingReported
  <2> QED
    BY <2>1, <2>2 DEF Init, ListensTo, WaitsFor, NewIsUnknown, Broadcaster!BroadcastInit
<1>2. RInv /\ [Next]_vars => [Broadcaster!BroadcastNext]_(Broadcaster!broadcastVars)
  <2> SUFFICES ASSUME RInv, [Next]_vars
               PROVE  Broadcaster!BroadcastNext \/ UNCHANGED Broadcaster!broadcastVars
    OBVIOUS
  <2> USE DEF Broadcaster!BroadcastNext
  <2>0. IInv /\ TypeOK
    BY DEF RInv, IInv
  <2>1. ASSUME NEW s \in Sockets, NEW w \in Workers, Connect(s, w)
        PROVE  Broadcaster!Join
    <3>1. /\ socket[s].stage = "new" /\ channel[s] = <<>> /\ channel' = channel
          /\ settings' = settings
      BY <2>1 DEF Connect, RInv, NewIsUnknown
    <3>2. /\ socket'[s].stage = "open" /\ socket'[s].key = socket[s].key
          /\ \A x \in Sockets : x # s => socket'[x] = socket[x]
          /\ socket[s].key \in Keys
      BY <2>0, <2>1 DEF Connect, TypeOK, Stages
    <3>3. /\ ListensTo[s] = <<>>
          /\ ListensTo' = [ListensTo EXCEPT ![s] = socket[s].key]
          /\ WaitsFor' = WaitsFor /\ NothingReported' = NothingReported
      BY <3>1, <3>2 DEF ListensTo, WaitsFor, NothingReported, Open
    <3> QED
      BY <3>2, <3>3 DEF Broadcaster!Join
  <2>2. ASSUME NEW s \in Sockets, Disconnect(s) \/ TornDown(s)
        PROVE  Broadcaster!Part
    BY <2>0, <2>2, EndsParts DEF Disconnect, TornDown
  <2>3. ASSUME NEW w \in Workers, Restart(w)
        PROVE  Broadcaster!Part
    <3> DEFINE ended == {s \in Sockets : Open(s) /\ socket[s].worker = w}
    <3>1. ended \in SUBSET Sockets /\ Ends(ended)
      BY <2>3 DEF Restart
    <3> QED
      BY <2>0, <3>1, EndsParts
  <2>4. ASSUME NEW s \in Sockets, Receive(s)
        PROVE  Broadcaster!Take
    <3>1. /\ Open(s) /\ channel[s] # <<>>
          /\ channel' = [channel EXCEPT ![s] = Tail(channel[s])]
          /\ settings' = settings /\ socket' = socket
      BY <2>4 DEF Receive
    <3>2. /\ WaitsFor[s] # <<>>
          /\ WaitsFor' = [WaitsFor EXCEPT ![s] = Tail(WaitsFor[s])]
      BY <2>0, <3>1 DEF WaitsFor, Open, TypeOK
    <3>3. UNCHANGED <<NothingReported, ListensTo>>
      BY <3>1 DEF NothingReported, ListensTo, Open
    <3> QED
      BY <3>2, <3>3 DEF Broadcaster!Take
  <2>5. ASSUME NEW w \in Workers, NEW call \in Calls, Fanout(w, call)
        PROVE  Broadcaster!Publish
    BY <2>0, <2>5, FanoutPublishes
  <2>6. ASSUME UNCHANGED <<settings, socket, channel>>
        PROVE  UNCHANGED Broadcaster!broadcastVars
    BY <2>6 DEF Broadcaster!broadcastVars, NothingReported, ListensTo, WaitsFor, Open
  <2>7. CASE Idle \/ UNCHANGED vars
    BY <2>6, <2>7 DEF Idle, vars
  <2> QED
    BY <2>1, <2>2, <2>3, <2>4, <2>5, <2>7 DEF Next
<1>3. Spec => []RInv
  <2>1. IInv /\ NewIsUnknown /\ [Next]_vars => NewIsUnknown'
    BY NewStaysUnknown DEF RInv
  <2>2. Init => NewIsUnknown
    BY <1>1
  <2>3. Spec => []NewIsUnknown
    BY <2>1, <2>2, Inductive, PTL DEF Spec
  <2> QED
    BY <2>3, Inductive, PTL DEF RInv
<1> QED
  BY <1>1, <1>2, <1>3, PTL DEF Spec, ImplementsBroadcast, Broadcaster!Broadcast
=============================================================================
