------------------------- MODULE StreamAccessProofs -------------------------
(***************************************************************************)
(* The safety of StreamAccess, for any number of sockets and users, any    *)
(* windows and capacities and any configuration of the guard.              *)
(*                                                                         *)
(* IInv is inductive.  Vouched and Dated tie every yes, on its way and     *)
(* cached, to the time the rights were last seen; Stages and Queues tie a  *)
(* revoke in a channel to what is queued behind it.                        *)
(***************************************************************************)
EXTENDS StreamAccess, OriginGuardProofs

Yes(s) == verdict[s] = TRUE

HadRights(u) == u \in rights \/ lostAt[u] >= 0

Vouched ==
  \A s \in Sockets : (Yes(s) \/ s \in Served) => Judges /\ HadRights(UserOf[s])

LossesArePast ==
  \A u \in Users : lostAt[u] = -CAPABILITY_CACHE_S - 1 \/ lostAt[u] \in 0..now

Dated ==
  \A s \in Sockets :
    /\ asked[s] <= now
    /\ until[s] <= now + AUTHORIZE_CACHE_S
    /\ UserOf[s] \notin rights =>
         /\ Yes(s) => asked[s] <= lostAt[UserOf[s]] + CAPABILITY_CACHE_S
         /\ s \in Served =>
              until[s] <= lostAt[UserOf[s]] + CAPABILITY_CACHE_S + AUTHORIZE_CACHE_S

Stages ==
  \A s \in Sockets :
    /\ phase[s] \notin {"asking", "reasking"} => verdict[s] = NoVerdict
    /\ phase[s] \notin {"open", "reasking"} => channel[s] = <<>>
    /\ named[s] => phase[s] \in {"open", "reasking", "closed"}
    /\ code[s] = CLOSE_REVOKED => phase[s] = "closed" /\ named[s]

(* A channel q of a socket of user u, n if a revoke ever named it.         *)
Naming(u) == {Everyone, u}

QueueOK(q, u, n) ==
  /\ \A i \in 1..Len(q) : q[i] \in Naming(u) => n
  /\ \A j \in 1..Len(q) :
       q[j] = "late" => \E i \in 1..Len(q) : i < j /\ q[i] \in Naming(u)
  /\ n => \E i \in 1..Len(q) : q[i] \in Naming(u)

Queues ==
  \A s \in Sockets :
    phase[s] \in {"open", "reasking"} => QueueOK(channel[s], UserOf[s], named[s])

IInv ==
  TypeOK /\ Vouched /\ LossesArePast /\ Dated /\ Stages /\ Queues

-----------------------------------------------------------------------------
(* Channels as sequences.                                                  *)

(* A signal behind a revoke is late.                                       *)
LEMMA SignalKeepsQueue ==
  ASSUME NEW q \in Seq(Messages), NEW u \in Users, NEW n \in BOOLEAN,
         QueueOK(q, u, n)
  PROVE  QueueOK(Append(q, IF n THEN "late" ELSE "signal"), u, n)
<1> DEFINE m == IF n THEN "late" ELSE "signal"
<1> DEFINE r == Append(q, m)
<1>1. /\ Len(r) = Len(q) + 1
      /\ \A i \in 1..Len(q) : r[i] = q[i]
      /\ r[Len(q) + 1] = m
  OBVIOUS
<1>2. m \notin Naming(u) /\ (m = "late" => n)
  BY AccessAssumption DEF Naming
<1>3. QueueOK(r, u, n)
  <2> HIDE DEF m, r
  <2>1. ASSUME n
        PROVE  \E i \in 1..Len(q) : q[i] \in Naming(u)
    BY <2>1 DEF QueueOK
  <2>2. \A i \in 1..Len(r) : i \in 1..Len(q) \/ i = Len(q) + 1
    BY <1>1
  <2> QED BY <1>1, <1>2, <2>1, <2>2 DEF QueueOK
<1> QED BY <1>3

(* A revoke names its target and nobody else.                              *)
LEMMA RevokeKeepsQueue ==
  ASSUME NEW q \in Seq(Messages), NEW u \in Users, NEW n \in BOOLEAN,
         NEW target \in Users \cup {Everyone}, QueueOK(q, u, n)
  PROVE  QueueOK(Append(q, target), u, n \/ target \in Naming(u))
<1> DEFINE r == Append(q, target)
<1>1. /\ Len(r) = Len(q) + 1
      /\ \A i \in 1..Len(q) : r[i] = q[i]
      /\ r[Len(q) + 1] = target
  OBVIOUS
<1>2. target # "late"
  BY AccessAssumption
<1>3. QueueOK(r, u, n \/ target \in Naming(u))
  <2> HIDE DEF r
  <2>1. \A i \in 1..Len(r) : i \in 1..Len(q) \/ i = Len(q) + 1
    BY <1>1
  <2> QED BY <1>1, <1>2, <2>1 DEF QueueOK
<1> QED BY <1>3

(* The head of a channel is never late, and taking one that names somebody *)
(* else leaves the rest in order.                                          *)
LEMMA TakeKeepsQueue ==
  ASSUME NEW q \in Seq(Messages), NEW u \in Users, NEW n \in BOOLEAN,
         q # <<>>, QueueOK(q, u, n)
  PROVE  /\ Head(q) # "late"
         /\ Head(q) \in Naming(u) => n
         /\ Head(q) \notin Naming(u) => QueueOK(Tail(q), u, n)
<1> DEFINE t == Tail(q)
<1>1. /\ Len(q) \in Nat \ {0}
      /\ Head(q) = q[1]
      /\ Len(t) = Len(q) - 1
      /\ \A i \in 1..Len(t) : t[i] = q[i + 1]
  OBVIOUS
<1>2. Head(q) # "late" /\ (Head(q) \in Naming(u) => n)
  BY <1>1 DEF QueueOK
<1>3. ASSUME Head(q) \notin Naming(u)
      PROVE  QueueOK(t, u, n)
  <2> HIDE DEF t
  <2>1. \A i \in 1..Len(q) : q[i] \in Naming(u) => i - 1 \in 1..Len(t) /\ t[i - 1] = q[i]
    BY <1>1, <1>3
  <2> QED BY <1>1, <2>1 DEF QueueOK
<1> QED BY <1>2, <1>3

-----------------------------------------------------------------------------
(* The invariant holds initially.                                          *)
LEMMA InitIInv == Init => IInv
<1> SUFFICES ASSUME Init PROVE IInv
  OBVIOUS
<1> USE AccessAssumption DEF Init
<1>1. TypeOK
  BY DEF TypeOK
<1>2. \A s \in Sockets : ~Yes(s) /\ s \notin Served
  BY DEF Yes, Served
<1>3. Vouched
  BY <1>2 DEF Vouched
<1>4. LossesArePast
  BY DEF LossesArePast
<1>5. Dated
  BY <1>2 DEF Dated
<1>6. Stages /\ Queues
  BY DEF Stages, Queues, CLOSE_REVOKED
<1> QED BY <1>1, <1>3, <1>4, <1>5, <1>6 DEF IInv

(* Every other socket's fields are as they were.                           *)
OthersStay(s) ==
  \A x \in Sockets \ {s} :
    /\ phase'[x] = phase[x] /\ asked'[x] = asked[x] /\ verdict'[x] = verdict[x]
    /\ until'[x] = until[x] /\ channel'[x] = channel[x] /\ named'[x] = named[x]
    /\ code'[x] = code[x]

(* A step that changes the fields of one socket, neither the rights nor    *)
(* the clock, keeps the invariant if the socket's own fields keep theirs.  *)
LEMMA OneSocket ==
  ASSUME NEW s \in Sockets, IInv, TypeOK', OthersStay(s),
         UNCHANGED <<stream, now, rights, lostAt>>,
         (Yes(s)' \/ phase'[s] \in {"subscribing", "open", "reasking"})
           => Yes(s) \/ s \in Served \/ (Judges /\ HadRights(UserOf[s])),
         asked'[s] <= now,
         until'[s] <= now + AUTHORIZE_CACHE_S,
         UserOf[s] \notin rights =>
           /\ Yes(s)' => asked'[s] <= lostAt[UserOf[s]] + CAPABILITY_CACHE_S
           /\ phase'[s] \in {"subscribing", "open", "reasking"} =>
                until'[s] <= lostAt[UserOf[s]] + CAPABILITY_CACHE_S + AUTHORIZE_CACHE_S,
         phase'[s] \notin {"asking", "reasking"} => verdict'[s] = NoVerdict,
         phase'[s] \notin {"open", "reasking"} => channel'[s] = <<>>,
         named'[s] => phase'[s] \in {"open", "reasking", "closed"},
         code'[s] = CLOSE_REVOKED => phase'[s] = "closed" /\ named'[s],
         phase'[s] \in {"open", "reasking"} =>
           QueueOK(channel'[s], UserOf[s], named'[s])
  PROVE  IInv'
<1>1. Vouched'
  <2> SUFFICES ASSUME NEW x \in Sockets, Yes(x)' \/ (x \in Served)'
               PROVE  (Judges /\ HadRights(UserOf[x]))'
    BY DEF Vouched
  <2>1. Yes(x) \/ x \in Served \/ (Judges /\ HadRights(UserOf[x]))
    BY DEF OthersStay, Yes, Served
  <2>2. Judges /\ HadRights(UserOf[x])
    BY <2>1 DEF IInv, Vouched
  <2> QED BY <2>2 DEF Judges, HadRights
<1>2. LossesArePast'
  BY DEF IInv, LossesArePast
<1>3. Dated'
  BY DEF IInv, Dated, OthersStay, Yes, Served
<1>4. Stages'
  BY DEF IInv, Stages, OthersStay
<1>5. Queues'
  <2> SUFFICES ASSUME NEW x \in Sockets, phase'[x] \in {"open", "reasking"}
               PROVE  QueueOK(channel'[x], UserOf[x], named'[x])
    BY DEF Queues
  <2>1. CASE x = s
    BY <2>1
  <2>2. CASE x # s
    BY <2>2 DEF IInv, Queues, OthersStay
  <2> QED BY <2>1, <2>2
<1> QED BY <1>1, <1>2, <1>3, <1>4, <1>5 DEF IInv

(* A close forgets everything the socket knew.                             *)
LEMMA ClosesKeepsIInv ==
  ASSUME NEW s \in Sockets, IInv, NEW c \in {0, 4401, 4403, 4410},
         c = CLOSE_REVOKED => named[s], Closes(s, c),
         UNCHANGED <<stream, now, moduleVars, named>>
  PROVE  IInv'
<1> USE AccessAssumption DEF moduleVars
<1>1. TypeOK'
  BY DEF IInv, TypeOK, Closes, Judged, CLOSE_UNAUTHENTICATED, CLOSE_FORBIDDEN, CLOSE_REVOKED
<1>2. OthersStay(s)
  BY DEF IInv, TypeOK, Closes, OthersStay
<1>3. /\ phase'[s] = "closed"
      /\ asked'[s] = 0
      /\ verdict'[s] = NoVerdict
      /\ until'[s] = 0
      /\ channel'[s] = <<>>
      /\ named'[s] = named[s]
      /\ code'[s] = c
  BY DEF IInv, TypeOK, Closes
<1>4. 0 <= now /\ 0 <= now + AUTHORIZE_CACHE_S
  BY DEF IInv, TypeOK
<1>5. ~Yes(s)'
  BY <1>3 DEF Yes
<1> QED BY <1>1, <1>2, <1>3, <1>4, <1>5, OneSocket

(* An authorizer is asked for a new or an open socket.                     *)
LEMMA AskKeepsIInv ==
  ASSUME NEW s \in Sockets, IInv, NEW p,
         \/ phase[s] = "new" /\ p = "asking"
         \/ phase[s] = "open" /\ p = "reasking",
         Ask(s, p), origin' \in [Sockets -> OriginHeaders \cup {NoOrigin}]
  PROVE  IInv'
<1> USE AccessAssumption DEF moduleVars
<1>1. TypeOK'
  BY DEF IInv, TypeOK, Ask
<1>2. OthersStay(s)
  BY DEF IInv, TypeOK, Ask, OthersStay
<1>3. /\ phase'[s] = p
      /\ asked'[s] = now
      /\ UNCHANGED <<verdict, until, channel, named, code>>
      /\ UNCHANGED <<stream, now, rights, lostAt>>
  BY DEF IInv, TypeOK, Ask
<1>4. verdict[s] = NoVerdict
  BY DEF IInv, Stages
<1>5. ~Yes(s)'
  BY <1>3, <1>4 DEF Yes
<1>6. now \in Int
  BY DEF IInv, TypeOK
<1>7. p = "reasking" => s \in Served
  BY DEF Served
<1>8. /\ until[s] <= now + AUTHORIZE_CACHE_S
      /\ (UserOf[s] \notin rights /\ s \in Served) =>
           until[s] <= lostAt[UserOf[s]] + CAPABILITY_CACHE_S + AUTHORIZE_CACHE_S
  BY DEF IInv, Dated
<1>9. /\ p = "asking" => channel[s] = <<>> /\ ~named[s]
      /\ code[s] # CLOSE_REVOKED
      /\ p = "reasking" => QueueOK(channel[s], UserOf[s], named[s])
  BY DEF IInv, Stages, Queues
<1> QED
  BY <1>1, <1>2, <1>3, <1>4, <1>5, <1>6, <1>7, <1>8, <1>9, OneSocket

(* A yes of the authorizer was seen with the rights.                       *)
LEMMA LookupKeepsIInv ==
  ASSUME NEW s \in Sockets, IInv, Lookup(s)
  PROVE  IInv'
<1> USE AccessAssumption DEF moduleVars
<1>1. TypeOK'
  BY DEF IInv, TypeOK, Lookup, Verdicts
<1>2. OthersStay(s)
  BY DEF IInv, TypeOK, Lookup, OthersStay
<1>3. /\ phase[s] \in {"asking", "reasking"}
      /\ UNCHANGED <<phase, asked, until, channel, named, code>>
      /\ UNCHANGED <<stream, now, rights, lostAt>>
      /\ verdict'[s] \in Verdicts(UserOf[s])
  BY DEF IInv, TypeOK, Lookup
<1>4. Yes(s)' => Judges /\ SeenWithRights(UserOf[s])
  BY <1>3 DEF Yes, Verdicts
<1>5. /\ now \in Nat
      /\ asked[s] \in Int
      /\ UserOf[s] \in Users
      /\ lostAt[UserOf[s]] \in Int
  BY DEF IInv, TypeOK
<1>6. asked[s] <= now /\ until[s] <= now + AUTHORIZE_CACHE_S
  BY DEF IInv, Dated
<1>7. Yes(s)' => HadRights(UserOf[s])
  <2>1. lostAt[UserOf[s]] = -CAPABILITY_CACHE_S - 1 \/ lostAt[UserOf[s]] >= 0
    BY <1>5 DEF IInv, LossesArePast
  <2> QED BY <1>4, <1>5, <2>1 DEF SeenWithRights, HadRights
<1>8. (UserOf[s] \notin rights /\ Yes(s)')
        => asked[s] <= lostAt[UserOf[s]] + CAPABILITY_CACHE_S
  BY <1>4, <1>5, <1>6 DEF SeenWithRights
<1>9. /\ phase[s] \in {"subscribing", "open", "reasking"} => s \in Served
      /\ (UserOf[s] \notin rights /\ s \in Served) =>
           until[s] <= lostAt[UserOf[s]] + CAPABILITY_CACHE_S + AUTHORIZE_CACHE_S
  BY DEF IInv, Dated, Served
<1>10. /\ phase[s] \notin {"open", "reasking"} => channel[s] = <<>>
       /\ named[s] => phase[s] \in {"open", "reasking", "closed"}
       /\ code[s] = CLOSE_REVOKED => phase[s] = "closed" /\ named[s]
       /\ phase[s] \in {"open", "reasking"} =>
            QueueOK(channel[s], UserOf[s], named[s])
  BY DEF IInv, Stages, Queues
<1>11. UNCHANGED <<asked[s], until[s], phase[s], channel[s], named[s], code[s]>>
  BY <1>3
<1> HIDE DEF moduleVars
<1> QED
  BY <1>1, <1>2, <1>3, <1>4, <1>6, <1>7, <1>8, <1>9, <1>10, <1>11, OneSocket

(* The window of a yes starts when it was asked for.                       *)
LEMMA AcceptKeepsIInv ==
  ASSUME NEW s \in Sockets, IInv, NEW p,
         \/ phase[s] = "asking" /\ p = "subscribing"
         \/ phase[s] = "reasking" /\ p = "open",
         Accept(s, p)
  PROVE  IInv'
<1> USE AccessAssumption DEF moduleVars
<1>1. TypeOK'
  BY DEF IInv, TypeOK, Accept
<1>2. OthersStay(s)
  BY DEF IInv, TypeOK, Accept, OthersStay
<1>3. /\ phase'[s] = p
      /\ asked'[s] = 0
      /\ until'[s] = asked[s] + AUTHORIZE_CACHE_S
      /\ verdict'[s] = NoVerdict
      /\ UNCHANGED <<channel, named, code>>
      /\ UNCHANGED <<stream, now, rights, lostAt>>
  BY DEF IInv, TypeOK, Accept
<1>4. Yes(s) /\ ~Yes(s)'
  BY <1>3 DEF Accept, Yes
<1>5. /\ now \in Nat
      /\ asked[s] \in Int
      /\ lostAt[UserOf[s]] \in Int
  BY DEF IInv, TypeOK
<1>6. /\ asked[s] <= now
      /\ UserOf[s] \notin rights =>
           asked[s] <= lostAt[UserOf[s]] + CAPABILITY_CACHE_S
  BY <1>4 DEF IInv, Dated
<1>7. /\ p = "subscribing" => channel[s] = <<>> /\ ~named[s]
      /\ code[s] # CLOSE_REVOKED
      /\ p = "open" => QueueOK(channel[s], UserOf[s], named[s])
  BY DEF IInv, Stages, Queues
<1>8. /\ until'[s] <= now + AUTHORIZE_CACHE_S
      /\ UserOf[s] \notin rights =>
           until'[s] <= lostAt[UserOf[s]] + CAPABILITY_CACHE_S + AUTHORIZE_CACHE_S
      /\ asked'[s] <= now
  BY <1>3, <1>5, <1>6
<1> HIDE DEF moduleVars
<1> QED
  BY <1>1, <1>2, <1>3, <1>4, <1>7, <1>8, OneSocket

(* group_add: the channel is empty and no revoke named the socket yet.     *)
LEMMA SubscribeKeepsIInv ==
  ASSUME NEW s \in Sockets, IInv, Subscribe(s)
  PROVE  IInv'
<1> USE AccessAssumption DEF moduleVars, verdictVars
<1>1. TypeOK'
  BY DEF IInv, TypeOK, Subscribe
<1>2. OthersStay(s)
  BY DEF IInv, TypeOK, Subscribe, OthersStay
<1>3. /\ phase[s] = "subscribing"
      /\ phase'[s] = "open"
      /\ UNCHANGED <<asked, until, verdict, channel, named, code>>
      /\ UNCHANGED <<stream, now, rights, lostAt>>
  BY DEF IInv, TypeOK, Subscribe
<1>4. s \in Served
  BY <1>3 DEF Served
<1>5. /\ verdict[s] = NoVerdict
      /\ channel[s] = <<>>
      /\ ~named[s]
      /\ code[s] # CLOSE_REVOKED
  BY <1>3 DEF IInv, Stages
<1>6. QueueOK(channel[s], UserOf[s], named[s])
  BY <1>5 DEF QueueOK
<1>7. /\ asked[s] <= now
      /\ until[s] <= now + AUTHORIZE_CACHE_S
      /\ UserOf[s] \notin rights =>
           until[s] <= lostAt[UserOf[s]] + CAPABILITY_CACHE_S + AUTHORIZE_CACHE_S
  BY <1>4 DEF IInv, Dated
<1>8. ~Yes(s)'
  BY <1>3, <1>5 DEF Yes
<1> HIDE DEF moduleVars, verdictVars
<1> QED
  BY <1>1, <1>2, <1>3, <1>4, <1>5, <1>6, <1>7, <1>8, OneSocket

(* A message is taken that does not close the socket.                      *)
LEMMA TakingKeepsIInv ==
  ASSUME NEW s \in Sockets, IInv, NEW message \in Messages, Takes(s, message),
         ~Names(message, s),
         channel' = [channel EXCEPT ![s] = Tail(@)],
         UNCHANGED <<origin, phase, verdictVars, code, stream, now, moduleVars,
                     named>>
  PROVE  IInv'
<1> USE AccessAssumption DEF moduleVars, verdictVars
<1>1. channel[s] \in Seq(Messages) /\ channel[s] # <<>> /\ phase[s] = "open"
  BY DEF IInv, TypeOK, Takes
<1>2. Tail(channel[s]) \in Seq(Messages) /\ Len(Tail(channel[s])) <= Len(channel[s])
  BY <1>1
<1>3. TypeOK'
  BY <1>2 DEF IInv, TypeOK
<1>4. channel'[s] = Tail(channel[s])
  BY DEF IInv, TypeOK
<1>5. OthersStay(s)
  BY DEF IInv, TypeOK, OthersStay
<1>6. QueueOK(channel'[s], UserOf[s], named'[s])
  <2>1. QueueOK(channel[s], UserOf[s], named[s])
    BY <1>1 DEF IInv, Queues
  <2>2. Head(channel[s]) \notin Naming(UserOf[s])
    BY DEF Takes, Names, Naming
  <2>3. named[s] \in BOOLEAN /\ UserOf[s] \in Users
    BY DEF IInv, TypeOK
  <2>4. QueueOK(Tail(channel[s]), UserOf[s], named[s])
    BY <1>1, <2>1, <2>2, <2>3, TakeKeepsQueue
  <2> QED BY <1>4, <2>4
<1>7. s \in Served /\ verdict[s] = NoVerdict /\ code[s] # CLOSE_REVOKED
  BY <1>1 DEF IInv, Stages, Served
<1>8. ~Yes(s)'
  BY <1>7 DEF Yes
<1>9. /\ asked[s] <= now
      /\ until[s] <= now + AUTHORIZE_CACHE_S
      /\ UserOf[s] \notin rights =>
           until[s] <= lostAt[UserOf[s]] + CAPABILITY_CACHE_S + AUTHORIZE_CACHE_S
  BY <1>7 DEF IInv, Dated
<1> QED
  BY <1>1, <1>3, <1>5, <1>6, <1>7, <1>8, <1>9, OneSocket

(* The client comes back with a new consumer.                              *)
LEMMA ReconnectKeepsIInv ==
  ASSUME NEW s \in Sockets, IInv, Reconnect(s)
  PROVE  IInv'
<1> USE AccessAssumption DEF moduleVars, verdictVars
<1>1. TypeOK'
  BY DEF IInv, TypeOK, Reconnect
<1>2. OthersStay(s)
  BY DEF IInv, TypeOK, Reconnect, OthersStay
<1>3. /\ phase[s] = "closed"
      /\ phase'[s] = "new"
      /\ ~named'[s]
      /\ code'[s] = 0
      /\ UNCHANGED <<asked, until, verdict, channel>>
      /\ UNCHANGED <<stream, now, rights, lostAt>>
  BY DEF IInv, TypeOK, Reconnect
<1>4. verdict[s] = NoVerdict /\ channel[s] = <<>>
  BY <1>3 DEF IInv, Stages
<1>5. ~Yes(s)'
  BY <1>3, <1>4 DEF Yes
<1>6. asked[s] <= now /\ until[s] <= now + AUTHORIZE_CACHE_S
  BY DEF IInv, Dated
<1>7. code'[s] # CLOSE_REVOKED
  BY <1>3 DEF CLOSE_REVOKED
<1> HIDE DEF moduleVars, verdictVars
<1> QED
  BY <1>1, <1>2, <1>3, <1>4, <1>5, <1>6, <1>7, OneSocket

-----------------------------------------------------------------------------
(* The module that owns the stream: fan-outs, rights, the clock.           *)

(* A step that leaves every socket, the rights and the clock as they are,  *)
(* except for the channels and who is named.                               *)
LEMMA FanOutKeepsIInv ==
  ASSUME IInv, TypeOK',
         UNCHANGED <<stream, now, moduleVars, phase, verdictVars, code>>,
         \A s \in Sockets :
           /\ ~Member(s) => channel'[s] = channel[s] /\ named'[s] = named[s]
           /\ named[s] => named'[s]
           /\ Member(s) => QueueOK(channel'[s], UserOf[s], named'[s])
  PROVE  IInv'
<1> USE DEF moduleVars, verdictVars
<1>1. Vouched'
  <2>1. Judges' = Judges /\ Served' = Served
    BY DEF Judges, Served
  <2> QED BY <2>1 DEF IInv, Vouched, Yes, HadRights
<1>2. LossesArePast' /\ Dated'
  BY DEF IInv, LossesArePast, Dated, Yes, Served
<1>3. Stages'
  BY DEF IInv, Stages, Member
<1>4. Queues'
  BY DEF Queues, Member
<1> QED BY <1>1, <1>2, <1>3, <1>4 DEF IInv

(* deliver: a signal behind a revoke of its socket is late.                *)
LEMMA DeliverKeepsIInv ==
  ASSUME IInv, Deliver
  PROVE  IInv'
<1> USE AccessAssumption
<1>1. ASSUME NEW s \in Sockets
      PROVE  /\ channel[s] \in Seq(Messages) /\ named[s] \in BOOLEAN
             /\ UserOf[s] \in Users
             /\ channel'[s] = IF Reaches(s)
                  THEN Append(channel[s], IF named[s] THEN "late" ELSE "signal")
                  ELSE channel[s]
             /\ named'[s] = named[s]
  BY DEF IInv, TypeOK, Deliver
<1>2. ASSUME NEW s \in Sockets
      PROVE  /\ channel'[s] \in Seq(Messages)
             /\ Len(channel'[s]) <= CHANNEL_CAPACITY
  <2>1. (IF named[s] THEN "late" ELSE "signal") \in Messages
    BY DEF Messages
  <2>2. Append(channel[s], IF named[s] THEN "late" ELSE "signal") \in Seq(Messages)
    BY <1>1, <2>1
  <2>3. Len(channel[s]) <= CHANNEL_CAPACITY
    BY DEF IInv, TypeOK
  <2>4. Len(Append(channel[s], IF named[s] THEN "late" ELSE "signal"))
          = Len(channel[s]) + 1
    BY <1>1, <2>1
  <2>5. Len(channel[s]) \in Nat
    BY <1>1
  <2>6. CASE Reaches(s)
    <3>1. channel'[s] = Append(channel[s], IF named[s] THEN "late" ELSE "signal")
      BY <1>1, <2>6
    <3>2. Len(channel[s]) < CHANNEL_CAPACITY
      BY <2>6 DEF Reaches
    <3>3. Len(channel'[s]) <= CHANNEL_CAPACITY
      BY <2>4, <2>5, <3>1, <3>2
    <3> QED BY ONLY <2>2, <3>1, <3>3
  <2>7. CASE ~Reaches(s)
    BY <1>1, <2>3, <2>7
  <2> QED BY <2>6, <2>7
<1>3. channel' \in [Sockets -> Seq(Messages)]
  BY <1>2 DEF Deliver
<1>4. TypeOK'
  BY <1>2, <1>3 DEF IInv, TypeOK, Deliver, moduleVars, verdictVars
<1>5. ASSUME NEW s \in Sockets, Member(s)
      PROVE  QueueOK(channel'[s], UserOf[s], named'[s])
  <2>1. QueueOK(channel[s], UserOf[s], named[s])
    BY <1>5 DEF IInv, Queues, Member
  <2>2. QueueOK(Append(channel[s], IF named[s] THEN "late" ELSE "signal"),
                UserOf[s], named[s])
    BY <1>1, <2>1, SignalKeepsQueue
  <2> QED BY <1>1, <2>1, <2>2
<1>6. \A s \in Sockets : ~Member(s) => channel'[s] = channel[s]
  BY <1>1 DEF Reaches
<1>7. UNCHANGED <<stream, now, moduleVars, phase, verdictVars, code>>
  BY DEF Deliver
<1> QED BY <1>1, <1>4, <1>5, <1>6, <1>7, FanOutKeepsIInv

(* revoke: the sockets it reaches and names are named from then on.        *)
LEMMA RevokeKeepsIInv ==
  ASSUME IInv, NEW target \in Users \cup {Everyone}, Revoke(target)
  PROVE  IInv'
<1> USE AccessAssumption
<1>1. ASSUME NEW s \in Sockets
      PROVE  /\ channel[s] \in Seq(Messages) /\ named[s] \in BOOLEAN
             /\ UserOf[s] \in Users
             /\ channel'[s] = IF Reaches(s) THEN Append(channel[s], target)
                                            ELSE channel[s]
             /\ named'[s] = (named[s] \/ (Reaches(s) /\ Names(target, s)))
  BY DEF IInv, TypeOK, Revoke
<1>2. ASSUME NEW s \in Sockets
      PROVE  /\ channel'[s] \in Seq(Messages)
             /\ Len(channel'[s]) <= CHANNEL_CAPACITY
             /\ named'[s] \in BOOLEAN
  <2>1. target \in Messages
    BY DEF Messages
  <2>2. Append(channel[s], target) \in Seq(Messages)
    BY <1>1, <2>1
  <2>3. Len(channel[s]) <= CHANNEL_CAPACITY
    BY DEF IInv, TypeOK
  <2>4. Len(Append(channel[s], target)) = Len(channel[s]) + 1
    BY <1>1, <2>1
  <2>5. Len(channel[s]) \in Nat
    BY <1>1
  <2>6. named'[s] \in BOOLEAN
    BY <1>1
  <2>7. CASE Reaches(s)
    <3>1. channel'[s] = Append(channel[s], target)
      BY <1>1, <2>7
    <3>2. Len(channel[s]) < CHANNEL_CAPACITY
      BY <2>7 DEF Reaches
    <3>3. Len(channel'[s]) <= CHANNEL_CAPACITY
      BY <2>4, <2>5, <3>1, <3>2
    <3> QED BY ONLY <2>2, <2>6, <3>1, <3>3
  <2>8. CASE ~Reaches(s)
    BY <1>1, <2>3, <2>6, <2>8
  <2> QED BY <2>7, <2>8
<1>3. /\ channel' \in [Sockets -> Seq(Messages)]
      /\ named' \in [Sockets -> BOOLEAN]
  BY <1>2 DEF Revoke
<1>4. TypeOK'
  BY <1>2, <1>3 DEF IInv, TypeOK, Revoke, moduleVars, verdictVars
<1>5. ASSUME NEW s \in Sockets, Member(s)
      PROVE  QueueOK(channel'[s], UserOf[s], named'[s])
  <2>1. QueueOK(channel[s], UserOf[s], named[s])
    BY <1>5 DEF IInv, Queues, Member
  <2>2. QueueOK(Append(channel[s], target), UserOf[s],
                named[s] \/ target \in Naming(UserOf[s]))
    BY <1>1, <2>1, RevokeKeepsQueue
  <2>3. CASE Reaches(s)
    <3>1. named'[s] = (named[s] \/ target \in Naming(UserOf[s]))
      BY <1>1, <2>3 DEF Names, Naming
    <3> QED BY <1>1, <2>2, <2>3, <3>1
  <2>4. CASE ~Reaches(s)
    <3>1. named'[s] = named[s] /\ channel'[s] = channel[s]
      BY <1>1, <2>4
    <3> QED BY <2>1, <3>1
  <2> QED BY <2>3, <2>4
<1>6. \A s \in Sockets :
        ~Member(s) => channel'[s] = channel[s] /\ named'[s] = named[s]
  BY <1>1 DEF Reaches
<1>7. \A s \in Sockets : named[s] => named'[s]
  BY <1>1
<1>8. UNCHANGED <<stream, now, moduleVars, phase, verdictVars, code>>
  BY DEF Revoke
<1> QED BY <1>4, <1>5, <1>6, <1>7, <1>8, FanOutKeepsIInv

(* Every verdict on its way or cached was asked for before now.            *)
LEMMA WithdrawKeepsIInv ==
  ASSUME IInv, NEW u \in Users, Withdraw(u)
  PROVE  IInv'
<1> USE AccessAssumption DEF socketVars, verdictVars
<1>1. TypeOK'
  BY DEF IInv, TypeOK, Withdraw
<1>2. /\ UNCHANGED <<stream, now, phase, asked, verdict, until, channel, named, code>>
      /\ lostAt'[u] = now
      /\ \A x \in Users \ {u} : lostAt'[x] = lostAt[x] /\ (x \in rights' <=> x \in rights)
  BY DEF IInv, TypeOK, Withdraw
<1>3. /\ now \in Nat
      /\ \A s \in Sockets : /\ UserOf[s] \in Users
                            /\ asked[s] \in Int /\ until[s] \in Int
  BY DEF IInv, TypeOK
<1>4. Vouched'
  <2>1. \A x \in Users : HadRights(x) => HadRights(x)'
    BY <1>2, <1>3 DEF HadRights
  <2>2. Judges' = Judges /\ Served' = Served
    BY <1>2 DEF Judges, Served
  <2> QED BY <1>2, <1>3, <2>1, <2>2 DEF IInv, Vouched, Yes
<1>5. LossesArePast'
  BY <1>2, <1>3 DEF IInv, LossesArePast
<1>6. Dated'
  BY <1>2, <1>3 DEF IInv, Dated, Yes, Served
<1>7. Stages' /\ Queues'
  BY <1>2 DEF IInv, Stages, Queues
<1> QED BY <1>1, <1>4, <1>5, <1>6, <1>7 DEF IInv

(* A user with rights again has nothing to date.                           *)
LEMMA GrantKeepsIInv ==
  ASSUME IInv, NEW u \in Users, Grant(u)
  PROVE  IInv'
<1> USE AccessAssumption DEF socketVars, verdictVars
<1>1. TypeOK'
  BY DEF IInv, TypeOK, Grant
<1>2. /\ UNCHANGED <<stream, now, lostAt, phase, asked, verdict, until, channel>>
      /\ UNCHANGED <<named, code>>
      /\ rights' = rights \cup {u}
  BY DEF Grant
<1>3. Vouched'
  <2>1. Judges' = Judges /\ Served' = Served
    BY <1>2 DEF Judges, Served
  <2> QED BY <1>2, <2>1 DEF IInv, Vouched, Yes, HadRights
<1>4. LossesArePast' /\ Dated'
  BY <1>2 DEF IInv, LossesArePast, Dated, Yes, Served
<1>5. Stages' /\ Queues'
  BY <1>2 DEF IInv, Stages, Queues
<1> QED BY <1>1, <1>3, <1>4, <1>5 DEF IInv

(* Time only goes on.                                                      *)
LEMMA TickKeepsIInv ==
  ASSUME IInv, Tick
  PROVE  IInv'
<1> USE AccessAssumption DEF moduleVars, socketVars, verdictVars
<1>1. TypeOK'
  BY DEF IInv, TypeOK, Tick
<1>2. /\ UNCHANGED <<stream, rights, lostAt, phase, asked, verdict, until, channel>>
      /\ UNCHANGED <<named, code>>
      /\ now \in Nat
      /\ now' = now + 1
  BY DEF IInv, TypeOK, Tick
<1>3. Vouched'
  <2>1. Judges' = Judges /\ Served' = Served
    BY <1>2 DEF Judges, Served
  <2> QED BY <1>2, <2>1 DEF IInv, Vouched, Yes, HadRights
<1>4. LossesArePast'
  BY <1>2 DEF IInv, LossesArePast
<1>5. Dated'
  <2>1. \A s \in Sockets : asked[s] \in Int /\ until[s] \in Int
    BY DEF IInv, TypeOK
  <2> QED BY <1>2, <2>1 DEF IInv, Dated, Yes, Served
<1>6. Stages' /\ Queues'
  BY <1>2 DEF IInv, Stages, Queues
<1> QED BY <1>1, <1>3, <1>4, <1>5, <1>6 DEF IInv

(* A hello answered from the cache changes nothing.                        *)
LEMMA StutterKeepsIInv ==
  ASSUME IInv, UNCHANGED vars
  PROVE  IInv'
<1> USE DEF vars, moduleVars, socketVars, verdictVars
<1>1. Judges' = Judges /\ Served' = Served
  BY DEF Judges, Served
<1>2. TypeOK' /\ Vouched' /\ LossesArePast'
  BY <1>1 DEF IInv, TypeOK, Vouched, LossesArePast, Yes, HadRights
<1>3. Dated' /\ Stages' /\ Queues'
  BY <1>1 DEF IInv, Dated, Stages, Queues, Yes
<1> QED BY <1>2, <1>3 DEF IInv

-----------------------------------------------------------------------------
(* A signal that is taken is never late, and a revoke that is taken by the *)
(* socket it names was counted as naming it.                               *)
LEMMA WhatIsTaken ==
  ASSUME NEW s \in Sockets, IInv, NEW message, Takes(s, message)
  PROVE  /\ message # "late"
         /\ Names(message, s) => named[s]
<1>1. /\ channel[s] \in Seq(Messages) /\ channel[s] # <<>>
      /\ named[s] \in BOOLEAN /\ UserOf[s] \in Users
  BY AccessAssumption DEF IInv, TypeOK, Takes
<1>2. QueueOK(channel[s], UserOf[s], named[s])
  BY DEF IInv, Queues, Takes
<1>3. /\ Head(channel[s]) # "late"
      /\ Head(channel[s]) \in Naming(UserOf[s]) => named[s]
  BY <1>1, <1>2, TakeKeepsQueue
<1> QED BY <1>3 DEF Takes, Names, Naming

(* realtime_signal takes one message.                                      *)
LEMMA SignalKeepsIInv ==
  ASSUME NEW s \in Sockets, IInv, RealtimeSignal(s)
  PROVE  IInv'
<1>1. Takes(s, "signal")
  BY WhatIsTaken DEF RealtimeSignal
<1>2. "signal" \in Messages
  BY DEF Messages
<1>3. ~Names("signal", s)
  BY AccessAssumption DEF Names
<1>4. /\ channel' = [channel EXCEPT ![s] = Tail(@)]
      /\ UNCHANGED <<origin, phase, verdictVars, code, stream, now, moduleVars, named>>
  BY DEF RealtimeSignal
<1> QED BY <1>1, <1>2, <1>3, <1>4, TakingKeepsIInv

(* realtime_revoke closes the socket it names and lets the others be.      *)
LEMMA KickKeepsIInv ==
  ASSUME NEW s \in Sockets, IInv, RealtimeRevoke(s)
  PROVE  IInv'
<1>1. PICK target \in Users \cup {Everyone} :
        /\ Takes(s, target)
        /\ IF Names(target, s)
             THEN Closes(s, CLOSE_REVOKED)
             ELSE /\ channel' = [channel EXCEPT ![s] = Tail(@)]
                  /\ UNCHANGED <<origin, phase, verdictVars, code>>
        /\ UNCHANGED <<stream, now, moduleVars, named>>
  BY DEF RealtimeRevoke
<1>2. CASE Names(target, s)
  <2>1. named[s]
    BY <1>1, <1>2, WhatIsTaken
  <2>2. Closes(s, 4410)
    BY <1>1, <1>2 DEF CLOSE_REVOKED
  <2> QED BY <1>1, <2>1, <2>2, ClosesKeepsIInv
<1>3. CASE ~Names(target, s)
  <2>1. target \in Messages
    BY DEF Messages
  <2>2. /\ channel' = [channel EXCEPT ![s] = Tail(@)]
        /\ UNCHANGED <<origin, phase, verdictVars, code, stream, now, moduleVars,
                        named>>
    BY <1>1, <1>3
  <2> QED BY <1>1, <1>3, <2>1, <2>2, TakingKeepsIInv
<1> QED BY <1>2, <1>3

(* Every step keeps the invariant.                                         *)
LEMMA NextIInv == IInv /\ [Next]_vars => IInv'
<1> SUFFICES ASSUME IInv, [Next]_vars PROVE IInv'
  OBVIOUS
<1>1. ASSUME NEW s \in Sockets, RefuseOrigin(s)
      PROVE  IInv'
  BY <1>1, ClosesKeepsIInv DEF RefuseOrigin, CLOSE_FORBIDDEN, CLOSE_REVOKED
<1>2. ASSUME NEW s \in Sockets, RefuseAnonymous(s)
      PROVE  IInv'
  BY <1>2, ClosesKeepsIInv DEF RefuseAnonymous, CLOSE_UNAUTHENTICATED, CLOSE_REVOKED
<1>3. ASSUME NEW s \in Sockets, ConnectAsk(s)
      PROVE  IInv'
  <2>1. origin' \in [Sockets -> OriginHeaders \cup {NoOrigin}]
    BY <1>3 DEF ConnectAsk, Judged, IInv, TypeOK
  <2> QED BY <1>3, <2>1, AskKeepsIInv DEF ConnectAsk
<1>4. ASSUME NEW s \in Sockets, Lookup(s)
      PROVE  IInv'
  BY <1>4, LookupKeepsIInv
<1>5. ASSUME NEW s \in Sockets, ConnectAllowed(s)
      PROVE  IInv'
  BY <1>5, AcceptKeepsIInv DEF ConnectAllowed
<1>6. ASSUME NEW s \in Sockets, Refused(s)
      PROVE  IInv'
  BY <1>6, ClosesKeepsIInv DEF Refused, CLOSE_FORBIDDEN, CLOSE_REVOKED
<1>7. ASSUME NEW s \in Sockets, Subscribe(s)
      PROVE  IInv'
  BY <1>7, SubscribeKeepsIInv
<1>8. ASSUME NEW s \in Sockets, HelloCached(s)
      PROVE  IInv'
  BY <1>8, StutterKeepsIInv DEF HelloCached
<1>9. ASSUME NEW s \in Sockets, HelloAsk(s)
      PROVE  IInv'
  <2>1. origin' \in [Sockets -> OriginHeaders \cup {NoOrigin}]
    BY <1>9 DEF HelloAsk, IInv, TypeOK
  <2> QED BY <1>9, <2>1, AskKeepsIInv DEF HelloAsk
<1>10. ASSUME NEW s \in Sockets, HelloAllowed(s)
       PROVE  IInv'
  BY <1>10, AcceptKeepsIInv DEF HelloAllowed
<1>11. ASSUME NEW s \in Sockets, RealtimeSignal(s)
       PROVE  IInv'
  BY <1>11, SignalKeepsIInv
<1>12. ASSUME NEW s \in Sockets, RealtimeRevoke(s)
       PROVE  IInv'
  BY <1>12, KickKeepsIInv
<1>13. ASSUME NEW s \in Sockets, Ends(s)
       PROVE  IInv'
  BY <1>13, ClosesKeepsIInv DEF Ends, CLOSE_REVOKED
<1>14. ASSUME NEW s \in Sockets, Reconnect(s)
       PROVE  IInv'
  BY <1>14, ReconnectKeepsIInv
<1>15. CASE Deliver
  BY <1>15, DeliverKeepsIInv
<1>16. ASSUME NEW target \in Users \cup {Everyone}, Revoke(target)
       PROVE  IInv'
  BY <1>16, RevokeKeepsIInv
<1>17. ASSUME NEW u \in Users, Withdraw(u) \/ Grant(u)
       PROVE  IInv'
  BY <1>17, WithdrawKeepsIInv, GrantKeepsIInv
<1>18. CASE Tick
  BY <1>18, TickKeepsIInv
<1>19. CASE UNCHANGED vars
  BY <1>19, StutterKeepsIInv
<1> QED
  BY <1>1, <1>2, <1>3, <1>4, <1>5, <1>6, <1>7, <1>8, <1>9, <1>10, <1>11, <1>12,
     <1>13, <1>14, <1>15, <1>16, <1>17, <1>18, <1>19 DEF Next

(* IInv holds in every reachable state.                                    *)
LEMMA Inductive == Spec => []IInv
BY InitIInv, NextIInv, PTL DEF Spec

-----------------------------------------------------------------------------
(* Type correctness; in particular the layer's capacity is never exceeded. *)
THEOREM TypeCorrect == Spec => []TypeOK
<1>1. IInv => TypeOK
  BY DEF IInv
<1> QED BY <1>1, Inductive, PTL

(* authorize.py: nobody is served without a verdict that saw the rights.   *)
THEOREM AuthorizationFailsClosed == Spec => []FailClosed
<1>1. IInv => FailClosed
  <2>1. Served \subseteq Sockets
    BY DEF Served
  <2> QED BY <2>1 DEF IInv, Vouched, FailClosed, HadRights
<1> QED BY <1>1, Inductive, PTL

(* _authorize_cached: the cache outlives the rights by the two windows and *)
(* no more, for every delay of the authorizer.                             *)
THEOREM CacheIsBounded == Spec => []CachedVerdictIsRecent
<1>1. IInv => CachedVerdictIsRecent
  <2> SUFFICES ASSUME IInv, NEW s \in Served, now < until[s],
                      UserOf[s] \notin rights
               PROVE  now < lostAt[UserOf[s]] + AUTHORIZE_CACHE_S + CAPABILITY_CACHE_S
    BY DEF CachedVerdictIsRecent
  <2>1. s \in Sockets /\ UserOf[s] \in Users
    BY AccessAssumption DEF Served
  <2>2. until[s] <= lostAt[UserOf[s]] + CAPABILITY_CACHE_S + AUTHORIZE_CACHE_S
    BY <2>1 DEF IInv, Dated
  <2>3. now \in Int /\ until[s] \in Int /\ lostAt[UserOf[s]] \in Int
    BY <2>1, AccessAssumption DEF IInv, TypeOK
  <2> QED BY <2>2, <2>3, AccessAssumption
<1> QED BY <1>1, Inductive, PTL

(* realtime_revoke: what is fanned out behind a revoke is never taken.     *)
THEOREM RevokeEndsDelivery == Spec => []RevokeIsFinal
<1>1. IInv => RevokeIsFinal
  BY WhatIsTaken DEF RevokeIsFinal
<1> QED BY <1>1, Inductive, PTL

(* realtime_revoke: a revoke touches nobody it does not name.              *)
THEOREM OthersAreUntouched == Spec => []OnlyNamedAreKicked
<1>1. IInv => OnlyNamedAreKicked
  BY DEF IInv, Stages, OnlyNamedAreKicked
<1> QED BY <1>1, Inductive, PTL

(* Only the handshake's own steps take a socket out of its phase `new'.    *)
LEMMA HandshakeSteps ==
  ASSUME TypeOK, [Next]_vars, NEW s \in Sockets,
         phase[s] = "new", phase'[s] # "new"
  PROVE  RefuseOrigin(s) \/ RefuseAnonymous(s) \/ ConnectAsk(s)
<1>1. ~UNCHANGED phase
  OBVIOUS
<1>2. PICK x \in Sockets :
        \/ RefuseOrigin(x) \/ RefuseAnonymous(x) \/ ConnectAsk(x)
        \/ ConnectAllowed(x) \/ Refused(x) \/ Subscribe(x)
        \/ HelloAsk(x) \/ HelloAllowed(x)
        \/ RealtimeRevoke(x) \/ Ends(x) \/ Reconnect(x)
  BY <1>1 DEF Next, vars, socketVars, Lookup, HelloCached, RealtimeSignal,
     Deliver, Revoke, Withdraw, Grant, Tick
<1>3. x = s
  <2>1. \E p : phase' = [phase EXCEPT ![x] = p]
    BY <1>1, <1>2 DEF RefuseOrigin, RefuseAnonymous, ConnectAsk, ConnectAllowed,
       Refused, Subscribe, HelloAsk, HelloAllowed, RealtimeRevoke, Ends,
       Reconnect, Closes, Ask, Accept
  <2> QED BY <2>1 DEF TypeOK
<1>4. /\ ~ConnectAllowed(s) /\ ~Refused(s) /\ ~Subscribe(s) /\ ~HelloAsk(s)
      /\ ~HelloAllowed(s) /\ ~RealtimeRevoke(s) /\ ~Ends(s) /\ ~Reconnect(s)
  BY DEF ConnectAllowed, Refused, Subscribe, HelloAsk, HelloAllowed,
     RealtimeRevoke, Takes, Ends, Reconnect
<1> QED BY <1>2, <1>3, <1>4

(* asgi.py: in every configuration the guard refuses for their origin the  *)
(* handshakes that name another one, with its port, and no others.         *)
THEOREM HandshakesAreJudged == Spec => OriginsAreJudged
<1> DEFINE ByOrigin(s) == phase'[s] = "closed" /\ code'[s] = CLOSE_FORBIDDEN
<1> DEFINE Elsewhere(s) ==
             /\ Configured # {}
             /\ origin[s] # NoOrigin
             /\ ~FromConfigured(origin[s])
<1>1. ASSUME TypeOK, [Next]_vars, NEW s \in Sockets,
             phase[s] = "new", phase'[s] # "new"
      PROVE  ByOrigin(s) <=> Elsewhere(s)
  <2>1. ~Admits(origin[s]) <=> Elsewhere(s)
    BY GuardAdmitsItsOrigins DEF GuardIsSameOrigin, Admits
  <2>2. CASE RefuseOrigin(s)
    <3>1. ByOrigin(s)
      BY <1>1, <2>2 DEF RefuseOrigin, Closes, TypeOK
    <3> QED BY <2>1, <2>2, <3>1 DEF RefuseOrigin
  <2>3. CASE RefuseAnonymous(s)
    <3>1. ~ByOrigin(s)
      BY <1>1, <2>3 DEF RefuseAnonymous, Closes, TypeOK, CLOSE_UNAUTHENTICATED,
         CLOSE_FORBIDDEN
    <3> QED BY <2>1, <2>3, <3>1 DEF RefuseAnonymous
  <2>4. CASE ConnectAsk(s)
    <3>1. ~ByOrigin(s)
      BY <1>1, <2>4 DEF ConnectAsk, Ask, TypeOK
    <3> QED BY <2>1, <2>4, <3>1 DEF ConnectAsk
  <2> QED BY <1>1, <2>2, <2>3, <2>4, HandshakeSteps
<1> HIDE DEF ByOrigin, Elsewhere
<1>2. TypeOK /\ [Next]_vars =>
        [\A s \in Sockets :
           phase[s] = "new" /\ phase'[s] # "new" => (ByOrigin(s) <=> Elsewhere(s))]_vars
  BY <1>1
<1> USE DEF ByOrigin, Elsewhere
<1> QED BY <1>2, TypeCorrect, PTL DEF Spec, OriginsAreJudged
=============================================================================
