---------------------------- MODULE StreamAccess ----------------------------
(***************************************************************************)
(* Who is served on one stream: the origin guard, the authenticated user,  *)
(* the authorizer and its per-socket cache (consumers.py, authorize.py),   *)
(* the group and its fan-out, and revoke() (delivery.py), while the rights *)
(* themselves come and go in the module that owns the stream.              *)
(*                                                                         *)
(* A socket's tasks and its closing handshake are StreamSocket's: here a   *)
(* socket that starts to close takes no frame any more and is closed.      *)
(* A fan-out that fails as a whole changes nothing and is not a step.      *)
(* Time is discrete; now is time.monotonic().                              *)
(***************************************************************************)
EXTENDS OriginGuard, Sequences

CONSTANTS
  Sockets, Users,
  UserOf,               \* whose token each socket presents
  OriginHeaders,        \* Origin headers of the handshakes, or NoOrigin
  AUTHORIZE_CACHE_S,    \* realtime_settings.AUTHORIZE_CACHE_S
  CAPABILITY_CACHE_S,   \* the cache of the core's require_capability
  CHANNEL_CAPACITY,     \* messages the layer keeps for one channel
  MaxTime,              \* bound on the clock
  Everyone,             \* user_id=None of revoke()
  NoVerdict             \* the authorizer has not looked yet

ASSUME AccessAssumption ==
  /\ UserOf \in [Sockets -> Users]
  /\ AUTHORIZE_CACHE_S \in Nat
  /\ CAPABILITY_CACHE_S \in Nat
  /\ CHANNEL_CAPACITY \in Nat
  /\ MaxTime \in Nat
  /\ Everyone \notin Users
  /\ NoVerdict \notin BOOLEAN
  /\ {"signal", "late"} \cap (Users \cup {Everyone}) = {}

VARIABLES
  stream,    \* the consumer class: its authorizer and its key's scope type
  now,
  rights,    \* the users who hold the capability
  lostAt,    \* history: when each user last lost it
  origin,    \* the Origin header of a handshake the guard has yet to judge
  phase,     \* where each socket is in its life
  asked,     \* the `now' of the _authorize_cached() in progress
  verdict,   \* what its authorizer saw, or NoVerdict
  until,     \* self._authorized_until
  channel,   \* the group messages waiting for each socket
  named,     \* history: a revoke that names this socket reached its channel
  code       \* the code each socket was closed with, or 0

moduleVars == <<rights, lostAt>>
verdictVars == <<asked, verdict, until>>
socketVars == <<origin, phase, verdictVars, channel, named, code>>
vars == <<stream, now, moduleVars, socketVars>>

CLOSE_UNAUTHENTICATED == 4401
CLOSE_FORBIDDEN == 4403
CLOSE_REVOKED == 4410

(* In the channel a revoke is its target; "late" is a signal fanned out    *)
(* after a revoke of this socket.                                          *)
Messages == {"signal", "late", Everyone} \cup Users

(* A user without rights at the start lost them out of every cache's reach. *)
Init ==
  /\ stream \in [authorizer : {"deny", "WorkspaceCapability"},
                 scope_type : {"ws", "other"}]
  /\ now = 0
  /\ rights \in SUBSET Users
  /\ lostAt = [u \in Users |-> -CAPABILITY_CACHE_S - 1]
  /\ origin \in [Sockets -> OriginHeaders]
  /\ phase = [s \in Sockets |-> "new"]
  /\ asked = [s \in Sockets |-> 0]
  /\ verdict = [s \in Sockets |-> NoVerdict]
  /\ until = [s \in Sockets |-> 0]
  /\ channel = [s \in Sockets |-> <<>>]
  /\ named = [s \in Sockets |-> FALSE]
  /\ code = [s \in Sockets |-> 0]

-----------------------------------------------------------------------------
(* What the authorizers answer.                                            *)
Judges == stream = [authorizer |-> "WorkspaceCapability", scope_type |-> "ws"]

(* require_capability() is cached, so it may go on saying yes.             *)
SeenWithRights(u) == u \in rights \/ now <= lostAt[u] + CAPABILITY_CACHE_S

(* Mutant of Verdicts: a lookup that raises is taken for a yes.            *)
VerdictsFailOpen(u) == IF Judges THEN BOOLEAN ELSE {FALSE}

(* No capability and no answer at all are both a no.                       *)
Verdicts(u) == {FALSE} \cup {v \in {TRUE} : Judges /\ SeenWithRights(u)}

(* Nothing reads the header once the handshake is judged.                  *)
Judged(s) == origin' = [origin EXCEPT ![s] = NoOrigin]

(* A close forgets the consumer: the next socket starts from nothing.      *)
Closes(s, c) ==
  /\ Judged(s)
  /\ phase' = [phase EXCEPT ![s] = "closed"]
  /\ code' = [code EXCEPT ![s] = c]
  /\ asked' = [asked EXCEPT ![s] = 0]
  /\ verdict' = [verdict EXCEPT ![s] = NoVerdict]
  /\ until' = [until EXCEPT ![s] = 0]
  /\ channel' = [channel EXCEPT ![s] = <<>>]

-----------------------------------------------------------------------------
(* The handshake and connect().                                            *)
RefuseOrigin(s) ==
  /\ phase[s] = "new"
  /\ ~Admits(origin[s])
  /\ Closes(s, CLOSE_FORBIDDEN)
  /\ UNCHANGED <<stream, now, moduleVars, named>>

RefuseAnonymous(s) ==
  /\ phase[s] = "new"
  /\ Admits(origin[s])
  /\ Closes(s, CLOSE_UNAUTHENTICATED)
  /\ UNCHANGED <<stream, now, moduleVars, named>>

Ask(s, p) ==
  /\ phase' = [phase EXCEPT ![s] = p]
  /\ asked' = [asked EXCEPT ![s] = now]
  /\ UNCHANGED <<stream, now, moduleVars, verdict, until, channel, named, code>>

ConnectAsk(s) ==
  /\ phase[s] = "new"
  /\ Admits(origin[s])
  /\ Judged(s)
  /\ Ask(s, "asking")

(* The authorizer's thread looks the capability up.                        *)
Lookup(s) ==
  /\ phase[s] \in {"asking", "reasking"}
  /\ verdict[s] = NoVerdict
  /\ \E v \in Verdicts(UserOf[s]) : verdict' = [verdict EXCEPT ![s] = v]
  /\ UNCHANGED <<stream, now, moduleVars, origin, phase, asked, until, channel,
                 named, code>>

(* Mutant of Accept: the window starts when the answer comes.             *)
AcceptFromNow(s, p) ==
  /\ verdict[s] = TRUE
  /\ phase' = [phase EXCEPT ![s] = p]
  /\ until' = [until EXCEPT ![s] = now + AUTHORIZE_CACHE_S]
  /\ asked' = [asked EXCEPT ![s] = 0]
  /\ verdict' = [verdict EXCEPT ![s] = NoVerdict]
  /\ UNCHANGED <<stream, now, moduleVars, origin, channel, named, code>>

(* Mutant of Accept: the window is stored in milliseconds.                 *)
AcceptInMilliseconds(s, p) ==
  /\ verdict[s] = TRUE
  /\ phase' = [phase EXCEPT ![s] = p]
  /\ until' = [until EXCEPT ![s] = asked[s] + 1000 * AUTHORIZE_CACHE_S]
  /\ asked' = [asked EXCEPT ![s] = 0]
  /\ verdict' = [verdict EXCEPT ![s] = NoVerdict]
  /\ UNCHANGED <<stream, now, moduleVars, origin, channel, named, code>>

(* authorize() returned: a yes is good from when it was asked for.         *)
Accept(s, p) ==
  /\ verdict[s] = TRUE
  /\ phase' = [phase EXCEPT ![s] = p]
  /\ until' = [until EXCEPT ![s] = asked[s] + AUTHORIZE_CACHE_S]
  /\ asked' = [asked EXCEPT ![s] = 0]
  /\ verdict' = [verdict EXCEPT ![s] = NoVerdict]
  /\ UNCHANGED <<stream, now, moduleVars, origin, channel, named, code>>

ConnectAllowed(s) == phase[s] = "asking" /\ Accept(s, "subscribing")

Refused(s) ==
  /\ phase[s] \in {"asking", "reasking"}
  /\ verdict[s] = FALSE
  /\ Closes(s, CLOSE_FORBIDDEN)
  /\ UNCHANGED <<stream, now, moduleVars, named>>

(* group_add() and accept()                                                *)
Subscribe(s) ==
  /\ phase[s] = "subscribing"
  /\ phase' = [phase EXCEPT ![s] = "open"]
  /\ UNCHANGED <<stream, now, moduleVars, origin, verdictVars, channel, named,
                 code>>

-----------------------------------------------------------------------------
(* hello: answered at once within the window, re-authorized after it.      *)
HelloCached(s) ==
  /\ phase[s] = "open"
  /\ now < until[s]
  /\ UNCHANGED vars

HelloAsk(s) ==
  /\ phase[s] = "open"
  /\ now >= until[s]
  /\ Ask(s, "reasking")
  /\ UNCHANGED origin

HelloAllowed(s) == phase[s] = "reasking" /\ Accept(s, "open")

-----------------------------------------------------------------------------
(* Group messages.                                                         *)
Takes(s, message) ==
  /\ phase[s] = "open"
  /\ channel[s] # <<>>
  /\ Head(channel[s]) = message

RealtimeSignal(s) ==
  /\ Takes(s, "signal") \/ Takes(s, "late")
  /\ channel' = [channel EXCEPT ![s] = Tail(@)]
  /\ UNCHANGED <<stream, now, moduleVars, origin, phase, verdictVars, named, code>>

Names(target, s) == target \in {Everyone, UserOf[s]}

(* Mutant of RealtimeRevoke: the target is not compared with the user.     *)
RealtimeRevokeAnybody(s) ==
  /\ \E target \in Users \cup {Everyone} : Takes(s, target)
  /\ Closes(s, CLOSE_REVOKED)
  /\ UNCHANGED <<stream, now, moduleVars, named>>

(* Mutant of RealtimeRevoke: the kick is sent and the socket stays open.   *)
RealtimeRevokeOnlySays(s) ==
  /\ \E target \in Users \cup {Everyone} : Takes(s, target)
  /\ channel' = [channel EXCEPT ![s] = Tail(@)]
  /\ UNCHANGED <<stream, now, moduleVars, origin, phase, verdictVars, named, code>>

RealtimeRevoke(s) ==
  \E target \in Users \cup {Everyone} :
    /\ Takes(s, target)
    /\ IF Names(target, s)
         THEN Closes(s, CLOSE_REVOKED)
         ELSE /\ channel' = [channel EXCEPT ![s] = Tail(@)]
              /\ UNCHANGED <<origin, phase, verdictVars, code>>
    /\ UNCHANGED <<stream, now, moduleVars, named>>

(* A handler raises, or the peer, the heartbeat or an overflow ends it.    *)
Ends(s) ==
  /\ phase[s] \in {"asking", "subscribing", "open", "reasking"}
  /\ Closes(s, 0)
  /\ UNCHANGED <<stream, now, moduleVars, named>>

Reconnect(s) ==
  /\ phase[s] = "closed"
  /\ \E o \in OriginHeaders : origin' = [origin EXCEPT ![s] = o]
  /\ phase' = [phase EXCEPT ![s] = "new"]
  /\ named' = [named EXCEPT ![s] = FALSE]
  /\ code' = [code EXCEPT ![s] = 0]
  /\ UNCHANGED <<stream, now, moduleVars, verdictVars, channel>>

-----------------------------------------------------------------------------
(* The module that owns the stream.                                        *)
Member(s) == phase[s] \in {"open", "reasking"}

(* The layer drops what exceeds a channel's capacity.                      *)
Reaches(s) == Member(s) /\ Len(channel[s]) < CHANNEL_CAPACITY

Deliver ==
  /\ channel' = [s \in Sockets |->
       IF Reaches(s) THEN Append(channel[s], IF named[s] THEN "late" ELSE "signal")
                     ELSE channel[s]]
  /\ UNCHANGED <<stream, now, moduleVars, origin, phase, verdictVars, named, code>>

(* Called when a membership ends, or the whole stream does.                *)
Revoke(target) ==
  /\ IF target = Everyone THEN rights = {} ELSE target \notin rights
  /\ channel' = [s \in Sockets |->
       IF Reaches(s) THEN Append(channel[s], target) ELSE channel[s]]
  /\ named' = [s \in Sockets |-> named[s] \/ (Reaches(s) /\ Names(target, s))]
  /\ UNCHANGED <<stream, now, moduleVars, origin, phase, verdictVars, code>>

Withdraw(u) ==
  /\ u \in rights
  /\ rights' = rights \ {u}
  /\ lostAt' = [lostAt EXCEPT ![u] = now]
  /\ UNCHANGED <<stream, now, socketVars>>

Grant(u) ==
  /\ u \notin rights
  /\ rights' = rights \cup {u}
  /\ UNCHANGED <<stream, now, lostAt, socketVars>>

Tick ==
  /\ now < MaxTime
  /\ now' = now + 1
  /\ UNCHANGED <<stream, moduleVars, socketVars>>

-----------------------------------------------------------------------------
Next ==
  \/ \E s \in Sockets :
       \/ RefuseOrigin(s)
       \/ RefuseAnonymous(s)
       \/ ConnectAsk(s)
       \/ Lookup(s)
       \/ ConnectAllowed(s)
       \/ Refused(s)
       \/ Subscribe(s)
       \/ HelloCached(s)
       \/ HelloAsk(s)
       \/ HelloAllowed(s)
       \/ RealtimeSignal(s)
       \/ RealtimeRevoke(s)
       \/ Ends(s)
       \/ Reconnect(s)
  \/ Deliver
  \/ \E target \in Users \cup {Everyone} : Revoke(target)
  \/ \E u \in Users : Withdraw(u) \/ Grant(u)
  \/ Tick

Spec == Init /\ [][Next]_vars

-----------------------------------------------------------------------------
(* Properties                                                              *)

(* The type invariant; a channel never holds more than its capacity.       *)
TypeOK ==
  /\ stream \in [authorizer : {"deny", "WorkspaceCapability"},
                 scope_type : {"ws", "other"}]
  /\ now \in 0..MaxTime
  /\ rights \in SUBSET Users
  /\ lostAt \in [Users -> Int]
  /\ origin \in [Sockets -> OriginHeaders \cup {NoOrigin}]
  /\ phase \in [Sockets -> {"new", "asking", "subscribing", "open", "reasking",
                            "closed"}]
  /\ asked \in [Sockets -> 0..MaxTime]
  /\ verdict \in [Sockets -> BOOLEAN \cup {NoVerdict}]
  /\ until \in [Sockets -> 0..(MaxTime + AUTHORIZE_CACHE_S)]
  /\ channel \in [Sockets -> Seq(Messages)]
  /\ \A s \in Sockets : Len(channel[s]) <= CHANNEL_CAPACITY
  /\ named \in [Sockets -> BOOLEAN]
  /\ code \in [Sockets -> {0, CLOSE_UNAUTHENTICATED, CLOSE_FORBIDDEN,
                           CLOSE_REVOKED}]

Served == {s \in Sockets : phase[s] \in {"subscribing", "open", "reasking"}}

(* Forgetting is not permission, and neither is a failed lookup: a socket  *)
(* is served only on a workspace stream whose consumer names an authorizer *)
(* and to a user who held the capability at some time (authorize.py).      *)
FailClosed ==
  \A s \in Served : Judges /\ (UserOf[s] \in rights \/ lostAt[UserOf[s]] >= 0)

(* A hello is answered from the cache at most AUTHORIZE_CACHE_S and the    *)
(* core's own cache after the rights went, however late the authorizer's   *)
(* answer came (_authorize_cached takes `now' before it asks).             *)
CachedVerdictIsRecent ==
  \A s \in Served :
    (now < until[s] /\ UserOf[s] \notin rights)
      => now < lostAt[UserOf[s]] + AUTHORIZE_CACHE_S + CAPABILITY_CACHE_S

(* A revoke that reached a socket's channel is final: no signal fanned out *)
(* after it is taken by that socket, whatever is queued before it          *)
(* (revoke, realtime_revoke).                                              *)
RevokeIsFinal == \A s \in Sockets : ~Takes(s, "late")

(* "Everyone else on the stream is untouched": only a socket that a revoke *)
(* named is closed 4410 (realtime_revoke's target).                        *)
OnlyNamedAreKicked ==
  \A s \in Sockets : code[s] = CLOSE_REVOKED => named[s]

(* A handshake is refused for its origin exactly if the guard is on, the   *)
(* header is there and it is not, up to case and a written-out default     *)
(* port, an origin of the configuration (OriginGuard.__call__).            *)
OriginsAreJudged ==
  [][\A s \in Sockets :
       (phase[s] = "new" /\ phase'[s] # "new")
         => ((phase'[s] = "closed" /\ code'[s] = CLOSE_FORBIDDEN)
               <=> /\ Configured # {}
                   /\ origin[s] # NoOrigin
                   /\ ~FromConfigured(origin[s]))]_vars

-----------------------------------------------------------------------------
(* What the documentation says and the code does not do                    *)

(* conf.py: AUTHORIZE_CACHE_S is "the acknowledged ceiling on the residual *)
(* leak window for paths that do not get an explicit revoke()".  Once the  *)
(* caches' windows are over nothing would be fanned out to a socket whose  *)
(* user lost the capability; but only a hello asks again, and the peer     *)
(* need not say one (_authorize_cached, receive_json).                     *)
LeakWindowIsBounded ==
  [][Deliver => \A s \in Sockets :
       (Reaches(s) /\ ~named[s])
         => \/ UserOf[s] \in rights
            \/ now <= lostAt[UserOf[s]] + AUTHORIZE_CACHE_S + CAPABILITY_CACHE_S]_vars
=============================================================================
