-------------------------- MODULE PresenceRegistry --------------------------
(***************************************************************************)
(* The presence lease of one user: presence.py, and the threads in which   *)
(* the sockets of that user write it (consumers.py, _presence_write).      *)
(*                                                                         *)
(* The registry is one cache entry per user, read, changed and written     *)
(* back without a lock.  A socket has two threads that may write it: the   *)
(* one of connect() or disconnect(), and the one of its heartbeat task,    *)
(* which goes on after the task is cancelled.  Keys of distinct users are  *)
(* distinct, so one user is enough.                                        *)
(*                                                                         *)
(* Time is discrete.  A thread may take any time and a timer may fire at   *)
(* any time after it is due; a history variable remembers whether anything *)
(* went wrong so far.                                                      *)
(***************************************************************************)
EXTENDS Integers, FiniteSets

CONSTANTS
  Sockets,               \* the sockets of the user, by channel name
  Families,              \* stream families
  FamilyOf,              \* presence_family() of each socket
  PRESENCE_TTL_S,        \* realtime_settings.PRESENCE_TTL_S
  HEARTBEAT_S,           \* realtime_settings.HEARTBEAT_S
  HEARTBEAT_TIMEOUT_S,   \* realtime_settings.HEARTBEAT_TIMEOUT_S
  CacheFails,            \* cache calls may raise
  Latency,               \* what a thread or a timer may take on a good day
  MaxTime,               \* bound on the clock
  NoDoc                  \* the cache has no entry

ASSUME PresenceAssumption ==
  /\ FamilyOf \in [Sockets -> Families]
  /\ PRESENCE_TTL_S \in Nat \ {0}
  /\ HEARTBEAT_S \in Nat \ {0}
  /\ HEARTBEAT_TIMEOUT_S \in Nat \ {0}
  /\ CacheFails \in BOOLEAN
  /\ Latency \in Nat
  /\ MaxTime \in Nat

VARIABLES
  now,      \* time.time()
  doc,      \* the cache entry, or NoDoc
  life,     \* where each socket is in its life
  wake,     \* when the heartbeat task of each socket wakes up
  stage,    \* where each thread is in its registry call, or "idle"
  since,    \* when each thread was submitted
  at,       \* the `now' each thread took and has yet to use
  copy,     \* the session map each thread will write
  endedAt,  \* history: when the last task or thread of a socket ended
  healthy   \* history: nothing was later than Latency, no cache call failed
            \* and no two writes overlapped

threadVars == <<stage, since, at, copy>>
vars == <<now, doc, life, wake, threadVars, endedAt, healthy>>

Threads == Sockets \X {"main", "beat"}

Busy(t) == stage[t] # "idle"

(* A session map: the sockets counted, each with the time of its lease.    *)
Times == 0..MaxTime

SessionMaps == UNION {[S -> Times] : S \in SUBSET Sockets}

(* A cache entry: the session map, and when the cache drops it.            *)
Docs == [sessions : SessionMaps, expires : Nat]

ASSUME NoDocAssumption == NoDoc \notin Docs

Empty == [s \in {} |-> 0]

Init ==
  /\ now = 0
  /\ doc = NoDoc
  /\ life = [s \in Sockets |-> "new"]
  /\ wake = [s \in Sockets |-> 0]
  /\ stage = [t \in Threads |-> "idle"]
  /\ since = [t \in Threads |-> 0]
  /\ at = [t \in Threads |-> 0]
  /\ copy = [t \in Threads |-> Empty]
  /\ endedAt = [s \in Sockets |-> 0]
  /\ healthy = TRUE

-----------------------------------------------------------------------------
(* presence.py as operators.                                               *)

SessionsOf(d) == IF d = NoDoc THEN Empty ELSE d.sessions

(* Mutant of Fresh: only the timeout of the whole entry ends a lease.      *)
FreshForEver(seen, time) == TRUE

Fresh(seen, time) == time - seen <= PRESENCE_TTL_S

Prune(sessions, time) ==
  [s \in {x \in DOMAIN sessions : Fresh(sessions[x], time)} |-> sessions[s]]

(* Mutant of With: the lease's end is stored, not its start.               *)
WithExpiry(sessions, s, time) ==
  [x \in DOMAIN sessions \cup {s} |->
     IF x = s THEN time + PRESENCE_TTL_S ELSE sessions[x]]

(* Mutant of With: the other sockets of the user are forgotten.            *)
WithAlone(sessions, s, time) == [x \in {s} |-> time]

With(sessions, s, time) ==
  [x \in DOMAIN sessions \cup {s} |-> IF x = s THEN time ELSE sessions[x]]

Without(sessions, s) ==
  [x \in DOMAIN sessions \ {s} |-> sessions[x]]

(* What _touch and record_disconnect write for socket s, having read d.    *)
Touched(d, s, time) == With(Prune(SessionsOf(d), time), s, time)
Dropped(d, s, time) == Prune(Without(SessionsOf(d), s), time)

(* cache.set(..., timeout=ttl)                                             *)
Entry(sessions) == [sessions |-> sessions, expires |-> now + PRESENCE_TTL_S]

(* is_live(): the sessions of a family whose lease has not run out.        *)
Counted(family) ==
  {s \in DOMAIN SessionsOf(doc) :
     FamilyOf[s] = family /\ Fresh(SessionsOf(doc)[s], now)}

IsLive(family) == Counted(family) # {}

-----------------------------------------------------------------------------
(* A task or a thread of the socket is still running.                      *)
Running == {"connecting", "open", "closing", "orphan"}

Alive(s) == life[s] \in Running \/ Busy(<<s, "main">>) \/ Busy(<<s, "beat">>)

LastAlive(s) == IF Alive(s) THEN now ELSE endedAt[s]

Submit(t) ==
  /\ ~Busy(t)
  /\ stage' = [stage EXCEPT ![t] = "submitted"]
  /\ since' = [since EXCEPT ![t] = now]
  /\ UNCHANGED <<at, copy>>

(* connect() was accepted and starts record_connect in a thread.           *)
Connect(s) ==
  /\ life[s] = "new"
  /\ life' = [life EXCEPT ![s] = "connecting"]
  /\ Submit(<<s, "main">>)
  /\ UNCHANGED <<now, doc, wake, endedAt, healthy>>

(* The heartbeat task wakes up and starts record_heartbeat in a thread.    *)
Beat(s) ==
  /\ life[s] \in {"open", "orphan"}
  /\ now >= wake[s]
  /\ Submit(<<s, "beat">>)
  /\ UNCHANGED <<now, doc, life, wake, endedAt, healthy>>

(* disconnect(): the heartbeat task is cancelled, its thread is not, and   *)
(* record_disconnect starts in another.                                    *)
Disconnect(s) ==
  /\ life[s] = "open"
  /\ life' = [life EXCEPT ![s] = "closing"]
  /\ wake' = [wake EXCEPT ![s] = 0]
  /\ Submit(<<s, "main">>)
  /\ UNCHANGED <<now, doc, endedAt, healthy>>

(* What a set of threads held is gone when they end.                       *)
Clear(ended) ==
  /\ stage' = [t \in Threads |-> IF t \in ended THEN "idle" ELSE stage[t]]
  /\ since' = [t \in Threads |-> IF t \in ended THEN 0 ELSE since[t]]
  /\ at' = [t \in Threads |-> IF t \in ended THEN 0 ELSE at[t]]
  /\ copy' = [t \in Threads |-> IF t \in ended THEN Empty ELSE copy[t]]

(* The worker is killed: every task and thread of the socket with it.      *)
Crash(s) ==
  /\ life[s] \in Running
  /\ life' = [life EXCEPT ![s] = "dead"]
  /\ wake' = [wake EXCEPT ![s] = 0]
  /\ Clear({<<s, "main">>, <<s, "beat">>})
  /\ endedAt' = [endedAt EXCEPT ![s] = now]
  /\ UNCHANGED <<now, doc, healthy>>

(* A handler raised: disconnect() never runs and nobody cancels the        *)
(* heartbeat task, which ends by itself when a ping stays unanswered.      *)
HandlerRaises(s) ==
  /\ life[s] = "open"
  /\ life' = [life EXCEPT ![s] = "orphan"]
  /\ UNCHANGED <<now, doc, wake, threadVars, endedAt, healthy>>

OrphanEnds(s) ==
  /\ life[s] = "orphan"
  /\ ~Busy(<<s, "beat">>)
  /\ life' = [life EXCEPT ![s] = "dead"]
  /\ wake' = [wake EXCEPT ![s] = 0]
  /\ endedAt' = [endedAt EXCEPT ![s] = now]
  /\ UNCHANGED <<now, doc, threadVars, healthy>>

-----------------------------------------------------------------------------
(* A registry call, step by step.                                          *)

TakeNow(t) ==
  /\ stage[t] = "submitted"
  /\ stage' = [stage EXCEPT ![t] = "dated"]
  /\ at' = [at EXCEPT ![t] = now]
  /\ UNCHANGED <<now, doc, life, wake, since, copy, endedAt, healthy>>

(* The call is over: what the socket does next.                            *)
Return(t) ==
  LET s == t[1] IN
  /\ Clear({t})
  /\ \/ /\ life[s] = "connecting"
        /\ life' = [life EXCEPT ![s] = "open"]
        /\ wake' = [wake EXCEPT ![s] = now + HEARTBEAT_S]
        /\ UNCHANGED endedAt
     \/ /\ life[s] = "open"
        /\ wake' = [wake EXCEPT ![s] = now + HEARTBEAT_TIMEOUT_S + HEARTBEAT_S]
        /\ UNCHANGED <<life, endedAt>>
     \/ /\ life[s] = "orphan"
        /\ life' = [life EXCEPT ![s] = "dead"]
        /\ wake' = [wake EXCEPT ![s] = 0]
        /\ endedAt' = [endedAt EXCEPT ![s] = now]
     \/ /\ life[s] \in {"closing", "closed"}
        /\ life' = IF t[2] = "main" THEN [life EXCEPT ![s] = "closed"] ELSE life
        /\ endedAt' = [endedAt EXCEPT ![s] = now]
        /\ UNCHANGED wake

(* cache.get(): record_disconnect stops here if there is no document.      *)
Drops(t) == t[2] = "main" /\ life[t[1]] = "closing"

(* Mutant of Get: a heartbeat renews only the session it finds.            *)
GetRenewsOnly(t) ==
  LET s == t[1] IN
  /\ stage[t] = "dated"
  /\ ~(Drops(t) /\ doc = NoDoc)
  /\ stage' = [stage EXCEPT ![t] = "read"]
  /\ copy' = [copy EXCEPT ![t] =
       CASE Drops(t) -> Dropped(doc, s, at[t])
         [] t[2] = "main" \/ s \in DOMAIN SessionsOf(doc) ->
              Touched(doc, s, at[t])
         [] OTHER -> Prune(SessionsOf(doc), at[t])]
  /\ at' = [at EXCEPT ![t] = 0]
  /\ healthy' = (healthy /\ \A u \in Threads : stage[u] # "read")
  /\ UNCHANGED <<now, doc, life, wake, since, endedAt>>

Get(t) ==
  /\ stage[t] = "dated"
  /\ ~(Drops(t) /\ doc = NoDoc)
  /\ stage' = [stage EXCEPT ![t] = "read"]
  /\ copy' = [copy EXCEPT ![t] = IF Drops(t) THEN Dropped(doc, t[1], at[t])
                                             ELSE Touched(doc, t[1], at[t])]
  /\ at' = [at EXCEPT ![t] = 0]
  /\ healthy' = (healthy /\ \A u \in Threads : stage[u] # "read")
  /\ UNCHANGED <<now, doc, life, wake, since, endedAt>>

NothingToDrop(t) ==
  /\ stage[t] = "dated"
  /\ Drops(t)
  /\ doc = NoDoc
  /\ Return(t)
  /\ UNCHANGED <<now, doc, healthy>>

Set(t) ==
  /\ stage[t] = "read"
  /\ doc' = Entry(copy[t])
  /\ Return(t)
  /\ UNCHANGED <<now, healthy>>

(* The cache raised: the call returns and the socket goes on.              *)
Fails(t) ==
  /\ CacheFails
  /\ Busy(t)
  /\ Return(t)
  /\ healthy' = FALSE
  /\ UNCHANGED <<now, doc>>

-----------------------------------------------------------------------------
(* One second goes by.  The cache drops an entry whose timeout is over.    *)
OnTime ==
  /\ \A t \in Threads : Busy(t) => now < since[t] + Latency
  /\ \A s \in Sockets :
       (life[s] = "open" /\ ~Busy(<<s, "beat">>)) => now < wake[s] + Latency

Tick ==
  /\ now < MaxTime
  /\ now' = now + 1
  /\ healthy' = (healthy /\ OnTime)
  /\ doc' = IF doc # NoDoc /\ now' >= doc.expires THEN NoDoc ELSE doc
  /\ UNCHANGED <<life, wake, threadVars, endedAt>>

Next ==
  \/ \E s \in Sockets :
       \/ Connect(s)
       \/ Beat(s)
       \/ Disconnect(s)
       \/ Crash(s)
       \/ HandlerRaises(s)
       \/ OrphanEnds(s)
  \/ \E t \in Threads :
       \/ TakeNow(t)
       \/ Get(t)
       \/ NothingToDrop(t)
       \/ Set(t)
       \/ Fails(t)
  \/ Tick

Spec == Init /\ [][Next]_vars

-----------------------------------------------------------------------------
(* Properties                                                              *)

Lives == Running \cup {"new", "closed", "dead"}

(* The type invariant.                                                     *)
TypeOK ==
  /\ now \in Times
  /\ doc \in Docs \cup {NoDoc}
  /\ life \in [Sockets -> Lives]
  /\ wake \in [Sockets -> Nat]
  /\ stage \in [Threads -> {"idle", "submitted", "dated", "read"}]
  /\ since \in [Threads -> Times]
  /\ at \in [Threads -> Times]
  /\ copy \in [Threads -> SessionMaps]
  /\ endedAt \in [Sockets -> Times]
  /\ healthy \in BOOLEAN

(* Nobody stays online for ever: whatever the interleaving of the threads  *)
(* of all the user's sockets, and whichever of them crash, is_live counts  *)
(* a socket only if it still ran at most one TTL ago, also when a stale    *)
(* write put its session back (presence.py: "a worker killed mid-socket    *)
(* therefore stops counting after one TTL").                               *)
LeaseIsHonest ==
  \A s \in Sockets :
    s \in Counted(FamilyOf[s]) =>
      life[s] # "new" /\ now - LastAlive(s) <= PRESENCE_TTL_S

(* A lost update, a failed call and a lease that ran out are repaired by   *)
(* the next write of the socket itself, whatever the document has become   *)
(* since its thread read it: connect and every beat leave their socket     *)
(* counted, unless the call took longer than the lease (presence.py: "the  *)
(* losing socket writes itself back on its next heartbeat").               *)
BeatHeals ==
  [][\A t \in Threads :
       LET s == t[1] IN
       (/\ Set(t)
        /\ life[s] \in {"connecting", "open"}
        /\ now - since[t] <= PRESENCE_TTL_S)
         => (s \in Counted(FamilyOf[s]))']_vars

(* An open socket counts at every moment of its life, also while other     *)
(* tabs of the user connect, beat, leave and crash, as long as no two      *)
(* writes overlap, nothing fails and the TTL covers two renewals: they are *)
(* HEARTBEAT_S + HEARTBEAT_TIMEOUT_S and three latencies apart             *)
(* (_heartbeat_loop, _touch, _prune, _snapshot).                           *)
EveryOpenSocketCounts ==
  \A s \in Sockets : life[s] = "open" => s \in Counted(FamilyOf[s])

Renewal == HEARTBEAT_S + HEARTBEAT_TIMEOUT_S + 2 * Latency

Adequate == PRESENCE_TTL_S > Renewal /\ PRESENCE_TTL_S >= Renewal + Latency

OpenSocketCounts == (healthy /\ Adequate) => EveryOpenSocketCounts

-----------------------------------------------------------------------------
(* What the documentation says and the code does not do.                   *)

(* presence.py: the error of a lost update is "always in the direction of  *)
(* under-counting": a socket whose disconnect() is over does not count.    *)
NeverOverCounts ==
  \A s \in Sockets : life[s] = "closed" => s \notin Counted(FamilyOf[s])

(* checks.py, W006, and conf.py: with PRESENCE_TTL_S above HEARTBEAT_S a   *)
(* live socket does not let its lease expire between two beats.            *)
CheckWarns == HEARTBEAT_S >= PRESENCE_TTL_S

SilentCheckKeepsLease == (healthy /\ ~CheckWarns) => EveryOpenSocketCounts
=============================================================================
