# stapel-realtime, verified

TLA+ models of stapel-realtime, the WebSocket substrate of the Stapel fleet
(Django Channels), their TLC runs and their TLAPS proofs. The reference is the
code of the repository; where a document says something else, a run shows the
difference.

## The system

| component | state | operations | interacts with |
|---|---|---|---|
| stream consumer substrate (`consumers.py`, `BaseStreamConsumer`) | per socket: `_closing`, `_pong_pending`, `_protocol_strikes`, `_authorized_until`, `_presence_session`, the group membership, three tasks | `connect`, `receive_json`, `realtime_signal/frame/revoke`, `_drain_then_close`, `_heartbeat_loop`, `disconnect` | the ASGI server, the channel layer, the authorizer, presence |
| send queue and writer (`_enqueue`, `_writer_loop`) | the bounded `_outbox`, the writer task | put (or close 4413), take, send, drain | every handler, the peer's reading speed |
| ephemeral consumer | none | `on_hello` | the substrate |
| resumable consumer | `_max_seq_sent` | `on_hello`, `send_frame`'s dedup, the hooks `get_server_seq`, `get_replay_rows` | the module's journal, `delivery.deliver_frame`, the client's cursor |
| delivery (`delivery.py`) | none | `deliver`, `deliver_frame`, `revoke` | the channel layer, best effort |
| presence (`presence.py`) | one cache document per user: sessions with their lease, `last_seen` | `record_connect`, `record_heartbeat`, `record_disconnect`, `is_live`, `live_batch` | threads of every socket of the user, in every worker; the shared cache |
| authorization (`authorize.py`) | none (the verdict is cached per socket) | `deny`, `WorkspaceCapability` | a capability service |
| envelope, stream keys, close codes | none | pure functions | the consumers |
| origin guard (`asgi.py`) | none (its list of origins is read at each handshake) | `normalize_origin`, `OriginGuard` | the server, the registry of sites |
| host assembly (`asgi.py`) | a registry of routes at start-up | `build` | the server |
| system checks (`checks.py`) | none | E001..E003, W001..W007 | settings |
| functions (`functions.py`) | none | `is_live`, `live_batch` for other services | presence |

What is hard here:

* **Four tasks on one socket.** The dispatcher handles one frame or group
  event at a time and may be suspended in an authorizer, a thread or a drain;
  the writer, the heartbeat and the peer go on meanwhile, and three of the four
  may close.
* **Bounded queue, slow reader.** A frame that finds the queue full closes the
  socket 4413, also when it is the frame that was to explain another close.
* **Replay against live frames.** Rows reach a socket by two roads, one of them
  lossy and unordered, and one cursor decides which are dropped.
* **A registry without a lock.** Presence is read, changed and written back by
  threads nobody cancels, of sockets that may crash.
* **Time.** The lease, the beat, the pong's grace and the token's expiry.
* **Processes.** A fan-out starts in one process and must be seen in another;
  whether it is depends on settings no request ever touches, which only the
  system checks judge.

What makes each component correct:

* send queue: bounded; what was queued leaves in order; the explanation of a
  close precedes it on the wire unless the reader is too slow or a send fails.
* substrate: fail-closed (nothing is joined, counted or started before a yes;
  no data after a no), every cause of an end really ends the socket and
  releases group, presence and tasks.
* resumable: never twice and never back on one socket; caught up when told so;
  every committed row in the end.
* presence: nobody online longer than one TTL after the last socket ran; an
  open socket always counted when the settings allow it.
* authorization: nobody is served without a verdict; a cached verdict is never
  older than its window; after a revoke no data, and nobody else is kicked.
* origin guard: when it is on, exactly the configured origins pass.
* stream keys: two streams never share a group.
* system checks: what a silent check lets a deployment believe is so.

`PROJECT.json` lists the hazards at their lines, with the properties that
would catch each one going wrong, and the hazards no property covers yet.

## The modules

| module | models | lines |
|---|---|---|
| `SendQueue` | outbox, writer, `_closing`, close codes on the wire; shared by the two below | `consumers.py` 294-355 |
| `StreamSocket` | one socket of the substrate, with the ephemeral hello | `consumers.py` 103-258, 262-290, 344-399 |
| `BroadcastContract` | the abstract promise of a fan-out: one process, a mailbox per listener | `delivery.py` 68-149; `consumers.py` 137-170 |
| `JournalStream` | a resumable stream: journal, fan-out, socket, client, reconnects | `consumers.py` 276-305, 482-513; `delivery.py` 68-129 |
| `PresenceRegistry` | one user's presence document and the threads of their sockets | `presence.py`; `consumers.py` 140-168, 359-432 |
| `OriginGuard` | what an origin is, which handshakes pass, what the checks say of the setting | `asgi.py` 41-160; `checks.py` 178-217 |
| `StreamAccess` | one stream, its users' rights, their sockets' verdicts, the fan-out and `revoke()`; EXTENDS `OriginGuard` | `consumers.py` 103-139, 187-214, 234-240, 262-290; `authorize.py` 52-116; `delivery.py` 68-149 |
| `StreamGroups` | legal stream keys and the group name of a key | `streams.py` 42-102 |
| `SystemChecks` | E001, W001, E002 as functions of the settings | `checks.py` 21-175 |
| `RealtimeHost` | a host of several workers: groups and channels by process, fan-outs, restarts, idle reads; EXTENDS `StreamGroups` and `SystemChecks`, implements `BroadcastContract` | `delivery.py` 55-149; `consumers.py` 137-170 |
| `MC*` | constants for TLC | |
| `*Proofs` | theorems | |

### SendQueue

`outbox`, `inFlight` (the frame the writer took), `writer`, `closing`, `code`
(the first close the peer was sent: the server honours one), `lastSent` (the
last frame on the wire) and `gone`. `_enqueue` never suspends, so a run of
calls in one handler is one step, `EnqueueAll`: the writer cannot run inside.
`EnqueueThenClosing` is a frame followed at once by `_drain_then_close`.
`Unfinished` is what `asyncio.Queue.join()` counts. A send may raise at any
time, with the peer there or not: the writer is then "failed", it marks the
frame done and returns, and nothing drains the queue any more.

### StreamSocket

`dispatcher` says at which await the handler in progress is suspended:
`connect -> authorizing -> subscribing -> accepting -> counting -> idle`, then
`reauthorizing` (a hello whose cached verdict ran out), `draining`
(`_drain_then_close`), and `uncounting -> leaving -> ended` in `disconnect()`.
`heartbeat` does the same for `_heartbeat_loop`. An action runs from one
suspending await to the next. Verdicts, frames and events are chosen freely;
timers may fire at any time, so any order of timeouts and answers is covered.
`websocket.disconnect` is queued behind the frames already received, so
`Disconnect` waits for an empty inbox. A handler that raises leaves the
consumer: the server closes, and `disconnect()` is never called; so does a text
that is no JSON, on which channels' decoder raises (`Undecodable`). A client frame
that decodes is a hello, a pong, an invalid envelope ("garbage"), or "plain", a ping or an
unknown type, which one frame answers and nothing tells apart; a group event is
a signal, a revoke of this user, or one that is ignored (an empty signal, a
revoke of somebody else). A hello is answered from the cached verdict or asked
again as it comes: the window's clock is in `StreamAccess`.

### JournalStream

Rows are numbered 1..`head`. A committed row waits in `unsent` until its
`deliver_frame` runs (in any order) or is lost, and in `channel` until the
dispatcher is free. `on_hello` is three steps, split at its two hooks:
`HelloStart`, `HelloServerSeq`, `HelloRows`. A hook and the code that follows
it are one action: only a commit could come between, it changes nothing the
handler reads afterwards, and it can be moved after the step. The client keeps
the rows it received over all its sockets (`have`) and says hello with the
highest n such that it holds 1..n. It reconnects after a close, after a lost
connection, and when it is behind on a socket that has nothing more for it; a
resync makes it read everything over HTTP. The end of a socket is one step
here, and a send or a hook that raises is a lost connection (`Drop`);
`StreamSocket` has the detail of both.

### PresenceRegistry

Each socket has two threads that may be inside a registry call: the
dispatcher's (`record_connect`, `record_disconnect`) and the heartbeat's, which
survives the cancellation of its task. A call is split where another thread
can interfere: submitted, `time.time()` read, `cache.get`, `cache.set`.
`doc` expires with the cache's timeout. Crashes, cache failures and handlers
that raise (an "orphan": the heartbeat goes on) are steps. A thread may take any
time and a timer may fire at any time; the history `healthy` becomes false at
the first thread or timer later than `Latency`, the first failed cache call and
the first read between another thread's read and write. `LeaseIsHonest`
(every session that counts, not only one of them, is that of a socket which ran
at most one TTL ago) and `BeatHeals` (a write of an open socket leaves it
counted, whatever the document has become since it was read) hold whatever
`healthy` says; `OpenSocketCounts` is what it buys.

### OriginGuard

An origin is the record `urlsplit` makes of it: scheme, host and port, each
possibly missing, with letters whose case `Lower` folds. `NormalizeOrigin` is
the code's normal form, `Admits` the guard's decision on one handshake,
`WarnsOpen` and `Misspelt` what W002 and E003 report. `SameOrigin` says
independently what two spellings of one origin are. A host is a name; the
explicit list a test may give the guard is left out.

### StreamAccess

The rights come and go in the module that owns the stream (`Withdraw`,
`Grant`), which calls `deliver` and `revoke` (`Deliver`, `Revoke`). A socket's
`phase` goes `new -> asking -> subscribing -> open`, `reasking` during a hello
whose cached verdict ran out, then `closed`. The authorizer's answer is three
steps, since the rights may change between them: `asked` is set to the time,
`Lookup` reads the rights in a thread, `Accept` stores `until`, the end of the
window counted from `asked`. `group_add` is after the verdict, so rights that
go in between are not noticed, and a revoke of that time finds no member. A
channel drops what exceeds its capacity. Two histories serve the properties:
`named` (a revoke that names this socket is in its channel, or was) and
`lostAt`. `origin` is the header of a handshake the guard has yet to judge;
nothing reads it afterwards. `require_capability` and its cache, and the layer's capacity, are
external. The closing handshake is `StreamSocket`'s: here a socket that starts
to close takes no frame any more.

### StreamGroups, SystemChecks, RealtimeHost

A stream key is the sequence of its segments; the core's canon, which decides
what a segment is, lets no separator into one, so the translation of ":" to "."
is the identity on segments. `GroupName` keeps a key whose name fits and hashes
one whose name does not. `DigestAssumption` says what is assumed of the digest:
no collisions, and no segment of a key is one.

`SystemChecks` has each check as a function of a record of settings. The record
holds what the code reads: the layer's kind, the three environment variables
(unset, no number, a number), the `socket_timeout` of each of E002's sources
(absent, None, seconds), which are `CONFIG`, its `connection_kwargs` and the
entries of its hosts, what the installed redis-py inherits, and the floor.

`RealtimeHost` runs such a host: sockets connect in some worker, disconnect, die
with it or by a read timeout; every worker may call `deliver`, `deliver_frame`
and `revoke` with any stream key, legal or not. `LayerOf` says in whose memory a
process's groups are: its own for an in-memory layer, `SHARED` otherwise. A
`group_send` that raises is swallowed by `_group_send` and changes nothing, so
it is no step: what is said of a fan-out is said of one that was sent
(`JournalStream` has the lost ones). `Idle` is a second in which redis says
nothing; the layer waits `EXPIRY` seconds at a time in BZPOPMIN and redis-py
gives up on a read that lasts `socket_timeout` (`TornDown`), which is that of
the host's own entry, the only shape channels-redis forwards, or else the
library's. Two things are assumed of the host, each visible in a definition: the
environment tells the number of workers that run (`TellsWorkers`), and the floor
is above the layer's expiry. The presence lease of an open socket is not here:
`PresenceRegistry` has it, with the ways to lose it.

`BroadcastContract` is the same host as its callers think of it: one process in
which listeners join, leave and are sent what goes to their stream, in order,
once, if there is room; a host that is not `reliable` may leave anybody out.
`ImplementsBroadcast` maps `reliable` to "E001 and W001 say nothing", a
listener's stream to the key of an open socket, and its mailbox to the channel
of an open socket, and to nothing otherwise: the layer goes on sending to the
entries a torn-down socket or a dead worker left behind, and nobody reads that.

## The runs

| run | properties | what it shows |
|---|---|---|
| `socket_safety` | `TypeOK`, `RefusedLeavesNoTrace`, `ReleasedWhenEnded`, `DrainedCloseIsExplained`, `DataNeedsVerdict`, `MuteSocketIsClosing` | frames, signals, verdicts, timers and ends of a socket in every order; no socket drops frames and stays open |
| `socket_live` | `DrainNotPreempted`, `RevokeEndsSocket`, `ExpiredTokenCloses`, `SilentPeerCloses`, `ClosingIsReleased` | revokes and refused hellos race the heartbeat; every cause of an end ends and releases the socket |
| `socket_revoke` | `RevokeCloses4410` **violated** | a revoke handled while the queue is full closes 4413 and no kick is sent |
| `journal` | `TypeOK`, `RowsAscend`, `CleanHelloCatchesUp`, `SkippedStaysSkipped`, `EveryRowArrives` | lost, reordered and overlapping frames, two hellos a socket, overflow, a lost connection, resyncs; with a queue that holds a whole replay every committed row arrives |
| `journal_gap` | `ReplayDoneMeansCaughtUp` **violated** | a live frame dispatched before the hello moves the cursor past rows the client lacks; the replay skips them and says done |
| `journal_narrow` | `EveryRowArrives` **violated** | with `MAX_REPLAY > SEND_QUEUE_SIZE` (the defaults are 500 and 100) a client that is far behind overflows at every hello |
| `access_safety` | `TypeOK`, `FailClosed`, `CachedVerdictIsRecent`, `RevokeIsFinal`, `OnlyNamedAreKicked`, `OriginsAreJudged` | rights that come and go, slow authorizers, lost revokes, a fan-out that overtakes nothing, handshakes of several spellings of an origin |
| `access_leak` | `LeakWindowIsBounded` **violated** | a socket that says no further hello is fanned out to when both caches' windows are over and its user has no right left |
| `presence_lease` | `TypeOK`, `LeaseIsHonest`, `OpenSocketCounts`, `BeatHeals` | two tabs of two families, crashes, slow threads, late timers, cache failures |
| `presence_overcount` | `NeverOverCounts` **violated** | a stale read-modify-write puts a closed session back |
| `presence_w006` | `SilentCheckKeepsLease` **violated** | W006 is silent and the lease still runs out: beats are `HEARTBEAT_S + HEARTBEAT_TIMEOUT_S` apart |
| `host_checks` | `TypeOK`, `SignalsStayOnTheirStream`, `SilentCheckReachesEverySocket`, `SilentCheckKeepsIdleSockets`, `ImplementsBroadcast` | every configuration of layer and worker variables and of timeouts, with fan-outs from every worker, restarts and idle time |

Every property of a passing run is paired in `PROJECT.json` with a mutant, a
plausible bug in the mapped code under which it fails; the mutants are
operators next to the definitions they alter.

### Findings

The six violated runs are disagreements of the code with its own words, with
the quoted lines in `PROJECT.json`. Two lose data or availability in default
settings. In `journal_gap` not even a further hello on the same socket brings
the skipped rows (`SkippedStaysSkipped`, proved): only another socket or a
resync does, and the client was told that it is caught up. In `journal_narrow`
the threshold is proved from both sides: with `SEND_QUEUE_SIZE > MAX_REPLAY` a
replay that meets an empty queue never overflows it (`WideQueueTakesReplay`);
a client that has asked from row n, with `SEND_QUEUE_SIZE` rows or more to
replay and the journal within `MAX_REPLAY` of it, never gets row n again on any
socket (`LeftBehindForEver`); it is freed only when the journal outgrows the
window and the server answers with a resync. `access_leak` is a
documented ceiling that does not exist for a quiet client: the model has the
window of the core's cache on top of `AUTHORIZE_CACHE_S` and still finds a
fan-out after both.

E002 can also be silent and wrong, and `SilentCheckKeepsIdleSockets` says
exactly when. Any source that names `socket_timeout` sets `stated_anywhere`
(`checks.py` 137-140), and the branch about the library's default (157) is then
never taken, although a statement reaches one host at most: with
`CONFIG={"socket_timeout": None}`, which `tests/test_checks.py` 88-94 expects to
be silent, or with a timeout on one of two hosts, the hosts that state nothing
inherit redis-py's default and their consumers die of an idle stream
(`Overlooked`). The run has such configurations, and idle consumers do die in
them; in no other silent configuration does one.

### Bounds

* Sockets: one frame and one event waiting. The dispatcher takes one at a time
  and its state after each is the same as if the next arrived later; what two
  waiting messages add is order between sources, which one of each gives.
* `SEND_QUEUE_SIZE` 1 with the frame in the writer's hand makes two frames on
  their way: an explanation behind another frame, and an overflow, both occur.
* `socket_live` has a queue of two, so that its frames do not overflow before
  the drain begins, and leaves out signals and garbage, which change no wait.
* Journal: three rows with a window of two give gaps below, at and above the
  window; two waiting live frames can be out of order; two hellos overlap; the
  queue of six holds a welcome and a replay twice, and overflows when two hellos
  and two live frames meet a reader that has read nothing.
* Presence: two sockets are the smallest race; the proof covers any number.
  `presence_lease` has H = 1, T = 1 and Latency 0, for which a TTL of 3 is
  adequate; threads and timers may be late by the whole run, so that both the
  healthy and the unhealthy behaviours occur. A clock of 4 is past the second
  renewal and past the TTL. The swap of the two tabs with their families is a
  symmetry.
* Access: two users with a socket each are the smallest "everyone else"; both
  caches have a window of 1, and a clock of 2 is where a window counted from
  the wrong moment shows. A channel of two holds a signal behind or before a
  revoke, and a third message is dropped. A permutation that swaps both the
  users and their sockets maps behaviours to behaviours, so the symmetry is
  sound. `access_leak` has a clock of 3, the first moment after both windows.
* Host: two workers and two sockets are the smallest host where a fan-out can
  miss a socket; two redis hosts the smallest where they differ. One stream's
  name is just short enough and the other's, which begins with it, is too long.
  A layer waits two seconds at a time and the floor is 3, one above the expiry:
  a read of 1 or 2 seconds dies, one of 3 just survives, and each is stated or
  inherited in some configuration. What the sources state is 3 or nothing, None
  or nothing, or, for the hosts alone, any of 2, None and nothing. E001 and W001
  meet all values of what they look at; what a check does not look at is held at
  a sound value. Sockets, and redis hosts, are interchangeable. A channel of the host
  holds one message, which keeps the run short; that messages stay in order is
  shown by the proof of `HostIsOneProcess` alone.

CHECK_DEADLOCK is off but in `StreamAccess` and `RealtimeHost`: sockets end, journals and clocks are bounded, so the
models do stop.

### Fairness

`StreamSocket!FairSpec`: asyncio timers fire (`DrainOver`, `Heartbeat`),
threads and authorizers return or raise, the server tears a closed connection
down, and the dispatch loop, which takes a message of each source that has one
on every round (channels' `await_many_dispatch`), starves no source (strong
fairness, since a handler may disable it in between). Nothing is assumed of
the peer, so nothing of the writer either.

`JournalStream!FairSpec`: the fan-outs run or are lost, handlers and hooks
return, the client reads, says hello on a new socket and reconnects. Here the
reader is assumed to read: a client that never reads never catches up.
Connections drop on their own `MaxDrops` times.

## The proofs

`tlapm` checks every leaf; the assumptions are the named `ASSUME`s on the
constants.

* `SendQueueProofs`: `_enqueue` takes a prefix of what it is given, keeps the
  bound, and leaves frames out only of a closing socket.
* `StreamSocketProofs`: `TypeCorrect`, `NoTrace`, `Released`, `Explained`,
  `DataAllowed`, `NotPreempted` and `MuteIsClosing`, the safety properties of
  both socket runs.
  `DrainedCloseIsExplained` speaks of the moment of the close; between the
  handler that queues the explanation and that moment the writer, the heartbeat
  and the peer all run. `ExplanationIsLast` says where the explanation is
  meanwhile (last in the outbox, in the writer's hand, or last on the wire), and
  `ClosingHasCause` that a socket which refuses frames and is not yet closed is
  in such a wait, so nobody queues behind it; both stop where a send raised,
  since the frame it held is then marked done and never sent. `Handshake` has what each stage of
  `connect()` has joined, counted and started; `Releasing` the order of
  `disconnect()`; `RefusedIsClosing` that a no stops the frames.
* `RealtimeHostProofs`: `NamesAreDistinct` (one group name, one key: two short
  names are their keys, two hashed ones have one digest, and a short name cannot
  look like a hashed one), and for any host `TypeCorrect`, `StreamsStayApart`,
  `ReachesEverySocket`, `IdleSocketsLive` and `HostIsOneProcess` (`Spec => ImplementsBroadcast`). The invariant:
  every entry of a group carries the name of its socket's own stream
  (`GroupsAreNamed`), every open socket has its entry where its worker keeps its
  groups (`OpenIsReachable`), and the environment tells the workers (`Told`).
  The checks enter only through two lemmas, `SilentMemoryIsAlone` and
  `SilentTimeoutIsLong`: what each, when silent, lets one conclude of the
  settings.
  The refinement goes action by action: a fan-out is a `Publish` whose reached
  set is that of the open sockets the sender's layer holds (`FanoutPublishes`),
  all of them where the checks are silent (`SilentReaches`); a disconnect, a
  restart and a read timeout are a `Part` of one or several listeners
  (`EndsParts`); a connect is a `Join`, which needs that nobody has sent to a
  socket before it joined (`NewIsUnknown`), else its mailbox would not be empty.
* `JournalStreamProofs`: `TypeCorrect` and `RowsAlwaysAscend`
  (`Spec => []RowsAscend`), for every queue size, window and journal.
  `RowsAscend` speaks of what was received, the end of a pipeline; the
  invariant extends it backwards. `StoreFirst`: every row in the outbox or in
  the writer's hand is in the journal and at or below the cursor. `Ascending`:
  received rows are below the row in hand, which is below the rows of the
  outbox, which ascend. `EnqueueKeepsOrder` says once that rows queued above
  the cursor keep this; each handler's lemma shows its frames qualify.
  `CatchesUp` (`Spec => []CleanHelloCatchesUp`) follows the replay_done back to
  its hello: `Known` says that the client holds what a hello in progress says it
  holds, and that a hello answered with rows was within the window, its cursor
  at the head when it is clean; `Promised` that until the close every row a clean
  replay_done vouches for is held, or on its way ahead of it (`Coming`).
  `SkippedIsFinal` (`Spec => SkippedStaysSkipped`) holds because every way into
  the outbox queues rows above the cursor only. `LeftBehindForEver` is a
  property of states to come: `LeftBehind(n)` says that the client holds what is
  below n, that row n is neither held, nor on its way, nor waiting as a live
  frame, that no resync is due, and that the rows from n on fit the window but
  not the queue. `NextLeavesBehind` shows that only a commit which pushes n out
  of the window ends it, and the theorem's hypothesis on `MaxSeq` says that there
  is none. The interesting step is the hello: its cursor moves to n - 1, the
  replay is n and what follows, and either the queue closes at it or row n was
  never in it. TLC reaches such states in the constants of `journal_narrow`.
* `PresenceRegistryProofs`: `TypeCorrect`, `LeaseHonest`
  (`Spec => []LeaseIsHonest`) and `LiveMeansRanLately` (what `is_live` may
  conclude from it), for any sockets, families, timings and
  latencies. `LeaseIsHonest` speaks of the document; the invariant says of it
  and of the copy every thread is about to write that no session is dated
  later than its socket last ran (`Honest`), so no write, however stale, can
  introduce a false date; `LastAliveGrows` keeps that true while time passes.
  `OpenCounts` (`Spec => []OpenSocketCounts`) adds what holds while nothing overlaps, fails
  or is late (`Undisturbed`): one thread at most holds a copy (`OneReader`);
  the document has a recent enough lease of every open socket (`DocHolds`), and
  so has the copy, but for its own socket, whose new date it brings
  (`CopiesHold`, `WritesItself`); no renewal is overdue (`Punctual`).
  `Heals` (`Spec => BeatHeals`) needs none of these days without trouble: its
  invariant is `WritesItself` alone, with `Dated` (no thread is dated before it
  was submitted) and `OneThread`, and survives crashes, failures and overlaps.
* `OriginGuardProofs`: two well-formed origins have one normal form exactly
  when they are the same origin (`NormalizeIsSameOrigin`); hence
  `GuardAdmitsItsOrigins` (`GuardIsSameOrigin` of every header),
  `OpenGuardIsReported` (the guard is off exactly where W002 warns) and `MisspeltGuardIsClosed` (a setting of which every
  entry is misspelt closes the guard, it does not open it).
* `StreamAccessProofs`: `TypeCorrect`, `AuthorizationFailsClosed`,
  `CacheIsBounded`, `RevokeEndsDelivery`, `OthersAreUntouched` and
  `HandshakesAreJudged`: the properties of `access_safety`, for any users,
  sockets, windows, capacity and clock. The invariant `IInv` has one part per
  reason. `Vouched`: a yes in hand was seen with rights, or within the cache of
  the core. `LossesArePast` and `Dated`: nothing is dated in the future, and
  `until` is within a window of a moment at which the rights were seen.
  `Stages`: only a socket in the right phase has a verdict, a window or a
  channel. `Queues`: a "late" signal has the revoke that made it late before
  it in the same channel, so it cannot be at its head. Steps of one socket are
  proved once by `OneSocket` lemmas, fan-outs by `FanOut` lemmas.

Only model-checked: the liveness properties, which are out of the prover's
reach. Every invariant and action property of a passing run is proved.

## The plan

All of the plan's modules, runs and proofs are done. What could follow: the
arrival of a pong as history, to bound how long a blocked dispatcher may hide
it; the phases of two tabs' beats, to bound how long a lost update lasts; E002
against every configuration, once it looks at what each host inherits.

## Not modelled, and why

* `parse_frame` and the route collection and assembly of `asgi.py`: a pure
  validation of one dict, and start-up code. In `StreamSocket` a frame is
  already classified.
* W005 of `checks.py`: it asks for a cache that all processes share, which is
  what `PresenceRegistry` takes for granted with its one document.
* W003, W004, W007 of `checks.py`, `conf.py`, `apps.py`, `__init__.py`: each
  check reads one setting, and says so; the rest is configuration and
  re-exports. Settings are constants of the modules.
* `functions.py`, `live_batch`, the hashing of keys: wrappers of what is
  modelled.
* the answer to a `last_seq` that is not an integer, the text of errors and
  payloads.
* `testing.py`, `e2e`, `tests`: test code.
* Channels, the server, the cache: external, modelled from how the code uses
  them (marked so in `PROJECT.json`).
