----------------------- MODULE PresenceRegistryProofs -----------------------
(***************************************************************************)
(* Proofs about PresenceRegistry: the type invariant, and the honesty of   *)
(* the lease for any number of sockets and families, any TTL, any delay of *)
(* any thread and any crash.                                               *)
(*                                                                         *)
(* LeaseIsHonest speaks of the document only.  What makes it inductive is  *)
(* that every session map, the one in the cache and the one each thread is *)
(* about to write, dates a session no later than its socket was last alive *)
(* (Honest), and that LastAlive never goes back (LastAliveGrows).          *)
(***************************************************************************)
EXTENDS PresenceRegistry, TLAPS

-----------------------------------------------------------------------------
(* The operators of presence.py return session maps.                       *)

(* _prune returns a session map.                                           *)
LEMMA PruneIsMap ==
  ASSUME NEW m \in SessionMaps, NEW time \in Times
  PROVE  Prune(m, time) \in SessionMaps
<1>1. PICK S \in SUBSET Sockets : m \in [S -> Times]
  BY DEF SessionMaps
<1> DEFINE K == {x \in DOMAIN m : Fresh(m[x], time)}
<1>2. K \in SUBSET Sockets /\ K \subseteq S
  BY <1>1
<1>3. [s \in K |-> m[s]] \in [K -> Times]
  BY <1>1, <1>2
<1> QED BY <1>2, <1>3 DEF Prune, SessionMaps

(* Dating a session in a session map (_touch) gives a session map.         *)
LEMMA WithIsMap ==
  ASSUME NEW m \in SessionMaps, NEW s \in Sockets, NEW time \in Times
  PROVE  With(m, s, time) \in SessionMaps
<1>1. PICK S \in SUBSET Sockets : m \in [S -> Times]
  BY DEF SessionMaps
<1>2. With(m, s, time) \in [S \cup {s} -> Times]
  BY <1>1 DEF With
<1> QED BY <1>1, <1>2 DEF SessionMaps

(* Removing a session (record_disconnect) leaves a session map.            *)
LEMMA WithoutIsMap ==
  ASSUME NEW m \in SessionMaps, NEW s \in Sockets
  PROVE  Without(m, s) \in SessionMaps
<1>1. PICK S \in SUBSET Sockets : m \in [S -> Times]
  BY DEF SessionMaps
<1>2. Without(m, s) \in [S \ {s} -> Times]
  BY <1>1 DEF Without
<1> QED BY <1>1, <1>2 DEF SessionMaps

(* A user without a document has the empty session map.                    *)
LEMMA EmptyIsMap == Empty \in SessionMaps
<1>1. Empty \in [{} -> Times]
  BY DEF Empty
<1> QED BY <1>1 DEF SessionMaps

(* _sessions returns a session map, document or none.                      *)
LEMMA SessionsAreMap ==
  ASSUME NEW d \in Docs \cup {NoDoc}
  PROVE  SessionsOf(d) \in SessionMaps
BY EmptyIsMap DEF SessionsOf, Docs

-----------------------------------------------------------------------------
(* The variables of presence.py have their types initially.                *)
THEOREM InitTypeOK == Init => TypeOK
BY PresenceAssumption, EmptyIsMap DEF Init, TypeOK, Times, Lives, Running

(* Starting a thread keeps the threads' types.                             *)
LEMMA SubmitTypeOK ==
  ASSUME TypeOK, NEW t \in Threads, Submit(t)
  PROVE  /\ stage' \in [Threads -> {"idle", "submitted", "dated", "read"}]
         /\ since' \in [Threads -> Times]
         /\ at' \in [Threads -> Times]
         /\ copy' \in [Threads -> SessionMaps]
BY DEF TypeOK, Submit

(* Ending threads keeps the threads' types.                                *)
LEMMA ClearTypeOK ==
  ASSUME TypeOK, NEW ended, Clear(ended)
  PROVE  /\ stage' \in [Threads -> {"idle", "submitted", "dated", "read"}]
         /\ since' \in [Threads -> Times]
         /\ at' \in [Threads -> Times]
         /\ copy' \in [Threads -> SessionMaps]
BY PresenceAssumption, EmptyIsMap DEF TypeOK, Clear, Times

(* A registry call that returns keeps every type it touches.               *)
LEMMA ReturnTypeOK ==
  ASSUME TypeOK, NEW t \in Threads, Return(t)
  PROVE  /\ life' \in [Sockets -> Lives]
         /\ wake' \in [Sockets -> Nat]
         /\ endedAt' \in [Sockets -> Times]
         /\ stage' \in [Threads -> {"idle", "submitted", "dated", "read"}]
         /\ since' \in [Threads -> Times]
         /\ at' \in [Threads -> Times]
         /\ copy' \in [Threads -> SessionMaps]
<1>1. Clear({t})
  BY DEF Return
<1>2. t[1] \in Sockets
  BY DEF Threads
<1>3. /\ life' \in [Sockets -> Lives]
      /\ wake' \in [Sockets -> Nat]
      /\ endedAt' \in [Sockets -> Times]
  BY <1>2, PresenceAssumption DEF Return, TypeOK, Lives, Running, Times
<1> QED BY <1>1, <1>3, ClearTypeOK

(* Every step of a socket, a thread or the clock keeps the types.          *)
THEOREM NextTypeOK == TypeOK /\ [Next]_vars => TypeOK'
<1> SUFFICES ASSUME TypeOK, [Next]_vars PROVE TypeOK'
  OBVIOUS
<1> USE PresenceAssumption
<1>1. ASSUME NEW s \in Sockets, Connect(s) PROVE TypeOK'
  <2>1. <<s, "main">> \in Threads
    BY DEF Threads
  <2> QED BY <1>1, <2>1, SubmitTypeOK DEF Connect, TypeOK, Lives, Running
<1>2. ASSUME NEW s \in Sockets, Beat(s) PROVE TypeOK'
  <2>1. <<s, "beat">> \in Threads
    BY DEF Threads
  <2> QED BY <1>2, <2>1, SubmitTypeOK DEF Beat, TypeOK
<1>3. ASSUME NEW s \in Sockets, Disconnect(s) PROVE TypeOK'
  <2>1. <<s, "main">> \in Threads
    BY DEF Threads
  <2> QED BY <1>3, <2>1, SubmitTypeOK DEF Disconnect, TypeOK, Lives, Running
<1>4. ASSUME NEW s \in Sockets, Crash(s) PROVE TypeOK'
  BY <1>4, ClearTypeOK DEF Crash, TypeOK, Lives
<1>5. ASSUME NEW s \in Sockets, HandlerRaises(s) PROVE TypeOK'
  BY <1>5 DEF HandlerRaises, TypeOK, Lives, Running, threadVars
<1>6. ASSUME NEW s \in Sockets, OrphanEnds(s) PROVE TypeOK'
  BY <1>6 DEF OrphanEnds, TypeOK, Lives, threadVars
<1>7. ASSUME NEW t \in Threads, TakeNow(t) PROVE TypeOK'
  BY <1>7 DEF TakeNow, TypeOK
<1>8. ASSUME NEW t \in Threads, Get(t) PROVE TypeOK'
  <2>1. t[1] \in Sockets /\ at[t] \in Times
    BY DEF Threads, TypeOK
  <2>2. SessionsOf(doc) \in SessionMaps
    BY SessionsAreMap DEF TypeOK
  <2>3. Dropped(doc, t[1], at[t]) \in SessionMaps
    BY <2>1, <2>2, WithoutIsMap, PruneIsMap DEF Dropped
  <2>4. Touched(doc, t[1], at[t]) \in SessionMaps
    BY <2>1, <2>2, WithIsMap, PruneIsMap DEF Touched
  <2>5. 0 \in Times
    BY DEF Times
  <2> QED BY <1>8, <2>3, <2>4, <2>5 DEF Get, TypeOK
<1>9. ASSUME NEW t \in Threads, NothingToDrop(t) PROVE TypeOK'
  BY <1>9, ReturnTypeOK DEF NothingToDrop, TypeOK
<1>10. ASSUME NEW t \in Threads, Set(t) PROVE TypeOK'
  <2>1. doc' \in Docs
    BY <1>10 DEF Set, Entry, TypeOK, Docs, Times
  <2> QED BY <1>10, <2>1, ReturnTypeOK DEF Set, TypeOK
<1>11. ASSUME NEW t \in Threads, Fails(t) PROVE TypeOK'
  BY <1>11, ReturnTypeOK DEF Fails, TypeOK
<1>12. CASE Tick
  BY <1>12 DEF Tick, TypeOK, Times, threadVars
<1>13. CASE UNCHANGED vars
  BY <1>13 DEF vars, threadVars, TypeOK
<1> QED
  BY <1>1, <1>2, <1>3, <1>4, <1>5, <1>6, <1>7, <1>8, <1>9, <1>10, <1>11,
     <1>12, <1>13 DEF Next

(* Type correctness of the registry (presence.py) at every step.           *)
THEOREM TypeCorrect == Spec => []TypeOK
BY InitTypeOK, NextTypeOK, PTL DEF Spec

-----------------------------------------------------------------------------
(* The inductive invariant behind LeaseIsHonest.                           *)

Honest(sessions) ==
  \A s \in DOMAIN sessions :
    life[s] # "new" /\ sessions[s] <= LastAlive(s)

HonestDoc == Honest(SessionsOf(doc))

HonestCopies == \A t \in Threads : Honest(copy[t])

(* A busy thread belongs to a socket that was accepted, and no date is in  *)
(* the future.                                                             *)
HonestClocks ==
  /\ \A t \in Threads : Busy(t) => life[t[1]] # "new"
  /\ \A t \in Threads : at[t] <= now
  /\ \A s \in Sockets : endedAt[s] <= now

IInv == TypeOK /\ HonestDoc /\ HonestCopies /\ HonestClocks

-----------------------------------------------------------------------------
(* The operators of presence.py keep a map honest.                         *)

(* Forgetting stale sessions keeps a map honest.                           *)
LEMMA PruneHonest ==
  ASSUME NEW m, NEW time, Honest(m)
  PROVE  Honest(Prune(m, time))
BY DEF Honest, Prune

(* So does dating a session no later than its socket was last alive.       *)
LEMMA WithHonest ==
  ASSUME NEW m, NEW s, NEW time, Honest(m), life[s] # "new",
         time <= LastAlive(s)
  PROVE  Honest(With(m, s, time))
BY DEF Honest, With

(* So does forgetting a session.                                           *)
LEMMA WithoutHonest ==
  ASSUME NEW m, NEW s, Honest(m)
  PROVE  Honest(Without(m, s))
BY DEF Honest, Without

(* No step takes a socket's last sign of life back, nor makes it new.      *)
LastAliveGrows ==
  \A s \in Sockets :
    /\ LastAlive(s) <= LastAlive(s)'
    /\ life[s] # "new" => life'[s] # "new"

(* A map nobody touches stays honest, since last signs of life only grow.  *)
LEMMA HonestStays ==
  ASSUME TypeOK, TypeOK', LastAliveGrows, NEW m \in SessionMaps, Honest(m)
  PROVE  Honest(m)'
<1>1. PICK S \in SUBSET Sockets : m \in [S -> Times]
  BY DEF SessionMaps
<1>2. ASSUME NEW s \in DOMAIN m
      PROVE  life'[s] # "new" /\ m[s] <= LastAlive(s)'
  <2>1. s \in Sockets /\ m[s] \in Int
    BY <1>1, <1>2 DEF Times
  <2>2. LastAlive(s) \in Int /\ LastAlive(s)' \in Int
    BY <2>1 DEF LastAlive, TypeOK, Times
  <2> QED BY <1>2, <2>1, <2>2 DEF Honest, LastAliveGrows
<1> QED BY <1>2 DEF Honest

-----------------------------------------------------------------------------
(* LastAlive grows with every step.                                        *)

(* No sign of life is in the future.                                       *)
LEMMA LastAliveBound ==
  ASSUME TypeOK, HonestClocks, NEW s \in Sockets
  PROVE  LastAlive(s) \in Times /\ LastAlive(s) <= now
BY DEF TypeOK, HonestClocks, LastAlive, Times

(* A socket alive after the step, or ended by it, or left alone by it.     *)
LEMMA GrowsFor ==
  ASSUME TypeOK, TypeOK', HonestClocks, now <= now', NEW s \in Sockets,
         \/ Alive(s)'
         \/ endedAt'[s] = now
         \/ ~Alive(s) /\ endedAt'[s] = endedAt[s]
  PROVE  LastAlive(s) <= LastAlive(s)'
BY LastAliveBound, PresenceAssumption DEF LastAlive, TypeOK, Times

(* Starting a thread takes no sign of life back.                           *)
LEMMA SubmitGrows ==
  ASSUME TypeOK, TypeOK', HonestClocks, NEW t \in Threads, Submit(t),
         now' = now, endedAt' = endedAt,
         \A s \in Sockets : life[s] \in Running => life'[s] \in Running,
         \A s \in Sockets : life[s] # "new" => life'[s] # "new"
  PROVE  LastAliveGrows
<1> SUFFICES ASSUME NEW s \in Sockets PROVE LastAlive(s) <= LastAlive(s)'
  BY DEF LastAliveGrows
<1>1. Alive(s) => Alive(s)'
  BY DEF Alive, Busy, Submit, TypeOK, Threads
<1>2. now <= now'
  BY DEF TypeOK, Times
<1> QED BY <1>1, <1>2, GrowsFor

(* Nor does a registry call that returns, which may end its socket.        *)
LEMMA ReturnGrows ==
  ASSUME TypeOK, TypeOK', HonestClocks, NEW t \in Threads, Return(t), now' = now
  PROVE  LastAliveGrows
<1>1. t[1] \in Sockets /\ t = <<t[1], t[2]>> /\ t[2] \in {"main", "beat"}
  BY DEF Threads
<1>2. now <= now'
  BY DEF TypeOK, Times
<1>3. ASSUME NEW s \in Sockets
      PROVE  /\ LastAlive(s) <= LastAlive(s)'
             /\ life[s] # "new" => life'[s] # "new"
  <2>1. CASE s = t[1]
    <3>1. \/ life'[s] \in Running
          \/ endedAt'[s] = now
      BY <1>1, <2>1 DEF Return, TypeOK, Running
    <3>2. life'[s] # "new"
      BY <1>1, <2>1 DEF Return, TypeOK
    <3> QED BY <3>1, <3>2, <1>2, GrowsFor DEF Alive
  <2>2. CASE s # t[1]
    <3>1. life'[s] = life[s] /\ endedAt'[s] = endedAt[s]
      BY <1>1, <2>2 DEF Return, TypeOK
    <3>2. <<s, "main">> \in Threads \ {t} /\ <<s, "beat">> \in Threads \ {t}
      BY <1>1, <2>2 DEF Threads
    <3>3. Alive(s) => Alive(s)'
      BY <3>1, <3>2 DEF Return, Clear, Alive, Busy
    <3> QED BY <3>1, <3>3, <1>2, GrowsFor
  <2> QED BY <2>1, <2>2
<1> QED BY <1>3 DEF LastAliveGrows

(* No step takes a sign of life back.                                      *)
LEMMA NextGrows ==
  ASSUME TypeOK, TypeOK', HonestClocks, [Next]_vars
  PROVE  LastAliveGrows
<1>0. now <= now
  BY DEF TypeOK, Times
<1>1. ASSUME NEW s \in Sockets, Connect(s) \/ Beat(s) \/ Disconnect(s)
      PROVE  LastAliveGrows
  <2>1. <<s, "main">> \in Threads /\ <<s, "beat">> \in Threads
    BY DEF Threads
  <2>2. /\ \A x \in Sockets : life[x] \in Running => life'[x] \in Running
        /\ \A x \in Sockets : life[x] # "new" => life'[x] # "new"
    BY <1>1 DEF Connect, Beat, Disconnect, TypeOK, Running
  <2> QED BY <1>1, <2>1, <2>2, SubmitGrows DEF Connect, Beat, Disconnect
<1>2. ASSUME NEW s \in Sockets, Crash(s) PROVE LastAliveGrows
  <2>1. ASSUME NEW x \in Sockets
        PROVE  /\ LastAlive(x) <= LastAlive(x)'
               /\ life[x] # "new" => life'[x] # "new"
    <3>1. CASE x = s
      BY <1>2, <3>1, <1>0, GrowsFor DEF Crash, TypeOK, Times
    <3>2. CASE x # s
      <4>1. /\ <<x, "main">> \in Threads \ {<<s, "main">>, <<s, "beat">>}
            /\ <<x, "beat">> \in Threads \ {<<s, "main">>, <<s, "beat">>}
        BY <3>2 DEF Threads
      <4>2. Alive(x) => Alive(x)'
        BY <1>2, <3>2, <4>1 DEF Crash, Clear, Alive, Busy, TypeOK
      <4>3. endedAt'[x] = endedAt[x] /\ life'[x] = life[x] /\ now' = now
        BY <1>2, <3>2 DEF Crash, TypeOK
      <4> QED BY <4>2, <4>3, GrowsFor DEF TypeOK, Times
    <3> QED BY <3>1, <3>2
  <2> QED BY <2>1 DEF LastAliveGrows
<1>3. ASSUME NEW s \in Sockets, HandlerRaises(s) \/ OrphanEnds(s)
      PROVE  LastAliveGrows
  <2>1. ASSUME NEW x \in Sockets
        PROVE  /\ LastAlive(x) <= LastAlive(x)'
               /\ life[x] # "new" => life'[x] # "new"
    <3>1. \/ Alive(x) => Alive(x)'
          \/ endedAt'[x] = now
      BY <1>3 DEF HandlerRaises, OrphanEnds, Alive, Busy, Running, threadVars,
                  TypeOK
    <3>2. endedAt'[x] = endedAt[x] \/ endedAt'[x] = now
      BY <1>3 DEF HandlerRaises, OrphanEnds, TypeOK
    <3>3. life[x] # "new" => life'[x] # "new"
      BY <1>3 DEF HandlerRaises, OrphanEnds, TypeOK
    <3>4. now <= now'
      BY <1>3 DEF HandlerRaises, OrphanEnds, TypeOK, Times
    <3> QED BY <3>1, <3>2, <3>3, <3>4, GrowsFor
  <2> QED BY <2>1 DEF LastAliveGrows
<1>4. ASSUME NEW t \in Threads, TakeNow(t) \/ Get(t) PROVE LastAliveGrows
  <2>1. ASSUME NEW x \in Sockets PROVE LastAlive(x) <= LastAlive(x)'
    <3>1. Alive(x) => Alive(x)'
      BY <1>4 DEF TakeNow, Get, Alive, Busy, TypeOK, Threads
    <3>2. endedAt' = endedAt /\ now <= now'
      BY <1>4 DEF TakeNow, Get, TypeOK, Times
    <3> QED BY <3>1, <3>2, GrowsFor
  <2> QED BY <2>1, <1>4 DEF LastAliveGrows, TakeNow, Get
<1>5. ASSUME NEW t \in Threads, NothingToDrop(t) \/ Set(t) \/ Fails(t)
      PROVE  LastAliveGrows
  BY <1>5, ReturnGrows DEF NothingToDrop, Set, Fails
<1>6. CASE Tick
  <2>1. ASSUME NEW x \in Sockets PROVE LastAlive(x) <= LastAlive(x)'
    <3>1. Alive(x) => Alive(x)'
      BY <1>6 DEF Tick, Alive, Busy, threadVars
    <3> QED BY <3>1, <1>6, GrowsFor DEF Tick, TypeOK, Times
  <2> QED BY <2>1, <1>6 DEF LastAliveGrows, Tick
<1>7. CASE UNCHANGED vars
  <2>1. ASSUME NEW x \in Sockets PROVE LastAlive(x) <= LastAlive(x)'
    <3>1. Alive(x) => Alive(x)'
      BY <1>7 DEF vars, Alive, Busy, threadVars
    <3> QED BY <3>1, <1>7, GrowsFor DEF vars, TypeOK, Times
  <2> QED BY <2>1, <1>7 DEF LastAliveGrows, vars
<1> QED BY <1>1, <1>2, <1>3, <1>4, <1>5, <1>6, <1>7 DEF Next

-----------------------------------------------------------------------------
(* The invariant holds initially and is preserved.                         *)

(* The invariant of the lease holds before any socket.                     *)
THEOREM InitIInv == Init => IInv
<1> SUFFICES ASSUME Init PROVE IInv
  OBVIOUS
<1>1. TypeOK
  BY InitTypeOK
<1>2. HonestDoc
  BY DEF Init, HonestDoc, SessionsOf, Honest, Empty
<1>3. HonestCopies
  BY DEF Init, HonestCopies, Honest, Empty
<1>4. HonestClocks
  BY DEF Init, HonestClocks, Busy
<1> QED BY <1>1, <1>2, <1>3, <1>4 DEF IInv

(* Every step keeps HonestClocks.                                          *)
LEMMA NextClocks ==
  ASSUME TypeOK, TypeOK', HonestClocks, [Next]_vars
  PROVE  HonestClocks'
<1>1. \A s \in Sockets : life[s] # "new" => life'[s] # "new"
  BY NextGrows DEF LastAliveGrows
<1> USE PresenceAssumption
<1>2. ASSUME NEW s \in Sockets, Connect(s) PROVE HonestClocks'
  BY <1>2 DEF Connect, Submit, HonestClocks, Busy, TypeOK, Threads, Times
<1>3. ASSUME NEW s \in Sockets, Beat(s) \/ Disconnect(s) PROVE HonestClocks'
  BY <1>3 DEF Beat, Disconnect, Submit, HonestClocks, Busy, TypeOK, Threads,
              Times
<1>4. ASSUME NEW s \in Sockets, Crash(s) PROVE HonestClocks'
  BY <1>4 DEF Crash, Clear, HonestClocks, Busy, TypeOK, Threads, Times
<1>5. ASSUME NEW s \in Sockets, HandlerRaises(s) \/ OrphanEnds(s)
      PROVE  HonestClocks'
  BY <1>5 DEF HandlerRaises, OrphanEnds, threadVars, HonestClocks, Busy, TypeOK,
              Threads, Times
<1>6. ASSUME NEW t \in Threads, TakeNow(t) \/ Get(t) PROVE HonestClocks'
  BY <1>6 DEF TakeNow, Get, HonestClocks, Busy, TypeOK, Threads, Times
<1>7. ASSUME NEW t \in Threads, NothingToDrop(t) \/ Set(t) \/ Fails(t)
      PROVE  HonestClocks'
  <2>1. Return(t) /\ now' = now
    BY <1>7 DEF NothingToDrop, Set, Fails
  <2>2. \A u \in Threads : Busy(u)' => Busy(u)
    BY <2>1 DEF Return, Clear, Busy
  <2>3. \A u \in Threads : u[1] \in Sockets
    BY DEF Threads
  <2>4. \A u \in Threads : Busy(u)' => life'[u[1]] # "new"
    BY <1>1, <2>2, <2>3 DEF HonestClocks
  <2>5. \A u \in Threads : at'[u] <= now'
    BY <2>1 DEF Return, Clear, HonestClocks, TypeOK, Times
  <2>6. \A s \in Sockets : endedAt'[s] <= now'
    BY <2>1, <2>3 DEF Return, HonestClocks, TypeOK, Times
  <2> QED BY <2>4, <2>5, <2>6 DEF HonestClocks
<1>8. CASE Tick
  BY <1>8 DEF Tick, threadVars, HonestClocks, Busy, TypeOK, Times
<1>9. CASE UNCHANGED vars
  BY <1>9 DEF vars, threadVars, HonestClocks, Busy
<1> QED BY <1>2, <1>3, <1>4, <1>5, <1>6, <1>7, <1>8, <1>9 DEF Next

(* Every step keeps the invariant: what is read, kept and written back by  *)
(* the threads of presence.py stays honest however they interleave.        *)
THEOREM NextIInv == IInv /\ [Next]_vars => IInv'
<1> SUFFICES ASSUME IInv, [Next]_vars PROVE IInv'
  OBVIOUS
<1>1. TypeOK'
  BY NextTypeOK DEF IInv
<1>2. HonestClocks'
  BY <1>1, NextClocks DEF IInv
<1>3. LastAliveGrows
  BY <1>1, NextGrows DEF IInv
<1>4. ASSUME NEW m \in SessionMaps, Honest(m) PROVE Honest(m)'
  BY <1>1, <1>3, <1>4, HonestStays DEF IInv
<1>5. SessionsOf(doc) \in SessionMaps /\ Honest(SessionsOf(doc))
  BY SessionsAreMap DEF IInv, TypeOK, HonestDoc
<1>6. \A t \in Threads : copy[t] \in SessionMaps /\ Honest(copy[t])
  BY DEF IInv, TypeOK, HonestCopies
<1>7. Empty \in SessionMaps /\ Honest(Empty)
  BY EmptyIsMap DEF Honest, Empty
<1>8. HonestDoc'
  <2>1. \/ doc' = doc
        \/ doc' = NoDoc
        \/ \E t \in Threads : doc' = Entry(copy[t])
    BY DEF Next, Connect, Beat, Disconnect, Crash, HandlerRaises, OrphanEnds,
           TakeNow, Get, NothingToDrop, Set, Fails, Tick, vars
  <2>2. CASE doc' = doc
    BY <2>2, <1>4, <1>5 DEF HonestDoc, SessionsOf
  <2>3. CASE doc' = NoDoc
    BY <2>3, <1>4, <1>7 DEF HonestDoc, SessionsOf
  <2>4. ASSUME NEW t \in Threads, doc' = Entry(copy[t])
        PROVE  HonestDoc'
    <3>1. SessionsOf(doc') = Empty \/ SessionsOf(doc') = copy[t]
      BY <2>4 DEF SessionsOf, Entry
    <3> QED BY <3>1, <1>4, <1>6, <1>7 DEF HonestDoc, SessionsOf
  <2> QED BY <2>1, <2>2, <2>3, <2>4
<1>9. HonestCopies'
  <2> SUFFICES ASSUME NEW u \in Threads PROVE Honest(copy[u])'
    BY DEF HonestCopies
  <2>1. \/ copy'[u] = copy[u]
        \/ copy'[u] = Empty
        \/ /\ stage[u] = "dated"
           /\ copy'[u] \in {Dropped(doc, u[1], at[u]), Touched(doc, u[1], at[u])}
    <3>1. ASSUME NEW t \in Threads, Get(t)
          PROVE  \/ copy'[u] = copy[u]
                 \/ /\ stage[u] = "dated"
                    /\ copy'[u] \in {Dropped(doc, u[1], at[u]),
                                     Touched(doc, u[1], at[u])}
      BY <3>1 DEF Get, IInv, TypeOK
    <3>2. \/ copy' = copy
          \/ \E ended : Clear(ended)
          \/ \E t \in Threads : Get(t)
      BY DEF Next, Connect, Beat, Disconnect, Submit, Crash, HandlerRaises,
             OrphanEnds, TakeNow, NothingToDrop, Set, Fails, Return, Tick,
             vars, threadVars
    <3>3. (\E ended : Clear(ended)) => copy'[u] \in {copy[u], Empty}
      BY DEF Clear
    <3> QED BY <3>1, <3>2, <3>3
  <2>2. CASE copy'[u] = copy[u]
    BY <2>2, <1>4, <1>6
  <2>3. CASE copy'[u] = Empty
    BY <2>3, <1>4, <1>7
  <2>4. CASE /\ stage[u] = "dated"
             /\ copy'[u] \in {Dropped(doc, u[1], at[u]), Touched(doc, u[1], at[u])}
    <3>1. u[1] \in Sockets /\ at[u] \in Times /\ u \in {<<u[1], "main">>, <<u[1], "beat">>}
      BY DEF Threads, IInv, TypeOK
    <3>2. life[u[1]] # "new" /\ at[u] <= LastAlive(u[1])
      BY <2>4, <3>1 DEF IInv, HonestClocks, LastAlive, Alive, Busy
    <3>3. /\ Dropped(doc, u[1], at[u]) \in SessionMaps
          /\ Honest(Dropped(doc, u[1], at[u]))
      BY <3>1, <1>5, WithoutIsMap, PruneIsMap, WithoutHonest, PruneHonest
         DEF Dropped
    <3>4. /\ Touched(doc, u[1], at[u]) \in SessionMaps
          /\ Honest(Touched(doc, u[1], at[u]))
      BY <3>1, <3>2, <1>5, WithIsMap, PruneIsMap, WithHonest, PruneHonest
         DEF Touched
    <3> QED BY <2>4, <3>3, <3>4, <1>4
  <2> QED BY <2>1, <2>2, <2>3, <2>4
<1> QED BY <1>1, <1>2, <1>8, <1>9 DEF IInv

(* The invariant of the lease holds always.                                *)
THEOREM Inductive == Spec => []IInv
BY InitIInv, NextIInv, PTL DEF Spec

(* Nobody stays online for ever.  A socket counts (presence.py, _snapshot) *)
(* by a session dated at most one TTL ago, and no session is dated after   *)
(* its socket last ran.                                                    *)
LEMMA CountedRanLately ==
  ASSUME IInv, NEW s \in Sockets, s \in Counted(FamilyOf[s])
  PROVE  life[s] # "new" /\ now - LastAlive(s) <= PRESENCE_TTL_S
<1>1. s \in DOMAIN SessionsOf(doc) /\ Fresh(SessionsOf(doc)[s], now)
  BY DEF Counted
<1>2. PICK S \in SUBSET Sockets : SessionsOf(doc) \in [S -> Times]
  BY SessionsAreMap DEF IInv, TypeOK, SessionMaps
<1>3. SessionsOf(doc)[s] \in Times
  BY <1>1, <1>2
<1>4. life[s] # "new" /\ SessionsOf(doc)[s] <= LastAlive(s)
  BY <1>1 DEF IInv, HonestDoc, Honest
<1>5. LastAlive(s) \in Times
  BY LastAliveBound DEF IInv
<1> QED
  BY <1>1, <1>3, <1>4, <1>5, PresenceAssumption DEF Fresh, IInv, TypeOK, Times

(* Whatever the threads of the user's sockets write over each other        *)
(* (presence.py), a socket that has not run for a TTL does not count.      *)
THEOREM LeaseHonest == Spec => []LeaseIsHonest
<1>1. IInv => LeaseIsHonest
  BY CountedRanLately DEF LeaseIsHonest
<1> QED BY <1>1, Inductive, PTL

(* A socket of the family ran at most one TTL ago.                         *)
RanLately(family) ==
  \E s \in Sockets :
    /\ FamilyOf[s] = family
    /\ life[s] # "new"
    /\ now - LastAlive(s) <= PRESENCE_TTL_S

(* A positive answer of is_live for a family names a socket of that family *)
(* that ran at most one TTL ago (presence.py, is_live).                    *)
THEOREM LiveMeansRanLately ==
  ASSUME NEW family \in Families
  PROVE  Spec => [](IsLive(family) => RanLately(family))
<1>1. ASSUME IInv, IsLive(family) PROVE RanLately(family)
  <2>1. PICK s \in Counted(family) : FamilyOf[s] = family
    BY <1>1 DEF IsLive, Counted
  <2>2. PICK S \in SUBSET Sockets : SessionsOf(doc) \in [S -> Times]
    BY <1>1, SessionsAreMap DEF IInv, TypeOK, SessionMaps
  <2>3. s \in Sockets
    BY <2>1, <2>2 DEF Counted
  <2> QED BY <1>1, <2>1, <2>3, CountedRanLately DEF RanLately
<1>2. IInv => (IsLive(family) => RanLately(family))
  BY <1>1
<1> QED BY <1>2, Inductive, PTL

-----------------------------------------------------------------------------
(* The inductive invariant behind OpenSocketCounts.                        *)

(* connect()'s thread ends before the heartbeat task starts, and an open   *)
(* socket has no thread but that of its heartbeat.                         *)
OneThread ==
  \A s \in Sockets :
    /\ life[s] = "connecting" => ~Busy(<<s, "beat">>)
    /\ life[s] = "open" => ~Busy(<<s, "main">>)

Reads(t) == stage[t] = "read"

(* On a day nothing goes wrong, one thread at most is between its read and *)
(* its write.                                                              *)
OneReader == \A t, u \in Threads : (Reads(t) /\ Reads(u)) => t = u

(* Threads and timers are no later than Latency.                           *)
Punctual ==
  /\ \A t \in Threads :
       /\ since[t] <= now
       /\ Busy(t) => now <= since[t] + Latency
       /\ stage[t] = "dated" => since[t] <= at[t]
  /\ \A s \in Sockets :
       life[s] = "open" =>
         /\ wake[s] <= now + HEARTBEAT_S + HEARTBEAT_TIMEOUT_S
         /\ ~Busy(<<s, "beat">>) => now <= wake[s] + Latency
         /\ Busy(<<s, "beat">>) => since[<<s, "beat">>] <= wake[s] + Latency

(* A thread of a socket that counts is about to write that it does.        *)
WritesItself ==
  \A t \in Threads :
    (Reads(t) /\ life[t[1]] \in {"connecting", "open"}) =>
      t[1] \in DOMAIN copy[t] /\ since[t] <= copy[t][t[1]]

(* When the lease of an open socket started at the latest.                 *)
Floor(s) == wake[s] - HEARTBEAT_S - HEARTBEAT_TIMEOUT_S

(* A map with the lease of every open socket but those in X.               *)
Holds(m, X) ==
  \A s \in Sockets \ X :
    life[s] = "open" => s \in DOMAIN m /\ m[s] >= Floor(s) - Latency

DocHolds ==
  /\ Holds(SessionsOf(doc), {})
  /\ \A s \in Sockets :
       life[s] = "open" =>
         doc # NoDoc /\ doc.expires >= Floor(s) + PRESENCE_TTL_S

CopiesHold == \A t \in Threads : Reads(t) => Holds(copy[t], {t[1]})

Undisturbed ==
  healthy /\ Adequate =>
    OneReader /\ Punctual /\ WritesItself /\ DocHolds /\ CopiesHold

CInv == TypeOK /\ HonestClocks /\ OneThread /\ Undisturbed

-----------------------------------------------------------------------------
(* What an open socket may rely on.                                        *)

(* A punctual heartbeat never comes later than two latencies after it was  *)
(* due.                                                                    *)
LEMMA BeatIsDue ==
  ASSUME TypeOK, Punctual, NEW s \in Sockets, life[s] = "open"
  PROVE  now <= wake[s] + 2 * Latency
<1> USE PresenceAssumption
<1>1. <<s, "beat">> \in Threads
  BY DEF Threads
<1>2. now \in Int /\ wake[s] \in Int /\ since[<<s, "beat">>] \in Int
  BY <1>1 DEF TypeOK, Times
<1>3. CASE Busy(<<s, "beat">>)
  BY <1>1, <1>2, <1>3 DEF Punctual
<1>4. CASE ~Busy(<<s, "beat">>)
  BY <1>2, <1>4 DEF Punctual
<1> QED BY <1>3, <1>4

(* So its lease is in the document and has not run out, and the cache has  *)
(* not dropped the document.                                               *)
LEMMA LeaseCovers ==
  ASSUME TypeOK, Punctual, DocHolds, Adequate,
         NEW s \in Sockets, life[s] = "open"
  PROVE  /\ doc # NoDoc
         /\ s \in DOMAIN SessionsOf(doc)
         /\ SessionsOf(doc)[s] \in Times
         /\ Fresh(SessionsOf(doc)[s], now)
         /\ now < doc.expires
<1> USE PresenceAssumption
<1>1. now <= wake[s] + 2 * Latency
  BY BeatIsDue
<1>2. doc # NoDoc /\ doc \in Docs /\ doc.expires \in Nat
  BY DEF DocHolds, TypeOK, Docs
<1>3. s \in DOMAIN SessionsOf(doc) /\ SessionsOf(doc)[s] >= Floor(s) - Latency
  BY DEF DocHolds, Holds
<1>4. SessionsOf(doc)[s] \in Times
  <2>1. PICK S \in SUBSET Sockets : SessionsOf(doc) \in [S -> Times]
    BY <1>2, SessionsAreMap DEF SessionMaps
  <2> QED BY <2>1, <1>3
<1>5. doc.expires >= Floor(s) + PRESENCE_TTL_S
  BY DEF DocHolds
<1>6. now \in Int /\ wake[s] \in Int /\ SessionsOf(doc)[s] \in Int
  BY <1>4 DEF TypeOK, Times
<1>7. Fresh(SessionsOf(doc)[s], now)
  BY <1>1, <1>3, <1>6 DEF Fresh, Floor, Adequate, Renewal
<1>8. now < doc.expires
  BY <1>1, <1>2, <1>5, <1>6 DEF Floor, Adequate, Renewal
<1> QED BY <1>2, <1>3, <1>4, <1>7, <1>8

(* A write for one socket keeps the live leases of all the others (_touch, *)
(* record_disconnect).                                                     *)
LEMMA OthersKept ==
  ASSUME NEW d, NEW s, NEW time, NEW x \in DOMAIN SessionsOf(d), x # s,
         Fresh(SessionsOf(d)[x], time)
  PROVE  /\ x \in DOMAIN Touched(d, s, time)
         /\ Touched(d, s, time)[x] = SessionsOf(d)[x]
         /\ x \in DOMAIN Dropped(d, s, time)
         /\ Dropped(d, s, time)[x] = SessionsOf(d)[x]
BY DEF Touched, Dropped, With, Without, Prune

-----------------------------------------------------------------------------
(* Steps that write neither the document nor a copy.                       *)

(* No thread starts to read, no socket opens, and nothing they rest on     *)
(* changes.                                                                *)
LeavesLeases ==
  /\ doc' = doc
  /\ \A t \in Threads :
       Reads(t)' =>
         /\ Reads(t) /\ copy'[t] = copy[t] /\ since'[t] = since[t]
         /\ life'[t[1]] \in {"connecting", "open"} =>
              life[t[1]] \in {"connecting", "open"}
  /\ \A s \in Sockets :
       life'[s] = "open" => life[s] = "open" /\ wake'[s] = wake[s]

(* Such a step keeps every lease.                                          *)
LEMMA LeasesStay ==
  ASSUME OneReader, WritesItself, DocHolds, CopiesHold, LeavesLeases
  PROVE  OneReader' /\ WritesItself' /\ DocHolds' /\ CopiesHold'
<1>1. OneReader'
  BY DEF OneReader, LeavesLeases
<1>2. WritesItself'
  BY DEF WritesItself, LeavesLeases
<1>3. DocHolds'
  BY DEF DocHolds, LeavesLeases, Holds, Floor, SessionsOf
<1>4. CopiesHold'
  BY DEF CopiesHold, LeavesLeases, Holds, Floor
<1> QED BY <1>1, <1>2, <1>3, <1>4

(* Starting a thread leaves the leases alone and is punctual.              *)
LEMMA SubmitUndisturbed ==
  ASSUME TypeOK, TypeOK', HonestClocks, Punctual,
         NEW s \in Sockets, Connect(s) \/ Beat(s) \/ Disconnect(s)
  PROVE  LeavesLeases /\ Punctual'
<1> USE PresenceAssumption
<1>1. /\ <<s, "main">> \in Threads /\ <<s, "beat">> \in Threads
      /\ \A t \in Threads : t[1] \in Sockets /\ t \in {<<t[1], "main">>, <<t[1], "beat">>}
  BY DEF Threads
<1>2. PICK u \in {<<s, "main">>, <<s, "beat">>} : Submit(u)
  BY DEF Connect, Beat, Disconnect
<1>3. /\ doc' = doc /\ now' = now
      /\ \A t \in Threads : t # u =>
           stage'[t] = stage[t] /\ since'[t] = since[t] /\ at'[t] = at[t]
      /\ stage'[u] = "submitted" /\ since'[u] = now /\ copy' = copy
      /\ \A x \in Sockets : life'[x] = "open" =>
           life[x] = "open" /\ wake'[x] = wake[x]
  BY <1>1, <1>2 DEF Connect, Beat, Disconnect, Submit, TypeOK
<1>4. ASSUME NEW t \in Threads, Reads(t)'
      PROVE  /\ Reads(t) /\ copy'[t] = copy[t] /\ since'[t] = since[t]
             /\ life'[t[1]] \in {"connecting", "open"} =>
                  life[t[1]] \in {"connecting", "open"}
  <2>1. t # u /\ Reads(t)
    BY <1>3, <1>4 DEF Reads
  <2>2. life[t[1]] # "new"
    BY <2>1 DEF HonestClocks, Busy, Reads
  <2>3. life'[t[1]] \in {life[t[1]], "closing"}
    BY <1>1, <2>2 DEF Connect, Beat, Disconnect, TypeOK
  <2> QED BY <2>1, <2>3, <1>3
<1>5. Punctual'
  <2>1. ASSUME NEW t \in Threads
        PROVE  /\ since'[t] <= now'
               /\ Busy(t)' => now' <= since'[t] + Latency
               /\ stage'[t] = "dated" => since'[t] <= at'[t]
    BY <1>1, <1>2, <1>3 DEF Punctual, Busy, TypeOK, Times
  <2>2. ASSUME NEW x \in Sockets, life'[x] = "open"
        PROVE  /\ wake'[x] <= now' + HEARTBEAT_S + HEARTBEAT_TIMEOUT_S
               /\ ~Busy(<<x, "beat">>)' => now' <= wake'[x] + Latency
               /\ Busy(<<x, "beat">>)' =>
                    since'[<<x, "beat">>] <= wake'[x] + Latency
    <3>1. <<x, "beat">> \in Threads
      BY DEF Threads
    <3>2. CASE u = <<x, "beat">>
      BY <3>1, <3>2, <1>2, <1>3, <2>2 DEF Punctual, Busy, Submit, TypeOK, Times
    <3>3. CASE u # <<x, "beat">>
      BY <3>1, <3>3, <1>3, <2>2 DEF Punctual, Busy
    <3> QED BY <3>2, <3>3
  <2> QED BY <2>1, <2>2 DEF Punctual
<1> QED BY <1>3, <1>4, <1>5 DEF LeavesLeases

(* So does a socket that ends.                                             *)
LEMMA EndUndisturbed ==
  ASSUME TypeOK, TypeOK', Punctual, NEW s \in Sockets,
         Crash(s) \/ HandlerRaises(s) \/ OrphanEnds(s)
  PROVE  LeavesLeases /\ Punctual'
<1> USE PresenceAssumption
<1>1. /\ doc' = doc /\ now' = now
      /\ \A x \in Sockets : x = s =>
           life'[x] \notin {"connecting", "open"}
      /\ \A x \in Sockets : x # s =>
           life'[x] = life[x] /\ wake'[x] = wake[x]
  BY DEF Crash, HandlerRaises, OrphanEnds, TypeOK
<1>2. ASSUME NEW t \in Threads
      PROVE  \/ /\ stage'[t] = stage[t] /\ since'[t] = since[t]
                /\ at'[t] = at[t] /\ copy'[t] = copy[t]
             \/ t[1] = s /\ stage'[t] = "idle" /\ since'[t] = 0
  BY DEF Crash, Clear, HandlerRaises, OrphanEnds, threadVars, Threads
<1>3. LeavesLeases
  <2>1. \A t \in Threads : t[1] \in Sockets
    BY DEF Threads
  <2> QED BY <2>1, <1>1, <1>2 DEF LeavesLeases, Reads
<1>4. Punctual'
  <2>1. ASSUME NEW t \in Threads
        PROVE  /\ since'[t] <= now'
               /\ Busy(t)' => now' <= since'[t] + Latency
               /\ stage'[t] = "dated" => since'[t] <= at'[t]
    BY <1>1, <1>2 DEF Punctual, Busy, TypeOK, Times
  <2>2. ASSUME NEW x \in Sockets, life'[x] = "open"
        PROVE  /\ wake'[x] <= now' + HEARTBEAT_S + HEARTBEAT_TIMEOUT_S
               /\ ~Busy(<<x, "beat">>)' => now' <= wake'[x] + Latency
               /\ Busy(<<x, "beat">>)' =>
                    since'[<<x, "beat">>] <= wake'[x] + Latency
    <3>1. <<x, "beat">> \in Threads /\ <<x, "beat">>[1] = x /\ x # s
      BY <1>1, <2>2 DEF Threads
    <3> QED BY <3>1, <1>1, <1>2, <2>2 DEF Punctual, Busy
  <2> QED BY <2>1, <2>2 DEF Punctual
<1> QED BY <1>3, <1>4

-----------------------------------------------------------------------------
(* The steps of a registry call.                                           *)

(* A call that returns is punctual: it opens its socket, or dates the next *)
(* beat of an open one, from the time it ends.                             *)
LEMMA ReturnPunctual ==
  ASSUME TypeOK, TypeOK', OneThread, Punctual, NEW t \in Threads, Return(t),
         Busy(t), now' = now
  PROVE  /\ Punctual'
         /\ \A x \in Sockets : x # t[1] =>
              life'[x] = life[x] /\ wake'[x] = wake[x]
         /\ life'[t[1]] = "open" =>
              /\ life[t[1]] \in {"connecting", "open"}
              /\ wake'[t[1]] <= now + HEARTBEAT_S + HEARTBEAT_TIMEOUT_S
<1> USE PresenceAssumption
<1>1. /\ t[1] \in Sockets /\ t \in {<<t[1], "main">>, <<t[1], "beat">>}
      /\ <<t[1], "beat">> \in Threads
  BY DEF Threads
<1>2. \A u \in Threads :
        \/ u = t /\ stage'[u] = "idle" /\ since'[u] = 0
        \/ /\ u # t /\ stage'[u] = stage[u]
           /\ since'[u] = since[u] /\ at'[u] = at[u]
  BY DEF Return, Clear
<1>3. \A x \in Sockets : x # t[1] => life'[x] = life[x] /\ wake'[x] = wake[x]
  BY <1>1 DEF Return, TypeOK
<1>4. life'[t[1]] = "open" =>
        /\ life[t[1]] \in {"connecting", "open"}
        /\ wake'[t[1]] <= now + HEARTBEAT_S + HEARTBEAT_TIMEOUT_S
        /\ now <= wake'[t[1]]
  BY <1>1 DEF Return, TypeOK, Times
<1>5. life[t[1]] = "connecting" => t = <<t[1], "main">> /\ ~Busy(<<t[1], "beat">>)
  BY <1>1 DEF OneThread
<1>6. life[t[1]] = "open" => t = <<t[1], "beat">>
  BY <1>1 DEF OneThread
<1>7. Punctual'
  <2>1. ASSUME NEW u \in Threads
        PROVE  /\ since'[u] <= now'
               /\ Busy(u)' => now' <= since'[u] + Latency
               /\ stage'[u] = "dated" => since'[u] <= at'[u]
    BY <1>2 DEF Punctual, Busy, TypeOK, Times
  <2>2. ASSUME NEW x \in Sockets, life'[x] = "open"
        PROVE  /\ wake'[x] <= now' + HEARTBEAT_S + HEARTBEAT_TIMEOUT_S
               /\ ~Busy(<<x, "beat">>)' => now' <= wake'[x] + Latency
               /\ Busy(<<x, "beat">>)' =>
                    since'[<<x, "beat">>] <= wake'[x] + Latency
    <3>1. CASE x = t[1]
      <4>1. ~Busy(<<x, "beat">>)'
        BY <1>1, <1>2, <1>4, <1>5, <1>6, <2>2, <3>1 DEF Busy
      <4> QED BY <4>1, <1>4, <2>2, <3>1 DEF TypeOK, Times
    <3>2. CASE x # t[1]
      <4>1. <<x, "beat">> \in Threads /\ <<x, "beat">> # t
        BY <1>1, <3>2 DEF Threads
      <4> QED BY <4>1, <1>2, <1>3, <2>2, <3>2 DEF Punctual, Busy
    <3> QED BY <3>1, <3>2
  <2> QED BY <2>1, <2>2 DEF Punctual
<1> QED BY <1>3, <1>4, <1>7

(* The one write in progress leaves every open socket counted: the others  *)
(* as its copy has them, its own as it dated it.                           *)
LEMMA SetUndisturbed ==
  ASSUME CInv, TypeOK', healthy, Adequate, NEW t \in Threads, Set(t)
  PROVE  OneReader' /\ Punctual' /\ WritesItself' /\ DocHolds' /\ CopiesHold'
<1> USE PresenceAssumption
<1>0. OneReader /\ Punctual /\ WritesItself /\ DocHolds /\ CopiesHold
  BY DEF CInv, Undisturbed
<1>1. Return(t) /\ now' = now /\ Reads(t) /\ Busy(t) /\ t[1] \in Sockets
  BY DEF Set, Reads, Busy, Threads
<1>2. /\ Punctual'
      /\ \A x \in Sockets : x # t[1] =>
           life'[x] = life[x] /\ wake'[x] = wake[x]
      /\ life'[t[1]] = "open" =>
           /\ life[t[1]] \in {"connecting", "open"}
           /\ wake'[t[1]] <= now + HEARTBEAT_S + HEARTBEAT_TIMEOUT_S
  BY <1>0, <1>1, ReturnPunctual DEF CInv
<1>3. \A u \in Threads : ~Reads(u)'
  BY <1>0, <1>1 DEF OneReader, Reads, Return, Clear
<1>4. /\ OneReader' /\ WritesItself' /\ CopiesHold'
  BY <1>3 DEF OneReader, WritesItself, CopiesHold
<1>5. /\ doc' \in Docs /\ doc' # NoDoc
      /\ doc'.sessions = copy[t] /\ doc'.expires = now + PRESENCE_TTL_S
  BY NoDocAssumption DEF Set, Entry, CInv, TypeOK, Docs, Times
<1>6. SessionsOf(doc)' = copy[t]
  BY <1>5 DEF SessionsOf
<1>7. copy[t] \in SessionMaps
  BY DEF CInv, TypeOK
<1>8. ASSUME NEW x \in Sockets, life'[x] = "open"
      PROVE  /\ x \in DOMAIN copy[t]
             /\ copy[t][x] >= Floor(x)' - Latency
             /\ now + PRESENCE_TTL_S >= Floor(x)' + PRESENCE_TTL_S
  <2>1. wake'[x] <= now + HEARTBEAT_S + HEARTBEAT_TIMEOUT_S
    BY <1>0, <1>2, <1>8 DEF Punctual
  <2>2. wake'[x] \in Int /\ now \in Int /\ since[t] \in Int
    BY DEF CInv, TypeOK, Times
  <2>3. CASE x # t[1]
    <3>1. life[x] = "open" /\ Floor(x)' = Floor(x)
      BY <1>2, <1>8, <2>3 DEF Floor
    <3>2. x \in DOMAIN copy[t] /\ copy[t][x] >= Floor(x) - Latency
      BY <1>0, <1>1, <2>3, <3>1 DEF CopiesHold, Holds
    <3> QED BY <2>1, <2>2, <3>1, <3>2 DEF Floor
  <2>4. CASE x = t[1]
    <3>1. x \in DOMAIN copy[t] /\ since[t] <= copy[t][x]
      BY <1>0, <1>1, <1>2, <1>8, <2>4 DEF WritesItself
    <3>2. now <= since[t] + Latency
      BY <1>0, <1>1 DEF Punctual
    <3>3. copy[t][x] \in Int
      BY <1>7, <3>1 DEF SessionMaps, Times
    <3> QED BY <2>1, <2>2, <3>1, <3>2, <3>3 DEF Floor
  <2> QED BY <2>3, <2>4
<1>9. DocHolds'
  BY <1>5, <1>6, <1>8 DEF DocHolds, Holds
<1> QED BY <1>2, <1>4, <1>9

(* A read by the only reader copies the lease of every other open socket,  *)
(* and dates its own no earlier than it was submitted.                     *)
LEMMA GetUndisturbed ==
  ASSUME CInv, TypeOK', healthy', Adequate, NEW t \in Threads, Get(t)
  PROVE  OneReader' /\ Punctual' /\ WritesItself' /\ DocHolds' /\ CopiesHold'
<1> USE PresenceAssumption
<1>0. /\ OneReader /\ Punctual /\ WritesItself /\ DocHolds /\ CopiesHold
      /\ \A u \in Threads : ~Reads(u)
  BY DEF CInv, Undisturbed, Get, Reads
<1>1. /\ doc' = doc /\ now' = now /\ life' = life /\ wake' = wake
      /\ since' = since /\ stage[t] = "dated" /\ t[1] \in Sockets
      /\ \A u \in Threads : u # t =>
           stage'[u] = stage[u] /\ at'[u] = at[u]
      /\ stage'[t] = "read"
  BY DEF Get, CInv, TypeOK, Threads
<1>2. copy'[t] = IF Drops(t) THEN Dropped(doc, t[1], at[t])
                             ELSE Touched(doc, t[1], at[t])
  BY DEF Get, CInv, TypeOK
<1>3. \A u \in Threads : Reads(u)' => u = t
  BY <1>0, <1>1 DEF Reads
<1>4. OneReader'
  BY <1>3 DEF OneReader
<1>5. Punctual'
  <2>1. \A u \in Threads :
          /\ Busy(u)' <=> Busy(u)
          /\ stage'[u] = "dated" => stage[u] = "dated" /\ at'[u] = at[u]
    BY <1>1 DEF Busy
  <2>2. \A s \in Sockets : <<s, "beat">> \in Threads
    BY DEF Threads
  <2> QED BY <1>0, <1>1, <2>1, <2>2 DEF Punctual
<1>6. since[t] <= at[t] /\ at[t] <= now
  BY <1>0, <1>1 DEF Punctual, CInv, HonestClocks
<1>7. WritesItself'
  <2>1. life[t[1]] \in {"connecting", "open"} =>
          /\ t[1] \in DOMAIN Touched(doc, t[1], at[t])
          /\ Touched(doc, t[1], at[t])[t[1]] = at[t]
          /\ ~Drops(t)
    BY DEF Touched, With, Drops
  <2> QED BY <2>1, <1>1, <1>2, <1>3, <1>6 DEF WritesItself
<1>8. DocHolds'
  BY <1>0, <1>1 DEF DocHolds, Holds, Floor, SessionsOf
<1>9. CopiesHold'
  <2>1. ASSUME NEW x \in Sockets, x # t[1], life[x] = "open"
        PROVE  x \in DOMAIN copy'[t] /\ copy'[t][x] >= Floor(x) - Latency
    <3>1. /\ x \in DOMAIN SessionsOf(doc) /\ SessionsOf(doc)[x] \in Times
          /\ Fresh(SessionsOf(doc)[x], now)
      BY <1>0, <2>1, LeaseCovers DEF CInv
    <3>2. Fresh(SessionsOf(doc)[x], at[t])
      BY <1>6, <3>1 DEF Fresh, CInv, TypeOK, Times
    <3>3. SessionsOf(doc)[x] >= Floor(x) - Latency
      BY <1>0, <2>1 DEF DocHolds, Holds
    <3> QED BY <1>2, <2>1, <3>1, <3>2, <3>3, OthersKept
  <2> QED BY <2>1, <1>1, <1>3 DEF CopiesHold, Holds, Floor
<1> QED BY <1>4, <1>5, <1>7, <1>8, <1>9

(* Taking the date, and finding nothing to drop, leave the leases alone.   *)
LEMMA DateUndisturbed ==
  ASSUME CInv, TypeOK', healthy, Adequate, NEW t \in Threads,
         TakeNow(t) \/ NothingToDrop(t)
  PROVE  LeavesLeases /\ Punctual'
<1> USE PresenceAssumption
<1>0. Punctual /\ OneThread /\ TypeOK
  BY DEF CInv, Undisturbed
<1>1. \A u \in Threads : u[1] \in Sockets
  BY DEF Threads
<1>2. CASE TakeNow(t)
  BY <1>0, <1>1, <1>2
     DEF TakeNow, LeavesLeases, Punctual, Reads, Busy, TypeOK, Times
<1>3. CASE NothingToDrop(t)
  <2>1. Return(t) /\ now' = now /\ doc' = doc /\ Busy(t) /\ life[t[1]] = "closing"
    BY <1>3 DEF NothingToDrop, Busy, Drops
  <2>2. /\ Punctual'
        /\ \A x \in Sockets : x # t[1] =>
             life'[x] = life[x] /\ wake'[x] = wake[x]
        /\ life'[t[1]] # "open"
    BY <1>0, <2>1, ReturnPunctual
  <2>3. life'[t[1]] \notin {"connecting", "open"}
    BY <1>0, <1>1, <2>1 DEF Return, TypeOK
  <2>4. \A u \in Threads : Reads(u)' =>
          Reads(u) /\ copy'[u] = copy[u] /\ since'[u] = since[u]
    BY <2>1 DEF Return, Clear, Reads
  <2> QED BY <1>1, <2>1, <2>2, <2>3, <2>4 DEF LeavesLeases
<1> QED BY <1>2, <1>3

(* A second that finds nobody late passes without the entry of an open     *)
(* socket's user running out.                                              *)
LEMMA TickUndisturbed ==
  ASSUME CInv, TypeOK', healthy', Adequate, Tick
  PROVE  OneReader' /\ Punctual' /\ WritesItself' /\ DocHolds' /\ CopiesHold'
<1> USE PresenceAssumption
<1>0. /\ OneReader /\ Punctual /\ WritesItself /\ DocHolds /\ CopiesHold
      /\ OnTime /\ TypeOK
  BY DEF CInv, Undisturbed, Tick
<1>1. /\ now' = now + 1 /\ now \in Int
      /\ UNCHANGED <<life, wake, stage, since, at, copy>>
  BY <1>0 DEF Tick, threadVars, TypeOK, Times
<1>2. Punctual'
  <2>1. \A s \in Sockets : <<s, "beat">> \in Threads
    BY DEF Threads
  <2> QED BY <1>0, <1>1, <2>1 DEF Punctual, OnTime, Busy, TypeOK, Times
<1>3. OneReader' /\ WritesItself' /\ CopiesHold'
  BY <1>0, <1>1 DEF OneReader, WritesItself, CopiesHold, Holds, Floor, Reads
<1>4. ASSUME NEW s \in Sockets, life[s] = "open" PROVE doc' = doc
  <2>1. doc # NoDoc /\ doc \in Docs /\ doc.expires \in Nat
    BY <1>0, <1>4 DEF DocHolds, TypeOK, Docs
  <2>2. now' <= wake[s] + 2 * Latency
    <3>1. <<s, "beat">> \in Threads
      BY DEF Threads
    <3>2. wake[s] \in Int /\ since[<<s, "beat">>] \in Int
      BY <1>0, <3>1 DEF TypeOK, Times
    <3>3. CASE Busy(<<s, "beat">>)
      BY <1>0, <1>1, <1>4, <3>1, <3>2, <3>3 DEF Punctual, OnTime
    <3>4. CASE ~Busy(<<s, "beat">>)
      BY <1>0, <1>1, <1>4, <3>1, <3>2, <3>4 DEF OnTime
    <3> QED BY <3>3, <3>4
  <2>3. doc.expires >= Floor(s) + PRESENCE_TTL_S
    BY <1>0, <1>4 DEF DocHolds
  <2>4. now' < doc.expires
    BY <1>0, <1>1, <2>1, <2>2, <2>3 DEF Floor, Adequate, Renewal, TypeOK, Times
  <2> QED BY <1>1, <2>1, <2>4 DEF Tick
<1>5. DocHolds'
  BY <1>0, <1>1, <1>4 DEF DocHolds, Holds, Floor, SessionsOf
<1> QED BY <1>2, <1>3, <1>5

-----------------------------------------------------------------------------
(* The invariant holds initially and is preserved.                         *)

(* Before any socket nothing can be lost.                                  *)
THEOREM InitCInv == Init => CInv
<1> SUFFICES ASSUME Init PROVE CInv
  OBVIOUS
<1>1. TypeOK /\ HonestClocks
  BY InitIInv DEF IInv
<1>2. \A s \in Sockets : life[s] = "new"
  BY DEF Init
<1>3. \A t \in Threads :
        /\ t[1] \in Sockets /\ stage[t] = "idle" /\ since[t] = 0 /\ now = 0
  BY DEF Init, Threads
<1>4. OneThread
  BY <1>2 DEF OneThread
<1>5. OneReader /\ WritesItself /\ CopiesHold
  BY <1>3 DEF OneReader, WritesItself, CopiesHold, Reads
<1>6. Punctual
  BY <1>2, <1>3 DEF Punctual, Busy
<1>7. DocHolds
  BY <1>2 DEF DocHolds, Holds
<1> QED BY <1>1, <1>4, <1>5, <1>6, <1>7 DEF CInv, Undisturbed

(* The threads of a socket take turns.                                     *)
LEMMA NextOneThread ==
  ASSUME TypeOK, HonestClocks, OneThread, [Next]_vars
  PROVE  OneThread'
<1>0. /\ \A s \in Sockets : <<s, "main">> \in Threads /\ <<s, "beat">> \in Threads
      /\ \A t \in Threads : t[1] \in Sockets /\ t \in {<<t[1], "main">>, <<t[1], "beat">>}
      /\ \A s \in Sockets : life[s] = "new" =>
           ~Busy(<<s, "main">>) /\ ~Busy(<<s, "beat">>)
  BY DEF Threads, HonestClocks
<1>1. ASSUME NEW s \in Sockets, Connect(s) \/ Beat(s) \/ Disconnect(s)
      PROVE  OneThread'
  <2>1. CASE Connect(s)
    BY <1>0, <2>1 DEF Connect, Submit, OneThread, Busy, TypeOK
  <2>2. CASE Beat(s)
    BY <1>0, <2>2 DEF Beat, Submit, OneThread, Busy, TypeOK
  <2>3. CASE Disconnect(s)
    BY <1>0, <2>3 DEF Disconnect, Submit, OneThread, Busy, TypeOK
  <2> QED BY <1>1, <2>1, <2>2, <2>3
<1>2. ASSUME NEW s \in Sockets, Crash(s) \/ HandlerRaises(s) \/ OrphanEnds(s)
      PROVE  OneThread'
  <2>1. \A u \in Threads : Busy(u)' => Busy(u)
    BY <1>2 DEF Crash, Clear, HandlerRaises, OrphanEnds, threadVars, Busy
  <2>2. \A x \in Sockets :
          life'[x] \in {"connecting", "open"} => life'[x] = life[x]
    BY <1>2 DEF Crash, HandlerRaises, OrphanEnds, TypeOK
  <2>3. ASSUME NEW x \in Sockets, life'[x] = "connecting"
        PROVE  ~Busy(<<x, "beat">>)'
    <3>1. life[x] = "connecting" /\ <<x, "beat">> \in Threads
      BY <1>0, <2>2, <2>3
    <3> QED BY <2>1, <3>1 DEF OneThread
  <2>4. ASSUME NEW x \in Sockets, life'[x] = "open"
        PROVE  ~Busy(<<x, "main">>)'
    <3>1. life[x] = "open" /\ <<x, "main">> \in Threads
      BY <1>0, <2>2, <2>4
    <3> QED BY <2>1, <3>1 DEF OneThread
  <2> QED BY <2>3, <2>4 DEF OneThread
<1>3. ASSUME NEW t \in Threads, TakeNow(t) \/ Get(t) PROVE OneThread'
  BY <1>0, <1>3 DEF TakeNow, Get, OneThread, Busy, TypeOK
<1>4. ASSUME NEW t \in Threads, NothingToDrop(t) \/ Set(t) \/ Fails(t)
      PROVE  OneThread'
  <2>1. Return(t) /\ Busy(t)
    BY <1>4 DEF NothingToDrop, Set, Fails, Busy
  <2>2. \A u \in Threads : Busy(u)' => Busy(u) /\ u # t
    BY <2>1 DEF Return, Clear, Busy
  <2>3. \A s \in Sockets :
          /\ life'[s] = "connecting" => life[s] = "connecting"
          /\ life'[s] = "open" =>
               \/ life[s] = "open"
               \/ s = t[1] /\ life[s] = "connecting"
    BY <1>0, <2>1 DEF Return, TypeOK
  <2>4. ASSUME NEW x \in Sockets, life'[x] = "connecting"
        PROVE  ~Busy(<<x, "beat">>)'
    BY <1>0, <2>2, <2>3, <2>4 DEF OneThread
  <2>5. ASSUME NEW x \in Sockets, life'[x] = "open"
        PROVE  ~Busy(<<x, "main">>)'
    <3>1. CASE life[x] = "open"
      BY <1>0, <2>2, <3>1 DEF OneThread
    <3>2. CASE x = t[1] /\ life[x] = "connecting"
      <4>1. ~Busy(<<x, "beat">>)
        BY <3>2 DEF OneThread
      <4>2. t = <<x, "main">>
        BY <1>0, <2>1, <3>2, <4>1
      <4> QED BY <1>0, <2>2, <4>2
    <3> QED BY <2>3, <2>5, <3>1, <3>2
  <2> QED BY <2>4, <2>5 DEF OneThread
<1>5. CASE Tick \/ UNCHANGED vars
  BY <1>5 DEF Tick, vars, threadVars, OneThread, Busy
<1> QED BY <1>1, <1>2, <1>3, <1>4, <1>5 DEF Next

(* Every step keeps what is known of a day on which nothing goes wrong.    *)
THEOREM NextCInv == CInv /\ [Next]_vars => CInv'
<1> SUFFICES ASSUME CInv, [Next]_vars PROVE CInv'
  OBVIOUS
<1>1. TypeOK /\ TypeOK' /\ HonestClocks /\ OneThread
  BY NextTypeOK DEF CInv
<1>2. HonestClocks'
  BY <1>1, NextClocks
<1>3. OneThread'
  BY <1>1, NextOneThread
<1>4. Undisturbed'
  <2> SUFFICES ASSUME healthy', Adequate
               PROVE  OneReader' /\ Punctual' /\ WritesItself' /\ DocHolds'
                      /\ CopiesHold'
    BY DEF Undisturbed, Adequate, Renewal
  <2>1. healthy
    BY DEF Next, Connect, Beat, Disconnect, Crash, HandlerRaises, OrphanEnds,
           TakeNow, Get, NothingToDrop, Set, Fails, Tick, vars
  <2>2. OneReader /\ Punctual /\ WritesItself /\ DocHolds /\ CopiesHold
    BY <2>1 DEF CInv, Undisturbed
  <2>3. ASSUME NEW s \in Sockets,
               \/ Connect(s) \/ Beat(s) \/ Disconnect(s)
               \/ Crash(s) \/ HandlerRaises(s) \/ OrphanEnds(s)
        PROVE  LeavesLeases /\ Punctual'
    BY <2>2, <2>3, <1>1, SubmitUndisturbed, EndUndisturbed
  <2>4. ASSUME NEW t \in Threads, TakeNow(t) \/ NothingToDrop(t)
        PROVE  LeavesLeases /\ Punctual'
    BY <2>1, <2>4, <1>1, DateUndisturbed
  <2>5. ASSUME NEW t \in Threads, Get(t) \/ Set(t)
        PROVE  OneReader' /\ Punctual' /\ WritesItself' /\ DocHolds'
               /\ CopiesHold'
    BY <2>1, <2>5, <1>1, GetUndisturbed, SetUndisturbed
  <2>6. ASSUME NEW t \in Threads, Fails(t) PROVE FALSE
    BY <2>6 DEF Fails
  <2>7. CASE Tick
    BY <2>7, <1>1, TickUndisturbed
  <2>8. CASE UNCHANGED vars
    <3>1. LeavesLeases
      BY <2>8 DEF vars, threadVars, LeavesLeases, Reads
    <3>2. Punctual'
      BY <2>2, <2>8 DEF vars, threadVars, Punctual, Busy
    <3> QED BY <2>2, <3>1, <3>2, LeasesStay
  <2> QED BY <2>2, <2>3, <2>4, <2>5, <2>6, <2>7, <2>8, LeasesStay DEF Next
<1> QED BY <1>1, <1>2, <1>3, <1>4 DEF CInv

(* Every open socket counts at every moment (_heartbeat_loop, _touch,      *)
(* _prune, _snapshot), whatever the other sockets of the user do, while no *)
(* two writes overlap, no cache call fails, nothing is later than Latency  *)
(* and the TTL covers a renewal.                                           *)
THEOREM OpenCounts == Spec => []OpenSocketCounts
<1>1. CInv => OpenSocketCounts
  <2> SUFFICES ASSUME CInv, healthy, Adequate, NEW s \in Sockets,
                      life[s] = "open"
               PROVE  s \in Counted(FamilyOf[s])
    BY DEF OpenSocketCounts, EveryOpenSocketCounts
  <2>1. s \in DOMAIN SessionsOf(doc) /\ Fresh(SessionsOf(doc)[s], now)
    BY LeaseCovers DEF CInv, Undisturbed
  <2> QED BY <2>1 DEF Counted
<1> QED BY <1>1, InitCInv, NextCInv, PTL DEF Spec
-----------------------------------------------------------------------------
(* The inductive invariant behind BeatHeals: it needs no healthy day.      *)

(* No thread is dated before it was submitted.                             *)
Dated ==
  \A t \in Threads :
    /\ since[t] <= now
    /\ stage[t] = "dated" => since[t] <= at[t]

HInv == TypeOK /\ HonestClocks /\ OneThread /\ Dated /\ WritesItself

(* Starting a thread dates nothing and writes nothing.                     *)
LEMMA SubmitDated ==
  ASSUME HInv, TypeOK', NEW s \in Sockets,
         Connect(s) \/ Beat(s) \/ Disconnect(s)
  PROVE  Dated' /\ WritesItself'
<1> USE PresenceAssumption
<1>1. /\ <<s, "main">> \in Threads /\ <<s, "beat">> \in Threads
      /\ \A t \in Threads : t[1] \in Sockets
  BY DEF Threads
<1>2. PICK u \in {<<s, "main">>, <<s, "beat">>} : Submit(u)
  BY DEF Connect, Beat, Disconnect
<1>3. /\ now' = now /\ copy' = copy
      /\ \A t \in Threads : t # u =>
           stage'[t] = stage[t] /\ since'[t] = since[t] /\ at'[t] = at[t]
      /\ stage'[u] = "submitted" /\ since'[u] = now
  BY <1>1, <1>2 DEF Connect, Beat, Disconnect, Submit, HInv, TypeOK
<1>4. Dated'
  BY <1>1, <1>3 DEF HInv, Dated, TypeOK, Times
<1>5. ASSUME NEW t \in Threads, Reads(t)',
             life'[t[1]] \in {"connecting", "open"}
      PROVE  t[1] \in DOMAIN copy'[t] /\ since'[t] <= copy'[t][t[1]]
  <2>1. t # u /\ Reads(t)
    BY <1>3, <1>5 DEF Reads
  <2>2. life[t[1]] # "new"
    BY <2>1 DEF HInv, HonestClocks, Busy, Reads
  <2>3. life'[t[1]] \in {life[t[1]], "closing"}
    BY <1>1, <2>2 DEF Connect, Beat, Disconnect, HInv, TypeOK
  <2> QED BY <1>3, <1>5, <2>1, <2>3 DEF HInv, WritesItself
<1> QED BY <1>4, <1>5 DEF WritesItself

(* Nor does a task or a thread that ends, nor one that fails.              *)
LEMMA EndDated ==
  ASSUME HInv, TypeOK',
         \/ \E s \in Sockets : Crash(s) \/ HandlerRaises(s) \/ OrphanEnds(s)
         \/ \E t \in Threads : NothingToDrop(t) \/ Set(t) \/ Fails(t)
  PROVE  Dated' /\ WritesItself'
<1> USE PresenceAssumption
<1>0. now' = now /\ \A t \in Threads : t[1] \in Sockets
  BY DEF Crash, HandlerRaises, OrphanEnds, NothingToDrop, Set, Fails, Threads
<1>1. ASSUME NEW t \in Threads
      PROVE  \/ /\ stage'[t] = stage[t] /\ since'[t] = since[t]
                /\ at'[t] = at[t] /\ copy'[t] = copy[t]
             \/ stage'[t] = "idle" /\ since'[t] = 0
  <2>1. \/ UNCHANGED threadVars
        \/ \E ended : Clear(ended)
    BY DEF Crash, HandlerRaises, OrphanEnds, NothingToDrop, Set, Fails, Return
  <2> QED BY <2>1 DEF Clear, threadVars
<1>2. Dated'
  BY <1>0, <1>1 DEF HInv, Dated, TypeOK, Times
<1>3. ASSUME NEW t \in Threads, Reads(t)',
             life'[t[1]] \in {"connecting", "open"}
      PROVE  life[t[1]] \in {"connecting", "open"}
  <2>1. t[1] \in Sockets /\ life \in [Sockets -> Lives]
    BY <1>0, <1>3 DEF HInv, TypeOK
  <2>2. ASSUME NEW s \in Sockets, Crash(s) \/ HandlerRaises(s) \/ OrphanEnds(s)
        PROVE  life[t[1]] \in {"connecting", "open"}
    BY <1>3, <2>1, <2>2 DEF Crash, HandlerRaises, OrphanEnds
  <2>3. ASSUME NEW u \in Threads, NothingToDrop(u) \/ Set(u) \/ Fails(u)
        PROVE  life[t[1]] \in {"connecting", "open"}
    <3>1. Return(u) /\ u[1] \in Sockets
      BY <1>0, <2>3 DEF NothingToDrop, Set, Fails
    <3> QED BY <1>3, <2>1, <3>1 DEF Return
  <2> QED BY <2>2, <2>3
<1>4. WritesItself'
  BY <1>1, <1>3 DEF HInv, WritesItself, Reads
<1> QED BY <1>2, <1>4

(* A call of a socket that counts reads the document and dates itself in   *)
(* its copy, whatever it read.                                             *)
LEMMA CallDated ==
  ASSUME HInv, TypeOK', NEW t \in Threads, TakeNow(t) \/ Get(t)
  PROVE  Dated' /\ WritesItself'
<1> USE PresenceAssumption
<1>0. /\ now' = now /\ life' = life /\ since' = since /\ t[1] \in Sockets
      /\ \A u \in Threads : u # t =>
           stage'[u] = stage[u] /\ at'[u] = at[u] /\ copy'[u] = copy[u]
  BY DEF TakeNow, Get, HInv, TypeOK, Threads
<1>1. CASE TakeNow(t)
  <2>1. stage'[t] = "dated" /\ at'[t] = now /\ copy' = copy
    BY <1>1 DEF TakeNow, HInv, TypeOK
  <2> QED BY <1>0, <2>1 DEF HInv, Dated, WritesItself, Reads, TypeOK, Times
<1>2. CASE Get(t)
  <2>1. /\ stage[t] = "dated" /\ stage'[t] = "read"
        /\ copy'[t] = IF Drops(t) THEN Dropped(doc, t[1], at[t])
                                  ELSE Touched(doc, t[1], at[t])
    BY <1>2 DEF Get, HInv, TypeOK
  <2>2. life[t[1]] \in {"connecting", "open"} =>
          /\ t[1] \in DOMAIN Touched(doc, t[1], at[t])
          /\ Touched(doc, t[1], at[t])[t[1]] = at[t]
          /\ ~Drops(t)
    BY DEF Touched, With, Drops
  <2>3. since[t] <= at[t]
    BY <2>1 DEF HInv, Dated
  <2>4. Dated'
    BY <1>0, <2>1 DEF HInv, Dated
  <2>5. WritesItself'
    BY <1>0, <2>1, <2>2, <2>3 DEF HInv, WritesItself, Reads
  <2> QED BY <2>4, <2>5
<1> QED BY <1>1, <1>2

(* The invariant holds always.                                             *)
THEOREM HealInductive == Spec => []HInv
<1>1. Init => HInv
  <2> SUFFICES ASSUME Init PROVE HInv
    OBVIOUS
  <2>1. TypeOK /\ HonestClocks /\ OneThread
    BY InitCInv DEF CInv
  <2>2. Dated /\ WritesItself
    BY DEF Init, Dated, WritesItself, Reads
  <2> QED BY <2>1, <2>2 DEF HInv
<1>2. HInv /\ [Next]_vars => HInv'
  <2> SUFFICES ASSUME HInv, [Next]_vars PROVE HInv'
    OBVIOUS
  <2>1. TypeOK /\ HonestClocks /\ OneThread
    BY DEF HInv
  <2>2. TypeOK' /\ HonestClocks' /\ OneThread'
    BY <2>1, NextTypeOK, NextClocks, NextOneThread
  <2>3. Dated' /\ WritesItself'
    <3>1. CASE Tick
      BY <2>1, <3>1, PresenceAssumption
      DEF HInv, Tick, threadVars, Dated, WritesItself, Reads, TypeOK, Times
    <3>2. CASE UNCHANGED vars
      BY <3>2 DEF HInv, vars, threadVars, Dated, WritesItself, Reads
    <3> QED BY <2>2, <3>1, <3>2, SubmitDated, EndDated, CallDated DEF Next
  <2> QED BY <2>2, <2>3 DEF HInv
<1> QED BY <1>1, <1>2, PTL DEF Spec

(* The socket that lost an update counts again after its next write        *)
(* (_touch, _heartbeat_loop): the write dates it itself, and replaces      *)
(* whatever the others have written since it read.                         *)
THEOREM Heals == Spec => BeatHeals
<1>1. ASSUME HInv, HInv', NEW t \in Threads, Set(t),
             life[t[1]] \in {"connecting", "open"},
             now - since[t] <= PRESENCE_TTL_S
      PROVE  (t[1] \in Counted(FamilyOf[t[1]]))'
  <2>1. Reads(t) /\ now' = now /\ doc' = Entry(copy[t])
    BY <1>1 DEF Set, Reads
  <2>2. t[1] \in DOMAIN copy[t] /\ since[t] <= copy[t][t[1]]
    BY <1>1, <2>1 DEF HInv, WritesItself
  <2>3. /\ copy[t] \in SessionMaps /\ now \in Int /\ since[t] \in Int
        /\ PRESENCE_TTL_S \in Int
    BY <1>1, PresenceAssumption DEF HInv, TypeOK, Times
  <2>4. copy[t][t[1]] \in Int
    BY <2>2, <2>3 DEF SessionMaps, Times
  <2>5. SessionsOf(doc)' = copy[t]
    BY <1>1, <2>1, <2>3, NoDocAssumption, PresenceAssumption
    DEF SessionsOf, Entry, Docs, HInv, TypeOK, Times
  <2> QED BY <1>1, <2>1, <2>2, <2>3, <2>4, <2>5 DEF Counted, Fresh
<1>2. HInv /\ HInv' =>
        [\A t \in Threads :
           LET s == t[1] IN
           (/\ Set(t)
            /\ life[s] \in {"connecting", "open"}
            /\ now - since[t] <= PRESENCE_TTL_S)
             => (s \in Counted(FamilyOf[s]))']_vars
  BY <1>1
<1> QED BY <1>2, HealInductive, PTL DEF BeatHeals
=============================================================================
