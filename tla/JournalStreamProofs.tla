------------------------ MODULE JournalStreamProofs ------------------------
(***************************************************************************)
(* Proofs about JournalStream, for every size of the queue, replay window  *)
(* and journal: types, the order of the rows on a socket, what a clean     *)
(* hello catches up, and what is left behind for ever.                     *)
(*                                                                         *)
(* `received' is the end of a pipeline: rows enter the outbox above the    *)
(* cursor, pass through the writer's hand and reach the wire in order.     *)
(* The invariants below say of the whole pipeline what the properties say  *)
(* of its end.                                                             *)
(***************************************************************************)
EXTENDS JournalStream, SendQueueProofs

InRow == inFlight # NoFrame /\ IsRow(inFlight)

RowAt(i) == i \in 1..Len(outbox) /\ IsRow(outbox[i])

(* Store first: what is on its way to the client is in the journal and     *)
(* under the cursor, and nobody is ahead of the journal.                   *)
StoreFirst ==
  /\ \A i \in 1..Len(outbox) :
       RowAt(i) => outbox[i].seq \in 1..head /\ outbox[i].seq <= maxSeqSent
  /\ InRow => inFlight.seq \in 1..head /\ inFlight.seq <= maxSeqSent
  /\ maxSeqSent <= head
  /\ lastSeq <= head
  /\ greeting <= head

(* The pipeline ascends.                                                   *)
Ascending ==
  /\ \A i, j \in 1..Len(outbox) :
       (RowAt(i) /\ RowAt(j) /\ i < j) => outbox[i].seq < outbox[j].seq
  /\ \A i \in 1..Len(outbox) : (InRow /\ RowAt(i)) => inFlight.seq < outbox[i].seq
  /\ \A r \in 1..Len(received) :
       /\ received[r] <= maxSeqSent
       /\ InRow => received[r] < inFlight.seq
       /\ \A i \in 1..Len(outbox) : RowAt(i) => received[r] < outbox[i].seq
  /\ RowsAscend

IInv == TypeOK /\ StoreFirst /\ Ascending

-----------------------------------------------------------------------------
(* The frames the consumer builds (envelope.py, frame) are frames.         *)
LEMMA FrameTypesOK ==
  /\ \A type \in FrameTypes : Plain(type) \in Frames
  /\ \A type \in FrameTypes, n \in Nat : Row(type, n) \in Frames
  /\ \A n \in Nat, b \in BOOLEAN : Done(n, b) \in Frames
BY DEF Plain, Row, Done, Frames, FrameTypes

(* The rows on_hello queues: the cursor's successors, up to the window.    *)
LEMMA ReplayFramesAre ==
  ASSUME TypeOK
  PROVE  /\ ReplayFrames \in Seq(Frames)
         /\ Len(ReplayFrames) = Greatest(0, LastReplayed - maxSeqSent)
         /\ \A i \in 1..Len(ReplayFrames) :
              /\ IsRow(ReplayFrames[i])
              /\ ReplayFrames[i].seq = maxSeqSent + i
              /\ ReplayFrames[i].seq <= LastReplayed
         /\ LastReplayed \in Int
         /\ LastReplayed <= head
<1> DEFINE n == Greatest(0, LastReplayed - maxSeqSent)
<1>0. head \in Int /\ lastSeq \in Int /\ maxSeqSent \in Nat /\ MAX_REPLAY \in Int
  BY JournalAssumption DEF TypeOK
<1>1. LastReplayed \in Int /\ LastReplayed <= head
  BY <1>0 DEF LastReplayed, Least
<1>2. n \in Nat /\ n \in {0, LastReplayed - maxSeqSent}
  BY <1>0, <1>1 DEF Greatest
<1>3. \A i \in 1..n : Row("replay", maxSeqSent + i) \in Frames
  BY <1>0, <1>2, FrameTypesOK DEF FrameTypes
<1>4. ReplayFrames = [i \in 1..n |-> Row("replay", maxSeqSent + i)]
  BY DEF ReplayFrames
<1> HIDE DEF n
<1>5. ReplayFrames \in Seq(Frames) /\ Len(ReplayFrames) = n
  BY <1>2, <1>3, <1>4
<1>6. ASSUME NEW i \in 1..n
      PROVE  /\ IsRow(ReplayFrames[i])
             /\ ReplayFrames[i].seq = maxSeqSent + i
             /\ ReplayFrames[i].seq <= LastReplayed
  BY <1>0, <1>1, <1>2, <1>4, <1>6 DEF Row, IsRow
<1> QED BY <1>1, <1>5, <1>6 DEF n

(* Frames whose rows ascend above the cursor keep the pipeline in order.   *)
LEMMA EnqueueKeepsOrder ==
  ASSUME IInv, NEW frames \in Seq(Frames), EnqueueAll(frames),
         UNCHANGED <<inFlight, received, head>>,
         maxSeqSent' \in Nat, maxSeqSent <= maxSeqSent',
         \A i \in 1..Len(frames) :
           IsRow(frames[i]) => /\ frames[i].seq \in 1..head
                               /\ maxSeqSent < frames[i].seq
                               /\ frames[i].seq <= maxSeqSent',
         \A i, j \in 1..Len(frames) :
           (IsRow(frames[i]) /\ IsRow(frames[j]) /\ i < j)
             => frames[i].seq < frames[j].seq
  PROVE  /\ outbox' \in Seq(Frames)
         /\ Len(outbox') <= SEND_QUEUE_SIZE
         /\ Ascending'
         /\ \A i \in 1..Len(outbox') :
              RowAt(i)' => /\ outbox'[i].seq \in 1..head
                           /\ outbox'[i].seq <= maxSeqSent'
         /\ InRow' => inFlight'.seq \in 1..head /\ inFlight'.seq <= maxSeqSent'
<1>1. PICK k \in 0..Len(frames) : outbox' = outbox \o SubSeq(frames, 1, k)
  BY EnqueueAllTakesPrefix DEF IInv, TypeOK
<1>2. outbox' \in Seq(Frames) /\ Len(outbox') <= SEND_QUEUE_SIZE
  BY EnqueueAllTakesPrefix DEF IInv, TypeOK
<1> DEFINE old == Len(outbox)
<1>3. /\ outbox \in Seq(Frames)
      /\ Len(outbox') = old + k
      /\ \A i \in 1..old : outbox'[i] = outbox[i]
      /\ \A i \in (old + 1)..(old + k) : outbox'[i] = frames[i - old]
  <2>1. outbox \in Seq(Frames)
    BY DEF IInv, TypeOK
  <2>2. /\ SubSeq(frames, 1, k) \in Seq(Frames)
        /\ Len(SubSeq(frames, 1, k)) = k
        /\ \A i \in 1..k : SubSeq(frames, 1, k)[i] = frames[i]
    OBVIOUS
  <2> QED BY ONLY <1>1, <2>1, <2>2, k \in 0..Len(frames), frames \in Seq(Frames)
<1>4. /\ old \in Nat /\ k \in 0..Len(frames) /\ Len(frames) \in Nat
      /\ head \in Int /\ maxSeqSent \in Int /\ maxSeqSent' \in Int
      /\ \A i \in 1..Len(outbox') : outbox'[i].seq \in Int
      /\ \A r \in 1..Len(received) : received[r] \in Int
      /\ InRow => inFlight.seq \in Int
  <2>1. old \in Nat /\ k \in 0..Len(frames) /\ Len(frames) \in Nat
    BY <1>3
  <2>2. head \in Int /\ maxSeqSent \in Int /\ maxSeqSent' \in Int
    BY JournalAssumption DEF IInv, TypeOK
  <2>3. \A i \in 1..Len(outbox') : outbox'[i].seq \in Int
    <3>1. \A frame \in Frames : frame.seq \in Int
      BY DEF Frames
    <3>2. \A i \in 1..Len(outbox') : outbox'[i] \in Frames
      BY <1>2
    <3> QED BY ONLY <3>1, <3>2
  <2>4. \A r \in 1..Len(received) : received[r] \in Int
    <3>1. received \in Seq(1..head)
      BY DEF IInv, TypeOK
    <3> QED BY ONLY <3>1, <2>2
  <2>5. InRow => inFlight.seq \in Int
    BY DEF IInv, TypeOK, Frames, InRow
  <2> QED BY <2>1, <2>2, <2>3, <2>4, <2>5
<1> HIDE DEF old
<1>5. ASSUME NEW i \in 1..old, RowAt(i)'
      PROVE  RowAt(i) /\ outbox'[i] = outbox[i]
  BY <1>3, <1>5 DEF RowAt, IsRow, old
<1>6. ASSUME NEW i \in 1..Len(outbox'), i > old, RowAt(i)'
      PROVE  /\ i - old \in 1..Len(frames)
             /\ outbox'[i] = frames[i - old]
             /\ IsRow(frames[i - old])
  <2>1. i \in (old + 1)..(old + k) /\ i - old \in 1..Len(frames)
    BY <1>3, <1>4, <1>6
  <2> QED BY ONLY <2>1, <1>3, <1>6 DEF RowAt, IsRow
<1>7. ASSUME NEW i \in 1..Len(outbox'), RowAt(i)'
      PROVE  /\ outbox'[i].seq \in 1..head
             /\ outbox'[i].seq <= maxSeqSent'
             /\ i > old => outbox'[i].seq > maxSeqSent
             /\ i <= old => /\ i \in 1..old
                            /\ RowAt(i)
                            /\ outbox'[i] = outbox[i]
                            /\ outbox'[i].seq <= maxSeqSent
  <2>1. CASE i \in 1..old
    <3>1. RowAt(i) /\ outbox'[i] = outbox[i]
      BY <1>5, <1>7, <2>1
    <3>2. outbox[i].seq \in 1..head /\ outbox[i].seq <= maxSeqSent
      BY <3>1, <2>1 DEF IInv, StoreFirst, old
    <3> QED BY <3>1, <3>2, <2>1, <1>4
  <2>2. CASE i > old
    BY <1>4, <1>6, <1>7, <2>2
  <2> QED BY <2>1, <2>2, <1>2, <1>4
<1>8. InRow' => InRow /\ inFlight' = inFlight
  BY DEF InRow, IsRow
<1>9. ASSUME NEW i \in 1..Len(outbox'), NEW j \in 1..Len(outbox'),
             RowAt(i)', RowAt(j)', i < j
      PROVE  outbox'[i].seq < outbox'[j].seq
  <2>1. CASE j <= old
    <3>1. i <= old
      BY <2>1, <1>2, <1>4, <1>9
    <3> QED BY <3>1, <2>1, <1>7, <1>9 DEF IInv, Ascending, old
  <2>2. CASE i <= old /\ j > old
    <3>1. outbox'[i].seq \in Int /\ outbox'[i].seq <= maxSeqSent
      BY <2>2, <1>4, <1>7, <1>9
    <3>2. outbox'[j].seq \in Int /\ outbox'[j].seq > maxSeqSent
      BY <2>2, <1>4, <1>7, <1>9
    <3>3. maxSeqSent \in Int
      BY <1>4
    <3> QED BY ONLY <3>1, <3>2, <3>3
  <2>3. CASE i > old
    <3>1. j > old /\ i - old < j - old
      BY <2>3, <1>2, <1>4, <1>9
    <3> QED BY <3>1, <2>3, <1>6, <1>9
  <2> QED BY <2>1, <2>2, <2>3, <1>2, <1>4
<1>10. ASSUME NEW i \in 1..Len(outbox'), RowAt(i)', InRow'
       PROVE  inFlight'.seq < outbox'[i].seq
  <2>1. InRow /\ inFlight' = inFlight /\ inFlight.seq <= maxSeqSent
    BY <1>8, <1>10 DEF IInv, StoreFirst
  <2>2. CASE i <= old
    BY <2>1, <2>2, <1>7, <1>10 DEF IInv, Ascending, old
  <2>3. CASE i > old
    BY <2>1, <2>3, <1>4, <1>7, <1>10
  <2> QED BY <2>2, <2>3, <1>2, <1>4
<1>11. ASSUME NEW r \in 1..Len(received')
       PROVE  /\ received'[r] <= maxSeqSent'
              /\ InRow' => received'[r] < inFlight'.seq
              /\ \A i \in 1..Len(outbox') : RowAt(i)' => received'[r] < outbox'[i].seq
  <2>1. /\ received' = received /\ r \in 1..Len(received)
        /\ received[r] \in Int /\ received[r] <= maxSeqSent
    BY <1>4 DEF IInv, Ascending
  <2>2. received'[r] <= maxSeqSent'
    BY <2>1, <1>4
  <2>3. InRow' => received'[r] < inFlight'.seq
    BY <2>1, <1>8 DEF IInv, Ascending
  <2>4. ASSUME NEW i \in 1..Len(outbox'), RowAt(i)'
        PROVE  received'[r] < outbox'[i].seq
    <3>1. CASE i <= old
      BY <3>1, <2>1, <2>4, <1>7 DEF IInv, Ascending, old
    <3>2. CASE i > old
      <4>1. maxSeqSent < outbox'[i].seq /\ outbox'[i].seq \in Int
        BY <3>2, <2>4, <1>4, <1>7
      <4> QED BY <4>1, <2>1, <1>4
    <3> QED BY <3>1, <3>2, <1>2, <1>4
  <2> QED BY <2>2, <2>3, <2>4
<1>12. RowsAscend'
  BY DEF IInv, Ascending, RowsAscend
<1>13. Ascending'
  BY <1>9, <1>10, <1>11, <1>12 DEF Ascending
<1>14. InRow' => inFlight'.seq \in 1..head /\ inFlight'.seq <= maxSeqSent'
  BY <1>4, <1>8 DEF IInv, StoreFirst
<1> QED BY <1>2, <1>7, <1>13, <1>14

(* A step that leaves the pipeline alone, or forgets what was received,    *)
(* keeps its order; the journal may grow meanwhile.                        *)
LEMMA PipelineUntouched ==
  ASSUME IInv, UNCHANGED <<outbox, inFlight, maxSeqSent>>,
         received' = received \/ received' = <<>>,
         head' \in Int, head <= head'
  PROVE  /\ Ascending'
         /\ \A i \in 1..Len(outbox') :
              RowAt(i)' => /\ outbox'[i].seq \in 1..head'
                           /\ outbox'[i].seq <= maxSeqSent'
         /\ InRow' => inFlight'.seq \in 1..head' /\ inFlight'.seq <= maxSeqSent'
<1>1. head \in Int
  BY JournalAssumption DEF IInv, TypeOK
<1>2. \A i : RowAt(i)' => RowAt(i)
  BY DEF RowAt, IsRow
<1>3. InRow' => InRow
  BY DEF InRow, IsRow
<1>4. CASE received' = received
  BY <1>1, <1>2, <1>3, <1>4 DEF IInv, StoreFirst, Ascending, RowsAscend
<1>5. CASE received' = <<>>
  BY <1>1, <1>2, <1>3, <1>5 DEF IInv, StoreFirst, Ascending, RowsAscend
<1> QED BY <1>4, <1>5

(* A socket that is gone has an empty pipeline.                            *)
LEMMA SocketEndsIInv ==
  ASSUME IInv, SocketEnds, mustHydrate' \in BOOLEAN, drops' \in 0..MaxDrops
  PROVE  IInv'
<1> USE DEF IInv, SocketEnds
<1>1. TypeOK'
  <2>1. /\ outbox' \in Seq(Frames)
        /\ Len(outbox') <= SEND_QUEUE_SIZE
        /\ channel' \in Seq(1..head')
        /\ received' \in Seq(1..head')
    BY QueueAssumption
  <2>2. /\ greeting' \in -1..MaxSeq
        /\ lastSeq' \in 0..MaxSeq
        /\ serverSeq' \in 0..head'
        /\ hellos' \in 0..MaxHellos
    BY JournalAssumption DEF TypeOK
  <2> QED BY <2>1, <2>2 DEF TypeOK
<1>2. StoreFirst'
  BY JournalAssumption DEF StoreFirst, TypeOK, RowAt, InRow
<1>3. Ascending'
  BY DEF Ascending, RowsAscend
<1> QED BY <1>1, <1>2, <1>3

(* The three conditions hold when nothing was committed yet.               *)
THEOREM InitIInv == Init => IInv
<1> SUFFICES ASSUME Init PROVE IInv
  OBVIOUS
<1> USE DEF Init, QueueInit, SocketInit
<1>1. TypeOK
  <2>1. /\ outbox \in Seq(Frames)
        /\ Len(outbox) <= SEND_QUEUE_SIZE
        /\ channel \in Seq(1..head)
        /\ received \in Seq(1..head)
    BY QueueAssumption
  <2>2. /\ head \in 0..MaxSeq
        /\ greeting \in -1..MaxSeq
        /\ lastSeq \in 0..MaxSeq
        /\ serverSeq \in 0..head
        /\ hellos \in 0..MaxHellos
        /\ drops \in 0..MaxDrops
    BY JournalAssumption
  <2> QED BY <2>1, <2>2 DEF TypeOK
<1>2. StoreFirst
  BY DEF StoreFirst, RowAt, InRow
<1>3. Ascending
  BY DEF Ascending, RowsAscend
<1> QED BY <1>1, <1>2, <1>3 DEF IInv

-----------------------------------------------------------------------------
(* A longer journal holds the rows of a shorter one.                       *)
LEMMA JournalGrows ==
  ASSUME NEW m \in Int, NEW n \in Int, m <= n
  PROVE  /\ 1..m \subseteq 1..n
         /\ \A q \in Seq(1..m) : q \in Seq(1..n)
<1>1. 1..m \subseteq 1..n
  OBVIOUS
<1> QED BY <1>1

(* Commit: the journal grows under everything else.                        *)
LEMMA CommitIInv == IInv /\ Commit => IInv'
<1> SUFFICES ASSUME IInv, Commit PROVE IInv'
  OBVIOUS
<1>1. /\ head \in Int /\ MaxSeq \in Int /\ head' \in Int /\ head <= head'
      /\ head' \in 0..MaxSeq
      /\ UNCHANGED <<queueVars, helloVars, clientVars, channel, connected>>
  BY JournalAssumption DEF IInv, TypeOK, Commit
<1> USE DEF queueVars, helloVars, clientVars
<1>2. 1..head \subseteq 1..head' /\ \A q \in Seq(1..head) : q \in Seq(1..head')
  BY <1>1, JournalGrows
<1>3. TypeOK'
  <2>1. /\ unsent' \subseteq 1..head'
        /\ have' \subseteq 1..head'
        /\ channel' \in Seq(1..head')
        /\ received' \in Seq(1..head')
        /\ serverSeq' \in 0..head'
    BY <1>1, <1>2 DEF IInv, TypeOK, Commit
  <2> QED BY <1>1, <2>1 DEF IInv, TypeOK
<1>4. /\ lastSeq' <= head' /\ greeting' <= head' /\ maxSeqSent' <= head'
  BY <1>1, JournalAssumption DEF IInv, StoreFirst, TypeOK
<1>5. StoreFirst' /\ Ascending'
  BY <1>1, <1>4, PipelineUntouched DEF StoreFirst
<1> QED BY <1>3, <1>5 DEF IInv

(* The steps of the channel layer, the client and the network.             *)
LEMMA OutsideIInv ==
  IInv /\ (DeliverFrame \/ FrameLost \/ Connect \/ ClientHello \/ Hydrate) => IInv'
<1> SUFFICES ASSUME IInv, DeliverFrame \/ FrameLost \/ Connect \/ ClientHello \/ Hydrate
             PROVE  IInv'
  OBVIOUS
<1> USE DEF queueVars, helloVars, clientVars, journalVars
<1>1. /\ UNCHANGED <<outbox, inFlight, maxSeqSent, head, lastSeq>>
      /\ received' = received \/ received' = <<>>
  BY DEF DeliverFrame, FrameLost, Connect, ClientHello, Hydrate
<1>2. head \in Int /\ MaxSeq \in Int
  BY JournalAssumption DEF IInv, TypeOK
<1>3. greeting' \in -1..MaxSeq /\ greeting' <= head
  <2>1. CASE greeting' = greeting
    BY <2>1 DEF IInv, TypeOK, StoreFirst
  <2>2. CASE ClientHello
    <3>1. PICK n \in 0..MaxSeq : Holds(n) /\ greeting' = n
      BY <2>2 DEF ClientHello
    <3>2. n = 0 \/ n \in 1..head
      BY <3>1, <1>2 DEF Holds, IInv, TypeOK
    <3> QED BY <3>1, <3>2, <1>2 DEF IInv, TypeOK
  <2> QED BY <2>1, <2>2 DEF DeliverFrame, FrameLost, Connect, Hydrate
<1>4. StoreFirst' /\ Ascending'
  BY <1>1, <1>2, <1>3, PipelineUntouched DEF StoreFirst, IInv
<1>5. TypeOK'
  <2>1. unsent' \subseteq 1..head' /\ have' \subseteq 1..head'
    BY <1>1 DEF IInv, TypeOK, DeliverFrame, FrameLost, Connect, ClientHello, Hydrate
  <2>2. channel' \in Seq(1..head')
    <3>1. CASE channel' = channel
      BY <3>1, <1>1 DEF IInv, TypeOK
    <3>2. CASE DeliverFrame
      BY <3>2, <1>1 DEF IInv, TypeOK, DeliverFrame
    <3> QED BY <3>1, <3>2 DEF FrameLost, Connect, ClientHello, Hydrate
  <2>3. received' \in Seq(1..head')
    <3>1. received \in Seq(1..head) /\ head' = head
      BY <1>1 DEF IInv, TypeOK
    <3>2. <<>> \in Seq(1..head)
      OBVIOUS
    <3>3. received' = received \/ received' = <<>>
      BY <1>1
    <3> QED BY ONLY <3>1, <3>2, <3>3
  <2>4. hellos' \in 0..MaxHellos
    <3>1. hellos' = hellos \/ (hellos < MaxHellos /\ hellos' = hellos + 1)
      BY DEF DeliverFrame, FrameLost, Connect, ClientHello, Hydrate
    <3> QED BY <3>1, JournalAssumption DEF IInv, TypeOK
  <2>5. writer' \in {"none", "running"} /\ connected' \in BOOLEAN /\ mustHydrate' \in BOOLEAN
    BY DEF IInv, TypeOK, DeliverFrame, FrameLost, Connect, ClientHello, Hydrate
  <2>6. UNCHANGED <<closing, code, lastSent, gone, handler, serverSeq, clean, drops>>
    BY DEF DeliverFrame, FrameLost, Connect, ClientHello, Hydrate
  <2> QED BY <1>1, <1>3, <2>1, <2>2, <2>3, <2>4, <2>5, <2>6 DEF IInv, TypeOK
<1> QED BY <1>4, <1>5 DEF IInv

(* The end of a socket.                                                    *)
LEMMA EndIInv == IInv /\ (Closed \/ Drop \/ Retry) => IInv'
<1> SUFFICES ASSUME IInv, Closed \/ Drop \/ Retry PROVE IInv'
  OBVIOUS
<1>1. SocketEnds
  BY DEF Closed, Drop, Retry
<1>2. mustHydrate' \in BOOLEAN /\ drops' \in 0..MaxDrops
  BY JournalAssumption DEF IInv, TypeOK, Closed, Drop, Retry
<1> QED BY <1>1, <1>2, SocketEndsIInv

(* The hello starts with what the client holds.                            *)
LEMMA HelloStartIInv == IInv /\ HelloStart => IInv'
<1> SUFFICES ASSUME IInv, HelloStart PROVE IInv'
  OBVIOUS
<1> USE DEF queueVars, journalVars
<1>1. /\ UNCHANGED <<outbox, inFlight, maxSeqSent, head, received>>
      /\ lastSeq' \in 0..MaxSeq /\ lastSeq' <= head
      /\ greeting' \in -1..MaxSeq /\ greeting' <= head
      /\ handler' = "seq"
  BY JournalAssumption DEF HelloStart, IInv, TypeOK, StoreFirst
<1>2. head \in Int
  BY JournalAssumption DEF IInv, TypeOK
<1>3. StoreFirst' /\ Ascending'
  BY <1>1, <1>2, PipelineUntouched DEF StoreFirst, IInv
<1>4. TypeOK'
  BY <1>1 DEF IInv, TypeOK, HelloStart
<1> QED BY <1>3, <1>4 DEF IInv

-----------------------------------------------------------------------------
(* The steps that queue frames: what is left of IInv once EnqueueKeepsOrder *)
(* has seen to the pipeline.                                               *)
LEMMA QueuedIInv ==
  ASSUME IInv, NEW frames \in Seq(Frames), EnqueueAll(frames),
         UNCHANGED <<inFlight, writer, lastSent, gone, lastSeq, head, unsent,
                     clientVars, connected>>,
         channel' \in Seq(1..head), handler' \in {"idle", "seq", "rows"},
         serverSeq' \in 0..head, clean' \in BOOLEAN,
         maxSeqSent' \in Nat, maxSeqSent <= maxSeqSent', maxSeqSent' <= head,
         \A i \in 1..Len(frames) :
           IsRow(frames[i]) => /\ frames[i].seq \in 1..head
                               /\ maxSeqSent < frames[i].seq
                               /\ frames[i].seq <= maxSeqSent',
         \A i, j \in 1..Len(frames) :
           (IsRow(frames[i]) /\ IsRow(frames[j]) /\ i < j)
             => frames[i].seq < frames[j].seq
  PROVE  IInv'
<1>1. /\ outbox' \in Seq(Frames)
      /\ Len(outbox') <= SEND_QUEUE_SIZE
      /\ Ascending'
      /\ \A i \in 1..Len(outbox') :
           RowAt(i)' => /\ outbox'[i].seq \in 1..head
                        /\ outbox'[i].seq <= maxSeqSent'
      /\ InRow' => inFlight'.seq \in 1..head /\ inFlight'.seq <= maxSeqSent'
  BY EnqueueKeepsOrder DEF clientVars
<1>2. closing' \in BOOLEAN /\ code' \in {CLOSE_OVERFLOW, NoCode}
  BY DEF EnqueueAll, CloseCode, IInv, TypeOK
<1>3. TypeOK'
  BY <1>1, <1>2 DEF IInv, TypeOK, clientVars
<1>4. StoreFirst'
  BY <1>1 DEF StoreFirst, IInv, clientVars
<1> QED BY <1>1, <1>3, <1>4 DEF IInv

(* A live frame is queued above the cursor or not at all (send_frame).     *)
LEMMA RealtimeFrameIInv == IInv /\ RealtimeFrame => IInv'
<1> SUFFICES ASSUME IInv, RealtimeFrame PROVE IInv'
  OBVIOUS
<1> DEFINE n == Head(channel)
<1>1. /\ n \in 1..head /\ channel' \in Seq(1..head)
  BY TailOfQueue DEF RealtimeFrame, IInv, TypeOK
<1>2. head \in Int /\ maxSeqSent \in Nat
  BY JournalAssumption DEF IInv, TypeOK
<1>3. CASE n <= maxSeqSent
  <2>1. UNCHANGED <<queueVars, helloVars, head, unsent, clientVars, connected>>
    BY <1>3 DEF RealtimeFrame, queueVars, helloVars
  <2> USE DEF queueVars, helloVars, clientVars
  <2>2. StoreFirst' /\ Ascending'
    BY <2>1, <1>2, PipelineUntouched DEF StoreFirst, IInv
  <2>3. TypeOK'
    BY <2>1, <1>1 DEF IInv, TypeOK
  <2> QED BY <2>2, <2>3 DEF IInv
<1>4. CASE n > maxSeqSent
  <2>1. /\ maxSeqSent' = n
        /\ EnqueueAll(<<Row("live", n)>>)
    BY <1>1, <1>2, <1>4 DEF RealtimeFrame
  <2> DEFINE frames == <<Row("live", n)>>
  <2>2. Row("live", n) \in Frames
    BY <1>1, <1>2, FrameTypesOK DEF FrameTypes
  <2>3. frames \in Seq(Frames) /\ Len(frames) = 1 /\ frames[1] = Row("live", n)
    BY <2>2
  <2>4. Row("live", n).seq = n
    BY DEF Row
  <2>5. /\ \A i \in 1..Len(frames) : frames[i].seq = n
        /\ \A i, j \in 1..Len(frames) : ~(i < j)
    BY <2>3, <2>4
  <2>6. /\ UNCHANGED <<inFlight, writer, lastSent, gone, lastSeq, head, unsent,
                        clientVars, connected, handler, serverSeq, clean>>
        /\ handler' \in {"idle", "seq", "rows"}
        /\ serverSeq' \in 0..head
        /\ clean' \in BOOLEAN
    BY DEF RealtimeFrame, IInv, TypeOK
  <2>7. maxSeqSent' \in Nat /\ maxSeqSent <= maxSeqSent' /\ maxSeqSent' <= head
    BY <2>1, <1>1, <1>2, <1>4
  <2> HIDE DEF frames
  <2>8. EnqueueAll(frames)
    BY <2>1 DEF frames
  <2>9. \A i \in 1..Len(frames) : /\ frames[i].seq \in 1..head
                                   /\ maxSeqSent < frames[i].seq
                                   /\ frames[i].seq <= maxSeqSent'
    BY <2>1, <2>5, <1>1, <1>2, <1>4
  <2> QED BY <1>1, <2>3, <2>5, <2>6, <2>7, <2>8, <2>9, QueuedIInv
<1> QED BY <1>1, <1>2, <1>3, <1>4

(* The welcome and the resync carry no row; the cursor only advances.      *)
LEMMA HelloServerSeqIInv == IInv /\ HelloServerSeq => IInv'
<1> SUFFICES ASSUME IInv, HelloServerSeq PROVE IInv'
  OBVIOUS
<1>1. PICK frames \in {<<Plain("welcome"), Plain("resync")>>, <<Plain("welcome")>>} :
        EnqueueAll(frames)
  BY DEF HelloServerSeq
<1>2. Plain("welcome") \in Frames /\ Plain("resync") \in Frames
  BY FrameTypesOK DEF FrameTypes
<1>3. frames \in Seq(Frames)
  <2>1. CASE frames = <<Plain("welcome")>>
    BY <1>2, <2>1
  <2>2. CASE frames = <<Plain("welcome"), Plain("resync")>>
    BY <1>2, <2>2
  <2> QED BY <1>1, <2>1, <2>2
<1>4. ~IsRow(Plain("welcome")) /\ ~IsRow(Plain("resync"))
  BY DEF Plain, IsRow
<1>5. \A i \in 1..Len(frames) : ~IsRow(frames[i])
  BY <1>1, <1>4
<1>6. /\ head \in Nat /\ maxSeqSent \in Nat /\ lastSeq \in Nat
      /\ maxSeqSent <= head /\ lastSeq <= head
  BY JournalAssumption DEF IInv, TypeOK, StoreFirst
<1>7. maxSeqSent' \in Nat /\ maxSeqSent <= maxSeqSent' /\ maxSeqSent' <= head
  BY <1>6 DEF HelloServerSeq, Greatest
<1>8. /\ UNCHANGED <<inFlight, writer, lastSent, gone, lastSeq, head, unsent,
                      clientVars, connected>>
      /\ channel' \in Seq(1..head)
      /\ handler' \in {"idle", "seq", "rows"}
  BY DEF HelloServerSeq, journalVars, IInv, TypeOK
<1>9. serverSeq' \in 0..head /\ clean' \in BOOLEAN
  BY <1>6 DEF HelloServerSeq
<1> QED BY <1>1, <1>3, <1>5, <1>7, <1>8, <1>9, QueuedIInv

(* The replay is queued above the cursor and ascends; then replay_done.    *)
LEMMA HelloRowsIInv == IInv /\ HelloRows => IInv'
<1> SUFFICES ASSUME IInv, HelloRows PROVE IInv'
  OBVIOUS
<1> DEFINE done == Done(serverSeq, clean)
           frames == Append(ReplayFrames, done)
           n == Len(ReplayFrames)
<1>1. /\ head \in Nat /\ maxSeqSent \in Nat /\ maxSeqSent <= head
      /\ serverSeq \in Nat /\ clean \in BOOLEAN
  BY JournalAssumption DEF IInv, TypeOK, StoreFirst
<1>2. /\ ReplayFrames \in Seq(Frames)
      /\ \A i \in 1..n : /\ ReplayFrames[i].seq = maxSeqSent + i
                          /\ ReplayFrames[i].seq <= LastReplayed
      /\ LastReplayed \in Int /\ LastReplayed <= head
  BY ReplayFramesAre DEF IInv
<1>3. done \in Frames /\ ~IsRow(done)
  BY <1>1, FrameTypesOK DEF Done, IsRow
<1>4. EnqueueAll(frames) /\ maxSeqSent' = Greatest(maxSeqSent, LastReplayed)
  BY DEF HelloRows
<1> HIDE DEF done
<1>5. /\ frames \in Seq(Frames) /\ Len(frames) = n + 1 /\ n \in Nat
      /\ \A i \in 1..n : frames[i] = ReplayFrames[i]
      /\ frames[n + 1] = done
  BY <1>2, <1>3
<1>6. /\ maxSeqSent' \in Nat /\ maxSeqSent <= maxSeqSent' /\ maxSeqSent' <= head
      /\ LastReplayed <= maxSeqSent'
  BY <1>1, <1>2, <1>4 DEF Greatest
<1> HIDE DEF frames, n
<1>7. ASSUME NEW i \in 1..Len(frames), IsRow(frames[i])
      PROVE  /\ i \in 1..n
             /\ frames[i].seq = maxSeqSent + i
             /\ frames[i].seq <= LastReplayed
  BY <1>2, <1>3, <1>5, <1>7
<1>8. \A i \in 1..Len(frames) :
        IsRow(frames[i]) => /\ frames[i].seq \in 1..head
                            /\ maxSeqSent < frames[i].seq
                            /\ frames[i].seq <= maxSeqSent'
  BY <1>1, <1>2, <1>5, <1>6, <1>7
<1>9. \A i, j \in 1..Len(frames) :
        (IsRow(frames[i]) /\ IsRow(frames[j]) /\ i < j)
          => frames[i].seq < frames[j].seq
  <2>1. ASSUME NEW i \in 1..Len(frames), NEW j \in 1..Len(frames),
               IsRow(frames[i]), IsRow(frames[j]), i < j
        PROVE  frames[i].seq < frames[j].seq
    <3>1. frames[i].seq = maxSeqSent + i /\ frames[j].seq = maxSeqSent + j
      BY <1>7, <2>1
    <3> QED BY <3>1, <2>1, <1>1, <1>5
  <2> QED BY <2>1
<1>10. /\ UNCHANGED <<inFlight, writer, lastSent, gone, lastSeq, head, unsent,
                       clientVars, connected>>
       /\ channel' \in Seq(1..head)
       /\ handler' \in {"idle", "seq", "rows"}
       /\ serverSeq' \in 0..head
       /\ clean' \in BOOLEAN
  BY DEF HelloRows, journalVars, IInv, TypeOK
<1> QED BY <1>4, <1>5, <1>6, <1>8, <1>9, <1>10, QueuedIInv

-----------------------------------------------------------------------------
(* The writer moves the first frame of the outbox into its hand.           *)
LEMMA TakeFrameIInv == IInv /\ TakeFrame => IInv'
<1> SUFFICES ASSUME IInv, TakeFrame PROVE IInv'
  OBVIOUS
<1> USE DEF helloVars, journalVars, clientVars
<1>1. /\ inFlight = NoFrame /\ outbox \in Seq(Frames) /\ outbox # <<>>
      /\ inFlight' = Head(outbox) /\ outbox' = Tail(outbox)
      /\ UNCHANGED <<writer, closing, code, lastSent, gone, helloVars,
                     journalVars, clientVars, connected>>
  BY DEF TakeFrame, WriterTake, IInv, TypeOK
<1>2. /\ inFlight' = outbox[1] /\ inFlight' \in Frames
      /\ outbox' \in Seq(Frames)
      /\ Len(outbox') = Len(outbox) - 1 /\ Len(outbox) \in Nat
      /\ \A i \in 1..Len(outbox') : outbox'[i] = outbox[i + 1]
  BY <1>1, TailOfQueue
<1>3. TypeOK'
  BY <1>1, <1>2, QueueAssumption DEF IInv, TypeOK
<1>4. ASSUME NEW i \in 1..Len(outbox'), RowAt(i)'
      PROVE  /\ i + 1 \in 1..Len(outbox) /\ RowAt(i + 1)
             /\ outbox'[i] = outbox[i + 1]
  BY <1>2, <1>4 DEF RowAt, IsRow
<1>5. InRow' => /\ 1 \in 1..Len(outbox) /\ RowAt(1) /\ inFlight' = outbox[1]
  <2>1. 1 \in 1..Len(outbox)
    BY <1>1, <1>2
  <2> QED BY <2>1, <1>2 DEF InRow, RowAt, IsRow
<1>6. StoreFirst'
  BY <1>1, <1>4, <1>5 DEF IInv, StoreFirst
<1>7. ASSUME NEW i \in 1..Len(outbox'), NEW j \in 1..Len(outbox'),
             RowAt(i)', RowAt(j)', i < j
      PROVE  outbox'[i].seq < outbox'[j].seq
  <2>1. i + 1 < j + 1
    BY <1>2, <1>7
  <2> QED BY <2>1, <1>4, <1>7 DEF IInv, Ascending
<1>8. ASSUME NEW i \in 1..Len(outbox'), InRow', RowAt(i)'
      PROVE  inFlight'.seq < outbox'[i].seq
  <2>1. 1 < i + 1
    BY <1>2
  <2> QED BY <2>1, <1>4, <1>5, <1>8 DEF IInv, Ascending
<1>9. ASSUME NEW r \in 1..Len(received')
      PROVE  /\ received'[r] <= maxSeqSent'
             /\ InRow' => received'[r] < inFlight'.seq
             /\ \A i \in 1..Len(outbox') : RowAt(i)' => received'[r] < outbox'[i].seq
  BY <1>1, <1>4, <1>5 DEF IInv, Ascending
<1>10. RowsAscend'
  BY <1>1 DEF IInv, Ascending, RowsAscend
<1>11. Ascending'
  BY <1>7, <1>8, <1>9, <1>10 DEF Ascending
<1> QED BY <1>3, <1>6, <1>11 DEF IInv

(* The writer's send returns: the row, if any, is now the last received.   *)
LEMMA SendFrameIInv == IInv /\ SendFrame => IInv'
<1> SUFFICES ASSUME IInv, SendFrame PROVE IInv'
  OBVIOUS
<1> USE DEF helloVars, journalVars
<1>1. /\ inFlight # NoFrame /\ inFlight' = NoFrame
      /\ UNCHANGED <<outbox, writer, closing, code, gone, helloVars,
                     journalVars, greeting, hellos, drops, connected>>
  BY DEF SendFrame, WriterSend
<1>2. ~InRow'
  BY <1>1 DEF InRow
<1>3. \A i : RowAt(i)' => RowAt(i)
  BY <1>1 DEF RowAt, IsRow
<1>4. StoreFirst'
  BY <1>1, <1>2, <1>3 DEF IInv, StoreFirst
<1>5. lastSent' \in Frames \cup {NoFrame} /\ mustHydrate' \in BOOLEAN
  BY <1>1 DEF SendFrame, WriterSend, IInv, TypeOK
<1>6. CASE UNCHANGED <<have, received>>
  <2>1. TypeOK'
    BY <1>1, <1>5, <1>6 DEF IInv, TypeOK
  <2>2. Ascending'
    BY <1>1, <1>2, <1>3, <1>6 DEF IInv, Ascending, RowsAscend
  <2> QED BY <1>4, <2>1, <2>2 DEF IInv
<1>7. CASE /\ InRow
           /\ have' = have \cup {inFlight.seq}
           /\ received' = Append(received, inFlight.seq)
  <2> DEFINE n == Len(received)
  <2>1. inFlight.seq \in 1..head /\ inFlight.seq <= maxSeqSent /\ head \in Int
    BY <1>7, JournalAssumption DEF IInv, StoreFirst, TypeOK
  <2>2. received \in Seq(1..head)
    BY DEF IInv, TypeOK
  <2>3. /\ received' \in Seq(1..head) /\ Len(received') = n + 1 /\ n \in Nat
        /\ \A r \in 1..n : received'[r] = received[r]
        /\ received'[n + 1] = inFlight.seq
    BY <1>7, <2>1, <2>2
  <2>4. TypeOK'
    BY <1>1, <1>5, <1>7, <2>1, <2>3 DEF IInv, TypeOK
  <2> HIDE DEF n
  <2>5. \A r \in 1..n : /\ received[r] <= maxSeqSent
                        /\ received[r] < inFlight.seq
                        /\ \A i \in 1..Len(outbox) : RowAt(i) => received[r] < outbox[i].seq
    BY <1>7 DEF IInv, Ascending, n
  <2>6. \A i, j \in 1..n : i < j => received[i] < received[j]
    BY DEF IInv, Ascending, RowsAscend, n
  <2>7. \A i \in 1..Len(outbox) : RowAt(i) => inFlight.seq < outbox[i].seq
    BY <1>7 DEF IInv, Ascending
  <2>8. RowsAscend'
    BY <2>3, <2>5, <2>6 DEF RowsAscend
  <2>9. ASSUME NEW r \in 1..Len(received')
        PROVE  /\ received'[r] <= maxSeqSent'
               /\ \A i \in 1..Len(outbox') : RowAt(i)' => received'[r] < outbox'[i].seq
    <3>1. CASE r \in 1..n
      BY <3>1, <2>3, <2>5, <1>1, <1>3
    <3>2. CASE r = n + 1
      BY <3>2, <2>1, <2>3, <2>7, <1>1, <1>3
    <3> QED BY <3>1, <3>2, <2>3
  <2>10. Ascending'
    BY <1>1, <1>2, <1>3, <2>8, <2>9 DEF IInv, Ascending
  <2> QED BY <1>4, <2>4, <2>10 DEF IInv
<1> QED BY <1>1, <1>6, <1>7 DEF SendFrame, InRow

-----------------------------------------------------------------------------
(* Every step keeps the invariant.                                         *)
THEOREM NextIInv == IInv /\ [Next]_vars => IInv'
<1> SUFFICES ASSUME IInv, [Next]_vars PROVE IInv'
  OBVIOUS
<1>1. CASE Commit
  BY <1>1, CommitIInv
<1>2. CASE DeliverFrame \/ FrameLost \/ Connect \/ ClientHello \/ Hydrate
  BY <1>2, OutsideIInv
<1>3. CASE RealtimeFrame
  BY <1>3, RealtimeFrameIInv
<1>4. CASE HelloStart
  BY <1>4, HelloStartIInv
<1>5. CASE HelloServerSeq
  BY <1>5, HelloServerSeqIInv
<1>6. CASE HelloRows
  BY <1>6, HelloRowsIInv
<1>7. CASE TakeFrame
  BY <1>7, TakeFrameIInv
<1>8. CASE SendFrame
  BY <1>8, SendFrameIInv
<1>9. CASE Closed \/ Drop \/ Retry
  BY <1>9, EndIInv
<1>10. CASE UNCHANGED vars
  BY <1>10 DEF vars, queueVars, helloVars, journalVars, clientVars, IInv, TypeOK,
               StoreFirst, Ascending, RowsAscend, RowAt, InRow, IsRow
<1> QED BY <1>1, <1>2, <1>3, <1>4, <1>5, <1>6, <1>7, <1>8, <1>9, <1>10 DEF Next

(* The invariant of the resumable stream, for every queue size, replay     *)
(* window and journal.                                                     *)
THEOREM Inductive == Spec => []IInv
  BY InitIInv, NextIInv, PTL DEF Spec

(* Every variable keeps its type, and the outbox its bound.                *)
THEOREM TypeCorrect == Spec => []TypeOK
<1>1. IInv => TypeOK
  BY DEF IInv
<1> QED BY <1>1, Inductive, PTL

(* No interleaving of replays, live frames in any order, repeated hellos   *)
(* and overflows makes one socket deliver a row twice or go back           *)
(* (send_frame's dedup and on_hello's).                                    *)
THEOREM RowsAlwaysAscend == Spec => []RowsAscend
<1>1. IInv => RowsAscend
  BY DEF IInv, Ascending
<1> QED BY <1>1, Inductive, PTL

-----------------------------------------------------------------------------
(* The inductive invariant behind CleanHelloCatchesUp.                     *)

(* What a hello says it has, the client has; a hello that asked for rows   *)
(* fits the window, and if it was clean nothing came between; a socket     *)
(* that refuses frames was closed.                                         *)
Known ==
  /\ greeting >= 0 => Holds(greeting)
  /\ handler # "idle" => Holds(lastSeq)
  /\ handler = "rows" =>
       /\ serverSeq <= lastSeq + MAX_REPLAY
       /\ clean => maxSeqSent = lastSeq
  /\ closing => code # NoCode

IsDone(frame) == frame.type = "replay_done" /\ frame.clean

(* The client has the row, or gets it before the i-th frame of the outbox. *)
Coming(n, i) ==
  \/ n \in have
  \/ InRow /\ inFlight.seq = n
  \/ \E j \in 1..(i - 1) : RowAt(j) /\ outbox[j].seq = n

(* On a socket not closed yet, every row a replay_done vouches for is ahead *)
(* of it.                                                                  *)
Promised ==
  code = NoCode =>
    /\ \A i \in 1..Len(outbox) :
         IsDone(outbox[i]) => \A n \in 1..outbox[i].seq : Coming(n, i)
    /\ (inFlight # NoFrame /\ IsDone(inFlight)) => Holds(inFlight.seq)

CatchUpInv == IInv /\ Known /\ Promised /\ CleanHelloCatchesUp

(* A step that leaves the pipeline alone keeps what it promised.           *)
LEMMA PromiseKept ==
  ASSUME Promised, CleanHelloCatchesUp, have \subseteq have',
         UNCHANGED <<outbox, inFlight, code, lastSent>>
  PROVE  Promised' /\ CleanHelloCatchesUp'
<1>1. \A n : Holds(n) => Holds(n)'
  BY DEF Holds
<1>2. \A n, i : Coming(n, i) => Coming(n, i)'
  BY DEF Coming, InRow, RowAt, IsRow
<1> QED BY <1>1, <1>2 DEF Promised, CleanHelloCatchesUp, IsDone

(* Frames that vouch for no more than what the client has and what precedes *)
(* them may be queued: all of them are, or the socket is closed.           *)
LEMMA PromiseQueued ==
  ASSUME IInv, Known, Promised, CleanHelloCatchesUp,
         NEW frames \in Seq(Frames), EnqueueAll(frames),
         UNCHANGED <<inFlight, lastSent, gone, have>>,
         \A i \in 1..Len(frames) :
           IsDone(frames[i]) =>
             \A n \in 1..frames[i].seq :
               \/ n \in have
               \/ \E j \in 1..(i - 1) : IsRow(frames[j]) /\ frames[j].seq = n
  PROVE  Promised' /\ CleanHelloCatchesUp' /\ (closing' => code' # NoCode)
<1>1. CleanHelloCatchesUp'
  BY DEF CleanHelloCatchesUp, Holds
<1>2. CASE code' # NoCode
  BY <1>1, <1>2 DEF Promised
<1>3. CASE code' = NoCode
  <2>1. /\ outbox' = outbox \o frames /\ code = NoCode /\ ~closing'
    BY <1>3, QueueAssumption DEF EnqueueAll, CloseCode, CLOSE_OVERFLOW, Known, IInv, TypeOK
  <2> DEFINE old == Len(outbox)
             more == Len(frames)
  <2>2. /\ outbox \in Seq(Frames) /\ old \in Nat /\ more \in Nat
        /\ Len(outbox') = old + more
        /\ \A i \in 1..old : outbox'[i] = outbox[i]
        /\ \A i \in 1..more : outbox'[old + i] = frames[i]
    <3>1. outbox \in Seq(Frames)
      BY DEF IInv, TypeOK
    <3> QED BY ONLY <3>1, <2>1, frames \in Seq(Frames)
  <2> HIDE DEF old, more
  <2>3. InRow' <=> InRow
    BY DEF InRow, IsRow
  <2>4. ASSUME NEW i \in 1..Len(outbox'), IsDone(outbox'[i]), NEW n \in 1..outbox'[i].seq
        PROVE  Coming(n, i)'
    <3>1. CASE i \in 1..old
      <4>1. Coming(n, i)
        BY <2>1, <2>2, <2>4, <3>1 DEF Promised, old, IsDone
      <4>2. \A j \in 1..(i - 1) : RowAt(j) => RowAt(j)' /\ outbox'[j] = outbox[j]
        BY <2>2, <3>1 DEF RowAt, IsRow
      <4> QED BY <4>1, <4>2, <2>3 DEF Coming
    <3>2. CASE i > old
      <4> DEFINE k == i - old
      <4>1. k \in 1..more /\ i = old + k
        BY <2>2, <3>2
      <4>2. outbox'[i] = frames[k] /\ k \in 1..Len(frames)
        BY <4>1, <2>2 DEF more
      <4> HIDE DEF k
      <4>3. \/ n \in have
            \/ \E j \in 1..(k - 1) : IsRow(frames[j]) /\ frames[j].seq = n
        BY <4>2, <2>4 DEF IsDone
      <4>4. ASSUME NEW j \in 1..(k - 1), IsRow(frames[j])
            PROVE  \E p \in 1..(i - 1) : RowAt(p)' /\ outbox'[p] = frames[j]
        <5>1. PICK p \in Int : p = old + j
          BY <4>1, <2>2
        <5>2. j \in 1..more /\ p \in 1..(i - 1) /\ p \in 1..Len(outbox')
          BY <4>1, <5>1, <2>2
        <5>3. outbox'[p] = frames[j]
          BY <5>1, <5>2, <2>2
        <5>4. RowAt(p)'
          BY <5>2, <5>3, <4>4 DEF RowAt, IsRow
        <5> QED BY <5>2, <5>3, <5>4
      <4>5. have' = have
        OBVIOUS
      <4> QED BY <4>3, <4>4, <4>5 DEF Coming, RowAt, IsRow
    <3>3. i \in 1..old \/ i > old
      BY <2>2
    <3> QED BY <3>1, <3>2, <3>3
  <2>5. (inFlight' # NoFrame /\ IsDone(inFlight')) => Holds(inFlight.seq)'
    BY <2>1 DEF Promised, Holds
  <2> QED BY <1>1, <2>1, <2>4, <2>5 DEF Promised
<1> QED BY <1>2, <1>3

(* The steps of the channel layer, the journal, the client, and a hello    *)
(* that starts.                                                            *)
LEMMA OutsideCatchesUp ==
  ASSUME CatchUpInv, Commit \/ DeliverFrame \/ FrameLost \/ Connect
                     \/ ClientHello \/ Hydrate \/ HelloStart
  PROVE  Known' /\ Promised' /\ CleanHelloCatchesUp'
<1> USE DEF queueVars, helloVars, clientVars, journalVars
<1>1. /\ UNCHANGED <<outbox, inFlight, code, lastSent, closing, clean,
                     serverSeq, maxSeqSent>>
      /\ have \subseteq have'
  BY DEF Commit, DeliverFrame, FrameLost, Connect, ClientHello, Hydrate,
         HelloStart
<1>2. Promised' /\ CleanHelloCatchesUp'
  BY <1>1, PromiseKept DEF CatchUpInv
<1>3. \A n : Holds(n) => Holds(n)'
  BY <1>1 DEF Holds
<1>4. Known'
  <2>1. greeting' >= 0 => Holds(greeting)'
    <3>1. CASE ClientHello
      BY <3>1, <1>3 DEF ClientHello
    <3>2. CASE HelloStart
      BY <3>2 DEF HelloStart
    <3>3. CASE Commit \/ DeliverFrame \/ FrameLost \/ Connect \/ Hydrate
      BY <3>3, <1>3 DEF Commit, DeliverFrame, FrameLost, Connect, Hydrate,
                        CatchUpInv, Known
    <3> QED BY <3>1, <3>2, <3>3
  <2>2. handler' # "idle" => Holds(lastSeq)'
    <3>1. CASE HelloStart
      BY <3>1, <1>3 DEF HelloStart, CatchUpInv, Known
    <3>2. CASE UNCHANGED <<handler, lastSeq>>
      BY <3>2, <1>3 DEF CatchUpInv, Known
    <3> QED BY <3>1, <3>2 DEF Commit, DeliverFrame, FrameLost, Connect,
                              ClientHello, Hydrate
  <2>3. handler' = "rows" =>
          /\ serverSeq' <= lastSeq' + MAX_REPLAY
          /\ clean' => maxSeqSent' = lastSeq'
    <3>1. handler' = "rows" => handler = "rows" /\ lastSeq' = lastSeq
      BY DEF Commit, DeliverFrame, FrameLost, Connect, ClientHello, Hydrate,
             HelloStart
    <3> QED BY <3>1, <1>1 DEF CatchUpInv, Known
  <2>4. closing' => code' # NoCode
    BY <1>1 DEF CatchUpInv, Known
  <2> QED BY <2>1, <2>2, <2>3, <2>4 DEF Known
<1> QED BY <1>2, <1>4

(* A live frame vouches for nothing.                                       *)
LEMMA RealtimeFrameCatchesUp ==
  ASSUME CatchUpInv, RealtimeFrame
  PROVE  Known' /\ Promised' /\ CleanHelloCatchesUp'
<1> DEFINE n == Head(channel)
<1>0. n \in Nat /\ maxSeqSent \in Nat
  <2>1. n \in 1..head
    BY TailOfQueue DEF CatchUpInv, IInv, TypeOK, RealtimeFrame
  <2> QED BY <2>1, JournalAssumption DEF CatchUpInv, IInv, TypeOK
<1>1. /\ UNCHANGED <<inFlight, lastSent, gone, have, handler, lastSeq, serverSeq,
                     clean, greeting>>
      /\ handler = "idle"
  BY DEF RealtimeFrame, clientVars
<1>2. CASE UNCHANGED <<outbox, closing, code>>
  <2>1. Promised' /\ CleanHelloCatchesUp'
    BY <1>1, <1>2, PromiseKept DEF CatchUpInv
  <2> QED BY <1>1, <1>2, <2>1 DEF CatchUpInv, Known, Holds
<1>3. CASE EnqueueAll(<<Row("live", n)>>)
  <2> DEFINE frames == <<Row("live", n)>>
  <2>1. Row("live", n) \in Frames /\ ~IsDone(Row("live", n))
    BY <1>0, FrameTypesOK DEF FrameTypes, Row, IsDone
  <2>2. /\ frames \in Seq(Frames)
        /\ \A i \in 1..Len(frames) : ~IsDone(frames[i])
    BY <2>1
  <2> HIDE DEF frames
  <2>3. EnqueueAll(frames)
    BY <1>3 DEF frames
  <2>4. Promised' /\ CleanHelloCatchesUp' /\ (closing' => code' # NoCode)
    BY <1>1, <2>2, <2>3, PromiseQueued DEF CatchUpInv
  <2> QED BY <1>1, <2>4 DEF CatchUpInv, Known, Holds
<1> QED BY <1>0, <1>2, <1>3 DEF RealtimeFrame

(* Nor does a welcome; asking for the rows, the hello fits the window.     *)
LEMMA HelloServerSeqCatchesUp ==
  ASSUME CatchUpInv, HelloServerSeq
  PROVE  Known' /\ Promised' /\ CleanHelloCatchesUp'
<1>1. PICK frames \in {<<Plain("welcome"), Plain("resync")>>, <<Plain("welcome")>>} :
        EnqueueAll(frames)
  BY DEF HelloServerSeq
<1>2. \A type \in {"welcome", "resync"} :
        Plain(type) \in Frames /\ ~IsDone(Plain(type))
  BY FrameTypesOK DEF FrameTypes, Plain, IsDone
<1>3. /\ frames \in Seq(Frames)
      /\ \A i \in 1..Len(frames) : ~IsDone(frames[i])
  <2>1. CASE frames = <<Plain("welcome")>>
    BY <1>2, <2>1
  <2>2. CASE frames = <<Plain("welcome"), Plain("resync")>>
    BY <1>2, <2>2
  <2> QED BY <1>1, <2>1, <2>2
<1>4. UNCHANGED <<inFlight, lastSent, gone, have, lastSeq, greeting>>
  BY DEF HelloServerSeq, clientVars
<1>5. Promised' /\ CleanHelloCatchesUp' /\ (closing' => code' # NoCode)
  BY <1>1, <1>3, <1>4, PromiseQueued DEF CatchUpInv
<1>6. handler' = "rows" =>
        /\ serverSeq' <= lastSeq' + MAX_REPLAY
        /\ clean' => maxSeqSent' = lastSeq'
  <2>1. /\ head \in Int /\ lastSeq \in Int /\ maxSeqSent \in Int
        /\ MAX_REPLAY \in Int
    BY JournalAssumption DEF CatchUpInv, IInv, TypeOK
  <2>2. /\ serverSeq' = head /\ clean' = (maxSeqSent <= lastSeq)
        /\ maxSeqSent' = Greatest(maxSeqSent, lastSeq)
        /\ handler' = "rows" => ~(head - lastSeq > MAX_REPLAY)
    BY DEF HelloServerSeq
  <2>3. handler' = "rows" => serverSeq' <= lastSeq' + MAX_REPLAY
    BY <1>4, <2>1, <2>2
  <2>4. clean' => maxSeqSent <= lastSeq
    BY <2>2
  <2>5. clean' => maxSeqSent' = lastSeq'
    BY <1>4, <2>1, <2>2, <2>4 DEF Greatest
  <2> QED BY <2>3, <2>5
<1>7. Holds(lastSeq)' /\ (greeting' >= 0 => Holds(greeting)')
  BY <1>4 DEF HelloServerSeq, CatchUpInv, Known, Holds
<1> QED BY <1>4, <1>5, <1>6, <1>7 DEF Known

(* A clean hello's replay_done is queued behind every row it vouches for.  *)
LEMMA HelloRowsCatchesUp ==
  ASSUME CatchUpInv, HelloRows
  PROVE  Known' /\ Promised' /\ CleanHelloCatchesUp'
<1> DEFINE done == Done(serverSeq, clean)
           frames == Append(ReplayFrames, done)
           m == Len(ReplayFrames)
<1>1. /\ head \in Nat /\ maxSeqSent \in Nat /\ lastSeq \in Nat
      /\ serverSeq \in Nat /\ serverSeq <= head /\ clean \in BOOLEAN
      /\ MAX_REPLAY \in Nat
  BY JournalAssumption DEF CatchUpInv, IInv, TypeOK
<1>2. /\ ReplayFrames \in Seq(Frames)
      /\ m = Greatest(0, LastReplayed - maxSeqSent)
      /\ \A i \in 1..m : /\ IsRow(ReplayFrames[i])
                          /\ ReplayFrames[i].seq = maxSeqSent + i
      /\ LastReplayed \in Int
  BY ReplayFramesAre DEF CatchUpInv, IInv
<1>3. /\ done \in Frames /\ done.seq = serverSeq /\ done.clean = clean
      /\ \A frame : IsRow(frame) => ~IsDone(frame)
  BY <1>1, FrameTypesOK DEF Done, IsRow, IsDone
<1>4. EnqueueAll(frames) /\ handler' = "idle"
  BY DEF HelloRows
<1> HIDE DEF done
<1>5. /\ frames \in Seq(Frames) /\ Len(frames) = m + 1 /\ m \in Nat
      /\ \A i \in 1..m : frames[i] = ReplayFrames[i]
      /\ frames[m + 1] = done
  BY <1>2, <1>3
<1> HIDE DEF frames, m
<1>6. ASSUME clean, NEW n \in 1..serverSeq
      PROVE  \/ n \in have
             \/ \E j \in 1..m : IsRow(frames[j]) /\ frames[j].seq = n
  <2>1. Holds(lastSeq) /\ maxSeqSent = lastSeq /\ serverSeq <= lastSeq + MAX_REPLAY
    BY <1>6 DEF HelloRows, CatchUpInv, Known
  <2>2. CASE n <= lastSeq
    BY <1>1, <2>1, <2>2 DEF Holds
  <2>3. CASE n > lastSeq
    <3>1. n <= LastReplayed
      BY <1>1, <2>1 DEF LastReplayed, Least
    <3>2. n - maxSeqSent \in 1..m
      BY <1>1, <1>2, <2>1, <2>3, <3>1 DEF Greatest
    <3>3. /\ IsRow(frames[n - maxSeqSent])
          /\ frames[n - maxSeqSent].seq = maxSeqSent + (n - maxSeqSent)
      BY <1>2, <1>5, <3>2
    <3> QED BY <3>2, <3>3, <1>1
  <2> QED BY <1>1, <2>2, <2>3
<1>7. ASSUME NEW i \in 1..Len(frames), IsDone(frames[i]), NEW n \in 1..frames[i].seq
      PROVE  \/ n \in have
             \/ \E j \in 1..(i - 1) : IsRow(frames[j]) /\ frames[j].seq = n
  <2>1. i = m + 1
    BY <1>2, <1>3, <1>5, <1>7
  <2>2. clean /\ n \in 1..serverSeq /\ m = i - 1
    BY <1>3, <1>5, <1>7, <2>1 DEF IsDone
  <2> QED BY <1>6, <2>2
<1>8. UNCHANGED <<inFlight, lastSent, gone, have, greeting>>
  BY DEF HelloRows, clientVars
<1>9. Promised' /\ CleanHelloCatchesUp' /\ (closing' => code' # NoCode)
  BY <1>4, <1>5, <1>7, <1>8, PromiseQueued DEF CatchUpInv
<1> QED BY <1>4, <1>8, <1>9 DEF CatchUpInv, Known, Holds

(* The writer takes the first frame: what preceded another still does.     *)
LEMMA TakeFrameCatchesUp ==
  ASSUME CatchUpInv, TakeFrame
  PROVE  Known' /\ Promised' /\ CleanHelloCatchesUp'
<1> USE DEF helloVars, journalVars, clientVars
<1>1. /\ inFlight = NoFrame /\ outbox \in Seq(Frames) /\ outbox # <<>>
      /\ inFlight' = Head(outbox) /\ outbox' = Tail(outbox)
      /\ UNCHANGED <<closing, code, lastSent, have, greeting, handler, lastSeq,
                     serverSeq, clean, maxSeqSent>>
  BY DEF TakeFrame, WriterTake, CatchUpInv, IInv, TypeOK
<1>2. /\ inFlight' = outbox[1] /\ inFlight' \in Frames
      /\ Len(outbox') = Len(outbox) - 1 /\ Len(outbox) \in Nat
      /\ \A i \in 1..Len(outbox') : outbox'[i] = outbox[i + 1]
  BY <1>1, TailOfQueue
<1>3. Known' /\ CleanHelloCatchesUp'
  BY <1>1 DEF CatchUpInv, Known, CleanHelloCatchesUp, Holds
<1>4. ASSUME NEW n, NEW i \in 1..Len(outbox'), Coming(n, i + 1)
      PROVE  Coming(n, i)'
  <2>1. CASE n \in have
    BY <1>1, <2>1 DEF Coming
  <2>2. ASSUME NEW j \in 1..i, RowAt(j), outbox[j].seq = n
        PROVE  Coming(n, i)'
    <3>1. CASE j = 1
      <4>1. InRow' /\ inFlight'.seq = n
        BY <1>2, <2>2, <3>1, NoFrameAssumption DEF InRow, RowAt, IsRow
      <4> QED BY <4>1 DEF Coming
    <3>2. CASE j > 1
      <4>1. /\ j - 1 \in 1..(i - 1) /\ j - 1 \in 1..Len(outbox')
            /\ outbox'[j - 1] = outbox[j]
        BY <1>2, <2>2, <3>2
      <4> QED BY <4>1, <2>2 DEF Coming, RowAt, IsRow
    <3> QED BY <3>1, <3>2
  <2>3. ~InRow /\ (i + 1) - 1 = i
    BY <1>1, <1>2 DEF InRow
  <2> QED BY <1>4, <2>1, <2>2, <2>3 DEF Coming
<1>5. ASSUME code = NoCode, NEW i \in 1..Len(outbox'), IsDone(outbox'[i]),
             NEW n \in 1..outbox'[i].seq
      PROVE  Coming(n, i)'
  <2>1. i + 1 \in 1..Len(outbox) /\ outbox'[i] = outbox[i + 1]
    BY <1>2
  <2>2. Coming(n, i + 1)
    BY <1>5, <2>1 DEF CatchUpInv, Promised
  <2> QED BY <1>4, <2>2
<1>6. ASSUME code = NoCode, IsDone(inFlight')
      PROVE  Holds(inFlight.seq)'
  <2>1. 1 \in 1..Len(outbox)
    BY <1>1, <1>2
  <2>2. \A n \in 1..outbox[1].seq : Coming(n, 1)
    BY <1>2, <1>6, <2>1 DEF CatchUpInv, Promised
  <2>3. \A n \in 1..outbox[1].seq : n \in have
    BY <1>1, <2>2 DEF Coming, InRow
  <2> QED BY <1>1, <1>2, <2>3 DEF Holds
<1> QED BY <1>1, <1>3, <1>5, <1>6 DEF Promised

(* A frame that reaches the wire of a socket not closed reaches the client *)
(* with every row it vouches for before it.                                *)
LEMMA SendFrameCatchesUp ==
  ASSUME CatchUpInv, SendFrame
  PROVE  Known' /\ Promised' /\ CleanHelloCatchesUp'
<1> USE DEF helloVars, journalVars
<1>1. /\ inFlight # NoFrame /\ inFlight' = NoFrame /\ gone = FALSE
      /\ lastSent' = IF OnWire THEN inFlight ELSE lastSent
      /\ UNCHANGED <<outbox, closing, code, greeting, handler, lastSeq,
                     serverSeq, clean, maxSeqSent>>
  BY DEF SendFrame, WriterSend, CatchUpInv, IInv, TypeOK
<1>2. /\ have \subseteq have'
      /\ (code = NoCode /\ InRow) => inFlight.seq \in have'
  BY <1>1 DEF SendFrame, OnWire, InRow
<1>3. \A n : Holds(n) => Holds(n)'
  BY <1>2 DEF Holds
<1>4. Known'
  BY <1>1, <1>3 DEF CatchUpInv, Known
<1>5. \A i \in 1..Len(outbox) : RowAt(i) => RowAt(i)'
  BY <1>1 DEF RowAt, IsRow
<1>6. \A n, i : code = NoCode /\ Coming(n, i) => Coming(n, i)'
  BY <1>1, <1>2, <1>5 DEF Coming, RowAt
<1>7. Promised'
  BY <1>1, <1>6 DEF CatchUpInv, Promised
<1>8. CleanHelloCatchesUp'
  <2>1. CASE code = NoCode
    <3>1. OnWire /\ lastSent' = inFlight
      BY <1>1, <2>1 DEF OnWire
    <3> QED BY <3>1, <1>1, <1>3, <2>1
            DEF CatchUpInv, Promised, IsDone, CleanHelloCatchesUp
  <2>2. CASE code # NoCode
    BY <1>1, <1>3, <2>2 DEF OnWire, CatchUpInv, CleanHelloCatchesUp
  <2> QED BY <2>1, <2>2
<1> QED BY <1>4, <1>7, <1>8

(* A socket that is gone owes nothing.                                     *)
LEMMA EndCatchesUp ==
  ASSUME CatchUpInv, Closed \/ Drop \/ Retry
  PROVE  Known' /\ Promised' /\ CleanHelloCatchesUp'
<1>1. SocketEnds
  BY DEF Closed, Drop, Retry
<1>2. Len(outbox') = 0
  BY <1>1 DEF SocketEnds
<1> QED BY <1>1, <1>2 DEF SocketEnds, Known, Promised, CleanHelloCatchesUp

(* What hellos know and replay_done frames vouch for, for every queue,     *)
(* window and interleaving.                                                *)
THEOREM CatchUpInductive == Spec => []CatchUpInv
<1>1. Init => CatchUpInv
  <2> SUFFICES ASSUME Init PROVE CatchUpInv
    OBVIOUS
  <2>1. Len(outbox) = 0
    BY DEF Init, QueueInit
  <2> QED BY <2>1, InitIInv
      DEF Init, QueueInit, SocketInit, CatchUpInv, Known, Promised,
          CleanHelloCatchesUp
<1>2. CatchUpInv /\ [Next]_vars => CatchUpInv'
  <2> SUFFICES ASSUME CatchUpInv, [Next]_vars PROVE CatchUpInv'
    OBVIOUS
  <2>1. IInv'
    BY NextIInv DEF CatchUpInv
  <2>2. CASE Commit \/ DeliverFrame \/ FrameLost \/ Connect \/ ClientHello
             \/ Hydrate \/ HelloStart
    BY <2>1, <2>2, OutsideCatchesUp DEF CatchUpInv
  <2>3. CASE RealtimeFrame
    BY <2>1, <2>3, RealtimeFrameCatchesUp DEF CatchUpInv
  <2>4. CASE HelloServerSeq
    BY <2>1, <2>4, HelloServerSeqCatchesUp DEF CatchUpInv
  <2>5. CASE HelloRows
    BY <2>1, <2>5, HelloRowsCatchesUp DEF CatchUpInv
  <2>6. CASE TakeFrame
    BY <2>1, <2>6, TakeFrameCatchesUp DEF CatchUpInv
  <2>7. CASE SendFrame
    BY <2>1, <2>7, SendFrameCatchesUp DEF CatchUpInv
  <2>8. CASE Closed \/ Drop \/ Retry
    BY <2>1, <2>8, EndCatchesUp DEF CatchUpInv
  <2>9. CASE UNCHANGED vars
    <3>1. \A n, i : Coming(n, i)' <=> Coming(n, i)
      BY <2>9 DEF vars, queueVars, clientVars, Coming, InRow, RowAt, IsRow
    <3> QED BY <2>1, <2>9, <3>1
        DEF vars, queueVars, helloVars, clientVars, CatchUpInv, Known, Promised,
            IsDone, CleanHelloCatchesUp, Holds
  <2> QED BY <2>2, <2>3, <2>4, <2>5, <2>6, <2>7, <2>8, <2>9 DEF Next
<1> QED BY <1>1, <1>2, PTL DEF Spec

(* The client that is told it caught up holds every row it is told of      *)
(* (on_hello), when its hello found nothing above its last_seq sent: for   *)
(* every queue size, replay window and interleaving of commits, live       *)
(* frames, hellos, drops and overflows.                                    *)
THEOREM CatchesUp == Spec => []CleanHelloCatchesUp
<1>1. CatchUpInv => CleanHelloCatchesUp
  BY DEF CatchUpInv
<1> QED BY <1>1, CatchUpInductive, PTL

-----------------------------------------------------------------------------
(* The cursor is final.                                                    *)

(* What is on its way after frames were queued was on its way, or is one   *)
(* of their rows.                                                          *)
LEMMA QueuedIsOnItsWay ==
  ASSUME TypeOK, NEW frames \in Seq(Frames), EnqueueAll(frames),
         UNCHANGED inFlight, NEW n, OnItsWay(n)'
  PROVE  \/ OnItsWay(n)
         \/ \E i \in 1..Len(frames) : IsRow(frames[i]) /\ frames[i].seq = n
<1>1. PICK k \in 0..Len(frames) : outbox' = outbox \o SubSeq(frames, 1, k)
  BY EnqueueAllTakesPrefix DEF TypeOK
<1> DEFINE old == Len(outbox)
<1>2. /\ outbox \in Seq(Frames) /\ old \in Nat
      /\ Len(outbox') = old + k
      /\ \A i \in 1..old : outbox'[i] = outbox[i]
      /\ \A i \in (old + 1)..(old + k) :
           outbox'[i] = frames[i - old] /\ i - old \in 1..Len(frames)
  <2>1. outbox \in Seq(Frames)
    BY DEF TypeOK
  <2>2. /\ SubSeq(frames, 1, k) \in Seq(Frames)
        /\ Len(SubSeq(frames, 1, k)) = k
        /\ \A i \in 1..k : SubSeq(frames, 1, k)[i] = frames[i]
    OBVIOUS
  <2> QED BY ONLY <1>1, <2>1, <2>2, k \in 0..Len(frames), frames \in Seq(Frames)
<1> HIDE DEF old
<1>3. ASSUME NEW i \in 1..Len(outbox'), IsRow(outbox'[i]), outbox'[i].seq = n
      PROVE  \/ OnItsWay(n)
             \/ \E j \in 1..Len(frames) : IsRow(frames[j]) /\ frames[j].seq = n
  <2>1. CASE i <= old
    <3>1. i \in 1..Len(outbox) /\ outbox'[i] = outbox[i]
      BY <1>2, <2>1 DEF old
    <3> QED BY <1>3, <3>1 DEF OnItsWay
  <2>2. CASE i > old
    <3>1. i \in (old + 1)..(old + k)
      BY <1>2, <2>2
    <3> QED BY <1>2, <1>3, <3>1
  <2> QED BY <1>2, <2>1, <2>2
<1> QED BY <1>3 DEF OnItsWay, IsRow

(* The writer moves what is on its way, and adds nothing to it.            *)
LEMMA WriterAddsNothing ==
  ASSUME TypeOK, TakeFrame \/ SendFrame, NEW n, OnItsWay(n)'
  PROVE  OnItsWay(n)
<1>1. CASE TakeFrame
  <2>1. /\ outbox # <<>> /\ outbox \in Seq(Frames)
        /\ inFlight' = Head(outbox) /\ outbox' = Tail(outbox)
    BY <1>1 DEF TakeFrame, WriterTake, TypeOK
  <2>2. /\ inFlight' = outbox[1] /\ 1 \in 1..Len(outbox)
        /\ \A i \in 1..Len(outbox') :
             i + 1 \in 1..Len(outbox) /\ outbox'[i] = outbox[i + 1]
    BY <2>1, TailOfQueue
  <2> QED BY <2>2 DEF OnItsWay, IsRow
<1>2. CASE SendFrame
  BY <1>2 DEF SendFrame, WriterSend, OnItsWay, IsRow
<1> QED BY <1>1, <1>2

(* Frames whose rows are all above the cursor leave a skipped row skipped. *)
LEMMA SkippedUnderQueued ==
  ASSUME TypeOK, NEW frames \in Seq(Frames), EnqueueAll(frames),
         UNCHANGED <<inFlight, have, connected>>,
         maxSeqSent' \in Nat, maxSeqSent <= maxSeqSent',
         \A i \in 1..Len(frames) :
           IsRow(frames[i]) => maxSeqSent < frames[i].seq,
         NEW n \in 1..head, Skipped(n)
  PROVE  Skipped(n)'
<1>1. n \in Int /\ maxSeqSent \in Nat /\ \A i \in 1..Len(frames) : frames[i].seq \in Int
  <2>1. \A i \in 1..Len(frames) : frames[i] \in Frames
    OBVIOUS
  <2> QED BY <2>1, JournalAssumption DEF TypeOK, Frames
<1>2. n <= maxSeqSent /\ n \notin have /\ connected /\ ~OnItsWay(n)
  BY DEF Skipped
<1>3. ~OnItsWay(n)'
  BY <1>1, <1>2, QueuedIsOnItsWay
<1> QED BY <1>1, <1>2, <1>3 DEF Skipped

(* The frames of each handler carry rows above the cursor only, and the    *)
(* cursor does not go back: what a socket skipped it never sends.          *)
THEOREM SkippedIsFinal == Spec => SkippedStaysSkipped
<1>1. ASSUME IInv, [Next]_vars, NEW n \in 1..head, Skipped(n), connected'
      PROVE  Skipped(n)'
  <2> USE DEF helloVars, journalVars, clientVars
  <2>0. /\ TypeOK /\ connected /\ n \in Int /\ maxSeqSent \in Nat
        /\ head \in Nat /\ lastSeq \in Nat /\ serverSeq \in Nat
        /\ clean \in BOOLEAN
    BY <1>1, JournalAssumption DEF IInv, TypeOK, Skipped
  <2>1. CASE /\ UNCHANGED <<inFlight, outbox, have, connected, maxSeqSent>>
    BY <1>1, <2>1 DEF Skipped, OnItsWay, IsRow
  <2>2. CASE Commit \/ DeliverFrame \/ FrameLost \/ ClientHello \/ HelloStart
    BY <2>1, <2>2 DEF Commit, DeliverFrame, FrameLost, ClientHello, HelloStart,
                      queueVars
  <2>3. CASE RealtimeFrame
    <3> DEFINE m == Head(channel)
    <3>1. m \in Nat
      <4>1. m \in 1..head
        BY <2>0, <2>3, TailOfQueue DEF TypeOK, RealtimeFrame
      <4> QED BY <4>1, <2>0
    <3>2. CASE m <= maxSeqSent
      BY <2>1, <2>3, <3>2 DEF RealtimeFrame
    <3>3. CASE m > maxSeqSent
      <4> DEFINE frames == <<Row("live", m)>>
      <4>1. Row("live", m) \in Frames /\ Row("live", m).seq = m
        BY <3>1, FrameTypesOK DEF FrameTypes, Row
      <4>2. /\ frames \in Seq(Frames)
            /\ \A i \in 1..Len(frames) : frames[i].seq = m
        BY <4>1
      <4>3. /\ EnqueueAll(frames) /\ maxSeqSent' = m
            /\ UNCHANGED <<inFlight, have, connected>>
        BY <2>0, <2>3, <3>1, <3>3 DEF RealtimeFrame
      <4> HIDE DEF frames, m
      <4> QED BY <1>1, <2>0, <3>1, <3>3, <4>2, <4>3, SkippedUnderQueued
    <3> QED BY <2>0, <3>1, <3>2, <3>3
  <2>4. CASE HelloServerSeq
    <3>1. PICK frames \in {<<Plain("welcome"), Plain("resync")>>,
                           <<Plain("welcome")>>} : EnqueueAll(frames)
      BY <2>4 DEF HelloServerSeq
    <3>2. \A type \in {"welcome", "resync"} :
            Plain(type) \in Frames /\ ~IsRow(Plain(type))
      BY FrameTypesOK DEF FrameTypes, Plain, IsRow
    <3>3. /\ frames \in Seq(Frames)
          /\ \A i \in 1..Len(frames) : ~IsRow(frames[i])
      <4>1. CASE frames = <<Plain("welcome")>>
        BY <3>2, <4>1
      <4>2. CASE frames = <<Plain("welcome"), Plain("resync")>>
        BY <3>2, <4>2
      <4> QED BY <3>1, <4>1, <4>2
    <3>4. maxSeqSent' \in Nat /\ maxSeqSent <= maxSeqSent'
      BY <2>0, <2>4 DEF HelloServerSeq, Greatest
    <3>5. UNCHANGED <<inFlight, have, connected>>
      BY <2>4 DEF HelloServerSeq
    <3> QED BY <1>1, <2>0, <3>1, <3>3, <3>4, <3>5, SkippedUnderQueued
  <2>5. CASE HelloRows
    <3> DEFINE done == Done(serverSeq, clean)
               frames == Append(ReplayFrames, done)
               m == Len(ReplayFrames)
    <3>1. done \in Frames /\ ~IsRow(done)
      BY <2>0, FrameTypesOK DEF Done, IsRow
    <3>2. /\ ReplayFrames \in Seq(Frames) /\ LastReplayed \in Int
          /\ \A i \in 1..m : ReplayFrames[i].seq = maxSeqSent + i
      BY <2>0, ReplayFramesAre
    <3>3. EnqueueAll(frames)
      BY <2>5 DEF HelloRows
    <3> HIDE DEF done
    <3>4. /\ frames \in Seq(Frames) /\ Len(frames) = m + 1 /\ m \in Nat
          /\ \A i \in 1..m : frames[i] = ReplayFrames[i]
          /\ frames[m + 1] = done
      BY <3>1, <3>2
    <3> HIDE DEF frames, m
    <3>5. \A i \in 1..Len(frames) : IsRow(frames[i]) => maxSeqSent < frames[i].seq
      <4>1. ASSUME NEW i \in 1..Len(frames), IsRow(frames[i])
            PROVE  maxSeqSent < frames[i].seq
        <5>1. i \in 1..m
          BY <3>1, <3>4, <4>1
        <5>2. frames[i].seq = maxSeqSent + i
          BY <3>2, <3>4, <5>1
        <5> QED BY <2>0, <5>1, <5>2
      <4> QED BY <4>1
    <3>6. maxSeqSent' \in Nat /\ maxSeqSent <= maxSeqSent'
      BY <2>0, <2>5, <3>2 DEF HelloRows, Greatest
    <3>7. UNCHANGED <<inFlight, have, connected>>
      BY <2>5 DEF HelloRows
    <3> QED BY <1>1, <2>0, <3>3, <3>4, <3>5, <3>6, <3>7, SkippedUnderQueued
  <2>6. CASE TakeFrame \/ SendFrame
    <3>1. ~OnItsWay(n)'
      BY <1>1, <2>0, <2>6, WriterAddsNothing DEF Skipped
    <3>2. n \notin have'
      BY <1>1, <2>6 DEF TakeFrame, SendFrame, WriterSend, Skipped, OnItsWay
    <3>3. UNCHANGED <<connected, maxSeqSent>>
      BY <2>6 DEF TakeFrame, SendFrame
    <3> QED BY <1>1, <3>1, <3>2, <3>3 DEF Skipped
  <2>7. CASE Connect \/ Hydrate \/ Closed \/ Drop \/ Retry
    BY <1>1, <2>0, <2>7 DEF Connect, Hydrate, Closed, Drop, Retry, SocketEnds
  <2>8. CASE UNCHANGED vars
    BY <2>1, <2>8 DEF vars, queueVars
  <2> QED BY <1>1, <2>2, <2>3, <2>4, <2>5, <2>6, <2>7, <2>8 DEF Next
<1>2. IInv /\ [Next]_vars =>
        [\A n \in 1..head : (Skipped(n) /\ connected') => Skipped(n)']_vars
  BY <1>1
<1> QED BY <1>2, Inductive, PTL DEF Spec, SkippedStaysSkipped

-----------------------------------------------------------------------------
(* How narrow a queue is too narrow.                                       *)

(* A row the client lacks although it has all before it and the fan-out is *)
(* over; the rows from there on and the replay_done do not fit the queue,  *)
(* and are not enough for a resync; the hello on its way, if any, asks for *)
(* just these rows.                                                        *)
ResyncIsOnItsWay ==
  \/ inFlight # NoFrame /\ inFlight.type = "resync"
  \/ \E i \in 1..Len(outbox) : outbox[i].type = "resync"

LeftBehind(n) ==
  /\ n \in 1..head /\ n \notin have /\ Holds(n - 1)
  /\ SEND_QUEUE_SIZE <= head - n + 1
  /\ head - n < MAX_REPLAY
  /\ n \notin unsent
  /\ \A i \in 1..Len(channel) : channel[i] # n
  /\ code = NoCode => ~OnItsWay(n) /\ ~ResyncIsOnItsWay
  /\ ~mustHydrate
  /\ greeting \in {-1, n - 1}
  /\ handler # "idle" => lastSeq = n - 1

(* A hello that asked for rows has moved the cursor to its last_seq.       *)
HelloMovedCursor == handler = "rows" => lastSeq <= maxSeqSent

BehindInv == CatchUpInv /\ HelloMovedCursor

THEOREM BehindInductive == Spec => []BehindInv
<1>1. Init => HelloMovedCursor
  BY DEF Init, SocketInit, HelloMovedCursor
<1>2. CatchUpInv /\ HelloMovedCursor /\ [Next]_vars => HelloMovedCursor'
  <2> SUFFICES ASSUME CatchUpInv, HelloMovedCursor, [Next]_vars, handler' = "rows"
               PROVE  lastSeq' <= maxSeqSent'
    BY DEF HelloMovedCursor
  <2> USE DEF helloVars, journalVars, clientVars
  <2>1. CASE HelloServerSeq
    <3>1. maxSeqSent \in Int /\ lastSeq \in Int
      BY JournalAssumption DEF CatchUpInv, IInv, TypeOK
    <3> QED BY <2>1, <3>1 DEF HelloServerSeq, Greatest
  <2>2. CASE UNCHANGED <<handler, lastSeq, maxSeqSent>>
    BY <2>2 DEF HelloMovedCursor
  <2>3. CASE RealtimeFrame \/ HelloStart \/ HelloRows \/ Closed \/ Drop \/ Retry
    BY <2>3 DEF RealtimeFrame, HelloStart, HelloRows, Closed, Drop, Retry,
                SocketEnds
  <2>4. CASE Commit \/ DeliverFrame \/ FrameLost \/ Connect \/ TakeFrame
             \/ SendFrame \/ ClientHello \/ Hydrate
    BY <2>2, <2>4 DEF Commit, DeliverFrame, FrameLost, Connect, TakeFrame,
                      SendFrame, ClientHello, Hydrate
  <2>5. CASE UNCHANGED vars
    BY <2>2, <2>5 DEF vars
  <2> QED BY <2>1, <2>3, <2>4, <2>5 DEF Next
<1> QED BY <1>1, <1>2, CatchUpInductive, PTL DEF Spec, BehindInv

(* Queued frames bring neither the row nor a resync, or close the socket.  *)
LEMMA BehindUnderQueued ==
  ASSUME TypeOK, NEW frames \in Seq(Frames), EnqueueAll(frames),
         UNCHANGED inFlight, NEW n,
         code = NoCode => ~OnItsWay(n) /\ ~ResyncIsOnItsWay,
         code' = NoCode =>
           \A i \in 1..Len(frames) :
             /\ IsRow(frames[i]) => frames[i].seq # n
             /\ frames[i].type # "resync"
  PROVE  code' = NoCode => ~OnItsWay(n)' /\ ~ResyncIsOnItsWay'
<1> SUFFICES ASSUME code' = NoCode
             PROVE  ~OnItsWay(n)' /\ ~ResyncIsOnItsWay'
  OBVIOUS
<1>1. code = NoCode
  BY QueueAssumption DEF EnqueueAll, CloseCode, CLOSE_OVERFLOW
<1>2. ~OnItsWay(n)'
  BY <1>1, QueuedIsOnItsWay
<1>3. PICK k \in 0..Len(frames) : outbox' = outbox \o SubSeq(frames, 1, k)
  BY EnqueueAllTakesPrefix DEF TypeOK
<1>4. outbox \in Seq(Frames)
  BY DEF TypeOK
<1>5. ASSUME NEW i \in 1..Len(outbox') PROVE outbox'[i].type # "resync"
  <2> DEFINE old == Len(outbox)
  <2>1. /\ SubSeq(frames, 1, k) \in Seq(Frames)
        /\ Len(SubSeq(frames, 1, k)) = k
        /\ \A j \in 1..k : SubSeq(frames, 1, k)[j] = frames[j]
    OBVIOUS
  <2>2. /\ old \in Nat /\ k \in Nat /\ Len(outbox') = old + k
        /\ \A j \in 1..old : outbox'[j] = outbox[j]
        /\ \A j \in (old + 1)..(old + k) :
             outbox'[j] = frames[j - old] /\ j - old \in 1..Len(frames)
    BY ONLY <1>3, <1>4, <2>1, k \in 0..Len(frames), frames \in Seq(Frames)
  <2> HIDE DEF old
  <2>3. CASE i <= old
    <3>1. i \in 1..Len(outbox) /\ outbox'[i] = outbox[i]
      BY <2>2, <2>3 DEF old
    <3> QED BY <1>1, <3>1 DEF ResyncIsOnItsWay
  <2>4. CASE i > old
    <3>1. i \in (old + 1)..(old + k)
      BY <2>2, <2>4
    <3> QED BY <2>2, <3>1
  <2> QED BY <2>2, <2>3, <2>4
<1> QED BY <1>1, <1>2, <1>5 DEF ResyncIsOnItsWay

(* The replay of a hello that asks for the row overflows the queue, or     *)
(* leaves the row out because the cursor is past it.                       *)
LEMMA ReplayLeavesBehind ==
  ASSUME BehindInv, HelloRows, NEW n \in 1..head, LeftBehind(n)
  PROVE  code' = NoCode => ~OnItsWay(n)' /\ ~ResyncIsOnItsWay'
<1> DEFINE done == Done(serverSeq, clean)
           frames == Append(ReplayFrames, done)
           m == Len(ReplayFrames)
<1>1. /\ TypeOK /\ head \in Nat /\ maxSeqSent \in Nat /\ lastSeq \in Nat
      /\ serverSeq \in Nat /\ clean \in BOOLEAN /\ n \in Nat
      /\ lastSeq <= maxSeqSent /\ lastSeq = n - 1
      /\ SEND_QUEUE_SIZE <= head - n + 1 /\ head - n < MAX_REPLAY
      /\ Len(outbox) \in Nat /\ SEND_QUEUE_SIZE \in Nat /\ MAX_REPLAY \in Nat
  BY JournalAssumption, QueueAssumption
  DEF BehindInv, CatchUpInv, IInv, TypeOK, HelloMovedCursor, HelloRows, LeftBehind
<1>2. /\ ReplayFrames \in Seq(Frames)
      /\ m = Greatest(0, LastReplayed - maxSeqSent)
      /\ \A i \in 1..m : /\ ReplayFrames[i].seq = maxSeqSent + i
                          /\ IsRow(ReplayFrames[i])
  BY <1>1, ReplayFramesAre
<1>3. LastReplayed = head
  BY <1>1 DEF LastReplayed, Least
<1>4. done \in Frames /\ ~IsRow(done) /\ done.type # "resync"
  BY <1>1, FrameTypesOK DEF Done, IsRow
<1>5. EnqueueAll(frames) /\ UNCHANGED inFlight
  BY DEF HelloRows
<1> HIDE DEF done
<1>6. /\ frames \in Seq(Frames) /\ Len(frames) = m + 1 /\ m \in Nat
      /\ \A i \in 1..m : frames[i] = ReplayFrames[i]
      /\ frames[m + 1] = done
  BY <1>2, <1>4
<1> HIDE DEF frames, m
<1>7. \A i \in 1..Len(frames) : frames[i].type # "resync"
  <2>1. ASSUME NEW i \in 1..m PROVE frames[i].type # "resync"
    BY <1>2, <1>6, <2>1 DEF IsRow
  <2> QED BY <1>4, <1>6, <2>1
<1>8. ASSUME code' = NoCode PROVE maxSeqSent >= n
  <2>1. CASE closing
    BY <1>5, <1>8, <2>1 DEF EnqueueAll, BehindInv, CatchUpInv, Known
  <2>2. CASE ~closing
    <3>1. Len(frames) <= Room
      <4>1. code' # CloseCode(CLOSE_OVERFLOW)
        BY <1>1, <1>8, QueueAssumption DEF CloseCode, CLOSE_OVERFLOW, TypeOK
      <4> QED BY <1>5, <2>2, <4>1 DEF EnqueueAll
    <3>2. m + 1 <= SEND_QUEUE_SIZE
      BY <1>1, <1>6, <3>1 DEF Room
    <3> QED BY <1>1, <1>2, <1>3, <3>2 DEF Greatest
  <2> QED BY <2>1, <2>2
<1>9. ASSUME code' = NoCode, NEW i \in 1..Len(frames), IsRow(frames[i])
      PROVE  frames[i].seq # n
  <2>1. i \in 1..m
    BY <1>4, <1>6, <1>9
  <2>2. frames[i].seq = maxSeqSent + i
    BY <1>2, <1>6, <2>1
  <2> QED BY <1>1, <1>8, <1>9, <2>1, <2>2
<1>10. code = NoCode => ~OnItsWay(n) /\ ~ResyncIsOnItsWay
  BY DEF LeftBehind
<1> QED BY <1>1, <1>5, <1>6, <1>7, <1>9, <1>10, BehindUnderQueued

(* The only way out is a journal that outgrows the window.                 *)
LEMMA NextLeavesBehind ==
  ASSUME BehindInv, [Next]_vars, NEW n \in 1..head, LeftBehind(n),
         head' - n < MAX_REPLAY
  PROVE  LeftBehind(n)'
<1> USE DEF helloVars, journalVars, clientVars
<1>1. /\ TypeOK /\ n \in Nat /\ head \in Nat /\ SEND_QUEUE_SIZE \in Nat
      /\ gone = FALSE /\ channel \in Seq(1..head) /\ greeting \in Int
      /\ n \notin have /\ Holds(n - 1) /\ n \notin unsent
      /\ SEND_QUEUE_SIZE <= head - n + 1
      /\ \A i \in 1..Len(channel) : channel[i] # n
      /\ ~mustHydrate
  BY JournalAssumption, QueueAssumption
  DEF BehindInv, CatchUpInv, IInv, TypeOK, LeftBehind
<1>2. /\ code = NoCode => ~OnItsWay(n) /\ ~ResyncIsOnItsWay
      /\ greeting \in {-1, n - 1}
      /\ handler # "idle" => lastSeq = n - 1
  BY DEF LeftBehind
<1>3. ASSUME UNCHANGED queueVars
      PROVE  code' = NoCode => ~OnItsWay(n)' /\ ~ResyncIsOnItsWay'
  BY <1>2, <1>3 DEF queueVars, OnItsWay, ResyncIsOnItsWay, IsRow
<1>4. CASE Commit
  <2>1. head' = head + 1 /\ unsent' = unsent \cup {head + 1}
    BY <1>4 DEF Commit
  <2>2. n \in 1..head' /\ n \notin unsent' /\ SEND_QUEUE_SIZE <= head' - n + 1
    BY <1>1, <2>1
  <2> QED BY <1>1, <1>2, <1>3, <1>4, <2>2 DEF Commit, LeftBehind, Holds
<1>5. CASE DeliverFrame
  <2>1. PICK m \in unsent : channel' = Append(channel, m) /\ unsent' = unsent \ {m}
    BY <1>5 DEF DeliverFrame
  <2>2. m # n
    BY <1>1, <2>1
  <2>3. m \in 1..head
    BY <1>1, <2>1 DEF TypeOK
  <2>4. \A i \in 1..Len(channel') : channel'[i] # n
    BY <1>1, <2>1, <2>2, <2>3
  <2> QED BY <1>1, <1>2, <1>3, <1>5, <2>1, <2>4 DEF DeliverFrame, LeftBehind, Holds
<1>6. CASE FrameLost \/ ClientHello \/ HelloStart
  <2>1. greeting' \in {-1, n - 1}
    <3>1. CASE ClientHello
      <4>1. PICK m \in 0..MaxSeq : Holds(m) /\ ~Holds(m + 1) /\ greeting' = m
        BY <3>1 DEF ClientHello
      <4>2. ~(m >= n)
        BY <1>1, <4>1, JournalAssumption DEF Holds
      <4>3. ~(m + 1 <= n - 1)
        BY <1>1, <4>1, JournalAssumption DEF Holds
      <4> QED BY <1>1, <4>1, <4>2, <4>3, JournalAssumption
    <3> QED BY <1>2, <1>6, <3>1 DEF FrameLost, HelloStart
  <2>2. handler' # "idle" => lastSeq' = n - 1
    BY <1>1, <1>2, <1>6 DEF FrameLost, ClientHello, HelloStart
  <2>3. UNCHANGED <<queueVars, head, have, channel, mustHydrate>> /\ n \notin unsent'
    BY <1>1, <1>6 DEF FrameLost, ClientHello, HelloStart
  <2> QED BY <1>1, <1>3, <2>1, <2>2, <2>3 DEF LeftBehind, Holds
<1>7. CASE RealtimeFrame
  <2> DEFINE m == Head(channel)
             frames == IF m <= maxSeqSent THEN <<>> ELSE <<Row("live", m)>>
  <2>1. channel # <<>> /\ channel' = Tail(channel) /\ handler = "idle"
    BY <1>7 DEF RealtimeFrame
  <2>2. /\ m \in 1..head /\ m # n
        /\ \A i \in 1..Len(channel') : channel'[i] # n
    <3>1. /\ m = channel[1] /\ 1 \in 1..Len(channel)
          /\ \A i \in 1..Len(channel') :
               i + 1 \in 1..Len(channel) /\ channel'[i] = channel[i + 1]
      BY <1>1, <2>1, TailOfQueue
    <3> QED BY <1>1, <2>1, <3>1
  <2>3. code' = NoCode => ~OnItsWay(n)' /\ ~ResyncIsOnItsWay'
    <3>1. CASE m <= maxSeqSent
      <4>1. UNCHANGED queueVars
        BY <1>7, <3>1 DEF RealtimeFrame, queueVars
      <4> QED BY <1>3, <4>1
    <3>2. CASE ~(m <= maxSeqSent)
      <4> DEFINE live == <<Row("live", m)>>
      <4>1. /\ Row("live", m) \in Frames /\ Row("live", m).seq = m
            /\ Row("live", m).type # "resync"
        BY <1>1, <2>2, FrameTypesOK DEF FrameTypes, Row
      <4>2. /\ live \in Seq(Frames)
            /\ \A i \in 1..Len(live) : live[i].seq # n /\ live[i].type # "resync"
        BY <2>2, <4>1
      <4>3. EnqueueAll(live) /\ UNCHANGED inFlight
        BY <1>7, <3>2 DEF RealtimeFrame
      <4> HIDE DEF live
      <4> QED BY <1>1, <1>2, <4>2, <4>3, BehindUnderQueued
    <3> QED BY <3>1, <3>2
  <2>4. UNCHANGED <<head, unsent, have, mustHydrate, greeting, handler, lastSeq>>
    BY <1>7 DEF RealtimeFrame
  <2> QED BY <1>1, <1>2, <2>2, <2>3, <2>4 DEF LeftBehind, Holds
<1>8. CASE HelloServerSeq
  <2>1. UNCHANGED <<head, unsent, channel, have, mustHydrate, greeting, lastSeq,
                    inFlight>>
    BY <1>8 DEF HelloServerSeq
  <2>2. lastSeq = n - 1 /\ ~(head - lastSeq > MAX_REPLAY)
    BY <1>1, <1>2, <1>8, JournalAssumption DEF HelloServerSeq, LeftBehind
  <2> DEFINE frames == <<Plain("welcome")>>
  <2>3. EnqueueAll(frames)
    BY <1>8, <2>2 DEF HelloServerSeq
  <2>4. /\ frames \in Seq(Frames)
        /\ \A i \in 1..Len(frames) : ~IsRow(frames[i]) /\ frames[i].type # "resync"
    BY FrameTypesOK DEF FrameTypes, Plain, IsRow
  <2> HIDE DEF frames
  <2>5. code' = NoCode => ~OnItsWay(n)' /\ ~ResyncIsOnItsWay'
    BY <1>1, <1>2, <2>1, <2>3, <2>4, BehindUnderQueued
  <2> QED BY <1>1, <1>2, <2>1, <2>2, <2>5 DEF LeftBehind, Holds
<1>9. CASE HelloRows
  <2>1. UNCHANGED <<head, unsent, channel, have, mustHydrate, greeting>>
        /\ handler' = "idle"
    BY <1>9 DEF HelloRows
  <2>2. code' = NoCode => ~OnItsWay(n)' /\ ~ResyncIsOnItsWay'
    BY <1>9, ReplayLeavesBehind
  <2> QED BY <1>1, <1>2, <2>1, <2>2 DEF LeftBehind, Holds
<1>10. CASE TakeFrame
  <2>1. ~OnItsWay(n) => ~OnItsWay(n)'
    BY <1>1, <1>10, WriterAddsNothing
  <2>2. ~ResyncIsOnItsWay => ~ResyncIsOnItsWay'
    <3>1. /\ outbox # <<>> /\ outbox \in Seq(Frames)
          /\ inFlight' = Head(outbox) /\ outbox' = Tail(outbox)
      BY <1>1, <1>10 DEF TakeFrame, WriterTake, TypeOK
    <3>2. /\ inFlight' = outbox[1] /\ 1 \in 1..Len(outbox)
          /\ \A i \in 1..Len(outbox') :
               i + 1 \in 1..Len(outbox) /\ outbox'[i] = outbox[i + 1]
      BY <3>1, TailOfQueue
    <3> QED BY <3>2 DEF ResyncIsOnItsWay
  <2>3. UNCHANGED <<code, head, unsent, channel, have, mustHydrate, greeting,
                    handler, lastSeq>>
    BY <1>10 DEF TakeFrame, WriterTake
  <2> QED BY <1>1, <1>2, <2>1, <2>2, <2>3 DEF LeftBehind, Holds
<1>11. CASE SendFrame
  <2>1. /\ inFlight # NoFrame /\ inFlight' = NoFrame
        /\ UNCHANGED <<outbox, code, head, unsent, channel, greeting, handler,
                       lastSeq>>
    BY <1>11 DEF SendFrame, WriterSend
  <2>2. ~OnItsWay(n) => ~OnItsWay(n)'
    BY <1>1, <1>11, WriterAddsNothing
  <2>3. ~ResyncIsOnItsWay => ~ResyncIsOnItsWay'
    BY <2>1 DEF ResyncIsOnItsWay
  <2>4. OnWire => ~OnItsWay(n) /\ ~ResyncIsOnItsWay
    BY <1>2 DEF OnWire
  <2>5. n \notin have' /\ have \subseteq have'
    BY <1>1, <1>11, <2>1, <2>4 DEF SendFrame, OnItsWay
  <2>6. ~mustHydrate'
    BY <1>1, <1>11, <2>1, <2>4 DEF SendFrame, ResyncIsOnItsWay
  <2> QED BY <1>1, <1>2, <2>1, <2>2, <2>3, <2>5, <2>6 DEF LeftBehind, Holds
<1>12. CASE Closed \/ Drop \/ Retry
  <2>1. SocketEnds /\ mustHydrate' = mustHydrate
    BY <1>12 DEF Closed, Drop, Retry
  <2>2. /\ Len(outbox') = 0 /\ Len(channel') = 0 /\ inFlight' = NoFrame
        /\ handler' = "idle" /\ greeting' = -1
        /\ UNCHANGED <<head, unsent, have>>
    BY <2>1 DEF SocketEnds
  <2>3. ~OnItsWay(n)' /\ ~ResyncIsOnItsWay'
    BY <2>2 DEF OnItsWay, ResyncIsOnItsWay
  <2> QED BY <1>1, <2>1, <2>2, <2>3 DEF LeftBehind, Holds
<1>13. CASE Connect \/ Hydrate \/ UNCHANGED vars
  <2>1. UNCHANGED <<outbox, inFlight, code, head, unsent, channel, have,
                    mustHydrate, greeting, handler, lastSeq>>
    BY <1>1, <1>13 DEF Connect, Hydrate, vars, queueVars
  <2>2. code' = NoCode => ~OnItsWay(n)' /\ ~ResyncIsOnItsWay'
    BY <1>2, <2>1 DEF OnItsWay, ResyncIsOnItsWay, IsRow
  <2> QED BY <1>1, <1>2, <2>1, <2>2 DEF LeftBehind, Holds
<1> QED BY <1>4, <1>5, <1>6, <1>7, <1>8, <1>9, <1>10, <1>11, <1>12, <1>13 DEF Next

(* A queue narrower than the window has a trap (on_hello, _enqueue; the    *)
(* defaults are 100 and 500): a client that is behind by a queue and less  *)
(* than a window is sent the whole replay at once, overflows, is closed    *)
(* 4413 and finds itself where it was, however often it comes back, until  *)
(* the journal has outgrown the window.                                    *)
THEOREM LeftBehindForEver ==
  ASSUME NEW n \in Nat, MaxSeq - n < MAX_REPLAY
  PROVE  Spec => [](LeftBehind(n) => [](n \notin have))
<1>1. BehindInv /\ BehindInv' /\ [Next]_vars /\ LeftBehind(n) => LeftBehind(n)'
  <2> SUFFICES ASSUME BehindInv, BehindInv', [Next]_vars, LeftBehind(n)
               PROVE  LeftBehind(n)'
    OBVIOUS
  <2>1. head' \in Int /\ head' <= MaxSeq /\ n \in 1..head
    BY JournalAssumption DEF BehindInv, CatchUpInv, IInv, TypeOK, LeftBehind
  <2>2. \A h \in Int : h <= MaxSeq => h - n < MAX_REPLAY
    BY JournalAssumption
  <2>3. head' - n < MAX_REPLAY
    BY <2>1, <2>2
  <2> QED BY <2>1, <2>3, NextLeavesBehind
<1>2. LeftBehind(n) => n \notin have
  BY DEF LeftBehind
<1> QED BY <1>1, <1>2, BehindInductive, PTL DEF Spec

(* A queue wider than the window has none: a replay that finds it empty    *)
(* fits, and the replay_done with it.                                      *)
THEOREM WideQueueTakesReplay ==
  ASSUME SEND_QUEUE_SIZE > MAX_REPLAY
  PROVE  Spec => [][(HelloRows /\ ~closing /\ outbox = <<>>) => ~closing']_vars
<1>1. ASSUME BehindInv, HelloRows, ~closing, outbox = <<>> PROVE ~closing'
  <2> DEFINE done == Done(serverSeq, clean)
             frames == Append(ReplayFrames, done)
             m == Len(ReplayFrames)
  <2>1. /\ TypeOK /\ head \in Nat /\ maxSeqSent \in Nat /\ lastSeq \in Nat
        /\ serverSeq \in Nat /\ clean \in BOOLEAN /\ lastSeq <= maxSeqSent
        /\ SEND_QUEUE_SIZE \in Nat /\ MAX_REPLAY \in Nat
    BY <1>1, JournalAssumption, QueueAssumption
    DEF BehindInv, CatchUpInv, IInv, TypeOK, HelloMovedCursor, HelloRows
  <2>2. ReplayFrames \in Seq(Frames) /\ m = Greatest(0, LastReplayed - maxSeqSent)
    BY <2>1, ReplayFramesAre
  <2>3. m \in Nat /\ m <= MAX_REPLAY
    BY <2>1, <2>2 DEF LastReplayed, Least, Greatest
  <2>4. done \in Frames
    BY <2>1, FrameTypesOK
  <2>5. EnqueueAll(frames)
    BY <1>1 DEF HelloRows
  <2> HIDE DEF done
  <2>6. Len(frames) = m + 1
    BY <2>2, <2>4
  <2>7. Room = SEND_QUEUE_SIZE
    BY <1>1, <2>1 DEF Room
  <2> HIDE DEF frames, m
  <2> QED BY <1>1, <2>1, <2>3, <2>5, <2>6, <2>7 DEF EnqueueAll
<1>2. BehindInv =>
        [(HelloRows /\ ~closing /\ outbox = <<>>) => ~closing']_vars
  BY <1>1
<1> QED BY <1>2, BehindInductive, PTL DEF Spec

=============================================================================
