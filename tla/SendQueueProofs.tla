-------------------------- MODULE SendQueueProofs --------------------------
(***************************************************************************)
(* Lemmas about the operators of SendQueue, for the modules that use it.   *)
(***************************************************************************)
EXTENDS SendQueue, TLAPS

(* _enqueue takes a prefix of what it is given, never grows the queue over *)
(* its limit, and leaves frames out only of a socket that is closing.      *)
LEMMA EnqueueAllTakesPrefix ==
  ASSUME NEW F, NEW frames \in Seq(F), outbox \in Seq(F), closing \in BOOLEAN,
         Len(outbox) <= SEND_QUEUE_SIZE, EnqueueAll(frames)
  PROVE  /\ \E k \in 0..Len(frames) :
              /\ outbox' = outbox \o SubSeq(frames, 1, k)
              /\ k # Len(frames) => closing'
         /\ outbox' \in Seq(F)
         /\ Len(outbox') <= SEND_QUEUE_SIZE
         /\ closing' \in BOOLEAN
         /\ closing => closing'
         /\ code' # code => closing'
<1> USE QueueAssumption
<1>1. ASSUME NEW k \in 0..Len(frames)
      PROVE  /\ outbox \o SubSeq(frames, 1, k) \in Seq(F)
             /\ Len(outbox \o SubSeq(frames, 1, k)) = Len(outbox) + k
  OBVIOUS
<1>2. ASSUME NEW k \in 0..Len(frames),
             outbox' = outbox \o SubSeq(frames, 1, k),
             k # Len(frames) => closing',
             Len(outbox) + k <= SEND_QUEUE_SIZE
      PROVE  /\ \E j \in 0..Len(frames) :
                  /\ outbox' = outbox \o SubSeq(frames, 1, j)
                  /\ j # Len(frames) => closing'
             /\ outbox' \in Seq(F)
             /\ Len(outbox') <= SEND_QUEUE_SIZE
  BY <1>1, <1>2
<1>3. CASE closing /\ UNCHANGED <<outbox, closing, code>>
  <2>1. outbox' = outbox \o SubSeq(frames, 1, 0)
    BY <1>3
  <2>2. 0 \in 0..Len(frames) /\ Len(outbox) + 0 <= SEND_QUEUE_SIZE
    OBVIOUS
  <2> QED BY ONLY <1>2, <1>3, <2>1, <2>2, closing \in BOOLEAN
<1>4. CASE /\ ~closing
           /\ Len(frames) <= Room
           /\ outbox' = outbox \o frames
           /\ UNCHANGED <<closing, code>>
  <2>1. outbox' = outbox \o SubSeq(frames, 1, Len(frames))
    BY <1>4
  <2>2. Len(frames) \in 0..Len(frames) /\ Len(outbox) + Len(frames) <= SEND_QUEUE_SIZE
    BY <1>4 DEF Room
  <2> QED BY ONLY <1>2, <1>4, <2>1, <2>2, closing \in BOOLEAN
<1>5. CASE /\ ~closing
           /\ Len(frames) > Room
           /\ outbox' = outbox \o SubSeq(frames, 1, Room)
           /\ closing' = TRUE
           /\ code' = CloseCode(CLOSE_OVERFLOW)
  <2>1. Room \in 0..Len(frames) /\ Len(outbox) + Room <= SEND_QUEUE_SIZE
    BY <1>5 DEF Room
  <2> QED BY ONLY <1>2, <1>5, <2>1, closing \in BOOLEAN
<1> QED BY <1>3, <1>4, <1>5 DEF EnqueueAll

(* Taking the head of the queue.                                           *)
LEMMA TailOfQueue ==
  ASSUME NEW F, NEW q \in Seq(F), q # <<>>
  PROVE  /\ Head(q) = q[1]
         /\ Head(q) \in F
         /\ Tail(q) \in Seq(F)
         /\ Len(Tail(q)) = Len(q) - 1
         /\ \A i \in 1..Len(Tail(q)) : Tail(q)[i] = q[i + 1]
OBVIOUS
=============================================================================
