------------------------- MODULE BroadcastContract -------------------------
(***************************************************************************)
(* What delivery promises the sockets of a host, as if it were one process *)
(* without a channel layer: a listener gets the messages sent to its own   *)
(* stream while it listens, in order, each once, unless its mailbox is     *)
(* full.  A host that is not reliable may leave anybody out.               *)
(* delivery.py: "at-most-once, and a frame lost because nobody was         *)
(* listening is correct behaviour"; streams.py: a group whose name has the *)
(* scope "physically cannot deliver a frame across workspaces".            *)
(***************************************************************************)
EXTENDS Integers, Sequences

CONSTANTS
  Listeners,
  Streams,
  Messages,   \* records with the `stream' they were sent to
  Capacity,   \* of a mailbox
  NoStream    \* what a listener that is not there listens to

VARIABLES
  reliable,   \* the host was assembled so that all its processes share
  stream,     \* what each listener listens to
  mailbox     \* what waits for it

broadcastVars == <<reliable, stream, mailbox>>

BroadcastInit ==
  /\ reliable \in BOOLEAN
  /\ stream = [s \in Listeners |-> NoStream]
  /\ mailbox = [s \in Listeners |-> <<>>]

Join ==
  \E s \in Listeners, key \in Streams :
    /\ stream[s] = NoStream
    /\ stream' = [stream EXCEPT ![s] = key]
    /\ UNCHANGED <<reliable, mailbox>>

(* Any number at once: a process may die.                                  *)
Part ==
  \E gone \in SUBSET Listeners :
    /\ stream' = [s \in Listeners |-> IF s \in gone THEN NoStream ELSE stream[s]]
    /\ mailbox' = [s \in Listeners |-> IF s \in gone THEN <<>> ELSE mailbox[s]]
    /\ UNCHANGED reliable

WithRoom(key) ==
  {s \in Listeners : stream[s] = key /\ Len(mailbox[s]) < Capacity}

Publish ==
  \E message \in Messages :
    \E reached \in SUBSET WithRoom(message.stream) :
      /\ reliable => reached = WithRoom(message.stream)
      /\ mailbox' = [s \in Listeners |->
           IF s \in reached THEN Append(mailbox[s], message) ELSE mailbox[s]]
      /\ UNCHANGED <<reliable, stream>>

Take ==
  \E s \in Listeners :
    /\ mailbox[s] # <<>>
    /\ mailbox' = [mailbox EXCEPT ![s] = Tail(mailbox[s])]
    /\ UNCHANGED <<reliable, stream>>

BroadcastNext == Join \/ Part \/ Publish \/ Take

Broadcast == BroadcastInit /\ [][BroadcastNext]_broadcastVars
=============================================================================
