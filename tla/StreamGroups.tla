---------------------------- MODULE StreamGroups ----------------------------
(***************************************************************************)
(* Stream keys and the Channels groups they become (streams.py).  A key is *)
(* the sequence of its segments: what separates them, ":" in a key and "." *)
(* in a group name, is in no segment, which is the core's canon.           *)
(***************************************************************************)
EXTENDS Integers, Sequences, Functions

CONSTANTS
  Segments,         \* the words the core's build_stream_key admits
  H,                \* the word "h"
  LengthOf,         \* how many characters each word has
  Digest,           \* the start of the sha256 of each key
  MAX_GROUP_NAME    \* _MAX_GROUP_NAME

(* <mod>:<scope_type>:<scope_id>[:<topic>]                                 *)
StreamKeys == [1..3 -> Segments] \cup [1..4 -> Segments]

Module(key) == key[1]

(* Every word, and the separators between them.                            *)
NameLength(key) ==
  SumFunction([i \in DOMAIN key |-> LengthOf[key[i]]]) + Len(key) - 1

Fits(key) == NameLength(key) <= MAX_GROUP_NAME

(* sha256 has no collisions, and its digests are nobody's scope id.        *)
ASSUME DigestAssumption ==
  /\ H \in Segments
  /\ \A a \in StreamKeys : Digest[a] \notin Segments
  /\ \A a, b \in StreamKeys : Digest[a] = Digest[b] => a = b

(* Mutant of GroupName: a name that is too long loses its last segment.    *)
GroupNameTruncated(key) ==
  IF Fits(key) THEN key ELSE SubSeq(key, 1, Len(key) - 1)

GroupName(key) ==
  IF Fits(key) THEN key ELSE <<Module(key), H, Digest[key]>>
=============================================================================
