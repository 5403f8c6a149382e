---------------------------- MODULE SystemChecks ----------------------------
(***************************************************************************)
(* The system checks (checks.py) that judge how the workers of a host hang *)
(* together, as functions of its settings: the ids each of them reports.   *)
(* OriginGuard has E003 and W002, PresenceRegistry W006.                   *)
(***************************************************************************)
EXTENDS Integers, Sequences

CONSTANTS
  MaxWorkers,   \* bound: workers of a host
  RedisHosts,   \* the entries of the channel layer's `hosts'
  Seconds,      \* values of a socket_timeout or its floor
  Absent,       \* socket_timeout is not stated
  Forever,      \* socket_timeout is None
  Unset,        \* an environment variable that is not there
  NotANumber    \* one that int() refuses

ASSUME ChecksAssumption ==
  /\ MaxWorkers \in Nat \ {0}
  /\ Seconds \subseteq Nat
  /\ {Absent, Forever, Unset, NotANumber} \cap Nat = {}
  /\ Absent # Forever
  /\ Unset # NotANumber

(* Where a socket_timeout may be written: CONFIG itself, its               *)
(* connection_kwargs, or an entry of its hosts.                            *)
Sources == RedisHosts \cup {"CONFIG", "connection_kwargs"}

(* The variables of _WORKER_ENV_VARS, in that order; the floor is          *)
(* LAYER_SOCKET_TIMEOUT_MIN or expiry + 10; `inherited' is what the        *)
(* installed redis-py does when nobody states a socket_timeout.            *)
Settings ==
  [layer : {"none", "memory", "redis"},
   env : [1..3 -> (1..MaxWorkers) \cup {Unset, NotANumber}],
   timeouts : [Sources -> Seconds \cup {Absent, Forever}],
   inherited : Seconds \cup {Forever},
   floor : Seconds]

-----------------------------------------------------------------------------
(* _worker_count(): the first variable that int() takes.                   *)
Numbers(env) == {i \in DOMAIN env : env[i] \notin {Unset, NotANumber}}

First(indices) == CHOOSE i \in indices : \A j \in indices : i <= j

(* Mutant of WorkerCount: a variable that is no number ends the search.    *)
WorkerCountGivesUp(env) ==
  LET set == {i \in DOMAIN env : env[i] # Unset}
  IN  IF set = {} \/ env[First(set)] = NotANumber THEN 1 ELSE env[First(set)]

WorkerCount(env) == IF Numbers(env) = {} THEN 1 ELSE env[First(Numbers(env))]

CheckChannelLayer(c) ==
  {id \in {"W001"} : c.layer = "none"}
    \cup {id \in {"E001"} : c.layer = "memory" /\ WorkerCount(c.env) > 1}

-----------------------------------------------------------------------------
TooShort(timeout, c) == timeout \notin {Absent, Forever} /\ timeout < c.floor

(* stated_anywhere                                                         *)
Stated(c) == \E source \in Sources : c.timeouts[source] # Absent

(* Mutant of CheckLayerSocketTimeout: an unset value is taken for None.    *)
CheckStatedTimeouts(c) ==
  {id \in {"E002"} :
     c.layer = "redis" /\ \E source \in Sources : TooShort(c.timeouts[source], c)}

CheckLayerSocketTimeout(c) ==
  {id \in {"E002"} :
     /\ c.layer = "redis"
     /\ \/ \E source \in Sources : TooShort(c.timeouts[source], c)
        \/ ~Stated(c) /\ TooShort(c.inherited, c)}

=============================================================================
