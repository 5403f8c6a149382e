--------------------------- MODULE MCRealtimeHost ---------------------------
(* RealtimeHost for TLC: two sockets, up to two workers, two redis hosts,  *)
(* and two streams, one with a name just short enough and one whose name   *)
(* is too long and begins with the first's.                                *)
EXTENDS RealtimeHost, TLC

CONSTANTS s1, s2, r1, r2, chat, ws, one, board

TwoSockets == {s1, s2}
TwoHosts == {r1, r2}
Words == {chat, ws, one, board, H}
Lengths == [w \in Words |-> CASE w = board -> 8 [] w = H -> 1 [] OTHER -> 4]
Itself == [key \in StreamKeys |-> key]

Short == <<chat, ws, one>>            \* 14 characters
Board == <<chat, ws, one, board>>     \* 23
Illegal == <<chat, ws>>
SomeCalls == {Short, Board, Illegal}

Sound == [layer |-> "redis", env |-> <<Unset, Unset, Unset>>,
          timeouts |-> [source \in Sources |-> Forever], inherited |-> Forever,
          floor |-> 3]

(* Each check with every value of what it looks at.                        *)
Layers ==
  {[Sound EXCEPT !.layer = l] : l \in {"none", "memory", "redis"}}
    \cup {[Sound EXCEPT !.layer = "memory", !.env = e] :
            e \in [1..3 -> {Unset, NotANumber, 1, 2}]}
Stating(values) ==
  {t \in [Sources -> values \cup {Absent}] :
     2 \in values => t["CONFIG"] = Absent /\ t["connection_kwargs"] = Absent}
Timeouts == {[Sound EXCEPT !.timeouts = t, !.inherited = i] :
               t \in Stating({3}) \cup Stating({Forever}) \cup Stating({2, Forever}),
               i \in {1, 3, Forever}}

SomeConfigurations == Layers \cup Timeouts

(* The sockets are interchangeable, and so are the redis hosts.            *)
Swap == {p \in Permutations({s1, s2, r1, r2}) : p[s1] \in {s1, s2}}
=============================================================================
