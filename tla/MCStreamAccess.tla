--------------------------- MODULE MCStreamAccess ---------------------------
(* StreamAccess for TLC: two users with a socket each, and handshakes from *)
(* a listed origin, the same host on another port, and a garbled one.      *)
EXTENDS StreamAccess, TLC

CONSTANTS s1, s2, u1, u2

TwoSockets == {s1, s2}
TwoUsers == {u1, u2}
EachItsOwn == [s \in Sockets |-> IF s = s1 THEN u1 ELSE u2]

(* The two sockets with their users are interchangeable.                   *)
Swap == {p \in Permutations({s1, s2, u1, u2}) :
           /\ p[s1] \in {s1, s2}
           /\ p[u1] \in {u1, u2}
           /\ p[s1] = s2 <=> p[u1] = u2}

Texts == {"", "http", "HTTP", "ws", "https", "wss", "studio", "Studio"}
LowerCase ==
  [w \in Texts |-> CASE w = "HTTP" -> "http"
                     [] w = "Studio" -> "studio"
                     [] OTHER -> w]

Studio(port) == [scheme |-> "http", host |-> "studio", port |-> port]

(* An entry without a scheme, as in the incident asgi.py tells of.         *)
Listed == {Studio(80), [scheme |-> "", host |-> "studio", port |-> NoPort]}
Registered == {Studio(8600)}
Headers ==
  {[scheme |-> "HTTP", host |-> "Studio", port |-> NoPort], Studio(8600),
   Studio(8601), Garbled, NoOrigin}
=============================================================================
