------------------------- MODULE MCPresenceRegistry -------------------------
(* PresenceRegistry for TLC: one user with one or two tabs.                *)
EXTENDS PresenceRegistry, TLC

CONSTANTS s1, s2, chat, video

OneTab == {s1}
TwoTabs == {s1, s2}
OneFamily == {chat}
TwoFamilies == {chat, video}
ChatOnly == [s \in Sockets |-> chat]
ChatAndVideo == [s \in Sockets |-> IF s = s1 THEN chat ELSE video]

(* The two tabs with their families are interchangeable.                   *)
Swap == {p \in Permutations({s1, s2, chat, video}) :
           /\ p[s1] \in {s1, s2}
           /\ p[chat] \in {chat, video}
           /\ p[s1] = s2 <=> p[chat] = video}
=============================================================================
