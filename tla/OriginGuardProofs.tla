------------------------- MODULE OriginGuardProofs -------------------------
(***************************************************************************)
(* What the origin guard decides, for every configuration and every        *)
(* Origin header.                                                          *)
(***************************************************************************)
EXTENDS OriginGuard, TLAPS

(* normalize_origin() identifies two origins exactly if they are the same: *)
(* case and a written-out default port are noise, any other port counts.   *)
LEMMA NormalizeIsSameOrigin ==
  ASSUME NEW a, NEW b, WellFormed(a), WellFormed(b)
  PROVE  NormalizeOrigin(a) = NormalizeOrigin(b) <=> SameOrigin(a, b)
<1> DEFINE P(o) == IF o.port = DefaultPort(Lower[o.scheme]) THEN NoPort ELSE o.port
<1>1. NormalizeOrigin(a) = NormalizeOrigin(b)
        <=> /\ Lower[a.scheme] = Lower[b.scheme]
            /\ Lower[a.host] = Lower[b.host]
            /\ P(a) = P(b)
  BY DEF NormalizeOrigin
<1>2. ASSUME Lower[a.scheme] = Lower[b.scheme]
      PROVE  P(a) = P(b) <=> EffectivePort(a) = EffectivePort(b)
  BY <1>2 DEF EffectivePort
<1> HIDE DEF P
<1> QED
  BY <1>1, <1>2 DEF SameOrigin

(* OriginGuard.__call__ admits exactly the origins of its configuration:   *)
(* a malformed entry is dropped and never opens the guard, a malformed     *)
(* header is refused, and no other port of a listed host is let in.        *)
THEOREM GuardAdmitsItsOrigins == \A origin : GuardIsSameOrigin(origin)
<1>1. SUFFICES ASSUME NEW origin, Configured # {}, origin # NoOrigin
               PROVE  Admits(origin) <=> FromConfigured(origin)
  BY DEF GuardIsSameOrigin
<1>2. Admits(origin) <=>
        /\ WellFormed(origin)
        /\ \E e \in Configured :
             WellFormed(e) /\ NormalizeOrigin(origin) = NormalizeOrigin(e)
  BY <1>1 DEF Admits, Allowed
<1> QED
  BY <1>2, NormalizeIsSameOrigin DEF FromConfigured

(* The guard is off only where check_allowed_origins warns (W002), so a    *)
(* deployment that it does not warn refuses every malformed Origin header. *)
THEOREM OpenGuardIsReported == Configured = {} <=> WarnsOpen
BY DEF Configured, WarnsOpen

(* A guard whose entries check_allowed_origins all reports (E003) refuses  *)
(* every handshake that names an origin: a typo never opens the guard.     *)
THEOREM MisspeltGuardIsClosed ==
  ASSUME Configured # {}, Configured = Misspelt, NEW origin, Admits(origin)
  PROVE  origin = NoOrigin
BY DEF Admits, Allowed, Misspelt
=============================================================================
