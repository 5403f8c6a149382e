---------------------------- MODULE OriginGuard ----------------------------
(***************************************************************************)
(* The origin guard in front of every socket: asgi.py, normalize_origin    *)
(* and OriginGuard, and the two verdicts of checks.py about its settings.  *)
(*                                                                         *)
(* An origin is what urlsplit makes of it: a scheme, a host name and a     *)
(* port, each possibly missing; Garbled is a text that urlsplit refuses or *)
(* an entry that is not a text.  Letters have a case, which Lower folds.   *)
(***************************************************************************)
EXTENDS Integers

CONSTANTS
  Words,                \* the texts a scheme or a host is written with
  Lower,                \* str.lower() on them
  Blank,                \* the empty text
  HTTP, WS, HTTPS, WSS, \* the schemes with a default port, in lower case
  NoPort,               \* an origin without a port
  Garbled,              \* not parseable as a URL
  NoOrigin,             \* a request without an Origin header
  ALLOWED_ORIGINS,      \* realtime_settings.ALLOWED_ORIGINS
  SiteOrigins           \* site_registry_origins()

Ports == 0..65535
Origins == [scheme : Words, host : Words, port : Ports \cup {NoPort}]

ASSUME OriginAssumption ==
  /\ Lower \in [Words -> Words]
  /\ \A w \in Words : Lower[Lower[w]] = Lower[w]
  /\ \A w \in Words : Lower[w] = Blank <=> w = Blank
  /\ {Blank, HTTP, WS, HTTPS, WSS} \subseteq Words
  /\ \A w \in {HTTP, WS, HTTPS, WSS} : Lower[w] = w
  /\ NoPort \notin Ports
  /\ {Garbled, NoOrigin} \cap Origins = {}
  /\ Garbled # NoOrigin
  /\ ALLOWED_ORIGINS \subseteq Origins \cup {Garbled}
  /\ SiteOrigins \subseteq Origins \cup {Garbled}

(* _DEFAULT_PORTS.get(scheme)                                              *)
DefaultPort(scheme) ==
  CASE scheme \in {HTTP, WS} -> 80
    [] scheme \in {HTTPS, WSS} -> 443
    [] OTHER -> NoPort

(* normalize_origin() does not raise.                                      *)
WellFormed(o) == o \in Origins /\ o.scheme # Blank /\ o.host # Blank

(* Mutant of NormalizeOrigin: the port is dropped from the comparison.     *)
NormalizeWithoutPort(o) ==
  [scheme |-> Lower[o.scheme], host |-> Lower[o.host], port |-> NoPort]

NormalizeOrigin(o) ==
  LET scheme == Lower[o.scheme] IN
  [scheme |-> scheme, host |-> Lower[o.host],
   port |-> IF o.port = DefaultPort(scheme) THEN NoPort ELSE o.port]

(* OriginGuard._configured and OriginGuard.allowed                         *)
Configured == ALLOWED_ORIGINS \cup SiteOrigins

Allowed == {NormalizeOrigin(o) : o \in {e \in Configured : WellFormed(e)}}

(* OriginGuard.__call__: does a handshake with this Origin header pass?    *)
Admits(origin) ==
  \/ Configured = {}
  \/ origin = NoOrigin
  \/ WellFormed(origin) /\ NormalizeOrigin(origin) \in Allowed

-----------------------------------------------------------------------------
(* checks.py, check_allowed_origins                                        *)
WarnsOpen == ALLOWED_ORIGINS = {} /\ SiteOrigins = {}
Misspelt == {e \in ALLOWED_ORIGINS : ~WellFormed(e)}

-----------------------------------------------------------------------------
(* What "the same origin" means, independently of normalize_origin: equal  *)
(* scheme and host up to case and the same port once defaults are filled.  *)
EffectivePort(o) ==
  IF o.port = NoPort THEN DefaultPort(Lower[o.scheme]) ELSE o.port

SameOrigin(a, b) ==
  /\ Lower[a.scheme] = Lower[b.scheme]
  /\ Lower[a.host] = Lower[b.host]
  /\ EffectivePort(a) = EffectivePort(b)

FromConfigured(origin) ==
  /\ WellFormed(origin)
  /\ \E e \in Configured : WellFormed(e) /\ SameOrigin(origin, e)

(* A handshake that names an origin gets past a guard that is on only from *)
(* the same origin as a well-formed entry of the setting or the registry,  *)
(* whatever the letters' case and with a default port written out or not.  *)
GuardIsSameOrigin(origin) ==
  (Configured # {} /\ origin # NoOrigin)
    => (Admits(origin) <=> FromConfigured(origin))
=============================================================================
