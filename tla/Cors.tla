-------------------------------- MODULE Cors --------------------------------
(***************************************************************************)
(* Cross-origin configuration and headers (crates/http/src/cors.rs).        *)
(* Origins are sequences of tokens, such as << "https", "://", "a", ".",    *)
(* "dev" >>; the wildcard is << "*" >>.                                     *)
(***************************************************************************)
EXTENDS Naturals, Sequences, Options

Tokens(text) == {text[i] : i \in DOMAIN text}

Drop(text, n) == SubSeq(text, n + 1, Len(text))

EndsWith(text, suffix) ==
    /\ Len(suffix) =< Len(text)
    /\ SubSeq(text, Len(text) - Len(suffix) + 1, Len(text)) = suffix

(* AllowedOrigin::parse; None is an error.                                  *)
ParseOrigin(s) ==
    LET schemes == {i \in DOMAIN s : s[i] = "://"}
        rest    == Drop(s, CHOOSE i \in schemes : \A j \in schemes : i =< j)
    IN  IF s = <<"*">> THEN [form |-> "any"]
        ELSE IF Len(s) >= 2 /\ s[1] = "*" /\ s[2] = "."
        THEN IF "." \in Tokens(Drop(s, 2)) THEN [form |-> "suffix", text |-> Drop(s, 1)] ELSE None
        ELSE IF schemes = {} \/ rest = <<>> \/ "/" \in Tokens(rest) THEN None
        ELSE [form |-> "exact", text |-> s]

(* AllowedOrigin::matches: the value of Access-Control-Allow-Origin.        *)
OriginMatches(allowed, origin) ==
    CASE allowed.form = "exact"  -> IF origin = allowed.text THEN allowed.text ELSE None
      [] allowed.form = "suffix" -> IF EndsWith(origin, allowed.text) THEN origin ELSE None
      [] allowed.form = "any"    -> <<"*">>

MatchesOrigin(cors, origin) ==
    LET hits == {i \in DOMAIN cors.origins : OriginMatches(cors.origins[i], origin) # None}
    IN  IF hits = {} THEN None
        ELSE OriginMatches(cors.origins[CHOOSE i \in hits : \A j \in hits : i =< j], origin)

IsWildcardOnly(cors) == cors.origins = <<[form |-> "any"]>>

PushCommonHeaders(cors, origin) ==
    (IF IsWildcardOnly(cors) THEN <<>> ELSE <<<<"vary", <<"Origin">>>>>>)
    \o <<<<"access-control-allow-origin", origin>>>>
    \o (IF cors.credentials THEN <<<<"access-control-allow-credentials", <<"true">>>>>> ELSE <<>>)
    \o (IF cors.expose = <<>> THEN <<>>
        ELSE <<<<"access-control-expose-headers", cors.expose>>>>)

PreflightHeaders(cors, origin) ==
    PushCommonHeaders(cors, origin)
    \o <<<<"access-control-allow-methods", cors.methods>>,
         <<"access-control-allow-headers", cors.headers>>,
         <<"access-control-max-age", <<cors.maxAge>>>>>>

ResponseHeaders(cors, origin) == PushCommonHeaders(cors, origin)

(* TryFrom<RawCorsConfig>: the errors found, all of them, and the config    *)
(* when there are none.  A disabled section allows no origin.               *)
CorsErrors(raw) ==
    IF ~raw.enabled THEN {}
    ELSE (IF raw.origins = <<>> THEN {"cors.allowed_origins"} ELSE {})
         \cup {<<"cors.allowed_origins", i>> : i \in {j \in DOMAIN raw.origins :
                                                       ParseOrigin(raw.origins[j]) = None}}
         \cup (IF raw.credentials /\ \E i \in DOMAIN raw.origins : raw.origins[i] = <<"*">>
               THEN {"cors"} ELSE {})
         \cup (IF raw.maxAge = 0 THEN {"cors.max_age_secs"} ELSE {})

CorsFromRaw(raw) ==
    [origins     |-> IF raw.enabled
                     THEN [i \in DOMAIN raw.origins |-> ParseOrigin(raw.origins[i])] ELSE <<>>,
     methods     |-> raw.methods,
     headers     |-> raw.headers,
     expose      |-> raw.expose,
     credentials |-> raw.credentials,
     maxAge      |-> raw.maxAge]
=============================================================================
