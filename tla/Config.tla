------------------------------- MODULE Config -------------------------------
(***************************************************************************)
(* The configuration file: from the raw document to the validated           *)
(* configuration or the first error (crates/http/src/config.rs,             *)
(* config_raw.rs, config_types.rs), overrides from flags and environment,   *)
(* and the collect-all validator (validate.rs).                             *)
(*                                                                          *)
(* Names in the document are texts (module Names); an address or a path is  *)
(* a string; a URL is a record [valid, scheme, host, port].                 *)
(***************************************************************************)
EXTENDS Cedar

CONSTANTS Addrs,            \* the strings that parse as socket addresses
          LowerCase(_)      \* to_ascii_lowercase on keywords

CORS == INSTANCE Cors
R    == INSTANCE Routes WITH IsResourceId <- IsSegment

(* The raw document with only the required fields: what serde fills in.     *)
RawProxyConfig(projectId, listenAddr, upstreamUrl) ==
    [projectId |-> projectId, listenAddr |-> listenAddr, upstreamUrl |-> upstreamUrl,
     upstreamTarget |-> None, defaultPolicy |-> "deny", clientIpSource |-> "peer", auth |-> None,
     jwt |-> None, apiKeys |-> <<>>, authz |-> None, metrics |-> None, routes |-> <<>>,
     publicRoutes |-> <<>>, policies |-> <<>>, groups |-> <<>>, flags |-> {}, schema |-> {},
     policyTests |-> <<>>, cors |-> None, cluster |-> None, signing |-> None]

-----------------------------------------------------------------------------
(* Sections.  A defect names the field that is rejected, None when the      *)
(* section is accepted.                                                     *)

Url(scheme, host, port) == [valid |-> TRUE, scheme |-> scheme, host |-> host, port |-> port]
BadUrl == [valid |-> FALSE, scheme |-> None, host |-> None, port |-> None]

KnownPorts == [http |-> 80, https |-> 443, ws |-> 80, wss |-> 443]

PortOrKnownDefault(url) ==
    IF url.port # None THEN url.port
    ELSE IF url.scheme \in DOMAIN KnownPorts THEN KnownPorts[url.scheme] ELSE None

(* None is an error.                                                        *)
DeriveUpstreamTarget(url) ==
    IF url.host = None \/ PortOrKnownDefault(url) = None THEN None
    ELSE [addr |-> <<url.host, PortOrKnownDefault(url)>>, tls |-> url.scheme = "https", sni |-> url.host]

ParseDefaultPolicy(s) ==
    CASE LowerCase(s) = "passthrough" -> "Passthrough"
      [] LowerCase(s) = "deny"        -> "Deny"
      [] OTHER                        -> None

ParseClientIpSource(s) ==
    CASE LowerCase(s) = "peer"                                     -> "Peer"
      [] LowerCase(s) \in {"x-forwarded-for", "xforwardedfor"}     -> "XForwardedFor"
      [] LowerCase(s) \in {"cf-connecting-ip", "cfconnectingip"}   -> "CfConnectingIp"
      [] OTHER                                                     -> None

DefaultChainOrder == <<"jwt", "api-key">>

JwtDefect(jwt) ==
    CASE jwt = None            -> None
      [] ~jwt.jwksUrl.valid    -> "authn.jwt.jwks_url"
      [] jwt.issuer = ""       -> "authn.jwt.issuer"
      [] OTHER                 -> None

FirstOf(list, Bad(_)) ==
    LET bad == {i \in DOMAIN list : Bad(list[i])} IN IF bad = {} THEN None ELSE Min(bad)

ApiKeyDefect(entry) ==
    CASE entry.key = ""                                          -> "key"
      [] ~IsTypedId(entry.userId)                                -> "user_id"
      [] entry.tenantId # None /\ ~IsTypedId(entry.tenantId)     -> "tenant_id"
      [] FirstOf(entry.groups, LAMBDA g : ~IsTypedId(g)) # None  -> "groups"
      [] OTHER                                                   -> None

AuthzConfig(policyStoreId, cacheTtlSecs, cacheMaxEntries) ==
    [policyStoreId |-> IF policyStoreId = None THEN "" ELSE policyStoreId,
     cacheTtl |-> cacheTtlSecs, cacheMaxEntries |-> cacheMaxEntries]

MetricsDefect(metrics) ==
    IF metrics # None /\ metrics.listenAddr # None /\ metrics.listenAddr \notin Addrs
    THEN "metrics.listen_addr" ELSE None

RouteDefect(route) ==
    CASE R!ParseMethod(route.method) = None                                    -> "method"
      [] ParseQualifiedAction(route.action) = None                             -> "action"
      [] route.featureGate # None /\ ParseFlagName(route.featureGate) = None   -> "feature_gate"
      [] OTHER                                                                 -> None

PublicAuthModes == [anonymous |-> "Anonymous", opportunistic |-> "Opportunistic"]

PublicRouteDefect(route) ==
    CASE R!ParseMethod(route.method) = None                        -> "method"
      [] LowerCase(route.authMode) \notin DOMAIN PublicAuthModes   -> "auth_mode"
      [] OTHER                                                     -> None

PolicyTestDefect(test) ==
    CASE ParseQualifiedAction(test.action) = None                                  -> "action"
      [] FirstOf(test.groups, LAMBDA g : ~IsTypedId(g)) # None                     -> "groups"
      [] test.resource # None /\ ParseCedarEntityRef(test.resource) = None         -> "resource"
      [] LowerCase(test.expect) \notin {"allow", "deny"}                           -> "expect"
      [] OTHER                                                                     -> None

ClusterDefect(cluster) ==
    CASE cluster = None           -> None
      [] ~cluster.redisUrl.valid  -> "cluster.redis_url"
      [] cluster.listenClusterAddr # None /\ cluster.listenClusterAddr \notin Addrs
                                  -> "cluster.listen_cluster_addr"
      [] OTHER                    -> None

SigningDefect(signing) ==
    IF signing # None /\ signing.keyId = "" THEN "signing.key_id" ELSE None

-----------------------------------------------------------------------------
(* TryFrom<RawProxyConfig>: fields are examined in this order, and the      *)
(* first one that is rejected is reported with its place.                   *)

Scalar(field, ok) == IF ok THEN <<>> ELSE <<field>>
Section(defect) == IF defect = None THEN <<>> ELSE <<defect>>
Entries(name, list, Defect(_)) ==
    LET i == FirstOf(list, LAMBDA x : Defect(x) # None)
    IN  IF i = None THEN <<>> ELSE <<name \o "." \o Defect(list[i])>>

Defects(raw) ==
    Scalar("project_id", IsTypedId(raw.projectId))
    \o Scalar("listen_addr", raw.listenAddr \in Addrs)
    \o Scalar("upstream_url", raw.upstreamUrl.valid /\ DeriveUpstreamTarget(raw.upstreamUrl) # None)
    \o Scalar("default_policy", ParseDefaultPolicy(raw.defaultPolicy) # None)
    \o Scalar("client_ip_source", ParseClientIpSource(raw.clientIpSource) # None)
    \o Section(JwtDefect(raw.jwt))
    \o Entries("api_keys", raw.apiKeys, ApiKeyDefect)
    \o Section(MetricsDefect(raw.metrics))
    \o Entries("routes", raw.routes, RouteDefect)
    \o Entries("public_routes", raw.publicRoutes, PublicRouteDefect)
    \o Entries("policy_tests", raw.policyTests, PolicyTestDefect)
    \o Scalar("cors", raw.cors = None \/ CORS!CorsErrors(raw.cors) = {})
    \o Section(ClusterDefect(raw.cluster))
    \o Section(SigningDefect(raw.signing))

PolicyTest(raw) ==
    [raw EXCEPT !.action = ParseQualifiedAction(@), !.expect = LowerCase(@),
                !.resource = IF @ = None THEN None ELSE ParseCedarEntityRef(@)]

Route(raw) == [raw EXCEPT !.method = R!ParseMethod(@), !.action = ParseQualifiedAction(@),
                          !.featureGate = IF @ = None THEN None ELSE ParseFlagName(@)]

ProxyConfig(raw) ==
    [raw EXCEPT
        !.defaultPolicy  = ParseDefaultPolicy(@),
        !.clientIpSource = ParseClientIpSource(@),
        !.auth           = IF @ = None THEN DefaultChainOrder ELSE @,
        !.upstreamTarget = DeriveUpstreamTarget(raw.upstreamUrl),
        !.metrics        = IF @ = None THEN [enabled |-> FALSE, listenAddr |-> None] ELSE @,
        !.routes         = [i \in DOMAIN @ |-> Route(@[i])],
        !.publicRoutes   = [i \in DOMAIN @ |->
                               [@[i] EXCEPT !.method = R!ParseMethod(@),
                                            !.authMode = PublicAuthModes[LowerCase(@)]]],
        !.policyTests    = [i \in DOMAIN @ |-> PolicyTest(@[i])],
        !.cors           = IF @ = None THEN None ELSE CORS!CorsFromRaw(@)]

(* load_config: the file may be missing or not TOML.                        *)
LoadConfig(raw) ==
    IF raw = None THEN [error |-> "unreadable", config |-> None]
    ELSE IF Defects(raw) # <<>> THEN [error |-> Head(Defects(raw)), config |-> None]
    ELSE [error |-> None, config |-> ProxyConfig(raw)]

(* Mutant: an override of the upstream URL leaves the derived target alone. *)
ApplyOverridesKeepsTarget(config, overrides) ==
    [config EXCEPT !.listenAddr    = IF overrides.listenAddr # None THEN overrides.listenAddr ELSE @,
                   !.upstreamUrl   = IF overrides.upstreamUrl # None THEN overrides.upstreamUrl ELSE @,
                   !.defaultPolicy = IF overrides.defaultPolicy # None THEN overrides.defaultPolicy ELSE @]

(* None is an error.                                                        *)
ApplyOverrides(config, overrides) ==
    LET url == overrides.upstreamUrl
    IN  IF url # None /\ DeriveUpstreamTarget(url) = None THEN None
        ELSE [config EXCEPT
                !.listenAddr     = IF overrides.listenAddr # None THEN overrides.listenAddr ELSE @,
                !.upstreamUrl    = IF url # None THEN url ELSE @,
                !.upstreamTarget = IF url # None THEN DeriveUpstreamTarget(url) ELSE @,
                !.defaultPolicy  = IF overrides.defaultPolicy # None THEN overrides.defaultPolicy ELSE @]

-----------------------------------------------------------------------------
(* SchemaConfig::to_entity_config.  An attribute of an unknown type is left *)
(* out.                                                                     *)
AttributeTypes == {"String", "Long", "Boolean"}

ToEntityConfig(entities) ==
    LET Type(e) == CedarEntityType(e.namespace, e.entity)
        Typed(e) == [a \in {x \in DOMAIN e.attributes : e.attributes[x] \in AttributeTypes} |->
                        e.attributes[a]]
    IN  [t \in {Type(e) : e \in entities} |->
            LET e == CHOOSE x \in entities : Type(x) = t
            IN  EntitySchemaConfig({CedarEntityType(m[1], m[2]) : m \in e.memberOf}, Typed(e))]

-----------------------------------------------------------------------------
(* validate: all errors, each with its kind and place, and the warnings.    *)

ValidationError(kind, path) == <<kind>> \o path

SameRoute(a, b) == a.method = b.method /\ a.path = b.path

DuplicateRoutes(config) ==
    {ValidationError("DuplicateRoute", <<i>>) : i \in {j \in DOMAIN config.routes :
        \E k \in 1 .. j - 1 : SameRoute(config.routes[k], config.routes[j])}}

UndefinedGates(config) ==
    {ValidationError("UndefinedFeatureGate", <<i>>) : i \in {j \in DOMAIN config.routes :
        config.routes[j].featureGate # None /\ config.routes[j].featureGate \notin config.flags}}

Undefined(kind, list, Refs(_), config) ==
    UNION {{ValidationError(kind, <<i, j>>) : j \in {k \in DOMAIN Refs(list[i]) :
                                      Refs(list[i])[k] \notin GroupNames(config.groups)}} :
              i \in DOMAIN list}

UndefinedPolicyGroups(config) ==
    Undefined("InvalidPolicyReference", config.policies, LAMBDA p : p.groups, config)

UndefinedMemberGroups(config) ==
    Undefined("InvalidGroupReference", config.groups, LAMBDA g : g.memberGroups, config)

CircularNestings(config) ==
    {ValidationError("CircularGroupNesting", <<edge[1]>>) : edge \in ValidateCircularNesting(config.groups)}

PublicOverlaps(config) ==
    {i \in DOMAIN config.publicRoutes :
        \E j \in DOMAIN config.routes : SameRoute(config.publicRoutes[i], config.routes[j])}

Validate(config) ==
    [errors   |-> UNION {DuplicateRoutes(config), UndefinedGates(config),
                         UndefinedPolicyGroups(config), UndefinedMemberGroups(config),
                         CircularNestings(config)},
     warnings |-> PublicOverlaps(config)]
=============================================================================
