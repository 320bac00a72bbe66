---------------------------- MODULE MCDataPlane -----------------------------
(***************************************************************************)
(* TLC instances of the data plane: the two hosts of the pipeline, the key  *)
(* cache behind bearer tokens, and the control plane as a host of the same  *)
(* pipeline.  A behaviour is about one of them.                             *)
(***************************************************************************)
EXTENDS ControlPlane, JwksCache

CONSTANT Modes
VARIABLE mode

vars == <<mode, cpVars, jwksVars>>

MCIsId(x) == x \notin {"", "bad id"}
MCBucket(flag, tenant, user) == IF user = "alice" THEN 20 ELSE 70

Lit(n) == [kind |-> "lit", name |-> n]
Par(n) == [kind |-> "colon", name |-> n]

MCRoutes ==
    << RouteMapping("GET", <<Lit("lists"), Par("id")>>, "read", "list", "id", None, None, FALSE),
       RouteMapping("ANY", <<Lit("lists"), Lit("mine")>>, "own", "list", None, "mine", None, TRUE),
       RouteMapping("GET", <<Lit("beta"), Lit("")>>, "beta", "list", None, None, "beta", FALSE),
       RouteMapping("GET", <<Lit("feed")>>, "feed", "list", None, None, None, FALSE) >>

MCPublics ==
    <<PublicRoute("ANY", <<Lit("about")>>, "Anonymous"),
      PublicRoute("GET", <<Lit("feed")>>, "Opportunistic")>>

ASSUME Buildable(MCRoutes) /\ Buildable(MCPublics)

Flag(on, ovs, rollout) == FlagDefinition(on, "Bool(false)", ovs, rollout, None)

MCFlags ==
    [beta |-> Flag(TRUE, <<FlagOverride("acme", None, "staff", "Bool(false)"),
                           FlagOverride("acme", None, None, "Bool(true)")>>, 50),
      old |-> Flag(FALSE, <<FlagOverride(None, "alice", None, "Bool(true)")>>, 100)]

Token(kid, by, sub) ==
    [kid |-> kid, signedBy |-> by, expired |-> FALSE, iss |-> "pool", aud |-> "app", sub |-> sub,
     claims |-> [x \in {} |-> None]]

Bearer(t) == <<"authorization", [scheme |-> "bearer", token |-> t]>>
Alice == Bearer(Token("k1", "key1", "alice"))
Key(k) == <<"x-api-key", k>>
Org(o) == <<"x-fg-org-id", o>>
Origin(o) == <<"origin", o>>

App == <<"https", "://", "app", ".", "dev", ".", "io">>
Other == <<"https", "://", "other", ".", "net">>

Signed(org, key, at) ==
    LET headers == <<Org(org)>>
    IN  headers \o SigningTail([keyId |-> "m1", key |-> key], "t0", at, headers)

Req(m, path, headers) ==
    [method |-> m, path |-> path, headers |-> headers, ip |-> None, query |-> <<>>]

Common ==
    { Req("GET", <<"lists", "l1">>, <<>>),
      Req("GET", <<"lists", "l1", "">>, <<Alice, Org("acme"), <<"x-fg-groups", {"old"}>>>>),
      Req("GET", <<"beta">>, <<Alice, Org("acme")>>),
      Req("GET", <<"feed">>, <<Alice>>),
      Req("GET", <<".well-known", "forgeguard", "health">>, <<>>) }

ProxyRequests == Common \cup
    { Req("POST", <<"lists", "mine">>, <<Key("s3"), Origin(App), <<"cf-connecting-ip", 9>>,
                                         <<"x-forwarded-for", <<8, 9>>>>>>),
      Req("GET", <<"nowhere">>, <<Key("s3"), Origin(App)>>),
      Req("GET", <<"about">>, <<Key("s3"), Origin(Other), <<"x-fg-user-id", "old">>>>),
      Req("OPTIONS", <<"lists", "l1">>, <<Origin(App), <<"access-control-request-method", "GET">>>>),
      Req("HEAD", <<"lists", "l1">>, <<Origin(App)>>),
      [Req("GET", FlagsDebugPath, <<>>) EXCEPT
         !.query = <<<<"user_id", "bob">>, <<"user_id", "alice">>, <<"tenant_id", "acme">>,
                     <<"groups", {"staff"}>>>>],
      Req("GET", FlagsDebugPath, <<>>) }

AxumRequests == Common \cup
    { Req("GET", <<"lists", "l1">>, Signed("acme", "mkey", 5)),
      Req("GET", <<"lists", "l1">>, Signed("acme", "mkey", 1)),
      Req("GET", <<"lists", "l1">>, <<Alice>>),
      Req("GET", <<"feed">>, <<Alice, Org("bad id")>>),
      Req("GET", <<"about">>, <<<<"x-fg-user-id", "old">>>>),
      Req("HEAD", <<"about">>, <<>>) }

MCRequests(host) == IF host = "proxy" THEN ProxyRequests ELSE AxumRequests

Env(chain) ==
    [chain    |-> chain,
     jwt      |-> JwtResolverConfig("pool", "app", None),
     apiKeys  |-> [k \in {"s3"} |-> ApiKeyEntry("bob", "acme", {"staff"})],
     keyStore |-> [k \in {<<"acme", "m1">>} |-> "mkey"]]

Signing == [keyId |-> "p1", key |-> "pkey"]

Cors(origins) ==
    CorsFromRaw([enabled |-> TRUE, origins |-> origins, methods |-> <<"GET">>,
                 headers |-> <<"authorization">>, expose |-> <<>>, credentials |-> FALSE,
                 maxAge |-> 600])

Settings(passthrough, debug, membership) ==
    PipelineConfig(MCRoutes, MCPublics, MCFlags, passthrough, debug, membership)

ProxyHost ==
    ForgeGuardProxy(Settings(FALSE, TRUE, FALSE), Env(<<"cognito_jwt", "static_api_key">>),
                    "cf-connecting-ip", Cors(<<App, <<"*", ".", "other", ".", "net">>>>), Signing)
OpenProxy ==
    ForgeGuardProxy(Settings(TRUE, TRUE, FALSE), Env(<<"static_api_key">>), "x-forwarded-for",
                    Cors(<<<<"*">>>>), None)
AxumHost ==
    ForgeGuard(Settings(FALSE, FALSE, TRUE), Env(<<"cognito_jwt", "ed25519">>), Signing, "Enforce")

MCPublished == [k1 |-> "key1"]
MCMemberships == {Ok({"staff"}), Ok({}), Ok(None), Err("Store")}
MCRecords == {None, [scope |-> "root", entitlements |-> {"read"}, revision |-> 7, granted |-> {}]}
MCReplies == {<<>>, <<<<"access-control-allow-origin", <<"self">>>>, <<"vary", <<"Accept">>>>>>}

Jwk(kid, kty, key) == [kid |-> kid, kty |-> kty, key |-> key]
MCKeySets == <<{Jwk("a", "RSA", "a1"), Jwk("b", "EC", "b0")},
               {Jwk("a", "RSA", "a2"), Jwk("b", "RSA", "b1")}, {Jwk("b", "RSA", "b1")}>>

(* The control plane: every route of its router, for two organisations.     *)
Concrete(pattern, org) ==
    [i \in DOMAIN pattern |-> IF pattern[i].kind = "lit" THEN pattern[i].name
                              ELSE IF pattern[i].name = "org_id" THEN org ELSE "x"]

MCCpHeaders == {<<>>, <<Alice>>, <<Alice, Org("o1")>>, <<Alice, Org("o2")>>, Signed("o1", "mkey", 5)}

MCCpRequests ==
    {Req(BuildRouter[i][1], Concrete(BuildRouter[i][2], "o1"), headers) :
        i \in DOMAIN BuildRouter, headers \in MCCpHeaders}
    \cup {Req("DELETE", <<"organizations", "o1">>, <<Alice, Org("o1")>>),
          Req("GET", <<"organizations", "o1", "keys", "">>, <<Alice, Org("o1")>>),
          Req("PUT", <<"organizations", "bad id">>, <<Alice, Org("o1")>>)}

Stores == [dynamo |-> "dynamo", memory |-> "memory", openDynamo |-> "dynamo", openMemory |-> "memory"]

MCConfigs ==
    [proxy |-> ProxyHost, openProxy |-> OpenProxy, axum |-> AxumHost]
    @@ [d \in Deployments |-> BuildForgeguard([store |-> Stores[d], auth |-> d \in {"dynamo", "memory"}])]

MCMemberRows == {None, Malformed, {"member"}, {"owner"}}
MCOrgKeyPem == [k \in {<<"o1", "m1">>} |-> "mkey"]
MCCpJwt == JwtResolverConfig("pool", "app", None)

Init ==
    /\ mode \in Modes
    /\ JwksInit
    /\ IF mode = "cp" THEN CpInit
       ELSE /\ DataPlaneInit /\ running \notin Deployments
            /\ members = <<>> /\ orgKeys = <<>>
    /\ mode = "jwks" => running = "axum"

Next ==
    /\ UNCHANGED mode
    /\ \/ mode = "http" /\ DataPlaneNext /\ UNCHANGED <<members, orgKeys, jwksVars>>
       \/ mode = "jwks" /\ JwksNext /\ UNCHANGED cpVars
       \/ mode = "cp" /\ CpNext /\ UNCHANGED jwksVars
       \/ mode = "http" /\ AtRest /\ UNCHANGED <<cpVars, jwksVars>>
       \/ mode # "http" /\ UNCHANGED <<cpVars, jwksVars>>

Spec == Init /\ [][Next]_vars /\ JwksFairness
=============================================================================
