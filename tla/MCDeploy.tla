------------------------------ MODULE MCDeploy ------------------------------
(***************************************************************************)
(* Instances of the path from configuration to decisions: names (Vocabulary,*)
(* mode "names"), the policy commands (PolicySync, mode "sync") and the     *)
(* start of the proxy (Startup, mode "startup"); the store a developer runs *)
(* the control plane with (MemoryStore, mode "memory"); and the seeding of  *)
(* organizations and users (Seed, mode "seed") with the schemas of their    *)
(* attributes (Seed, mode "schema"); and the clients that poll what         *)
(* the control plane serves (ConditionalReads, mode "reads") or verify its  *)
(* events from outside (EventAudit, mode "audit").                          *)
(***************************************************************************)
EXTENDS Vocabulary, PolicySync, Startup, MemoryStore, Seed, ConditionalReads,
        EventAudit

CONSTANT Modes

VARIABLE mode

vars == <<mode, name, earlier, store, job, runs, proxy, source, memVars, seedVars, change, readVars, auditVars>>

(* Names. *)
MCLower == {"a", "b", "fgrn", "iam", "org", "user", "machine", "group", "policy", "forgeguard",
            "orgunit", "principal", "default", "set", "resource"}
MCSegments == {<<"a">>, <<"a", "-", "b">>, <<"b">>, <<"b", "-", "a">>, <<"7", "b">>, <<"iam">>}
MCNativeIds == {<<"a">>, <<"U", "_", "7">>, <<"a", "/", "b">>, <<"/">>, <<"a", ".", "b">>}
MCParts == {<<>>, <<"a">>, <<"a", "-", "7">>, <<"a", "-", "-", "b">>, <<"-">>, <<"*">>, <<"U">>,
            <<"a", "/", "b">>}

(* Configuration.  A machine has no groups. *)
MCLowerCase(s) == CASE s = "Deny" -> "deny" [] s = "ALLOW" -> "allow" [] OTHER -> s

a1 == <<"a">>
b1 == <<"b">>
Act(n, e, v) == ParseActionPattern(Joined(<<n, e, v>>, <<":">>))
AllActions == Act(Wildcard, Wildcard, Wildcard)
g1 == <<"a">>
g2 == <<"b">>
g3 == <<"a", "-", "b">>
Ref(i) == CedarEntityRef(a1, b1, i)

Base == [RawProxyConfig(a1, "addr1", Url("https", "up", None)) EXCEPT !.defaultPolicy = "Deny"]

Store == AuthzConfig("ps", 60, 2)

Test(user, groups, action, resource, expect) ==
    [principal |-> user, groups |-> groups, tenant |-> b1, action |-> Joined(action, <<":">>),
     resource |-> resource, expect |-> expect]

(* Groups a and b; members of a read everything, nobody but b deletes, and  *)
(* b may delete one resource.                                               *)
Plain1 ==
    [Base EXCEPT
        !.authz = Store,
        !.groups = <<GroupDefinition(g1, <<>>), GroupDefinition(g2, <<g1>>)>>,
        !.policies = <<Policy(a1, <<PolicyStatement("Allow", <<Act(a1, b1, a1), AllActions>>, <<>>, <<>>),
                                    PolicyStatement("Deny", <<Act(a1, b1, b1)>>, <<>>, <<g2>>)>>, <<g1>>),
                       Policy(b1, <<PolicyStatement("Allow", <<Act(a1, b1, b1)>>, <<Ref(a1)>>, <<>>)>>,
                              <<g2>>)>>,
        !.policyTests = <<Test(a1, <<g1>>, <<a1, b1, a1>>, None, "ALLOW"),
                          Test(a1, <<g1, g2>>, <<a1, b1, b1>>, AsCedarStr(Ref(a1)), "deny")>>]
Plain2 ==
    [Base EXCEPT
        !.authz = Store,
        !.groups = <<GroupDefinition(g1, <<>>)>>,
        !.schema = {[namespace |-> a1, entity |-> b1, memberOf |-> {<<a1, a1>>},
                     attributes |-> [owner |-> "String", when |-> "Date"]]},
        !.policies = <<Policy(a1, <<PolicyStatement("Deny", <<Act(a1, b1, a1), Act(a1, b1, b1), Act(b1, a1, a1)>>,
                                                    <<Ref(a1)>>, <<g1>>),
                                    PolicyStatement("Allow", <<AllActions>>, <<>>, <<>>)>>, <<>>)>>]
(* A policy names an unknown group and a scenario an impossible user.       *)
Unknown == [Plain1 EXCEPT !.groups = <<GroupDefinition(g1, <<>>)>>, !.policyTests[1].principal = <<"-">>]
Storeless == [Plain2 EXCEPT !.authz = None]
Partial ==
    [Base EXCEPT
        !.authz = Store,
        !.policies = <<Policy(a1, <<PolicyStatement("Allow", <<Act(a1, Wildcard, a1)>>, <<>>, <<>>)>>, <<>>)>>]

MCFiles == {ProxyConfig(Plain1), ProxyConfig(Plain2), ProxyConfig(Unknown), ProxyConfig(Storeless)}
MCPartialFiles == {ProxyConfig(Partial)}

MCQueries ==
    {q \in [kind : {"User", "Machine"}, user : {a1}, groups : SUBSET {g1, g2}, tenant : {a1},
            action : {Act(a1, b1, a1), Act(a1, b1, b1)},
            resource : {None} \cup {ResourceRef(Ref(i), None, o) : i \in {a1, b1}, o \in BOOLEAN}] :
        q.kind = "Machine" => q.groups = {}}

NoFlags == [principal |-> None, groups |-> <<>>, tenant |-> None, action |-> None, resource |-> None,
            expect |-> None]
MCTestFlags ==
    {NoFlags,
     [NoFlags EXCEPT !.principal = a1, !.action = <<"a", ":", "b", ":", "b">>, !.expect = "deny"],
     [NoFlags EXCEPT !.principal = a1, !.action = a1, !.expect = "deny"]}

(* Documents.  Every group graph on three groups, one of them perhaps named *)
(* only as a member; every section present; every section rejected.         *)
Members == {<<>>, <<g1>>, <<g2>>, <<g3>>, <<g1, g2>>, <<g2, g3>>}
Nested ==
    {[Base EXCEPT !.groups = <<GroupDefinition(g1, x), GroupDefinition(g2, y)>>
                             \o (IF z = None THEN <<>> ELSE <<GroupDefinition(g3, z)>>),
                  !.policies = <<Policy(a1, <<>>, scope)>>] :
        x, y \in Members, z \in Members \cup {None}, scope \in {<<g1>>, <<g3>>}}

Lit(n) == [kind |-> "lit", name |-> n]
Param(n) == [kind |-> "colon", name |-> n]
RawRoute(method, path, action, gate) ==
    [method |-> method, path |-> path, action |-> action, featureGate |-> gate]
RawPublic(method, path, authMode) == [method |-> method, path |-> path, authMode |-> authMode]
Jwt == [jwksUrl |-> Url("https", "idp", None), issuer |-> "iss"]
ApiKey(key, user) == [key |-> key, userId |-> user, tenantId |-> None, groups |-> <<g1>>]

Full ==
    [Plain1 EXCEPT
        !.jwt = Jwt,
        !.apiKeys = <<ApiKey("k", a1), ApiKey("k", b1)>>,
        !.metrics = [enabled |-> TRUE, listenAddr |-> "addr2"],
        !.routes = <<RawRoute("GET", <<Lit("x"), Param("id")>>, <<"a", ":", "b", ":", "a">>, None)>>,
        !.publicRoutes = <<RawPublic("*", <<Lit("x")>>, "anonymous")>>,
        !.cluster = [redisUrl |-> Url("redis", "r", 6379), listenClusterAddr |-> "addr2"],
        !.cors = [enabled |-> FALSE, origins |-> <<>>, methods |-> <<>>, headers |-> <<>>,
                  expose |-> <<>>, credentials |-> FALSE, maxAge |-> 0],
        !.signing = [keyId |-> "key", path |-> "file"]]

Varied ==
    {[Full EXCEPT !.auth = order, !.jwt = jwt, !.apiKeys = keys, !.authz = authz, !.signing = signing] :
        order \in {None, <<"api-key", "jwt">>, <<"saml", "jwt">>, <<>>},
        jwt \in {None, Jwt}, keys \in {<<>>, <<ApiKey("k", a1), ApiKey("k", b1)>>},
        authz \in {None, Store}, signing \in {None, [keyId |-> "key", path |-> "file"]}}

Rejected ==
    {None,
     [Full EXCEPT !.projectId = <<"-">>], [Full EXCEPT !.listenAddr = "nowhere"],
     [Full EXCEPT !.upstreamUrl = BadUrl], [Full EXCEPT !.upstreamUrl = Url("file", None, None)],
     [Full EXCEPT !.defaultPolicy = "maybe"], [Full EXCEPT !.clientIpSource = "guess"],
     [Full EXCEPT !.jwt.issuer = ""], [Full EXCEPT !.jwt.jwksUrl = BadUrl],
     [Full EXCEPT !.apiKeys[2].userId = <<"U">>], [Full EXCEPT !.apiKeys[1].key = ""],
     [Full EXCEPT !.metrics.listenAddr = "nowhere"], [Full EXCEPT !.routes[1].action = a1],
     [Full EXCEPT !.routes[1].method = "HEAD"], [Full EXCEPT !.routes[1].featureGate = <<"U">>],
     [Full EXCEPT !.publicRoutes[1].authMode = "open"],
     [Full EXCEPT !.policyTests[1].expect = "maybe"], [Full EXCEPT !.cors.enabled = TRUE],
     [Full EXCEPT !.cluster.redisUrl = BadUrl], [Full EXCEPT !.signing.keyId = ""],
     [Full EXCEPT !.routes = @ \o @], [Full EXCEPT !.publicRoutes = @ \o @]}

MCDocuments == Nested \cup Varied \cup Rejected
MCOverrides == {NoOverrides,
                [NoOverrides EXCEPT !.defaultPolicy = "Passthrough"],
                [NoOverrides EXCEPT !.upstreamUrl = Url("http", "other", 8080), !.listenAddr = "addr2"],
                [NoOverrides EXCEPT !.upstreamUrl = Url("unix", "other", None)]}

(* Seeding.  The dashboard pool, which is also that of the first            *)
(* organization, holds a seeded user with two membership rows and one whose *)
(* name has another shape.                                                  *)
MCSchemas ==
    {Schema(std, cus) :
        std \in {<<>>, "name" :> TRUE, "name" :> FALSE},
        cus \in UNION {[S -> {AttrType(None, None, FALSE), AttrType(2, None, FALSE), AttrType(None, 1, TRUE)}] :
                        S \in SUBSET {"dept", "name"}}}
MCAttrMaps == UNION {[S -> {0, 2}] : S \in SUBSET {"name", "dept", "email", "Dept"}}

acmeOrg == <<"org", "acme">>
globexOrg == <<"org", "globex">>
Acme(users) ==
    SeedOrg(acmeOrg, "Acme", "dashboard", Schema("name" :> TRUE, <<>>), users,
            <<RbacEntry("owner", <<"member">>), RbacEntry("member", <<>>)>>)
Globex(inherits) ==
    SeedOrg(globexOrg, "Globex", "pool", Schema(<<>>, "dept" :> AttrType(None, None, FALSE)),
            <<SeedUser(<<"bob@globex">>, <<"member">>, "dept" :> 2)>>,
            <<RbacEntry("owner", <<>>), RbacEntry("member", <<>>), RbacEntry("owner", inherits)>>)
Admin == SeedUser(<<"admin@acme">>, <<"owner">>, "name" :> 2)
Nameless == SeedUser(<<"ann@acme">>, <<>>, <<>>)

MCSeedFiles ==
    {<<>>, <<Acme(<<Admin>>)>>, <<Acme(<<>>), Globex(<<"member">>)>>, <<Acme(<<Admin, Nameless>>)>>,
     <<Acme(<<>>), Globex(<<"admin">>)>>}
MCPools == "dashboard" :> ((<<"org", "acme", "admin">> :> 1) @@ (<<"acme", "admin">> :> 2))
           @@ "pool" :> <<>>
MCRows == [k \in {<<1, acmeOrg>>, <<1, globexOrg>>, <<2, acmeOrg>>} |->
              [email |-> <<"admin@acme">>, groups |-> <<"owner">>]]
MCAlphabet == <<"admin", "member", "owner">>
MCSeedFlags == {<<None, None>>, <<"local", None>>}
MCWellFormed == {"org", "acme", "globex", "dashboard", "pool", "member", "owner", "admin"}

Init ==
    /\ mode \in Modes
    /\ NamesInit
    /\ SyncInit
    /\ IF mode = "startup" THEN StartInit ELSE source = None /\ proxy = None
    /\ MemInit
    /\ SchemaInit /\ SeedInit
    /\ ReadsInit /\ AuditInit
    /\ mode # "reads" => client.endpoint = "show"
    /\ mode # "memory" => load = 1
    /\ mode # "memory" \/ load > 1 => seed = None

Next ==
    /\ UNCHANGED mode
    /\ \/ mode = "names" /\ NamesNext /\ UNCHANGED <<store, job, runs, proxy, source, memVars, seedVars, change, readVars, auditVars>>
       \/ mode = "sync" /\ SyncNext /\ UNCHANGED <<name, earlier, proxy, source, memVars, seedVars, change, readVars, auditVars>>
       \/ mode = "startup" /\ StartNext /\ UNCHANGED <<name, earlier, store, job, runs, memVars, seedVars, change, readVars, auditVars>>
       \/ mode = "memory" /\ MemNext
          /\ UNCHANGED <<name, earlier, store, job, runs, proxy, source, seedVars, change, readVars, auditVars>>
       \/ mode = "seed" /\ SeedNext
          /\ UNCHANGED <<name, earlier, store, job, runs, proxy, source, memVars, change, readVars, auditVars>>
       \/ mode = "schema" /\ ChangeSchema
          /\ UNCHANGED <<name, earlier, store, job, runs, proxy, source, memVars, seedVars, readVars, auditVars>>
       \/ mode = "reads" /\ ReadsNext
          /\ UNCHANGED <<name, earlier, store, job, runs, proxy, source, memVars, seedVars, change, auditVars>>
       \/ mode = "audit" /\ AuditNext
          /\ UNCHANGED <<name, earlier, store, job, runs, proxy, source, memVars, seedVars, change, readVars>>

Spec == Init /\ [][Next]_vars
=============================================================================
