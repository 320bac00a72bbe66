---------------------------- MODULE ControlPlane ----------------------------
(***************************************************************************)
(* The control plane as a host of the auth pipeline: its route tables and   *)
(* its router (crates/control-plane/src/app.rs), the authorization model it *)
(* compiles from forgeguard.toml at build time (build.rs,                   *)
(* authz-core/src/cp_model.rs, rbac/mod.rs), the Cedar engine that decides  *)
(* by it (authz-core/src/engine_cp), and the tables its requests are        *)
(* resolved against (membership_store.rs, signing_key_store.rs).            *)
(*                                                                          *)
(* The steps of a call are DataPlane's, with the answers of the stores and  *)
(* of the engine computed instead of chosen.  A handler is named by the     *)
(* entity and the verb of what it does.                                     *)
(***************************************************************************)
EXTENDS DataPlane, Inherits

CONSTANTS
    Deployments,      \* the names of the configurations that are control planes
    CpSlots,          \* the slots that serve them
    CpRequests,       \* requests of clients
    MemberRows,       \* what a membership item may hold: groups, None, Malformed
    Malformed,        \* an item without a list of groups
    CpUsers, CpOrgs,  \* the users and organisations of the membership items
    OrgKeyPem,        \* the public keys in the table, by << organisation, key id >>
    CpJwt             \* the settings of the token resolver

VARIABLES
    members,   \* the membership items, by << user, organisation >>
    orgKeys    \* the status of the signing keys, by << organisation, key id >>

cpVars == <<dpVars, members, orgKeys>>

-----------------------------------------------------------------------------
(* Routes.  Every path is under /api/v1/organizations.                      *)
Root == <<[kind |-> "lit", name |-> "organizations"]>>
Seg(n) == [kind |-> "lit", name |-> n]
Brace(n) == [kind |-> "brace", name |-> n]
Under(tail) == Root \o <<Brace("org_id")>> \o tail
Sub(n) == Under(<<Seg(n)>>)
Of(n, param) == Under(<<Seg(n), Brace(param)>>)

(* An action cp:entity:verb, and its Cedar id: the segments joined by       *)
(* hyphens, so that the hyphens of an entity are no longer told apart.      *)
Act(entity, verb) == <<<<"cp">>, entity, <<verb>>>>
ActionId(a) == a[1] \o a[2] \o a[3]
Cp(entity, verb) == <<"cp">> \o entity \o <<verb>>

API_ROUTES ==
    << <<"POST", Root>>, <<"GET", Root>>, <<"GET", Under(<<>>)>>, <<"PUT", Under(<<>>)>>,
       <<"GET", Sub("proxy-config")>>,
       <<"POST", Sub("keys")>>, <<"GET", Sub("keys")>>,
       <<"DELETE", Of("keys", "key_id")>>, <<"POST", Of("keys", "key_id") \o <<Seg("rotate")>>>>,
       <<"POST", Sub("groups")>>, <<"GET", Sub("groups")>>,
       <<"GET", Of("groups", "name")>>, <<"PUT", Of("groups", "name")>>,
       <<"DELETE", Of("groups", "name")>>, <<"PUT", Of("principals", "native_id")>>,
       <<"GET", Sub("events")>>,
       <<"DELETE", Of("promoted-resources", "resource_type") \o <<Brace("native_id")>>>>,
       <<"GET", Sub("promoted-resources")>>, <<"GET", Sub("signing-keys")>>,
       <<"POST", Sub("activate")>>, <<"POST", Sub("suspend")>>, <<"POST", Sub("restore")>> >>

(* Mutant: the organisation of the resource is the caller's.                *)
CpRouteOwnTenant(method, path, action, param) ==
    RouteMapping(method, path, action, "Organization", param,
                 IF param = None THEN "collection" ELSE None, None, FALSE)

(* A row of cp_route_actions: a collection is a resource of the request's   *)
(* tenant, an organisation in the path is its own.                          *)
CpRoute(method, path, action, param) ==
    RouteMapping(method, path, action, "Organization", param,
                 IF param = None THEN "collection" ELSE None, None, param # None)

CpRouteActions ==
    << CpRoute("POST", Root, Act(<<"organization">>, "create"), None),
       CpRoute("GET", Root, Act(<<"organization">>, "read"), None),
       CpRoute("GET", Under(<<>>), Act(<<"organization">>, "read"), "org_id"),
       CpRoute("PUT", Under(<<>>), Act(<<"organization">>, "update"), "org_id"),
       CpRoute("GET", Sub("proxy-config"), Act(<<"proxy", "config">>, "read"), "org_id"),
       CpRoute("POST", Sub("keys"), Act(<<"key">>, "generate"), "org_id"),
       CpRoute("GET", Sub("keys"), Act(<<"key">>, "read"), "org_id"),
       CpRoute("DELETE", Of("keys", "key_id"), Act(<<"key">>, "revoke"), "org_id"),
       CpRoute("POST", Of("keys", "key_id") \o <<Seg("rotate")>>,
               Act(<<"key">>, "rotate"), "org_id"),
       CpRoute("POST", Sub("groups"), Act(<<"group">>, "create"), "org_id"),
       CpRoute("GET", Sub("groups"), Act(<<"group">>, "read"), "org_id"),
       CpRoute("GET", Of("groups", "name"), Act(<<"group">>, "read"), "org_id"),
       CpRoute("PUT", Of("groups", "name"), Act(<<"group">>, "update"), "org_id"),
       CpRoute("DELETE", Of("groups", "name"), Act(<<"group">>, "delete"), "org_id"),
       CpRoute("PUT", Of("principals", "native_id"), Act(<<"principal">>, "upsert"), "org_id"),
       CpRoute("GET", Sub("events"), Act(<<"events">>, "read"), "org_id"),
       CpRoute("DELETE", Of("promoted-resources", "resource_type") \o <<Brace("native_id")>>,
               Act(<<"resource">>, "tombstone"), "org_id"),
       CpRoute("GET", Sub("promoted-resources"), Act(<<"promotion">>, "list"), "org_id"),
       CpRoute("GET", Sub("signing-keys"), Act(<<"signing", "key">>, "read"), "org_id"),
       CpRoute("POST", Sub("activate"), Act(<<"organization">>, "activate"), "org_id"),
       CpRoute("POST", Sub("suspend"), Act(<<"organization">>, "suspend"), "org_id"),
       CpRoute("POST", Sub("restore"), Act(<<"organization">>, "restore"), "org_id") >>

AnonRoute(method, path) == PublicRoute(method, path, "Anonymous")

(* build_router: the handler of a method and a path, by the axum router,    *)
(* which leaves a trailing slash alone.                                     *)
BuildRouter ==
    << <<"GET", <<Seg("health")>>, <<"health">>>>, <<"GET", <<Seg("metrics")>>, <<"metrics">>>>,
       <<"POST", Root, Cp(<<"organization">>, "create")>>,
       <<"GET", Root, Cp(<<"organization">>, "read")>>,
       <<"GET", Under(<<>>), Cp(<<"organization">>, "read")>>,
       <<"PUT", Under(<<>>), Cp(<<"organization">>, "update")>>,
       <<"GET", Sub("proxy-config"), Cp(<<"proxy", "config">>, "read")>>,
       <<"POST", Sub("keys"), Cp(<<"key">>, "generate")>>,
       <<"GET", Sub("keys"), Cp(<<"key">>, "read")>>,
       <<"DELETE", Of("keys", "key_id"), Cp(<<"key">>, "revoke")>>,
       <<"POST", Of("keys", "key_id") \o <<Seg("rotate")>>, Cp(<<"key">>, "rotate")>>,
       <<"POST", Sub("groups"), Cp(<<"group">>, "create")>>,
       <<"GET", Sub("groups"), Cp(<<"group">>, "read")>>,
       <<"GET", Of("groups", "name"), Cp(<<"group">>, "read")>>,
       <<"PUT", Of("groups", "name"), Cp(<<"group">>, "update")>>,
       <<"DELETE", Of("groups", "name"), Cp(<<"group">>, "delete")>>,
       <<"PUT", Of("principals", "native_id"), Cp(<<"principal">>, "upsert")>>,
       <<"GET", Sub("events"), Cp(<<"events">>, "read")>>,
       <<"DELETE", Of("promoted-resources", "resource_type") \o <<Brace("native_id")>>,
         Cp(<<"resource">>, "tombstone")>>,
       <<"GET", Sub("promoted-resources"), Cp(<<"promotion">>, "list")>>,
       <<"GET", Sub("signing-keys"), Cp(<<"signing", "key">>, "read")>>,
       <<"POST", Sub("activate"), Cp(<<"organization">>, "activate")>>,
       <<"POST", Sub("suspend"), Cp(<<"organization">>, "suspend")>>,
       <<"POST", Sub("restore"), Cp(<<"organization">>, "restore")>> >>

RouterTable ==
    [i \in DOMAIN BuildRouter |-> [method |-> BuildRouter[i][1], pattern |-> BuildRouter[i][2]]]

Dispatch(req) ==
    LET i == At(RouterTable, req.method, req.path)
    IN  IF i = 0 THEN None ELSE BuildRouter[i][3]

-----------------------------------------------------------------------------
(* The authorization model: forgeguard.toml, and its compilation.           *)
RbacEntry(name, inherits, allow) ==
    [type |-> "rbac", name |-> name, inherits |-> inherits, allow |-> allow, tenantScoped |-> TRUE]

MachineBody(action) ==
    [type |-> "cedar", permit |-> [kind |-> "Machine", group |-> None, actions |-> {action},
                                   sameOrg |-> TRUE]]

TenantConfig == [enabled |-> TRUE, principal |-> "org_id", resource |-> "org_id"]

ForgeguardToml ==
    { RbacEntry("member", {},
        {Cp(<<"organization">>, "read"), Cp(<<"key">>, "read"), Cp(<<"config">>, "read"),
         Cp(<<"group">>, "read"), Cp(<<"events">>, "read"), Cp(<<"promotion">>, "list"),
         Cp(<<"signing", "key">>, "read")}),
      RbacEntry("admin", {"member"},
        {Cp(<<"organization">>, v) : v \in {"create", "update", "activate", "suspend", "restore"}}
        \cup {Cp(<<"member">>, "invite"), Cp(<<"member">>, "remove"),
              Cp(<<"member", "change">>, "role"), Cp(<<"config">>, "write")}
        \cup {Cp(<<"key">>, v) : v \in {"generate", "revoke", "rotate"}}
        \cup {Cp(<<"group">>, v) : v \in {"create", "update", "delete"}}
        \cup {Cp(<<"principal">>, "upsert"), Cp(<<"resource">>, "tombstone")}),
      RbacEntry("owner", {"admin"}, {Cp(<<"member", "promote">>, "owner")}),
      MachineBody(Cp(<<"proxy", "config">>, "read")), MachineBody(Cp(<<"events">>, "read")),
      MachineBody(Cp(<<"resource">>, "tombstone")), MachineBody(Cp(<<"promotion">>, "list")),
      MachineBody(Cp(<<"signing", "key">>, "read")) }

(* resolve_inherits: the actions of a role and of all it inherits from, or  *)
(* an error (InheritanceWalker is the traversal).                           *)
ResolveInherits(entries, name) ==
    LET parents == [n \in {e.name : e \in entries} |-> UNION {e.inherits : e \in
                                                               {x \in entries : x.name = n}}]
    IN  IF ~Resolves(parents, name) THEN Err("inherits")
        ELSE Ok(UNION {e.allow : e \in {x \in entries : x.name \in Reach(parents, name)}})

(* compile_rbac_to_cedar, on a flattened entry.                             *)
CompileRbacToCedar(name, allow, scoped) ==
    IF allow = {} THEN Err("empty allow")
    ELSE Ok([kind |-> "User", group |-> name, actions |-> allow,
             sameOrg |-> scoped /\ TenantConfig.enabled])

CompileCpModel(policies) ==
    LET entries == {p \in policies : p.type = "rbac"}
        Compiled(p) ==
            IF p.type = "cedar" THEN Ok(p.permit)
            ELSE LET allow == ResolveInherits(entries, p.name)
                 IN  IF allow.ok THEN CompileRbacToCedar(p.name, allow.value, p.tenantScoped)
                     ELSE allow
        statements == {Compiled(p) : p \in policies}
    IN  IF \A s \in statements : s.ok THEN Ok({s.value : s \in statements}) ELSE Err("model")

(* The control plane only builds with a model that compiles.                *)
ASSUME CompileCpModel(ForgeguardToml).ok
Snapshot == CompileCpModel(ForgeguardToml).value

-----------------------------------------------------------------------------
(* The engine.  The attributes of the entities stand for the entities: the  *)
(* principal's kind, groups and organisation, the resource's organisation.  *)
BuildCpEntities(query) ==
    [kind   |-> query.kind,
     groups |-> IF query.kind = "Machine" THEN {} ELSE query.groups,
     org    |-> query.tenant,
     resOrg |-> IF query.resource = None THEN None
                ELSE IF query.resource.org # None THEN query.resource.org ELSE query.tenant]

IsAuthorized(action, entities) ==
    \E p \in Snapshot :
        /\ IF p.group = None THEN entities.kind = p.kind ELSE p.group \in entities.groups
        /\ action \in p.actions
        /\ p.sameOrg => entities.org = entities.resOrg

(* CpCedarEngine: a query without a tenant or a resource is denied.         *)
CpDecide(query) ==
    [record |-> None,
     result |-> IF /\ query.tenant # None /\ query.resource # None
                   /\ IsAuthorized(ActionId(query.action), BuildCpEntities(query))
                THEN "allow" ELSE "deny"]

(* StaticPolicyEngine of a deployment without authentication.               *)
StaticAllow == [record |-> None, result |-> "allow"]

-----------------------------------------------------------------------------
(* build_forgeguard.  A deployment is its store ("dynamo", "memory") and    *)
(* whether it authenticates; a memory store has no keys and no members.     *)
BuildForgeguard(d) ==
    LET publics == <<<<"GET", <<Seg("health")>>>>, <<"GET", <<Seg("metrics")>>>>>>
                   \o IF d.auth THEN <<>> ELSE API_ROUTES
        chain   == IF ~d.auth THEN <<>>
                   ELSE <<"cognito_jwt">> \o IF d.store = "dynamo" THEN <<"ed25519">> ELSE <<>>
    IN  [deployment |-> d]
        @@ ForgeGuard(PipelineConfig(IF d.auth THEN CpRouteActions ELSE <<>>,
                                     [i \in DOMAIN publics |->
                                         AnonRoute(publics[i][1], publics[i][2])],
                                     [x \in {} |-> None], ~d.auth, FALSE,
                                     d.auth /\ d.store = "dynamo"),
                      [chain |-> chain, jwt |-> CpJwt, apiKeys |-> [x \in {} |-> None],
                       keyStore |-> OrgKeyPem],
                      None, "Enforce")

-----------------------------------------------------------------------------
CpInit ==
    /\ running \in Deployments
    /\ calls = [s \in Slots |-> Idle]
    /\ sink = <<>>
    /\ metrics = [success |-> 0, rejected |-> 0, allow |-> 0, deny |-> 0, requests |-> 0]
    /\ members \in [CpUsers \X CpOrgs -> IF config.membership THEN MemberRows ELSE {None}]
    /\ orgKeys \in [DOMAIN OrgKeyPem -> {"Active", "Rotating"}]

CpArrive(s, req) ==
    /\ calls[s].pc = "idle"
    /\ \E next \in {AxumRequest(req, None)} : Proceed(s, next)
    /\ UNCHANGED <<members, orgKeys>>

(* DynamoSigningKeyStore::get_key: a key that is not active is an error, as *)
(* is one the table does not have; a rotating key counts until it expires,  *)
(* when LoseKey makes it "Expired".                                         *)
ActiveKeys == [k \in {x \in DOMAIN orgKeys : orgKeys[x] \in {"Active", "Rotating"}} |-> OrgKeyPem[k]]

CpChainAnswers(s) ==
    /\ calls[s].pc = "identity"
    /\ \E cached \in CacheAnswers(calls[s].cred), reached \in BOOLEAN :
         \E answer \in {ResolveIdentity([config.env EXCEPT !.keyStore =
                                             IF reached THEN ActiveKeys ELSE [x \in {} |-> None]],
                                        calls[s].cred, Now, cached)} :
           \E next \in {Identified(config, calls[s], answer)} : Proceed(s, next)
    /\ UNCHANGED <<members, orgKeys>>

(* DynamoMembershipResolver::resolve: one GetItem, which may fail.          *)
Resolve(row) ==
    IF row = Malformed THEN Err("malformed groups attribute") ELSE Ok(row)

CpMembershipAnswers(s) ==
    /\ calls[s].pc = "member"
    /\ \E answer \in {Resolve(members[<<calls[s].identity.user, calls[s].org>>]),
                      Err("GetItem failed")} :
         \E next \in {Joined(config, [calls[s] EXCEPT !.joined = answer], answer)} :
           Proceed(s, next)
    /\ UNCHANGED <<members, orgKeys>>

CpEngineAnswers(s) ==
    /\ calls[s].pc = "policy"
    /\ \E next \in {Decided(calls[s], IF config.deployment.auth THEN CpDecide(calls[s].query)
                                      ELSE StaticAllow)} :
         Proceed(s, next)
    /\ UNCHANGED <<members, orgKeys>>

(* The router below the layer: the handler of the request runs, or there is *)
(* none (404, 405).                                                         *)
CpHandler(s) ==
    /\ calls[s].pc = "handler"
    /\ \E h \in {Dispatch(calls[s].req)} :
         calls' = [calls EXCEPT ![s].pc = "done", ![s].body = h,
                                ![s].status = IF h = None THEN 404 ELSE 200]
    /\ UNCHANGED <<running, sink, metrics, members, orgKeys>>

(* TimeoutLayer, which is outside the layer: the call is dropped at its     *)
(* await.                                                                   *)
CpTimeout(s) ==
    /\ calls[s].pc \in {"identity", "member", "policy", "handler"}
    /\ calls' = [calls EXCEPT ![s].pc = "done", ![s].status = 408]
    /\ UNCHANGED <<running, sink, metrics, members, orgKeys>>

(* The tables change under a call that has yet to read them: members come   *)
(* and go, keys are revoked and the grace period of a rotating key ends.    *)
(* Changes before the call are Init's choice.                               *)
Reading(pcs) == \E s \in CpSlots : calls[s].pc \in pcs

ChangeMember(m, row) ==
    /\ Reading({"identity", "member"})
    /\ config.membership /\ members[m] # row
    /\ members' = [members EXCEPT ![m] = row]
    /\ UNCHANGED <<dpVars, orgKeys>>

LoseKey(k) ==
    /\ Reading({"identity"})
    /\ \E to \in IF orgKeys[k] = "Rotating" THEN {"Revoked", "Expired"}
                 ELSE IF orgKeys[k] = "Active" THEN {"Revoked"} ELSE {} :
         orgKeys' = [orgKeys EXCEPT ![k] = to]
    /\ UNCHANGED <<dpVars, members>>

CpNext ==
    \/ \E s \in CpSlots : \/ \E req \in CpRequests : CpArrive(s, req)
                          \/ CpChainAnswers(s) \/ CpMembershipAnswers(s) \/ CpEngineAnswers(s)
                          \/ CpHandler(s) \/ CpTimeout(s)
    \/ \E m \in DOMAIN members, row \in MemberRows : ChangeMember(m, row)
    \/ \E k \in DOMAIN orgKeys : LoseKey(k)

-----------------------------------------------------------------------------
(* The organisation a request is about: the one in its path, if any.        *)
PathOrg(req) == IF Len(req.path) > 1 THEN req.path[2] ELSE None

(* Every role that grants an action, by forgeguard.toml's own lists.        *)
Granting(action) ==
    LET own == {e.name : e \in {x \in ForgeguardToml : x.type = "rbac" /\ action \in x.allow}}
    IN  own \cup (IF "member" \in own THEN {"admin", "owner"} ELSE {})
            \cup (IF "admin" \in own THEN {"owner"} ELSE {})

(* With authentication on, a handler of the API only ever runs for a caller *)
(* entitled to what it does, on the organisation of the path: a machine     *)
(* whose policy names the handler's action and whose signing key is that    *)
(* organisation's, or a user whom the membership item of that organisation  *)
(* puts in a role that grants the action by the inheritance of              *)
(* forgeguard.toml.  The route table, the router, the compiled policies and *)
(* the entities are written separately and must agree (cp_route_actions,    *)
(* build_router, compile_cp_model, build_cp_entities).                      *)
OnlyGranted ==
    \A s \in Slots : LET c == calls[s] IN
        (/\ running \in Deployments /\ config.deployment.auth
         /\ c.pc = "done" /\ c.body \notin {None, <<"health">>, <<"metrics">>}) =>
            /\ c.identity # None
            /\ PathOrg(c.req) \in {None, c.identity.tenant}
            /\ IF c.identity.kind = "Machine"
               THEN /\ MachineBody(c.body) \in ForgeguardToml
                    /\ <<c.identity.tenant, c.identity.user>> \in DOMAIN OrgKeyPem
               ELSE c.joined.value \cap Granting(c.body) # {}

(* No request that the router can serve is turned away for want of a table  *)
(* entry: authenticated, it has an action that some role or machine policy  *)
(* grants; without authentication, it is let through to its handler         *)
(* (API_ROUTES, cp_route_actions, build_router, forgeguard.toml).           *)
RoutesAreComplete ==
    \A s \in Slots : LET c == calls[s] IN
        (running \in Deployments /\ c.pc # "idle") =>
            IF config.deployment.auth
            THEN (c.flags # None /\ c.public = "NotPublic"
                    /\ (c.route = None \/ \A p \in Snapshot : ActionId(c.route.action) \notin p.actions))
                 => Dispatch(c.req) = None
            ELSE (c.pc \notin {"handler", "done"} \/ c.status \notin {0, 200, 408})
                 => Dispatch(c.req) = None

(* A handler runs for the callers entitled to it and for no others: no      *)
(* caller without the grant reaches one, and no request the router can      *)
(* serve is stopped for want of a table entry (OnlyGranted and              *)
(* RoutesAreComplete; app.rs, cp_model.rs, engine_cp).                      *)
HandlersRunAsGranted == OnlyGranted /\ RoutesAreComplete
=============================================================================
