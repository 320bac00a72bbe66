----------------------------- MODULE DataPlane -----------------------------
(***************************************************************************)
(* The two hosts of the auth pipeline: the Pingora reverse proxy            *)
(* (crates/proxy/src/proxy.rs) and the axum middleware                      *)
(* (lib/forgeguard-axum/src/middleware.rs).                                 *)
(*                                                                          *)
(* A slot serves one request.  Its call walks the pipeline's awaits, which  *)
(* interleave with those of the other slots; the host then answers, or      *)
(* forwards to the upstream (proxy) or the handler (axum).  The answers of  *)
(* the key cache, the membership store and the policy engine are any those  *)
(* services can give, chosen when they answer.                              *)
(***************************************************************************)
EXTENDS Pipeline, Cors, TLC

CONSTANTS
    Slots,            \* concurrent requests
    Configs,          \* the configurations of the hosts, by name
    Requests(_),      \* requests that clients send to a host
    Now,              \* the clock, for signatures
    PublishedKeys,    \* the token issuer's keys, by key id
    Memberships,      \* answers of the membership store
    Records,          \* decision records of the engine, or None
    UpstreamReplies   \* headers of the upstream's responses

VARIABLES
    running,   \* the name of the host's configuration, fixed at startup
    calls,     \* what each slot is doing
    sink,      \* the outcomes given to the axum DecisionSink, in order
    metrics    \* the proxy's counters

dpVars == <<running, calls, sink, metrics>>

(* A host is the pipeline's configuration with the host's own settings.     *)
ForgeGuardProxy(pipeline, env, ipSource, cors, signing) ==
    [host |-> "proxy", env |-> env, ipSource |-> ipSource, cors |-> cors, signing |-> signing]
    @@ pipeline

ForgeGuard(pipeline, env, signing, defaultMode) ==
    [host |-> "axum", env |-> env, signing |-> signing, defaultMode |-> defaultMode]
    @@ pipeline

config == Configs[running]

Idle == [pc |-> "idle"]

NewCall(req, input, mode) ==
    [pc |-> "start", req |-> req, input |-> input, mode |-> mode, public |-> None, cred |-> None,
     identity |-> None, org |-> None, flags |-> None, route |-> None, query |-> None,
     answer |-> None, joined |-> None, effect |-> "NotEvaluated", record |-> None, status |-> 0,
     denied |-> FALSE, body |-> None, corsOrigin |-> None, sent |-> None, reply |-> None]

DataPlaneInit ==
    /\ running \in DOMAIN Configs
    /\ calls = [s \in Slots |-> Idle]
    /\ sink = <<>>
    /\ metrics = [success |-> 0, rejected |-> 0, allow |-> 0, deny |-> 0, requests |-> 0]

-----------------------------------------------------------------------------
(* The proxy.                                                               *)
CorsHeaders(call) ==
    IF config.cors = None \/ call.corsOrigin = None THEN <<>>
    ELSE ResponseHeaders(config.cors, call.corsOrigin)

Answer(call, status) == [call EXCEPT !.pc = "sent", !.status = status, !.reply = CorsHeaders(call)]

(* extract_client_ip: an address is a number, a header value that is no     *)
(* address is None.                                                         *)
ExtractClientIp(source, req) ==
    CASE source = "peer" -> req.ip
      [] source = "x-forwarded-for" ->
           LET list == FindHeader(req.headers, "x-forwarded-for")
           IN  IF list = None \/ list = <<>> THEN None ELSE list[1]
      [] source = "cf-connecting-ip" -> FindHeader(req.headers, "cf-connecting-ip")

(* request_input_from_session: what RequestInput refuses is evaluated as a  *)
(* bare GET of the root, with the query string kept.                        *)
RequestInputFromSession(req) ==
    LET input == RequestInput([req EXCEPT !.ip = ExtractClientIp(config.ipSource, req)])
    IN  IF input # None THEN input
        ELSE [method |-> "GET", path |-> <<"">>, headers |-> <<>>, ip |-> None,
              query |-> req.query]

(* request_filter up to the pipeline: a preflight of an allowed origin is   *)
(* answered here; otherwise the origin is kept for the answer.              *)
ProxyRequestFilter(req) ==
    LET origin  == FindHeader(req.headers, "origin")
        matched == IF config.cors = None \/ origin = None THEN None
                   ELSE MatchesOrigin(config.cors, origin)
        call    == NewCall(req, RequestInputFromSession(req), "Enforce")
    IN  IF /\ req.method = "OPTIONS"
           /\ matched # None
           /\ FindHeader(req.headers, "access-control-request-method") # None
        THEN [call EXCEPT !.pc = "sent", !.status = 204,
                          !.reply = PreflightHeaders(config.cors, matched)]
        ELSE Begin(config, [call EXCEPT !.corsOrigin = IF matched = None THEN None ELSE origin])

(* The rest of request_filter, once the pipeline ended.                     *)
ProxyTranslate(call) ==
    CASE call.pc \in {"health", "debug"} -> Answer(call, 200)
      [] call.pc = "reject"              -> Answer(call, call.status)
      [] call.pc = "forward"             -> [call EXCEPT !.pc = "upstream"]
      [] OTHER                           -> call

(* record_outcome_metrics, and the counters of a forward.                   *)
CountOutcome(call) ==
    [metrics EXCEPT
        !.success  = @ + IF call.pc = "forward" /\ call.identity # None THEN 1 ELSE 0,
        !.allow    = @ + IF call.pc = "forward" /\ call.route # None THEN 1 ELSE 0,
        !.rejected = @ + IF call.pc = "reject" /\ call.status = 401 THEN 1 ELSE 0,
        !.deny     = @ + IF call.pc = "reject" /\ call.status = 403 THEN 1 ELSE 0]

-----------------------------------------------------------------------------
(* The axum middleware.                                                     *)
ProtectedFgHeaders ==
    {"x-fg-user-id", "x-fg-tenant-id", "x-fg-groups", "x-fg-auth-provider", "x-fg-principal",
     "x-fg-scope-path", "x-fg-entitlements", "x-fg-revision"}

(* The mode is the route's stamp when a layer put one, else the default.    *)
AxumRequest(req, stamp) ==
    LET input == RequestInput(req)
        call  == NewCall(req, input, IF stamp = None THEN config.defaultMode ELSE stamp)
    IN  IF input = None THEN [call EXCEPT !.pc = "done", !.status = 400]
        ELSE Begin(config, call)

(* What the layer does with the pipeline's outcome: every protected header  *)
(* of the request is removed before the computed ones are inserted.         *)
AxumTranslate(s, call) ==
    LET headers == BuildFgHeaders(call.identity, call.record, config.signing, s, Now)
    IN  CASE call.pc \in {"health", "debug", "reject"} -> [call EXCEPT !.pc = "done"]
          [] call.pc = "forward" ->
               [call EXCEPT !.pc = "handler",
                            !.sent = InsertAll(Without(call.req.headers, ProtectedFgHeaders),
                                               headers)]
          [] OTHER -> call

(* Mutant: a deny is reported whenever the request is rejected.             *)
SinkRecordRejects(s, call) ==
    IF call.pc = "reject" \/ (call.pc = "forward" /\ call.effect # "NotEvaluated")
    THEN Append(sink, [slot |-> s, record |-> call.record, mode |-> call.mode,
                       effect |-> call.effect])
    ELSE sink

(* DecisionSink::record, for a forward with an effect and a policy deny.    *)
SinkRecord(s, call) ==
    IF call.denied \/ (call.pc = "forward" /\ call.effect # "NotEvaluated")
    THEN Append(sink, [slot |-> s, record |-> call.record, mode |-> call.mode,
                       effect |-> call.effect])
    ELSE sink

(* The pipeline stopped at an await or ended; the host handles its end in   *)
(* the same step, since nothing is awaited in between.                      *)
Proceed(s, call) ==
    /\ UNCHANGED running
    /\ IF config.host = "proxy"
       THEN /\ calls' = [calls EXCEPT ![s] = ProxyTranslate(call)]
            /\ metrics' = CountOutcome(call)
            /\ UNCHANGED sink
       ELSE /\ calls' = [calls EXCEPT ![s] = AxumTranslate(s, call)]
            /\ sink' = SinkRecord(s, call)
            /\ UNCHANGED metrics

-----------------------------------------------------------------------------
(* The steps of a call.                                                     *)
Arrive(s, req) ==
    /\ calls[s].pc = "idle"
    /\ IF config.host = "proxy"
       THEN \E next \in {ProxyRequestFilter(req)} : Proceed(s, next)
       ELSE \E next \in {AxumRequest(req, stamp) : stamp \in {None, "Observe"}} : Proceed(s, next)

(* The identity chain answers.  A bearer token's key is the published one,  *)
(* or cannot be fetched.                                                    *)
CacheAnswers(cred) ==
    IF cred.type # "bearer" THEN {None}
    ELSE {Err("JwksFetch"),
          IF cred.token.kid \in DOMAIN PublishedKeys THEN Ok(PublishedKeys[cred.token.kid])
          ELSE Err("KeyNotFound")}

(* What phase 5b may make of the identity of a request.                     *)
Enriched(id, req) ==
    {id} \cup {[id EXCEPT !.tenant = FindHeader(req.headers, "x-fg-org-id"),
                         !.groups = answer.value] : answer \in {m \in Memberships : m.ok}}

(* What the policy engine may answer.                                       *)
EngineResults ==
    [result : {"allow", "deny"}, record : Records] \cup {[result |-> "error", record |-> None]}

(* Rust's Some of an identity, a membership or a decision is not None, and  *)
(* a middleware runs in one of the two modes.                               *)
ASSUME HostsAssumption ==
    /\ None \notin EngineResults \cup Memberships
    /\ \A host \in {Configs[name] : name \in DOMAIN Configs} :
          /\ host.host = "proxy" \/ host.host = "axum"
          /\ host.host = "axum" => host.defaultMode \in {"Enforce", "Observe"}
          /\ \A req \in Requests(host.host) :
               LET cred == ExtractCredential(req.headers)
               IN  /\ "headers" \in DOMAIN req
                   /\ cred # None => \A cached \in CacheAnswers(cred) :
                        LET answer == ResolveIdentity(host.env, cred, Now, cached)
                        IN  answer.ok => None \notin Enriched(answer.value, req)

ChainAnswers(s) ==
    /\ calls[s].pc = "identity"
    /\ \E answer \in {ResolveIdentity(config.env, calls[s].cred, Now, cached) :
                          cached \in CacheAnswers(calls[s].cred)} :
         \E next \in {Identified(config, calls[s], answer)} : Proceed(s, next)

(* The membership store answers.                                            *)
MembershipAnswers(s) ==
    /\ calls[s].pc = "member"
    /\ \E answer \in Memberships :
         \E next \in {Joined(config, [calls[s] EXCEPT !.joined = answer], answer)} :
           Proceed(s, next)

(* The policy engine answers.                                               *)
EngineAnswers(s) ==
    /\ calls[s].pc = "policy"
    /\ \E answer \in EngineResults :
         \E next \in {Decided(calls[s], answer)} : Proceed(s, next)

(* upstream_request_filter: the identity's headers replace the request's.   *)
SendUpstream(s) ==
    /\ calls[s].pc = "upstream"
    /\ calls' = [calls EXCEPT ![s].pc = "waiting",
                   ![s].sent = LET c == calls[s] IN
                     IF c.identity = None THEN c.req.headers
                     ELSE InsertAll(c.req.headers,
                            InjectSignedHeaders(c.identity, c.flags,
                              ExtractClientIp(config.ipSource, c.req), config.signing, s, Now))]
    /\ UNCHANGED <<running, sink, metrics>>

(* Mutant: the upstream's own headers win.                                  *)
ResponseFilterKeeps(s, reply) ==
    /\ calls[s].pc = "waiting"
    /\ calls' = [calls EXCEPT ![s].pc = "sent", ![s].status = 200,
                   ![s].reply = InsertAll(CorsHeaders(calls[s]), reply)]
    /\ UNCHANGED <<running, sink, metrics>>

(* response_filter: Vary is appended, the other headers replace.            *)
ResponseFilter(s, reply) ==
    /\ calls[s].pc = "waiting"
    /\ calls' = [calls EXCEPT ![s].pc = "sent", ![s].status = 200,
                   ![s].reply = LET cors == CorsHeaders(calls[s])
                                    vary == {i \in DOMAIN cors : cors[i][1] = "vary"}
                                IN  IF vary = {} THEN InsertAll(reply, cors)
                                    ELSE Append(InsertAll(reply, Without(cors, {"vary"})),
                                                <<"vary", <<"Origin">>>>)]
    /\ UNCHANGED <<running, sink, metrics>>

(* fail_to_proxy: 502 for the upstream, 500 for an internal error; a client *)
(* that went away is sent nothing.                                          *)
FailToProxy(s, source) ==
    /\ calls[s].pc \in {"upstream", "waiting"}
    /\ calls' = [calls EXCEPT ![s] = CASE source = "upstream"   -> Answer(@, 502)
                                       [] source = "internal"   -> Answer(@, 500)
                                       [] source = "downstream" -> [@ EXCEPT !.pc = "sent"]]
    /\ UNCHANGED <<running, sink, metrics>>

Logging(s) ==
    /\ calls[s].pc = "sent"
    /\ calls' = [calls EXCEPT ![s].pc = "done"]
    /\ metrics' = [metrics EXCEPT !.requests = @ + 1]
    /\ UNCHANGED <<running, sink>>

(* The axum handler runs with the identity and the decision of the call; an *)
(* RlsContext it extracts sets the three session variables, empty (None)    *)
(* when absent.                                                             *)
RlsContext(call) ==
    [scope     |-> IF call.record = None THEN None ELSE call.record.scope,
     granted   |-> IF call.record = None THEN {} ELSE call.record.granted,
     principal |-> IF call.identity = None THEN None ELSE call.identity.user]

HandlerAnswers(s) ==
    /\ calls[s].pc = "handler"
    /\ calls' = [calls EXCEPT ![s].pc = "done", ![s].status = 200,
                   ![s].body = RlsContext(calls[s])]
    /\ UNCHANGED <<running, sink, metrics>>

(* The client of an axum server goes away: the server drops the call at the *)
(* await it is in.                                                          *)
Disconnect(s) ==
    /\ config.host = "axum"
    /\ calls[s].pc \in {"identity", "member", "policy", "handler"}
    /\ calls' = [calls EXCEPT ![s].pc = "gone"]
    /\ UNCHANGED <<running, sink, metrics>>

Step(s) ==
    \/ ChainAnswers(s)
    \/ MembershipAnswers(s)
    \/ EngineAnswers(s)
    \/ SendUpstream(s)
    \/ \E reply \in UpstreamReplies : ResponseFilter(s, reply)
    \/ \E source \in {"upstream", "internal", "downstream"} : FailToProxy(s, source)
    \/ Logging(s)
    \/ HandlerAnswers(s)

DataPlaneNext ==
    \E s \in Slots : \/ \E req \in Requests(config.host) : Arrive(s, req)
                     \/ Step(s)
                     \/ Disconnect(s)

DataPlaneSpec == DataPlaneInit /\ [][DataPlaneNext]_dpVars

(* The only states without a step are those with every call at rest.  Each  *)
(* step takes its call further along the pipeline, so that freedom from     *)
(* deadlock is all it takes for every request to be answered.               *)
AtRest == \A s \in Slots : calls[s].pc \in {"done", "gone"}

-----------------------------------------------------------------------------
(* Who the credential of a call says is calling, and for which tenant.      *)
Subject(cred) ==
    CASE cred.type = "bearer" ->
           IF config.env.jwt.userIdClaim = "sub" THEN cred.token.sub
           ELSE cred.token.claims[config.env.jwt.userIdClaim]
      [] cred.type = "api-key" -> config.env.apiKeys[cred.key].user
      [] cred.type = "signed-request" -> cred.keyId

OwnTenant(cred) ==
    CASE cred.type = "bearer" -> None
      [] cred.type = "api-key" -> config.env.apiKeys[cred.key].tenant
      [] cred.type = "signed-request" -> FindHeader(cred.headers, "x-fg-org-id")

OwnGroups(cred) == IF cred.type = "api-key" THEN config.env.apiKeys[cred.key].groups ELSE {}

ReachedApp(c) == c.pc # "idle" /\ (c.pc = "upstream" \/ c.sent # None)

(* A request reaches the protected application only as the pipeline decided *)
(* it: a non-public path needs an identity, a gated route its flag, and an  *)
(* identified caller on a route the engine's allow in enforce mode, given   *)
(* for exactly the subject of the credential, the organisation the request  *)
(* names with the groups the membership store answered, and the route.      *)
(* Nothing that happened in other calls or between the awaits changes that  *)
(* (evaluate_pipeline, request_filter, forgeguard_layer).                   *)
ForwardsAreDecided ==
    \A s \in Slots : LET c == calls[s] IN ReachedApp(c) =>
        /\ c.public = "NotPublic" => c.identity # None
        /\ c.route = None => IsPublic(c.public) \/ config.passthrough
        /\ c.route # None /\ c.route.gate # None => FlagEnabled(c.flags, c.route.gate)
        /\ c.identity # None /\ c.route # None =>
             /\ c.mode = "Enforce" => c.answer.result = "allow"
             /\ c.query.user = Subject(c.cred)
             /\ IF c.joined = None
                THEN c.query.tenant = OwnTenant(c.cred) /\ c.query.groups = OwnGroups(c.cred)
                ELSE /\ c.query.tenant = FindHeader(c.req.headers, "x-fg-org-id")
                     /\ c.query.groups = c.joined.value
             /\ c.query.action = MatchRequest(config.routes, c.input.method, c.input.path).action

(* Every policy decision of the axum layer is reported to the sink exactly  *)
(* once, with the mode it ran under, the record of the engine and the       *)
(* effect it had; a call the policy never decided, because it was rejected  *)
(* earlier or its client went away while it waited, is not reported         *)
(* (forgeguard_layer: "Every evaluated outcome ... is recorded").           *)
DecisionsAreReportedOnce ==
    config.host = "axum" =>
        \A s \in Slots : LET of == {i \in DOMAIN sink : sink[i].slot = s} IN
            IF calls[s].pc = "idle" \/ calls[s].answer = None THEN of = {}
            ELSE \E i \in of :
                   /\ of = {i}
                   /\ sink[i].record = calls[s].answer.record
                   /\ sink[i].mode = calls[s].mode
                   /\ sink[i].effect = PolicyEffect(calls[s].mode, calls[s].answer.result = "allow")
                   /\ (sink[i].effect = "Denied") = (calls[s].status = 403)

Expected(c, name) ==
    IF c.identity = None /\ name \in {"x-fg-user-id", "x-fg-tenant-id", "x-fg-groups"} THEN <<>>
    ELSE CASE name = "x-fg-user-id"   -> <<c.identity.user>>
           [] name = "x-fg-tenant-id" -> IF c.identity.tenant = None THEN <<>>
                                         ELSE <<c.identity.tenant>>
           [] name = "x-fg-groups"    -> IF c.identity.groups = {} THEN <<>>
                                         ELSE <<c.identity.groups>>
           [] name = "x-fg-revision"  -> IF c.record = None THEN <<>> ELSE <<c.record.revision>>

Verifies(headers, names) ==
    Verify(config.signing.key,
           CanonicalPayload(FindHeader(headers, "x-fg-trace-id"),
                            FindHeader(headers, "x-fg-timestamp").ms,
                            Without(headers, {headers[i][1] : i \in DOMAIN headers} \ names)),
           FindHeader(headers, "x-fg-signature"))

(* The identity headers the application receives are those of the caller    *)
(* the policy was asked about.  Behind axum that is all of them: what came  *)
(* under these names with the request is gone, and with signing on the      *)
(* protected headers verify.  Behind the proxy it is the headers the        *)
(* identity has a value for.  For any other name, and for every name when   *)
(* the caller is anonymous, the application sees what the client sent: the  *)
(* proxy removes nothing.  With signing on, the projected headers verify    *)
(* when the request came with none of its own (build_fg_headers,            *)
(* inject_signed_headers, upstream_request_filter).                         *)
AppSeesTheCaller ==
    \A s \in Slots : LET c == calls[s] IN (c.pc # "idle" /\ c.sent # None) =>
        IF config.host = "axum"
        THEN /\ \A n \in {"x-fg-user-id", "x-fg-tenant-id", "x-fg-groups", "x-fg-revision"} :
                  ValuesOf(c.sent, n) = Expected(c, n)
             /\ config.signing # None /\ c.identity # None => Verifies(c.sent, ProtectedFgHeaders)
        ELSE /\ \A n \in {"x-fg-user-id", "x-fg-tenant-id", "x-fg-groups"} :
                  ValuesOf(c.sent, n) =
                      IF Expected(c, n) # <<>> THEN Expected(c, n) ELSE ValuesOf(c.req.headers, n)
             /\ (/\ config.signing # None /\ c.identity # None
                 /\ \A i \in DOMAIN c.req.headers : c.req.headers[i][1] \notin ProjectionHeaders)
                => Verifies(c.sent, ProjectionHeaders)

(* The debug endpoint tells the truth: for the same caller, the values it   *)
(* explains are the values requests are evaluated with, although the two    *)
(* are computed by separate functions (resolve_single_flag and              *)
(* resolve_single_flag_detailed).                                           *)
FlagsAreExplained ==
    \A s \in Slots : LET c == calls[s] IN c.pc # "idle" =>
        /\ c.flags # None =>
             LET why == EvaluateFlagsDetailed(config.flags, c.identity.tenant, c.identity.user,
                                              c.identity.groups)
             IN  \A n \in DOMAIN c.flags : c.flags[n] = why[n].value
        /\ c.input # None /\ config.debug /\ c.input.path = FlagsDebugPath /\ c.body # None =>
             \A n \in DOMAIN c.body :
                 c.body[n].value = EvaluateFlags(config.flags, c.query.tenant, c.query.user,
                                                 c.query.groups)[n]

(* Every answer of the proxy to a request from an allowed origin can be     *)
(* read by that origin: rejects, failures of the upstream and forwarded     *)
(* responses alike carry one allow-origin header, in the place of any the   *)
(* upstream set.  It names the request's origin, even when the wildcard     *)
(* allowed it; only a preflight is answered with the value that matched,    *)
(* "*" for the wildcard.  Vary comes with it unless the wildcard is all     *)
(* that is configured, so that under such a configuration answers differ    *)
(* by origin without saying so (request_filter, response_filter,            *)
(* fail_to_proxy; is_wildcard_only takes them to be identical).             *)
AnswersAllowTheirOrigin ==
    (config.host = "proxy" /\ config.cors # None) =>
        \A s \in Slots : LET c == calls[s] IN (c.pc # "idle" /\ c.reply # None) =>
            LET origin == FindHeader(c.req.headers, "origin")
                matched == MatchesOrigin(config.cors, origin)
                preflight == /\ c.req.method = "OPTIONS"
                             /\ FindHeader(c.req.headers, "access-control-request-method") # None
            IN  (origin # None /\ matched # None) =>
                  /\ ValuesOf(c.reply, "access-control-allow-origin") =
                         <<IF preflight THEN matched ELSE origin>>
                  /\ <<"Origin">> \in Tokens(ValuesOf(c.reply, "vary")) <=> ~IsWildcardOnly(config.cors)
=============================================================================
