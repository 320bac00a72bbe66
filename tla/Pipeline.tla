------------------------------ MODULE Pipeline ------------------------------
(***************************************************************************)
(* The auth pipeline every host runs on a request                           *)
(* (crates/proxy-core/src/pipeline.rs: evaluate_pipeline).                  *)
(*                                                                          *)
(* The function awaits three times: on the identity chain, on the           *)
(* membership resolver and on the policy engine.  A call is a record whose  *)
(* pc says what it awaits, and one operator per await takes it from there   *)
(* to the next await or to its outcome: Begin, Identified, Joined, Decided. *)
(* An ended call has pc "health", "debug", "reject" or "forward".           *)
(***************************************************************************)
EXTENDS Authn, Flags, Routes

PipelineConfig(routes, publics, flags, passthrough, debug, membership) ==
    [routes |-> routes, publics |-> publics, flags |-> flags, passthrough |-> passthrough,
     debug |-> debug, membership |-> membership]

HealthPath == <<".well-known", "forgeguard", "health">>
FlagsDebugPath == <<".well-known", "forgeguard", "flags">>

(* RequestInput::new: the methods are the routable ones, so HEAD and        *)
(* OPTIONS are refused, and a path must start with a slash.  A path without *)
(* one is the empty sequence here.                                          *)
RequestInput(req) ==
    IF ParseMethod(req.method) = None \/ req.path = <<>> THEN None
    ELSE [method |-> req.method, path |-> req.path, headers |-> req.headers,
          ip |-> req.ip, query |-> req.query]

Reject(call, status) == [call EXCEPT !.pc = "reject", !.status = status]

(* Phase 9, after the policy engine answered [result, record].  A deny and  *)
(* an engine error both deny; observe mode forwards all the same.           *)
PolicyEffect(mode, allowed) ==
    CASE mode = "Enforce" /\ allowed  -> "Allowed"
      [] mode = "Enforce" /\ ~allowed -> "Denied"
      [] mode = "Observe" /\ allowed  -> "WouldAllow"
      [] mode = "Observe" /\ ~allowed -> "WouldDeny"

(* Mutant: an engine error is no deny.                                      *)
DecidedErrorPasses(call, answer) ==
    LET effect == PolicyEffect(call.mode, answer.result # "deny")
        done   == [call EXCEPT !.answer = answer, !.effect = effect, !.record = answer.record]
    IN  IF effect = "Denied" THEN Reject([done EXCEPT !.denied = TRUE], 403)
        ELSE [done EXCEPT !.pc = "forward"]

Decided(call, answer) ==
    LET effect == PolicyEffect(call.mode, answer.result = "allow")
        done   == [call EXCEPT !.answer = answer, !.effect = effect, !.record = answer.record]
    IN  IF effect = "Denied" THEN Reject([done EXCEPT !.denied = TRUE], 403)
        ELSE [done EXCEPT !.pc = "forward"]

(* build_query: what the engine is asked.                                   *)
BuildQuery(id, route, ip) ==
    [kind |-> id.kind, user |-> id.user, action |-> route.action, resource |-> route.resource,
     tenant |-> id.tenant, groups |-> id.groups, ip |-> ip, extra |-> id.extra]

(* Phases 6 to 8 and 10, which await nothing.                               *)
GateCloses(route, flags) ==
    route.gate # None /\ (flags = None \/ ~FlagEnabled(flags, route.gate))

MatchRoute(config, call) ==
    LET id    == call.identity
        flags == IF id = None THEN None
                 ELSE EvaluateFlags(config.flags, id.tenant, id.user, id.groups)
        route == MatchRequest(config.routes, call.input.method, call.input.path)
        next  == [call EXCEPT !.flags = flags, !.route = route]
    IN  IF route # None
        THEN IF GateCloses(route, flags) THEN Reject(next, 404)
             ELSE IF id = None THEN [next EXCEPT !.pc = "forward"]
             ELSE [next EXCEPT !.pc = "policy", !.query = BuildQuery(id, route, call.input.ip)]
        ELSE IF IsPublic(call.public) \/ config.passthrough
        THEN [next EXCEPT !.pc = "forward"]
        ELSE Reject(next, 403)

(* Phase 5b, after the membership resolver answered Ok(groups), Ok(None) or *)
(* an error: the identity takes the organisation and its groups.            *)
Joined(config, call, answer) ==
    IF ~answer.ok THEN Reject(call, 500)
    ELSE IF answer.value = None THEN Reject(call, 403)
    ELSE MatchRoute(config, [call EXCEPT !.identity.tenant = call.org,
                                         !.identity.groups = answer.value])

(* Phase 5b up to its await: only an identity without a tenant is enriched; *)
(* the header may be absent on a public route only.                         *)
Enrich(config, call) ==
    LET org == FindHeader(call.input.headers, "x-fg-org-id")
    IN  IF ~config.membership \/ call.identity = None \/ call.identity.tenant # None
        THEN MatchRoute(config, call)
        ELSE IF org = None
        THEN IF call.public = "NotPublic" THEN Reject(call, 400) ELSE MatchRoute(config, call)
        ELSE IF ~IsId(org) THEN Reject(call, 400)
        ELSE [call EXCEPT !.pc = "member", !.org = org]

(* Phase 5, after the identity chain answered.                              *)
Identified(config, call, answer) ==
    IF answer.ok THEN Enrich(config, [call EXCEPT !.identity = answer.value])
    ELSE IF call.public = "NotPublic" THEN Reject(call, 401)
    ELSE Enrich(config, call)

(* FlagDebugQuery::parse over a query string already split into pairs: the  *)
(* last value of a key wins, user_id is required, each id must be valid and *)
(* an empty groups parameter is no group.                                   *)
ParseDebugQuery(pairs) ==
    LET Last(key) ==
          LET at == {i \in DOMAIN pairs : pairs[i][1] = key}
          IN  IF at = {} THEN None
              ELSE pairs[CHOOSE i \in at : \A j \in at : j =< i][2]
        groups == IF Last("groups") = None THEN {} ELSE Last("groups")
    IN  IF \/ Last("user_id") = None
           \/ ~IsId(Last("user_id"))
           \/ Last("tenant_id") # None /\ ~IsId(Last("tenant_id"))
           \/ \E g \in groups : ~IsId(g)
        THEN None
        ELSE [user |-> Last("user_id"), tenant |-> Last("tenant_id"), groups |-> groups]

DebugResponse(config, call) ==
    LET query == ParseDebugQuery(call.input.query)
    IN  IF query = None THEN Reject(call, 400)
        ELSE [call EXCEPT !.pc = "debug", !.status = 200, !.query = query,
                          !.body = EvaluateDebug(config.flags, query)]

(* Phases 1 to 4.                                                           *)
Begin(config, call) ==
    LET path   == call.input.path
        public == PublicCheck(config.publics, call.input.method, path)
        next   == [call EXCEPT !.public = public]
        cred   == IF public = "Anonymous" THEN None ELSE ExtractCredential(call.input.headers)
    IN  IF path = HealthPath THEN [call EXCEPT !.pc = "health", !.status = 200]
        ELSE IF config.debug /\ path = FlagsDebugPath THEN DebugResponse(config, call)
        ELSE IF cred # None THEN [next EXCEPT !.pc = "identity", !.cred = cred]
        ELSE IF public = "NotPublic" THEN Reject(next, 401)
        ELSE Enrich(config, next)
=============================================================================
