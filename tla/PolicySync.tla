----------------------------- MODULE PolicySync -----------------------------
(***************************************************************************)
(* Policies on their way to Verified Permissions and requests on their way  *)
(* to a decision: `forgeguard policies validate | sync | test`              *)
(* (crates/cli/src/policies) and the translation of the proxy's queries     *)
(* (crates/authz/src/translate.rs).  Several operators may run the command  *)
(* at the same time against one policy store.                               *)
(***************************************************************************)
EXTENDS Config

CONSTANTS Operators,    \* who runs the command line
          Files,        \* configurations (validated) that the commands load
          Queries,      \* queries the proxy may be asked
          TestFlags,    \* what `policies test` may be given on the command line
          MaxJobs       \* commands started in all

VARIABLES store,        \* the policy store: its schema and the texts of its policies
          job,          \* the command each operator runs
          runs          \* the commands started so far

syncVars == <<store, job, runs>>

-----------------------------------------------------------------------------
(* build_vp_request and build_vp_entities.  A query has a principal of a    *)
(* kind, its groups and tenant, an action and perhaps a resource.           *)

PrincipalFgrn(query, project) ==
    IF query.kind = "User" THEN UserFgrn(project, query.tenant, query.user)
    ELSE MachineFgrn(project, query.tenant, query.user)

PrincipalUid(query, project) ==
    <<Qualified(project, <<query.kind>>), PrincipalFgrn(query, project).raw>>

ResourceRef(ref, override, ownId) == ref @@ [override |-> override, ownId |-> ownId]

(* A route may override the resource's entity type.                         *)
ResourceUid(resource, project) ==
    <<IF resource.override # None THEN Qualified(project, resource.override)
      ELSE VpEntityType(resource, project),
      resource.id>>

BuildVpRequest(query, project) ==
    [principal |-> PrincipalUid(query, project),
     action    |-> CedarActionRef(query.action, project),
     resource  |-> IF query.resource = None THEN None ELSE ResourceUid(query.resource, project)]

Entity(parents, orgId) == [parents |-> parents, orgId |-> orgId]

(* Mutant: groups are identified by their FGRN, as principals are.          *)
BuildVpEntitiesFgrn(query, project) ==
    PrincipalUid(query, project) :>
        Entity({<<Qualified(project, <<"Group">>), GroupFgrn(project, query.tenant, g).raw>> :
                   g \in query.groups}, query.tenant)

BuildVpEntities(query, project) ==
    LET groups == IF query.kind = "User" THEN {GroupUid(g, project) : g \in query.groups} ELSE {}
        org    == IF query.resource = None THEN None
                  ELSE IF query.resource.ownId THEN query.resource.id ELSE query.tenant
    IN  (PrincipalUid(query, project) :> Entity(groups, query.tenant))
        @@ [g \in groups |-> Entity({}, None)]
        @@ (IF query.resource = None THEN <<>>
            ELSE ResourceUid(query.resource, project) :> Entity({}, org))

(* translate_vp_decision: anything but ALLOW denies.                        *)
EngineAllows(policies, query, project) ==
    IsAuthorized(policies, BuildVpRequest(query, project), BuildVpEntities(query, project))

-----------------------------------------------------------------------------
(* `policies test`: a scenario makes its own request, without attributes    *)
(* and without a resource entity.                                           *)

TestEntities(test, project) ==
    LET groups == {GroupUid(g, project) : g \in ToSet(test.groups)}
    IN  (<<Qualified(project, <<"User">>), UserFgrn(project, test.tenant, test.principal).raw>>
            :> Entity(groups, None))
        @@ [g \in groups |-> Entity({}, None)]

ExecuteScenario(policies, test, project) ==
    LET request ==
            [principal |-> <<Qualified(project, <<"User">>),
                             UserFgrn(project, test.tenant, test.principal).raw>>,
             action    |-> CedarActionRef(test.action, project),
             resource  |-> IF test.resource = None THEN None
                           ELSE <<VpEntityType(test.resource, project), test.resource.id>>]
    IN  IsAuthorized(policies, request, TestEntities(test, project))

(* A scenario given by flags; no scenario when a required flag is missing,  *)
(* None when a flag is rejected.                                            *)
BuildScenarioFromFlags(flags) ==
    IF None \in {flags.principal, flags.action, flags.expect} THEN <<>>
    ELSE LET test == [flags EXCEPT !.tenant = IF @ = None THEN <<"default">> ELSE @]
         IN  IF PolicyTestDefect(test) # None \/ ~IsTypedId(test.principal) \/ ~IsTypedId(test.tenant)
             THEN None ELSE <<PolicyTest(test)>>

(* from_policy_test and collect_scenarios: a principal or a tenant that is  *)
(* no segment stops the command.                                            *)
CollectScenarios(config, flags) ==
    IF \/ \E i \in DOMAIN config.policyTests :
             ~IsTypedId(config.policyTests[i].principal) \/ ~IsTypedId(config.policyTests[i].tenant)
       \/ BuildScenarioFromFlags(flags) = None
    THEN None ELSE config.policyTests \o BuildScenarioFromFlags(flags)

-----------------------------------------------------------------------------
(* The commands.                                                            *)

Idle == [pc |-> "idle", config |-> None, work |-> <<>>, next |-> 1, failed |-> 0, outcome |-> None]

SyncInit ==
    /\ store = [schema |-> None, policies |-> {}]
    /\ job = [o \in Operators |-> Idle]
    /\ runs = 0

Starts(o, j) ==
    /\ job[o].pc = "idle" /\ runs < MaxJobs
    /\ job' = [job EXCEPT ![o] = j]
    /\ runs' = runs + 1

Ended(outcome) == [Idle EXCEPT !.outcome = outcome]

Ends(o, outcome) == job' = [job EXCEPT ![o] = Ended(outcome)]

Compiled(config) == CompileAll(config.policies, config.groups, config.projectId)

SchemaOf(config) ==
    GenerateCedarSchema(config.policies, {config.routes[i].action : i \in DOMAIN config.routes},
                        ToEntityConfig(config.schema))

(* `policies validate`, and `policies sync --dry-run`: compile and print.   *)
ValidatePolicies(o) ==
    \E c \in Files :
        /\ Starts(o, Ended(IF Compiled(c) = None THEN "compile error" ELSE "printed"))
        /\ UNCHANGED store

StartSync(o) ==
    \E c \in Files :
        /\ Starts(o, IF Compiled(c) = None THEN Ended("compile error")
                     ELSE IF c.authz = None THEN Ended("no authz section")
                     ELSE [Idle EXCEPT !.pc = "schema", !.config = c, !.work = Compiled(c)])
        /\ UNCHANGED store

PutSchema(o) ==
    /\ job[o].pc = "schema"
    /\ \/ /\ store' = [store EXCEPT !.schema = SchemaOf(job[o].config)]
          /\ job' = [job EXCEPT ![o].pc = "policies"]
       \/ Ends(o, "failed") /\ UNCHANGED store
    /\ UNCHANGED runs

(* Mutant: a policy that cannot be created is skipped.                      *)
CreatePolicySkips(o) ==
    /\ job[o].pc = "policies" /\ job[o].next =< Len(job[o].work)
    /\ job' = [job EXCEPT ![o].next = @ + 1]
    /\ store' \in {store, [store EXCEPT !.policies = @ \cup {job[o].work[job[o].next]}]}
    /\ UNCHANGED runs

CreatePolicy(o) ==
    /\ job[o].pc = "policies" /\ job[o].next =< Len(job[o].work)
    /\ \/ /\ store' = [store EXCEPT !.policies = @ \cup {job[o].work[job[o].next]}]
          /\ job' = [job EXCEPT ![o].next = @ + 1]
       \/ Ends(o, "failed") /\ UNCHANGED store
    /\ UNCHANGED runs

SyncComplete(o) ==
    /\ job[o].pc = "policies" /\ job[o].next > Len(job[o].work)
    /\ job' = [job EXCEPT ![o] = [Ended("complete") EXCEPT !.config = job[o].config]]
    /\ UNCHANGED <<store, runs>>

StartTest(o) ==
    \E c \in Files, flags \in TestFlags :
        LET scenarios == CollectScenarios(c, flags)
        IN  /\ Starts(o, IF c.authz = None THEN Ended("no authz section")
                         ELSE IF scenarios = None THEN Ended("invalid scenario")
                         ELSE IF scenarios = <<>> THEN Ended("no scenarios")
                         ELSE [Idle EXCEPT !.pc = "test", !.config = c, !.work = scenarios])
            /\ UNCHANGED store

RunScenario(o) ==
    LET j       == job[o]
        test    == j.work[j.next]
        allowed == ExecuteScenario(store.policies, test, j.config.projectId)
        failed  == j.failed + (IF allowed = (test.expect = "allow") THEN 0 ELSE 1)
    IN  /\ j.pc = "test"
        /\ \/ Ends(o, "request failed")
           \/ /\ j.next < Len(j.work)
              /\ job' = [job EXCEPT ![o] = [@ EXCEPT !.next = @ + 1, !.failed = failed]]
           \/ /\ j.next = Len(j.work)
              /\ Ends(o, IF failed > 0 THEN "tests failed" ELSE "tests passed")
        /\ UNCHANGED <<store, runs>>

SyncNext ==
    \E o \in Operators :
        \/ ValidatePolicies(o) \/ StartSync(o) \/ PutSchema(o) \/ CreatePolicy(o)
        \/ SyncComplete(o) \/ StartTest(o) \/ RunScenario(o)

-----------------------------------------------------------------------------
(* What a configuration says a query gets for some groups, read from the    *)
(* policies themselves: the patterns, groups, resources and exceptions of   *)
(* permission.rs, with a denial winning.                                    *)
Covers(stmt, query, groups) ==
    /\ \E i \in DOMAIN stmt.actions : PatternMatches(stmt.actions[i], query.action)
    /\ \/ stmt.resources = <<>>
       \/ /\ query.resource # None
          /\ \E r \in ToSet(stmt.resources) :
                <<r.namespace, r.entity, r.id>>
                    = <<query.resource.namespace, query.resource.entity, query.resource.id>>
    /\ stmt.effect = "Deny" => ToSet(stmt.except) \cap groups = {}

Says(config, effect, query, groups) ==
    \E policy \in ToSet(config.policies) :
        /\ policy.groups = <<>> \/ ToSet(policy.groups) \cap groups # {}
        /\ \E stmt \in ToSet(policy.statements) : stmt.effect = effect /\ Covers(stmt, query, groups)

Declared(config, query, groups) ==
    Says(config, "Allow", query, groups) /\ ~Says(config, "Deny", query, groups)

(* The groups somebody is in by nesting: forgeguard.example.toml counts the *)
(* members of a group among those of every group that names it in           *)
(* member_groups.                                                           *)
EffectiveGroups(config, groups) ==
    LET all == groups \cup GroupNames(config.groups)
        Closed(S) == \A g \in ToSet(config.groups) : ToSet(g.memberGroups) \cap S # {} => g.name \in S
    IN  {n \in all : \A S \in SUBSET all : groups \subseteq S /\ Closed(S) => n \in S}

(* Every pattern of the configuration names one action or all of them.      *)
Plain(config) ==
    \A policy \in ToSet(config.policies) : \A stmt \in ToSet(policy.statements) :
        /\ stmt.actions # <<>>
        /\ \A p \in ToSet(stmt.actions) :
              IsAllExact(p) \/ p = QualifiedAction(Wildcard, Wildcard, Wildcard)

(* The configurations of the completed syncs, and those of them that the    *)
(* store holds nothing besides.                                             *)
Completed == {job[o].config : o \in {x \in Operators : job[x].outcome = "complete"}}
Alone == {c \in Completed : store.policies \subseteq ToSet(Compiled(c)) /\ store.schema = SchemaOf(c)}

(* Where nesting adds nothing to the groups of a query, the decision is the *)
(* one the configuration is documented to give.  Where it does, the groups  *)
(* that nesting adds are left out: neither compile.rs nor translate.rs      *)
(* looks at member_groups.                                                  *)
Follows(config) ==
    \A q \in Queries :
        LET nested == EffectiveGroups(config, q.groups)
        IN  EngineAllows(store.policies, q, config.projectId)
                = IF nested = q.groups THEN Declared(config, q, nested) ELSE Declared(config, q, q.groups)

(* A sync that reports completion has stored every policy it compiled, even *)
(* when another operator syncs at the same time (sync.rs stops at the first *)
(* error).  After it, in a store that holds this configuration alone, the   *)
(* schema declares every action the policies name and the decisions are the *)
(* ones its policies declare for the groups a request carries itself,       *)
(* whatever failed syncs and repeated syncs left in the store before        *)
(* (sync.rs never deletes, compile.rs and translate.rs agree on names).     *)
(* Groups that only nesting would add do not count, although                *)
(* forgeguard.example.toml says they do; and of a store that was synced     *)
(* from two files nothing more is said, since the schema of the last one    *)
(* replaces the other's and the policies of both stay.                      *)
SyncedDecisionsFollowConfig ==
    /\ \A c \in Completed : ToSet(Compiled(c)) \subseteq store.policies
    /\ \A c \in Alone : Plain(c) =>
         /\ Follows(c)
         /\ \A p \in store.policies :
               p.action # None => {ref[2] : ref \in p.action} \subseteq DOMAIN store.schema.actions

(* What `policies test` finds for a scenario is what the proxy's engine     *)
(* decides for the same user, groups, action and resource: the two          *)
(* translations to Verified Permissions agree on every compiled store.      *)
TestsPredictRequests ==
    store.policies # {} => \A c \in Files : \A i \in DOMAIN c.policyTests :
        LET t == c.policyTests[i]
            q == [kind |-> "User", user |-> t.principal, groups |-> ToSet(t.groups), tenant |-> t.tenant,
                  action |-> t.action,
                  resource |-> IF t.resource = None THEN None
                               ELSE ResourceRef(t.resource, None, FALSE)]
        IN  ExecuteScenario(store.policies, t, c.projectId)
                = EngineAllows(store.policies, q, c.projectId)

(* A pattern such as todo:*:read covers the actions it matches, in any      *)
(* position of the wildcard (permission.rs).                                *)
PatternsMeanWhatTheyMatch == \A c \in Alone : Follows(c)
=============================================================================
