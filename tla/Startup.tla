------------------------------- MODULE Startup -------------------------------
(***************************************************************************)
(* The proxy comes up (crates/proxy/src/main.rs, cli.rs): it loads the file,*)
(* applies flags and environment, builds the identity chain, the policy     *)
(* engine, the route tables and the signing key, and serves; the first      *)
(* error ends the process.                                                  *)
(***************************************************************************)
EXTENDS Config

CONSTANTS Documents,    \* the raw documents a file may hold, None when unreadable
          Overrides,    \* what flags and environment may set
          VpFeature     \* whether the binary was built with the vp feature

VARIABLES proxy, source

startVars == <<proxy, source>>

NoOverrides == [listenAddr |-> None, upstreamUrl |-> None, defaultPolicy |-> None]

StartInit ==
    /\ source \in [document : Documents, overrides : Overrides]
    /\ proxy = [pc |-> "load", error |-> None, config |-> None, chain |-> <<>>, engine |-> None,
                upstream |-> None, signing |-> None, services |-> {}]

Exits(error) == proxy' = [proxy EXCEPT !.pc = "exited", !.error = error] /\ UNCHANGED source

Load ==
    LET loaded == LoadConfig(source.document)
    IN  /\ proxy.pc = "load"
        /\ IF loaded.error # None THEN Exits(loaded.error)
           ELSE IF ApplyOverrides(loaded.config, source.overrides) = None THEN Exits("overrides")
           ELSE /\ proxy' = [proxy EXCEPT !.pc = "chain",
                                          !.config = ApplyOverrides(loaded.config, source.overrides)]
                /\ UNCHANGED source

(* A provider that is listed but not configured, or not known, is skipped.  *)
Configured(provider, config) ==
    \/ provider = "jwt" /\ config.jwt # None
    \/ provider = "api-key" /\ config.apiKeys # <<>>

(* Of two entries with one key the later one is kept.                       *)
BuildApiKeyMap(entries) ==
    [k \in {entries[i].key : i \in DOMAIN entries} |->
        LET e == entries[Max({i \in DOMAIN entries : entries[i].key = k})]
        IN  [userId |-> e.userId, tenantId |-> e.tenantId, groups |-> e.groups]]

Resolver(provider, config) ==
    IF provider = "jwt" THEN [provider |-> "jwt", settings |-> config.jwt]
    ELSE [provider |-> "api-key", settings |-> BuildApiKeyMap(config.apiKeys)]

BuildIdentityChain ==
    /\ proxy.pc = "chain"
    /\ proxy' = [proxy EXCEPT
          !.pc = "engine",
          !.chain = LET on == SelectSeq(proxy.config.auth, LAMBDA p : Configured(p, proxy.config))
                    IN  [i \in DOMAIN on |-> Resolver(on[i], proxy.config)]]
    /\ UNCHANGED source

(* Redis is optional: when it cannot be reached, the local cache serves     *)
(* alone.                                                                   *)
BuildPolicyEngine ==
    /\ proxy.pc = "engine"
    /\ IF proxy.config.authz = None
       THEN /\ proxy' = [proxy EXCEPT !.pc = "routes", !.engine = [kind |-> "AllowAll", l2 |-> FALSE]]
            /\ UNCHANGED source
       ELSE IF ~VpFeature THEN Exits("built without vp")
       ELSE \E connected \in BOOLEAN :
              /\ connected => proxy.config.cluster # None
              /\ proxy' = [proxy EXCEPT !.pc = "routes", !.engine = [kind |-> "Vp", l2 |-> connected]]
              /\ UNCHANGED source

Table(routes) == [i \in DOMAIN routes |-> [method |-> routes[i].method, pattern |-> routes[i].path]]

BuildMatchers ==
    /\ proxy.pc = "routes"
    /\ IF ~R!Buildable(Table(proxy.config.routes)) THEN Exits("invalid routes")
       ELSE IF ~R!Buildable(Table(proxy.config.publicRoutes)) THEN Exits("invalid public routes")
       ELSE proxy' = [proxy EXCEPT !.pc = "signing", !.upstream = proxy.config.upstreamTarget]
            /\ UNCHANGED source

(* The key file may be missing or hold no key.                              *)
ReadSigningKey ==
    /\ proxy.pc = "signing"
    /\ \/ proxy.config.signing # None /\ Exits("signing key")
       \/ /\ proxy' = [proxy EXCEPT !.pc = "serve",
                          !.signing = IF proxy.config.signing = None THEN None
                                      ELSE proxy.config.signing.keyId]
          /\ UNCHANGED source

Serve ==
    LET metrics == proxy.config.metrics
    IN  /\ proxy.pc = "serve"
        /\ proxy' = [proxy EXCEPT
              !.pc = "serving",
              !.services = {proxy.config.listenAddr}
                           \cup (IF metrics.enabled /\ metrics.listenAddr # None
                                 THEN {metrics.listenAddr} ELSE {})]
        /\ UNCHANGED source

StartNext ==
    \/ Load \/ BuildIdentityChain \/ BuildPolicyEngine \/ BuildMatchers \/ ReadSigningKey \/ Serve

-----------------------------------------------------------------------------
(* A proxy that serves does what the file and the overrides say together:   *)
(* it connects to the upstream of the URL in force, treats unmatched routes *)
(* by the policy in force, listens where it is told to and, when metrics    *)
(* are on, at their address, resolves identities in the configured order    *)
(* with exactly the configured providers, asks Verified Permissions         *)
(* whenever the file names a policy store, and signs when the file says so  *)
(* (config.rs derives the target once, main.rs reads it several steps       *)
(* later).                                                                  *)
ServesAsConfigured ==
    proxy # None /\ proxy.pc = "serving" =>
        LET doc   == source.document
            flags == source.overrides
            InForce(flag, value) == IF flag # None THEN flag ELSE value
            order == IF doc.auth = None THEN DefaultChainOrder ELSE doc.auth
            on    == {i \in DOMAIN order : Configured(order[i], doc)}
        IN  /\ proxy.upstream = DeriveUpstreamTarget(InForce(flags.upstreamUrl, doc.upstreamUrl))
            /\ proxy.config.defaultPolicy =
                  InForce(flags.defaultPolicy, ParseDefaultPolicy(doc.defaultPolicy))
            /\ Len(proxy.chain) = Cardinality(on)
            /\ \A i \in on :
                  proxy.chain[Cardinality({j \in on : j =< i})].provider = order[i]
            /\ (proxy.engine.kind = "Vp") <=> (doc.authz # None)
            /\ (proxy.signing = None) <=> (doc.signing = None)
            /\ proxy.services =
                  {InForce(flags.listenAddr, doc.listenAddr)}
                  \cup (IF doc.metrics # None /\ doc.metrics.enabled
                        THEN {doc.metrics.listenAddr} \ {None} ELSE {})

(* The two searches for circular group nesting, the compiler's and the      *)
(* validator's, both find a cycle exactly when there is one (some groups    *)
(* each have a member among them).  What the validator has no reference or  *)
(* nesting error for compiles, and what compiles has no such error except   *)
(* perhaps a member group that is not defined, which only the validator     *)
(* looks for (compile_all_to_cedar, validate).                              *)
NestingIsChecked ==
    proxy # None /\ proxy.config # None =>
        LET c      == proxy.config
            nodes  == GroupNames(c.groups) \cup UNION {ToSet(g.memberGroups) : g \in ToSet(c.groups)}
            cyclic == \E S \in SUBSET nodes \ {{}} :
                         \A n \in S : ToSet(Neighbors(c.groups, n)) \cap S # {}
            errors == UndefinedPolicyGroups(c) \cup UndefinedMemberGroups(c) \cup CircularNestings(c)
        IN  /\ DetectCircularNesting(c.groups) = cyclic
            /\ (CircularNestings(c) # {}) = cyclic
            /\ IF CompileAll(c.policies, c.groups, c.projectId) = None
               THEN errors \ UndefinedMemberGroups(c) # {}
               ELSE errors \subseteq UndefinedMemberGroups(c)

(* Both: the file is understood in one way by the code that checks it, the  *)
(* code that compiles it and the proxy that serves by it.                   *)
StartedAsConfigured == ServesAsConfigured /\ NestingIsChecked
=============================================================================
