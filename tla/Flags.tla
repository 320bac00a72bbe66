------------------------------- MODULE Flags -------------------------------
(***************************************************************************)
(* Feature flags (crates/core/src/features/mod.rs) and the debug endpoint   *)
(* that explains them (crates/http/src/debug.rs).                           *)
(*                                                                          *)
(* A configuration is a function from flag names to definitions             *)
(*   [enabled, default, overrides, rollout, variant]                        *)
(* whose overrides are a sequence of [tenant, user, group, value].  An      *)
(* absent field is None.  A value is a string such as "Bool(true)".  The    *)
(* code evaluates flags twice, once for a request and once, with reasons,   *)
(* for the debug endpoint: the two are separate functions here too.         *)
(***************************************************************************)
EXTENDS Naturals, Sequences, Options

CONSTANT
    Bucket(_, _, _)   \* the bucket, 0..99, of a flag, a tenant and a user

True == "Bool(true)"

FlagOverride(tenant, user, group, value) ==
    [tenant |-> tenant, user |-> user, group |-> group, value |-> value]

FlagDefinition(enabled, default, overrides, rollout, variant) ==
    [enabled |-> enabled, default |-> default, overrides |-> overrides, rollout |-> rollout,
     variant |-> variant]

(* An override applies when each dimension it names is the caller's.        *)
OverrideMatches(ov, tenant, user, groups) ==
    /\ ov.user = None \/ ov.user = user
    /\ ov.tenant = None \/ ov.tenant = tenant
    /\ ov.group = None \/ ov.group \in groups

Matching(flag, tenant, user, groups) ==
    {i \in DOMAIN flag.overrides : OverrideMatches(flag.overrides[i], tenant, user, groups)}

FirstOf(indices) == CHOOSE i \in indices : \A j \in indices : i =< j

Variant(flag) == IF flag.variant = None THEN True ELSE flag.variant

(* Mutant: the kill switch no longer stops the rollout.                     *)
ResolveWithoutKillSwitch(name, flag, tenant, user, groups) ==
    LET hits == Matching(flag, tenant, user, groups)
    IN  IF hits # {} THEN flag.overrides[FirstOf(hits)].value
        ELSE IF flag.rollout # None /\ Bucket(name, tenant, user) < flag.rollout
             THEN Variant(flag)
             ELSE flag.default

ResolveSingleFlag(name, flag, tenant, user, groups) ==
    LET hits == Matching(flag, tenant, user, groups)
    IN  IF ~flag.enabled THEN flag.default
        ELSE IF hits # {} THEN flag.overrides[FirstOf(hits)].value
        ELSE IF flag.rollout # None /\ Bucket(name, tenant, user) < flag.rollout
             THEN Variant(flag)
             ELSE flag.default

(* The same resolution with its reason, as the debug endpoint reports it.   *)
ResolveSingleFlagDetailed(name, flag, tenant, user, groups) ==
    LET hits   == Matching(flag, tenant, user, groups)
        bucket == Bucket(name, tenant, user)
        ov     == flag.overrides[FirstOf(hits)]
    IN  CASE ~flag.enabled ->
               [value |-> flag.default, reason |-> "kill_switch"]
          [] flag.enabled /\ hits # {} ->
               [value |-> ov.value, reason |-> "override",
                by |-> <<ov.tenant, ov.user, ov.group>>]
          [] flag.enabled /\ hits = {} /\ flag.rollout = None ->
               [value |-> flag.default, reason |-> "default"]
          [] OTHER ->
               IF bucket < flag.rollout
               THEN [value |-> Variant(flag), reason |-> "rollout",
                     bucket |-> bucket, threshold |-> flag.rollout]
               ELSE [value |-> flag.default, reason |-> "rollout_excluded",
                     bucket |-> bucket, threshold |-> flag.rollout]

EvaluateFlags(config, tenant, user, groups) ==
    [name \in DOMAIN config |-> ResolveSingleFlag(name, config[name], tenant, user, groups)]

EvaluateFlagsDetailed(config, tenant, user, groups) ==
    [name \in DOMAIN config |-> ResolveSingleFlagDetailed(name, config[name], tenant, user, groups)]

(* ResolvedFlags::enabled: the flag exists and is the boolean true.         *)
FlagEnabled(flags, name) == name \in DOMAIN flags /\ flags[name] = True

EvaluateDebug(config, query) ==
    EvaluateFlagsDetailed(config, query.tenant, query.user, query.groups)
=============================================================================
