------------------------------- MODULE Cedar --------------------------------
(***************************************************************************)
(* Policies of the configuration and what they are compiled to (crates/core *)
(* permission.rs, cedar/compile.rs, cedar/schema.rs), the check of group    *)
(* nesting that runs before (also in crates/http/src/validate.rs), and the  *)
(* Cedar evaluation that Verified Permissions applies to the result.        *)
(***************************************************************************)
EXTENDS Names, FiniteSetsExt

(* The types of permission.rs.  A list of resources that is empty means all *)
(* resources.                                                               *)
PolicyStatement(effect, actions, resources, except) ==
    [effect |-> effect, actions |-> actions, resources |-> resources, except |-> except]

Policy(name, statements, groups) == [name |-> name, statements |-> statements, groups |-> groups]

GroupDefinition(name, memberGroups) == [name |-> name, memberGroups |-> memberGroups]

-----------------------------------------------------------------------------
(* Compilation.  A clause is None when it is unconstrained.                 *)

IsAllExact(p) == Wildcard \notin {p.namespace, p.entity, p.action}

BuildActionClause(actions, project) ==
    IF actions = <<>> \/ \E p \in ToSet(actions) : ~IsAllExact(p) THEN None
    ELSE {CedarActionRef(p, project) : p \in ToSet(actions)}

BuildResourceClause(refs, project) ==
    IF refs = <<>> THEN None
    ELSE {<<VpEntityType(r, project), r.id>> : r \in ToSet(refs)}

GroupUid(group, project) == <<Qualified(project, <<"Group">>), group>>

BuildUnlessClause(stmt, project) ==
    IF stmt.effect = "Allow" THEN {} ELSE {GroupUid(g, project) : g \in ToSet(stmt.except)}

CompilePolicy(policy, scope, project) ==
    [i \in DOMAIN policy.statements |->
        LET stmt == policy.statements[i]
        IN  [keyword   |-> IF stmt.effect = "Allow" THEN "permit" ELSE "forbid",
             principal |-> IF scope = None THEN None ELSE GroupUid(scope, project),
             action    |-> BuildActionClause(stmt.actions, project),
             resource  |-> BuildResourceClause(stmt.resources, project),
             unless    |-> BuildUnlessClause(stmt, project)]]

(* The depth-first search for circular nesting.  A later definition of the  *)
(* same group replaces an earlier one in the adjacency map.                 *)
Neighbors(groups, node) ==
    LET named == {i \in DOMAIN groups : groups[i].name = node}
    IN  IF named = {} THEN <<>> ELSE groups[Max(named)].memberGroups

Entered(search, node) ==
    [search EXCEPT !.visited = @ \cup {node}, !.stack = @ \cup {node}]

Left(search, node) == [search EXCEPT !.stack = @ \ {node}]

RECURSIVE DfsCycleCheck(_, _, _)
DfsCycleCheck(groups, node, search) ==
    LET Visit(s, next) == IF s.failed THEN s
                          ELSE IF next \in s.stack THEN [s EXCEPT !.failed = TRUE]
                          ELSE IF next \in s.visited THEN s
                          ELSE DfsCycleCheck(groups, next, s)
        after == FoldLeft(Visit, Entered(search, node), Neighbors(groups, node))
    IN  IF after.failed THEN after ELSE Left(after, node)

DetectCircularNesting(groups) ==
    LET Visit(s, group) == IF s.failed \/ group.name \in s.visited THEN s
                           ELSE DfsCycleCheck(groups, group.name, s)
    IN  FoldLeft(Visit, [visited |-> {}, stack |-> {}, failed |-> FALSE], groups).failed

(* validate.rs searches on after it met a cycle and reports every edge that *)
(* closes one.                                                              *)
RECURSIVE DfsCollect(_, _, _)
DfsCollect(groups, node, search) ==
    LET Visit(s, next) == IF next \in s.stack THEN [s EXCEPT !.errors = @ \cup {<<node, next>>}]
                          ELSE IF next \in s.visited THEN s
                          ELSE DfsCollect(groups, next, s)
    IN  Left(FoldLeft(Visit, Entered(search, node), Neighbors(groups, node)), node)

ValidateCircularNesting(groups) ==
    LET Visit(s, group) == IF group.name \in s.visited THEN s
                           ELSE DfsCollect(groups, group.name, s)
    IN  FoldLeft(Visit, [visited |-> {}, stack |-> {}, errors |-> {}], groups).errors

GroupNames(groups) == {groups[i].name : i \in DOMAIN groups}

(* compile_all_to_cedar; None is an error.                                  *)
CompileAll(policies, groups, project) ==
    LET Of(policy) == IF policy.groups = <<>> THEN CompilePolicy(policy, None, project)
                      ELSE FlattenSeq([i \in DOMAIN policy.groups |->
                                          CompilePolicy(policy, policy.groups[i], project)])
    IN  IF \/ \E i \in DOMAIN policies : ~ToSet(policies[i].groups) \subseteq GroupNames(groups)
           \/ DetectCircularNesting(groups)
        THEN None ELSE FlattenSeq([i \in DOMAIN policies |-> Of(policies[i])])

-----------------------------------------------------------------------------
(* The schema: the entity types with the types they may be members of and   *)
(* their attributes, and the actions with the resource types they apply to. *)

ActionsOf(policies) ==
    UNION {UNION {{p \in ToSet(stmt.actions) : IsAllExact(p)} : stmt \in ToSet(policy.statements)} :
              policy \in ToSet(policies)}

EntitySchemaConfig(memberOf, attributes) == [memberOf |-> memberOf, attributes |-> attributes]

BuildEntityTypeValue(type, defaults, config) ==
    IF type \in DOMAIN config
    THEN [config[type] EXCEPT !.memberOf = @ \cup defaults]
    ELSE EntitySchemaConfig(defaults, <<>>)

GenerateCedarSchema(policies, routeActions, config) ==
    LET all     == ActionsOf(policies) \cup routeActions
        derived == {CedarEntityType(a.namespace, a.entity) : a \in all}
        Named(id) == {a \in all : VpActionId(a) = id}
    IN  [entityTypes |-> [t \in derived \cup {<<"User">>, <<"Group">>} |->
                            BuildEntityTypeValue(t, IF t = <<"User">> THEN { <<"Group">> } ELSE {}, config)],
         actions     |-> [id \in {VpActionId(a) : a \in all} |->
                            [principalTypes |-> { <<"User">>, <<"Group">> },
                             resourceTypes  |-> {CedarEntityType(a.namespace, a.entity) : a \in Named(id)}]]]

-----------------------------------------------------------------------------
(* Verified Permissions, as the code uses it: some permit and no forbid has *)
(* to apply.  entities maps an entity to its parents.                       *)

WithAncestors(uid, entities) ==
    {uid} \cup (IF uid \in DOMAIN entities THEN entities[uid].parents ELSE {})

Applies(policy, request, entities) ==
    LET principals == WithAncestors(request.principal, entities)
    IN  /\ policy.principal # None => policy.principal \in principals
        /\ policy.action # None => request.action \in policy.action
        /\ policy.resource # None => request.resource # None /\ request.resource \in policy.resource
        /\ policy.unless \cap principals = {}

IsAuthorized(policies, request, entities) ==
    /\ \E p \in policies : p.keyword = "permit" /\ Applies(p, request, entities)
    /\ ~\E p \in policies : p.keyword = "forbid" /\ Applies(p, request, entities)
=============================================================================
