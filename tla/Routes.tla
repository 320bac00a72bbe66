------------------------------- MODULE Routes -------------------------------
(***************************************************************************)
(* Route matching (crates/http/src/route.rs, public.rs, method.rs).         *)
(*                                                                          *)
(* A path is the sequence of its segments, so "/" is << "" >> and a         *)
(* trailing slash is a last empty segment.  A pattern is a sequence of      *)
(* [kind, name] with kind "lit", "colon" (":id", as users write it) or      *)
(* "brace" ("{id}", as the matchit router wants it).  A table is a sequence *)
(* of routes [method, pattern, value].                                      *)
(***************************************************************************)
EXTENDS Naturals, Sequences, Options

CONSTANT
    IsResourceId(_)   \* which texts are valid resource ids

Methods == {"GET", "POST", "PUT", "PATCH", "DELETE", "ANY"}

ParseMethod(m) == IF m = "*" THEN "ANY" ELSE IF m \in Methods THEN m ELSE None

(* A route maps a method and a pattern to an action.  The resource's id     *)
(* comes from a path parameter or is the default; ownId says that the       *)
(* resource is its own organisation.                                        *)
RouteMapping(method, pattern, action, entity, param, defaultId, gate, ownId) ==
    [method |-> method, pattern |-> pattern,
     value  |-> [action |-> action, entity |-> entity, param |-> param, defaultId |-> defaultId,
                 gate |-> gate, ownId |-> ownId]]

PublicRoute(method, pattern, authMode) ==
    [method |-> method, pattern |-> pattern, value |-> authMode]

(* Strip one trailing slash, except of the root.                            *)
NormalizePath(path) ==
    IF Len(path) > 1 /\ path[Len(path)] = ""
    THEN SubSeq(path, 1, Len(path) - 1)
    ELSE path

NormalizePattern(pattern) ==
    [i \in DOMAIN pattern |->
        IF pattern[i].kind = "colon" THEN [pattern[i] EXCEPT !.kind = "brace"] ELSE pattern[i]]

(* normalize_path on a pattern: a trailing slash is a last empty literal.   *)
TrimPattern(pattern) ==
    IF Len(pattern) > 1 /\ pattern[Len(pattern)] = [kind |-> "lit", name |-> ""]
    THEN SubSeq(pattern, 1, Len(pattern) - 1)
    ELSE pattern

Inserted(pattern) == NormalizePattern(TrimPattern(pattern))

(* The matchit router.  A parameter takes one non-empty segment; two        *)
(* patterns of one shape conflict; a literal beats a parameter, decided at  *)
(* the leftmost segment where two matching patterns differ.                 *)
Fits(pattern, path) ==
    /\ Len(pattern) = Len(path)
    /\ \A i \in DOMAIN pattern :
         IF pattern[i].kind = "lit" THEN pattern[i].name = path[i] ELSE path[i] # ""

SameShape(p, q) ==
    /\ Len(p) = Len(q)
    /\ \A i \in DOMAIN p : p[i].kind = q[i].kind /\ (p[i].kind = "lit" => p[i].name = q[i].name)

Beats(p, q) ==
    \E i \in DOMAIN p : /\ p[i].kind = "lit" /\ q[i].kind # "lit"
                        /\ \A j \in 1..(i - 1) : p[j].kind = q[j].kind

At(table, method, path) ==
    LET hits == {i \in DOMAIN table : /\ table[i].method = method
                                      /\ Fits(Inserted(table[i].pattern), path)}
    IN  IF hits = {} THEN 0
        ELSE CHOOSE i \in hits : \A j \in hits \ {i} :
               Beats(Inserted(table[i].pattern), Inserted(table[j].pattern))

(* RouteMatcher::new fails on two routes of one method and shape.           *)
Buildable(table) ==
    \A i, j \in DOMAIN table :
        (i # j /\ table[i].method = table[j].method)
            => ~SameShape(Inserted(table[i].pattern), Inserted(table[j].pattern))

(* The index of the route that serves a request, 0 for none: the method's   *)
(* own router first, the ANY router after it.                               *)
Lookup(table, method, path) ==
    LET m == ParseMethod(method)
        p == NormalizePath(path)
    IN  IF m = None THEN 0
        ELSE IF At(table, m, p) # 0 THEN At(table, m, p) ELSE At(table, "ANY", p)

(* The path parameters of a match, and the resource built from them: the    *)
(* configured parameter when it is a valid id, the default id otherwise.    *)
Params(pattern, path) ==
    LET at == {i \in DOMAIN pattern : pattern[i].kind = "brace"}
    IN  [name \in {pattern[i].name : i \in at} |->
            path[CHOOSE i \in at : pattern[i].name = name]]

ResolvedId(value, params) ==
    IF value.param \in DOMAIN params /\ IsResourceId(params[value.param])
    THEN params[value.param]
    ELSE value.defaultId

BuildMatchedRoute(route, path) ==
    LET params == Params(Inserted(route.pattern), path)
        id     == ResolvedId(route.value, params)
    IN  [action   |-> route.value.action,
         gate     |-> route.value.gate,
         resource |-> IF id = None THEN None
                      ELSE [type |-> route.value.entity, id |-> id,
                            org  |-> IF route.value.ownId THEN id ELSE None]]

MatchRequest(table, method, path) ==
    LET i == Lookup(table, method, path)
    IN  IF i = 0 THEN None ELSE BuildMatchedRoute(table[i], NormalizePath(path))

(* PublicRouteMatcher::check; the value of a public route is its auth mode. *)
PublicCheck(table, method, path) ==
    LET i == Lookup(table, method, path)
    IN  IF i = 0 THEN "NotPublic" ELSE table[i].value

IsPublic(match) == match \in {"Anonymous", "Opportunistic"}
=============================================================================
