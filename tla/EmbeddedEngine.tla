--------------------------- MODULE EmbeddedEngine ----------------------------
(***************************************************************************)
(* The embedded policy engine (authz-core/src/engine_cedar) over the       *)
(* versioned store (authz-core/src/store): CedarEngine::decide pins one    *)
(* revision, evaluates the links of a delegation chain one await at a      *)
(* time, each against a slice read at that revision, and returns a record  *)
(* naming the revision.  Writers apply mutations between the awaits.       *)
(*                                                                         *)
(* Cedar itself is a library: a statement is a record, and Authorized says *)
(* what the engine relies on.  A Cedar entity is <<type, fgrn>>.           *)
(***************************************************************************)
EXTENDS Spine

CONSTANTS
    Clients,      \* callers of decide
    Queries,      \* the decision queries they ask
    Writes,       \* the StoreWrites that are applied
    Seeds,        \* the models a store is created with (MemoryStore::new)
    Snapshot,     \* the policy statements of the pinned snapshot
    Unquotable,   \* the FGRNs whose text holds a quote, a backslash or a control
    MaxRevision   \* bound: the store stops accepting writes at this revision

ASSUME EngineAssumption ==
    /\ MaxRevision \in Nat \ {0}
    /\ \A q \in Queries : q.revision \in Nat \cup {None}
    /\ \A q \in Queries : q.links \in Seq(Fgrns) /\ q.links # << >>
    /\ None \notin Nat

VARIABLES
    history,   \* the model at every revision: revision n is history[n]
    query,     \* per client, the query it asks
    phase,     \* per client: idle, pinning, evaluating or done
    revision,  \* per client, the pinned revision
    nextLink,  \* per client, the link to evaluate
    kept,      \* per client, the slice of the first link, for the record
    asked,     \* history: per client, the store's revision when it asked
    answer     \* per client, the record or the error

locals == <<query, phase, revision, nextLink, kept, asked, answer>>
engineVars == <<spine, history, locals>>

Latest == Len(history)
-----------------------------------------------------------------------------
(* The model of one organization at one revision (store/model.rs,          *)
(* slice.rs): the spine, the principals anchored in it, principal sets,    *)
(* grants and promoted resources; and the constructors of core/src that    *)
(* prove the shape of each.                                                *)
(*                                                                         *)
(* A model is a record.  principals, sets and promotions are functions of  *)
(* an FGRN, since each Vec of the code is kept free of duplicates by       *)
(* retain-then-push.  grants is a set: a repeated edge adds nothing.       *)

\* Principal::try_new: a shape check; the anchor need not exist.
IsPrincipal(f, anchor) ==
    /\ f.kind = "principal"
    /\ anchor.kind = "orgunit"
    /\ anchor.org = f.org

\* PrincipalSet::try_new.
IsPrincipalSet(f, anchor) ==
    /\ f.kind = "principal-set"
    /\ anchor.kind = "orgunit"
    /\ anchor.org = f.org

\* PrincipalSet::add_member.
MayJoin(f, member) ==
    /\ member.kind \in {"principal", "principal-set"}
    /\ member # f
    /\ member.org = f.org

\* Grant::try_new.
IsGrant(g) ==
    /\ g.actions # {}
    /\ g.resource.kind = "resource"
    /\ g.to.kind \in {"principal", "principal-set"}
    /\ g.to.org = g.resource.org

\* AnchoredResource::try_new: whatever can be shared is anchored to a node.
IsAnchor(f) == f.kind \in {"orgunit", "principal", "principal-set"}

\* promotion::share: a promoted resource and its first grant are minted
\* together, in the organization of the anchor.
IsPromotion(f, anchor) == f.kind = "resource" /\ IsAnchor(anchor) /\ f.org = anchor.org
-----------------------------------------------------------------------------
EmptyModel(sp) ==
    [spine |-> sp, principals |-> << >>, sets |-> << >>, grants |-> {}, promotions |-> << >>]

\* retain(|x| x.fgrn() != f), then push.
Upsert(table, f, value) ==
    [x \in DOMAIN table \cup {f} |-> IF x = f THEN value ELSE table[x]]

WithPrincipal(m, f, kind, anchor) ==
    [m EXCEPT !.principals = Upsert(m.principals, f, [kind |-> kind, anchor |-> anchor])]

WithSet(m, f, members) == [m EXCEPT !.sets = Upsert(m.sets, f, members)]

WithGrant(m, g) == [m EXCEPT !.grants = m.grants \cup {g}]

WithoutGrant(m, resource, to) ==
    [m EXCEPT !.grants = {g \in m.grants : ~(g.resource = resource /\ g.to = to)}]

WithPromotion(m, f, anchor) == [m EXCEPT !.promotions = Upsert(m.promotions, f, anchor)]
-----------------------------------------------------------------------------
(* Selecting what one decision needs.                                      *)

\* transitive_principal_sets: the loop ends at the least set of sets that holds
\* every set with the member, or with one of the selected sets, in it.
TransitiveSets(m, member) ==
    LET Closed(C) == \A s \in DOMAIN m.sets : (m.sets[s] \cap (C \cup {member})) # {} => s \in C
    IN  {s \in DOMAIN m.sets : \A C \in SUBSET DOMAIN m.sets : Closed(C) => s \in C}

\* The anchors whose ancestry the slice holds.
Anchors(m, p, resource) ==
    {m.principals[p].anchor}
    \cup {m.promotions[f] : f \in {resource} \cap DOMAIN m.promotions}

UnitAnchors(m, p, resource) == {a \in Anchors(m, p, resource) : a.kind = "orgunit"}

\* select_slice succeeds: the principal is known, and so is every unit anchor.
Sliceable(m, p, resource) ==
    /\ p \in DOMAIN m.principals
    /\ \A a \in UnitAnchors(m, p, resource) : InSpine(m.spine, a)

\* spine_ancestry: with the parent edge of each unit.
SliceUnits(m, p, resource) ==
    LET units == UNION {Ancestry(m.spine.units, a) : a \in UnitAnchors(m, p, resource)}
    IN  [u \in units |-> m.spine.units[u]]

Slice(m, p, resource) ==
    [principal |-> p,
     kind      |-> m.principals[p].kind,
     anchor    |-> m.principals[p].anchor,
     sets      |-> [s \in TransitiveSets(m, p) |-> m.sets[s]],
     units     |-> SliceUnits(m, p, resource),
     grants    |-> {g \in m.grants : g.resource = resource},
     promotion |-> IF resource \in DOMAIN m.promotions THEN m.promotions[resource] ELSE None]
-----------------------------------------------------------------------------
(* The store.                                                              *)

\* MemoryStore::apply fails: only Spine::add checks the state it meets.
Fails(m, w) == w.put = "unit" /\ ~CanAdd(m.spine, w.fgrn, w.parent)

Applied(m, w) ==
    CASE w.put = "unit"      -> [m EXCEPT !.spine = WithUnit(m.spine, w.fgrn, w.parent)]
      [] w.put = "principal" -> WithPrincipal(m, w.fgrn, w.kind, w.anchor)
      [] w.put = "set"       -> WithSet(m, w.fgrn, w.members)
      [] w.put = "grant"     -> WithGrant(m, w.grant)
      [] w.put = "revoke"    -> WithoutGrant(m, w.resource, w.to)
      [] w.put = "promotion" -> WithPromotion(m, w.fgrn, w.anchor)

\* A failed write pushes no revision.
Apply(w) ==
    /\ Latest < MaxRevision
    /\ history' = IF Fails(history[Latest], w) THEN history
                  ELSE Append(history, Applied(history[Latest], w))
    /\ UNCHANGED <<spine, locals>>

\* MemoryStore::slice, at a pinned revision.
KnownRevision(n) == n # 0 /\ n <= Latest
-----------------------------------------------------------------------------
(* From a slice to Cedar.                                                  *)

\* cedar_principal_type.
PrincipalType(kind) == IF kind = "human" THEN "User" ELSE "Machine"

\* promotion_anchor_type.
AnchorType(kind) ==
    CASE kind = "orgunit" -> "OrgUnit" [] kind = "principal" -> "User" [] OTHER -> "Resource"

Self(sl) == <<PrincipalType(sl.kind), sl.principal>>

\* slice_to_entities: the parents of every entity.  Sets have none, and the
\* principal's are the sets that list it, and its anchor.
EntityParents(sl, resource) ==
    LET units == {<<"OrgUnit", u>> : u \in DOMAIN sl.units}
        sets  == {<<"PSet", s>> : s \in DOMAIN sl.sets}
        res   == <<"Resource", resource>>
    IN  [e \in units \cup sets \cup {Self(sl), res} |->
            IF e \in units THEN {<<"OrgUnit", u>> : u \in {sl.units[e[2]]} \cap DOMAIN sl.units}
            ELSE IF e = Self(sl)
            THEN {<<"PSet", s>> : s \in {t \in DOMAIN sl.sets : sl.principal \in sl.sets[t]}}
                 \cup {<<"OrgUnit", sl.anchor>>}
            ELSE IF e = res /\ sl.promotion # None
            THEN {<<AnchorType(sl.promotion.kind), sl.promotion>>}
            ELSE {}]

\* grant_principal_clause: the type of another principal is not known here.
GrantClause(to, sl) ==
    CASE to.kind = "principal-set" -> [op |-> "in", uid |-> <<"PSet", to>>]
      [] to.kind = "orgunit"       -> [op |-> "in", uid |-> <<"OrgUnit", to>>]
      [] OTHER -> [op |-> "is", uid |-> IF to = sl.principal THEN Self(sl) ELSE <<"User", to>>]

\* grant_policies: one permit for each grant.
GrantPolicies(sl) ==
    {[effect    |-> "permit",
      principal |-> GrantClause(g.to, sl),
      actions   |-> g.actions,
      resource  |-> [op |-> "is", uid |-> <<"Resource", g.resource>>]] : g \in sl.grants}

\* One grant that cannot be quoted fails the whole evaluation.
GrantsCompile(sl) == \A g \in sl.grants : g.to \notin Unquotable /\ g.resource \notin Unquotable
-----------------------------------------------------------------------------
(* Cedar.                                                                  *)

Above(parents, e) ==
    LET known == DOMAIN parents \cup UNION {parents[x] : x \in DOMAIN parents}
    IN  {a \in known \cup {e} :
            \A C \in SUBSET known :
               e \in C /\ (\A x \in C \cap DOMAIN parents : parents[x] \subseteq C) => a \in C}

Satisfies(e, clause, parents) ==
    CASE clause.op = "any" -> TRUE
      [] clause.op = "is"  -> e = clause.uid
      [] clause.op = "in"  -> clause.uid \in Above(parents, e)

Applies(s, sl, action, resource) ==
    LET parents == EntityParents(sl, resource)
    IN  /\ action \in s.actions
        /\ Satisfies(Self(sl), s.principal, parents)
        /\ Satisfies(<<"Resource", resource>>, s.resource, parents)

Authorized(statements, sl, action, resource) ==
    LET hit == {s \in statements : Applies(s, sl, action, resource)}
    IN  /\ \E s \in hit : s.effect = "permit"
        /\ \A s \in hit : s.effect # "forbid"
-----------------------------------------------------------------------------
(* Deciding.                                                               *)

\* CedarEngine::evaluate_link gives an answer for this link at model m.
Evaluates(m, p, resource) ==
    Sliceable(m, p, resource) /\ GrantsCompile(Slice(m, p, resource))

LinkAllows(m, p, action, resource) ==
    LET sl == Slice(m, p, resource)
    IN  Authorized(Snapshot \cup GrantPolicies(sl), sl, action, resource)

\* scope_path_of: climbs the units of the slice from the anchor.
ScopePath(sl) == Path([units |-> sl.units], sl.anchor)

\* ScopePath::try_new, which scope_path_of takes never to fail.
IsScopePath(units) ==
    /\ units # << >>
    /\ \A i \in DOMAIN units : units[i].kind = "orgunit" /\ units[i].org = units[1].org

\* Mutant: every grant on the resource counts.
EntitlementsOfAnyone(sl) == UNION {g.actions : g \in sl.grants}

\* entitlements_of.
Entitlements(sl) ==
    LET grantees == {sl.principal} \cup DOMAIN sl.sets \cup DOMAIN sl.units
    IN  UNION {g.actions : g \in {h \in sl.grants : h.to \in grantees}}

\* granted_ids_of: the grants that name the principal itself.
GrantedIds(sl) == {g.resource.id : g \in {h \in sl.grants : h.to = sl.principal}}

Record(decision, n, sl) ==
    [tag |-> "record", decision |-> decision, revision |-> n, scope |-> ScopePath(sl),
     entitlements |-> Entitlements(sl), granted |-> GrantedIds(sl)]

Failure == [tag |-> "error"]

Ask(c, q) ==
    /\ phase[c] = "idle"
    /\ query' = [query EXCEPT ![c] = q]
    /\ asked' = [asked EXCEPT ![c] = Latest]
    /\ phase' = [phase EXCEPT ![c] = "pinning"]
    /\ UNCHANGED <<spine, history, revision, nextLink, kept, answer>>

\* The revision the query names, or the store's latest.
Pin(c) ==
    /\ phase[c] = "pinning"
    /\ revision' = [revision EXCEPT ![c] =
                      IF query[c].revision # None THEN query[c].revision ELSE Latest]
    /\ nextLink' = [nextLink EXCEPT ![c] = 1]
    /\ phase' = [phase EXCEPT ![c] = "evaluating"]
    /\ UNCHANGED <<spine, history, query, kept, asked, answer>>

Finish(c, a) ==
    /\ phase' = [phase EXCEPT ![c] = "done"]
    /\ answer' = [answer EXCEPT ![c] = a]

\* Mutant: a slice is read at the latest revision.
ModelNow(n) == history[Latest]

\* The model a slice is read from.
ModelAt(n) == history[n]

\* One link: an error ends the decision, a deny ends it early.
EvaluateLink(c) ==
    LET q == query[c]
        p == q.links[nextLink[c]]
        m == ModelAt(revision[c])
    IN  /\ phase[c] = "evaluating"
        /\ IF KnownRevision(revision[c]) /\ Evaluates(m, p, q.resource)
           THEN LET allows == LinkAllows(m, p, q.action, q.resource)
                    first  == IF nextLink[c] = 1 THEN Slice(m, p, q.resource) ELSE kept[c]
                IN  /\ kept' = [kept EXCEPT ![c] = first]
                    /\ nextLink' = [nextLink EXCEPT ![c] = @ + 1]
                    /\ IF allows /\ nextLink[c] < Len(q.links)
                       THEN UNCHANGED <<phase, answer>>
                       ELSE Finish(c, Record(allows, revision[c], first))
           ELSE Finish(c, Failure) /\ UNCHANGED <<kept, nextLink>>
        /\ UNCHANGED <<spine, history, query, revision, asked>>
-----------------------------------------------------------------------------
EngineInit ==
    /\ SpineInit
    /\ \E m \in Seeds : history = <<m>>
    /\ query = [c \in Clients |-> None]
    /\ phase = [c \in Clients |-> "idle"]
    /\ revision = [c \in Clients |-> 0]
    /\ nextLink = [c \in Clients |-> 0]
    /\ kept = [c \in Clients |-> None]
    /\ asked = [c \in Clients |-> 0]
    /\ answer = [c \in Clients |-> None]

EngineNext ==
    \/ \E w \in Writes : Apply(w)
    \/ \E c \in Clients :
          \/ \E q \in Queries : Ask(c, q)
          \/ Pin(c)
          \/ EvaluateLink(c)

EngineSpec == EngineInit /\ [][EngineNext]_engineVars
-----------------------------------------------------------------------------
(* Properties.                                                             *)

\* The revision a query pins, if it names none, is one the store had while the
\* query ran: what was written before it was asked is in it.
Pinned(c) ==
    IF query[c].revision # None THEN {query[c].revision} ELSE asked[c] .. Latest

\* "Every decision names the snapshot version and store revision that decided
\* it, so any historical decision can be replayed exactly" (record.rs): a record
\* allows exactly if every link of the chain is allowed by the model of the
\* revision it names, whatever was written while the links were evaluated.
RecordsReplay ==
    \A c \in Clients : phase[c] = "done" /\ answer[c] # Failure =>
       LET n == answer[c].revision
           q == query[c]
       IN  /\ n \in Pinned(c) /\ KnownRevision(n)
           /\ answer[c].decision <=>
                 \A i \in DOMAIN q.links :
                    Evaluates(history[n], q.links[i], q.resource)
                    /\ LinkAllows(history[n], q.links[i], q.action, q.resource)

\* An error is not the outcome of a race either: if the revision was there when
\* the query was asked, some link cannot be evaluated at it, and every link
\* before that one is allowed.
ErrorsReplay ==
    \A c \in Clients : phase[c] = "done" /\ answer[c] = Failure =>
       LET n == revision[c]
           q == query[c]
       IN  q.revision = None \/ q.revision \in 1 .. asked[c] =>
             \E i \in DOMAIN q.links :
                /\ ~Evaluates(history[n], q.links[i], q.resource)
                /\ \A j \in 1 .. i - 1 : LinkAllows(history[n], q.links[j], q.action, q.resource)

\* Both: whatever CedarEngine::decide answers, a record or an error, is what the
\* revision it pinned gives, whatever was written between its awaits.
AnswersReplay == RecordsReplay /\ ErrorsReplay
=============================================================================
