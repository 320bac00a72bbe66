------------------------------- MODULE Access --------------------------------
(***************************************************************************)
(* The pure access questions of core/src, beside the engine that decides:  *)
(* principal sets and who is in them (principal_set.rs), the rights of a   *)
(* delegation chain (delegation.rs), positions by path (selector.rs) and   *)
(* what a subtree scope sees (visibility.rs).                              *)
(***************************************************************************)
EXTENDS EmbeddedEngine, SequencesExt

CONSTANTS
    Teams,    \* the FGRNs of the principal sets
    Joiners   \* the names that are added to them

VARIABLE teams   \* the members of every set

AddMember(f, member) ==
    teams' = IF MayJoin(f, member) THEN [teams EXCEPT ![f] = @ \cup {member}] ELSE teams

RemoveMember(f, member) == teams' = [teams EXCEPT ![f] = @ \ {member}]

TeamsInit == teams = [f \in Teams |-> {}]
TeamsNext == \E f \in Teams, m \in Joiners : AddMember(f, m) \/ RemoveMember(f, m)
-----------------------------------------------------------------------------
(* Membership.                                                             *)

\* principal_set::visit: FALSE when the path meets a set that is on it.
RECURSIVE VisitOK(_, _, _)
VisitOK(sets, f, path) ==
    IF Contains(path, f) THEN FALSE
    ELSE \A m \in sets[f] :
            m.kind = "principal-set" /\ m \in DOMAIN sets => VisitOK(sets, m, Append(path, f))

\* principal_set::assert_acyclic.
AssertAcyclic(sets) == \A f \in DOMAIN sets : VisitOK(sets, f, << >>)

\* delegation::set_contains::walk: the sets it has visited, and whether it has
\* found the principal; one list of visited sets serves the whole walk.
RECURSIVE Walk(_, _, _, _)
Walk(sets, f, p, visited) ==
    IF f \notin DOMAIN sets \/ f \in visited THEN [found |-> FALSE, visited |-> visited]
    ELSE IF p \in sets[f] THEN [found |-> TRUE, visited |-> visited \cup {f}]
    ELSE LET OrWalk(acc, m) == IF acc.found THEN acc ELSE Walk(sets, m, p, acc.visited)
             inner == SetToSeq({m \in sets[f] : m.kind = "principal-set"})
         IN  FoldLeft(OrWalk, [found |-> FALSE, visited |-> visited \cup {f}], inner)

\* Mutant: only direct members count.
SetLists(sets, f, p) == f \in DOMAIN sets /\ p \in sets[f]

SetContains(sets, f, p) == Walk(sets, f, p, {}).found

\* delegation::verbs_held.
VerbsHeld(grants, sets, resource, link) ==
    LET Reaches(g) == g.to = link \/ SetContains(sets, g.to, link)
    IN  UNION {g.actions : g \in {h \in grants : h.resource = resource /\ Reaches(h)}}

\* DelegationChain::try_new.
IsChain(links) ==
    /\ Len(links) >= 2
    /\ \A i \in DOMAIN links : links[i].kind = "principal" /\ links[i].org = links[1].org

\* delegation::effective_verbs: stops at the first empty intersection.
EffectiveVerbs(grants, sets, resource, links) ==
    LET Held(acc, link) == IF acc = {} THEN acc ELSE acc \cap VerbsHeld(grants, sets, resource, link)
    IN  FoldLeft(Held, VerbsHeld(grants, sets, resource, links[1]), Tail(links))
-----------------------------------------------------------------------------
(* Positions.                                                              *)

\* Selector::resolve: the path of ids from the root, then the node alone or its
\* subtree; nothing is an error, as it is for a selector of another organization.
Child(sp, current, id) ==
    LET found == {u \in DOMAIN sp.units : u.id = id /\ sp.units[u] = current}
    IN  IF found = {} THEN None ELSE CHOOSE u \in found : TRUE

Resolve(sp, org, ids, scope) ==
    LET Down(current, id) == IF current = None THEN None ELSE Child(sp, current, id)
        node == FoldLeft(Down, sp.root, ids)
    IN  IF org # sp.org \/ node = None THEN {}
        ELSE IF scope = "node" THEN {node}
        ELSE {u \in DOMAIN sp.units : IsAtOrBelow(sp, u, node)}

\* visibility::subtree_visible, for a resource anchored at a unit (owner None),
\* or to an owner who is anchored at one.
SubtreeVisible(sp, requester, scope, anchor) ==
    IF \/ requester.kind # "principal"
       \/ anchor.owner # None /\ anchor.owner.kind # "principal"
       \/ \E f \in {scope, anchor.at} : f.kind # "orgunit" \/ f \notin DOMAIN sp.units
    THEN "error"
    ELSE IF /\ IsAtOrBelow(sp, anchor.at, scope)
            /\ \/ anchor.owner = None
               \/ anchor.owner = requester
               \/ anchor.boundary = "transparent"
    THEN "visible" ELSE "hidden"
-----------------------------------------------------------------------------
(* Properties.                                                             *)

\* The three walks over principal sets agree with what membership means, for any
\* sets the members of which come and go: the path walk of assert_acyclic finds
\* exactly the cycles, however shared the sets below are; the walk of
\* set_contains, which shares its visited list between siblings, finds exactly
\* the transitive members; and so does the fixpoint of the store's slice.
MembershipAgrees ==
    /\ AssertAcyclic(teams) <=>
          \A S \in SUBSET Teams : S # {} => \E s \in S : teams[s] \cap S = {}
    /\ \A p \in {f \in Fgrns : f.kind = "principal"}, s \in Teams :
          SetContains(teams, s, p) <=> s \in TransitiveSets([sets |-> teams], p)

\* Two answers to "what is under this unit" agree wherever units are moved: the
\* subtree selector written with the ids along a unit's path, and the visibility
\* of a resource anchored at a unit.  An opaque owner hides a resource from
\* everyone else, and moves with the unit the owner is anchored at
\* (Selector::resolve, subtree_visible).
PositionsAgree ==
    \A scope, at \in DOMAIN spine.units :
       LET ids == Tail([i \in DOMAIN Path(spine, scope) |-> Path(spine, scope)[i].id])
           under == Resolve(spine, spine.org, ids, "subtree")
           Sees(r, o, b) ==
               SubtreeVisible(spine, r, scope, [at |-> at, owner |-> o, boundary |-> b]) = "visible"
           people == {f \in Fgrns : f.kind = "principal"}
       IN  /\ Resolve(spine, spine.org, ids, "node") = {scope}
           /\ at \in under <=> \A r \in people : Sees(r, None, "opaque")
           /\ at \in under <=> Contains(Path(spine, at), scope)
           /\ \A r, o \in people : Sees(r, o, "opaque") <=> r = o /\ Sees(r, None, "opaque")

\* Both: what is computed in two ways, in core and in the store, has one answer.
WalksAgree == MembershipAgrees /\ PositionsAgree

\* The reasons for which the snapshot alone allows a link.
SnapshotAllows(m, p, action, resource) ==
    Authorized(Snapshot, Slice(m, p, resource), action, resource)

\* A recorded allow is founded: each link of the chain holds the verb by the
\* rules of core's effective_verbs, or the snapshot permits it; a record's
\* entitlements are the verbs core says the principal holds, its scope is the
\* path of the spine at that revision, and its exception list names only the
\* queried resource.
RecordsAreFounded ==
    \A c \in Clients : phase[c] = "done" /\ answer[c] # Failure =>
       LET a == answer[c]
           q == query[c]
           m == history[a.revision]
       IN  /\ a.decision => \A i \in DOMAIN q.links :
                 \/ q.action \in VerbsHeld(m.grants, m.sets, q.resource, q.links[i])
                 \/ SnapshotAllows(m, q.links[i], q.action, q.resource)
           /\ a.entitlements = VerbsHeld(m.grants, m.sets, q.resource, q.links[1])
           /\ IsScopePath(a.scope) /\ a.scope = Path(m.spine, m.principals[q.links[1]].anchor)
           /\ a.granted # {} => a.granted = {q.resource.id}
=============================================================================
