------------------------------- MODULE Spine --------------------------------
(***************************************************************************)
(* The organizational spine (core/src/spine.rs): the tree of org units of  *)
(* one organization, and the two operations that change it, Spine::add and *)
(* Spine::reparent.                                                        *)
(*                                                                         *)
(* An FGRN is a record with an organization, a kind and an id.  A spine is *)
(* a record: units maps every org unit to its parent edge, or to None.     *)
(* Every error of the code is Error::Spine and leaves the spine alone, so  *)
(* a fallible operation is a condition and a result.                       *)
(***************************************************************************)
EXTENDS Naturals, Sequences, FiniteSets

CONSTANTS
    Fgrns,   \* the names a caller may mention, of every kind
    Loads,   \* the lists of <<unit, parent>> a spine is loaded from
    None

ASSUME FgrnsAssumption ==
    /\ \A f \in Fgrns : DOMAIN f = {"org", "kind", "id"}
    /\ None \notin Fgrns
    /\ \A l \in Loads : l \in Seq(Fgrns \X (Fgrns \cup {None}))

VARIABLE spine

\* OrgUnit::try_new.
IsOrgUnit(f, parent) ==
    /\ f.kind = "orgunit"
    /\ parent # None =>
          /\ parent.kind = "orgunit"
          /\ parent # f
          /\ parent.org = f.org
-----------------------------------------------------------------------------
(* Reading a spine.                                                        *)

InSpine(sp, f) == f \in DOMAIN sp.units

\* A set of units that holds the parent of each of its units that has one.
UpwardClosed(units, C) == \A u \in C : units[u] # None => units[u] \in C

\* The units that the climb from n along parent edges meets, n included.
Ancestry(units, n) ==
    {a \in DOMAIN units :
        \A C \in SUBSET DOMAIN units : n \in C /\ UpwardClosed(units, C) => a \in C}

\* Spine::is_at_or_below, for two units of the spine.
IsAtOrBelow(sp, node, ancestor) == ancestor \in Ancestry(sp.units, node)

\* What k steps of `while let Some(Some(parent)) = units.get(current)` reach.
Climb(units, n, k) ==
    LET up[i \in 0 .. k] ==
            IF i = 0 THEN n
            ELSE IF up[i - 1] = None THEN None ELSE units[up[i - 1]]
    IN  up

Steps(units, n) ==
    CHOOSE k \in 0 .. Cardinality(DOMAIN units) : Climb(units, n, k + 1)[k + 1] = None

\* Spine::path: root first, ending at n.
Path(sp, n) ==
    LET d == Steps(sp.units, n)
    IN  [i \in 1 .. d + 1 |-> Climb(sp.units, n, d)[d + 1 - i]]
-----------------------------------------------------------------------------
(* Building a spine.                                                       *)

Listed(list) == {list[i][1] : i \in DOMAIN list}
Roots(list) == {i \in DOMAIN list : list[i][2] = None}
Edges(list) == [f \in Listed(list) |-> list[CHOOSE i \in DOMAIN list : list[i][1] = f][2]]

\* No climb takes more steps than there are units, which are as many as the
\* list has elements once none of them is a duplicate.
WalksEnd(list) ==
    \A n \in Listed(list) : Climb(Edges(list), n, Len(list) + 1)[Len(list) + 1] = None

\* Spine::try_new accepts the list.
Loadable(list) ==
    /\ list # << >>
    /\ \A i \in DOMAIN list : IsOrgUnit(list[i][1], list[i][2])
    /\ \A i, j \in DOMAIN list : list[i][1] = list[j][1] => i = j
    /\ \A i \in DOMAIN list : list[i][1].org = list[1][1].org
    /\ \E r \in DOMAIN list : Roots(list) = {r}
    /\ \A i \in DOMAIN list : list[i][2] # None => list[i][2] \in Listed(list)
    /\ WalksEnd(list)

Loaded(list) ==
    [units |-> Edges(list),
     root  |-> list[CHOOSE i \in Roots(list) : TRUE][1],
     org   |-> list[1][1].org]
-----------------------------------------------------------------------------
(* Changing a spine.                                                       *)

\* Spine::add.
CanAdd(sp, f, parent) ==
    /\ IsOrgUnit(f, parent)
    /\ parent # None
    /\ InSpine(sp, parent)
    /\ ~InSpine(sp, f)
    /\ f.org = sp.org

WithUnit(sp, f, parent) ==
    [sp EXCEPT !.units = [u \in DOMAIN sp.units \cup {f} |->
                            IF u = f THEN parent ELSE sp.units[u]]]

\* Mutant: the cycle check is missing.
CanReparentAnywhere(sp, node, parent) ==
    InSpine(sp, node) /\ node # sp.root /\ InSpine(sp, parent)

\* Spine::reparent.
CanReparent(sp, node, parent) ==
    /\ InSpine(sp, node)
    /\ node # sp.root
    /\ InSpine(sp, parent)
    /\ ~IsAtOrBelow(sp, parent, node)

Reparented(sp, node, parent) == [sp EXCEPT !.units = [sp.units EXCEPT ![node] = parent]]
-----------------------------------------------------------------------------
Add(f, parent) ==
    spine' = IF CanAdd(spine, f, parent) THEN WithUnit(spine, f, parent) ELSE spine

Reparent(node, parent) ==
    spine' = IF CanReparent(spine, node, parent) THEN Reparented(spine, node, parent) ELSE spine

SpineInit == \E list \in {l \in Loads : Loadable(l)} : spine = Loaded(list)

SpineNext ==
    \/ \E f \in Fgrns, parent \in Fgrns \cup {None} : Add(f, parent)
    \/ \E node, parent \in Fgrns : Reparent(node, parent)

SpineSpec == SpineInit /\ [][SpineNext]_spine
-----------------------------------------------------------------------------
(* Properties.                                                             *)

\* No set of units only has parents in itself.
Grounded(units) ==
    \A S \in SUBSET DOMAIN units : S # {} => \E u \in S : units[u] \notin S

\* "Holding a `Spine` proves single root, existing parents, acyclicity, and
\* one organization" (spine.rs): whatever is added and moved, in any order.
SpineIsTree ==
    /\ InSpine(spine, spine.root)
    /\ \A u \in DOMAIN spine.units :
          /\ u.kind = "orgunit"
          /\ u.org = spine.org
          /\ spine.units[u] = None <=> u = spine.root
          /\ u # spine.root => InSpine(spine, spine.units[u])
    /\ Grounded(spine.units)

\* Add and reparent change at most one parent edge, and every unit that is not
\* below that edge keeps its position in the organization.
MovesOneSubtree ==
    [][\E moved \in Fgrns : \A u \in DOMAIN spine.units :
          /\ InSpine(spine', u)
          /\ u # moved => spine'.units[u] = spine.units[u]
          /\ ~IsAtOrBelow(spine, u, moved) =>
                Ancestry(spine'.units, u) = Ancestry(spine.units, u)]_spine
=============================================================================
