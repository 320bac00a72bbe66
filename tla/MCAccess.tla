------------------------------ MODULE MCAccess -------------------------------
(***************************************************************************)
(* TLC instances of Spine, Access, EmbeddedEngine and InheritanceWalker:   *)
(* each behaviour explores one of them, the others stand still.            *)
(***************************************************************************)
EXTENDS Access, InheritanceWalker, FiniteSetsExt, SequencesExt

CONSTANTS c1, Modes

VARIABLE mode

F(org, kind, id) == [org |-> org, kind |-> kind, id |-> id]

root == F("acme", "orgunit", "root")
eng == F("acme", "orgunit", "eng")
ops == F("acme", "orgunit", "ops")
lab == F("acme", "orgunit", "lab")
alien == F("other", "orgunit", "eng")
maria == F("acme", "principal", "maria")
bot == F("acme", "principal", "bot")
ghost == F("acme", "principal", "ghost")
devs == F("acme", "principal-set", "devs")
staff == F("acme", "principal-set", "staff")
all == F("acme", "principal-set", "all")
doc == F("acme", "resource", "doc")

MCFgrns == {root, eng, ops, lab, alien, maria, bot, ghost, devs, staff, all, doc}
MCTeams == {devs, staff, all}
MCJoiners == MCTeams \cup {maria, doc}

\* A list with a stranger, one with two roots, one with a cycle, and two spines.
MCLoads ==
    {<<<<root, None>>, <<alien, None>>>>,
     <<<<root, None>>, <<eng, None>>>>,
     <<<<root, None>>, <<eng, ops>>, <<ops, eng>>>>,
     <<<<eng, root>>, <<root, None>>>>,
     <<<<root, None>>, <<eng, root>>, <<ops, eng>>>>}

Grant(to, verbs) == [resource |-> doc, actions |-> verbs, to |-> to]

MCWrites ==
    {[put |-> "unit", fgrn |-> lab, parent |-> eng],
     [put |-> "principal", fgrn |-> maria, kind |-> "human", anchor |-> lab],
     [put |-> "set", fgrn |-> devs, members |-> {maria, bot}],
     [put |-> "set", fgrn |-> staff, members |-> {devs}],
     [put |-> "revoke", resource |-> doc, to |-> bot]}
    \cup {[put |-> "grant", grant |-> Grant(t, {"read"})] : t \in {maria, devs, all}}
    \cup {[put |-> "promotion", fgrn |-> doc, anchor |-> a] : a \in {eng, maria}}

\* Maria is a developer, the developers are staff, the staff may read.
NestedWrites ==
    {[put |-> "set", fgrn |-> devs, members |-> {maria}],
     [put |-> "set", fgrn |-> staff, members |-> {devs}],
     [put |-> "grant", grant |-> Grant(staff, {"read"})]}

\* One query for the service account, chains with it as actor, pinned and not.
Chained(links, r) == [links |-> links, action |-> "read", resource |-> doc, revision |-> r]
MCQueries ==
    {Chained(<<bot, maria>>, None), Chained(<<maria, bot, maria>>, None),
     Chained(<<maria>>, None), Chained(<<bot>>, 3), Chained(<<ghost>>, None)}

\* Engineering may read what is anchored in it; no one may read what is Maria's.
MCSnapshot ==
    {[effect |-> "permit", principal |-> [op |-> "in", uid |-> <<"OrgUnit", eng>>],
      actions |-> {"read"}, resource |-> [op |-> "in", uid |-> <<"OrgUnit", eng>>]],
     [effect |-> "forbid", principal |-> [op |-> "any"],
      actions |-> {"read"}, resource |-> [op |-> "in", uid |-> <<"User", maria>>]]}
NoStatements == {}
MCUnquotable == {all}

\* The store begins with two anchored principals and a grant.
Bare == EmptyModel(Loaded(<<<<root, None>>, <<eng, root>>>>))
Staffed ==
    WithGrant(WithPrincipal(WithPrincipal(Bare, maria, "human", eng), bot, "agent", eng),
              Grant(bot, {"read"}))
MCSeeds == {Staffed}

\* Three roles that inherit from any two names (in either order, or the same
\* name twice), one name that is not declared, and a second entry for a name.
RoleNames == {"a", "b", "c", "d"}
Grants == {"x", "y", "z"}

Lists == BoundedSeq(RoleNames, 2)
AllowOf(n) == CASE n = "a" -> <<"x", "y", "x">> [] n = "b" -> <<"y">> [] OTHER -> <<"z", "x">>
EntryOf(n, inherits) == [name |-> n, inherits |-> inherits, allow |-> AllowOf(n)]

Arguments ==
    {[entries |-> <<>>, target |-> "a"]} \cup
    {[entries |-> <<EntryOf("a", i), EntryOf("b", j), EntryOf("c", k)>>, target |-> t] :
        i \in Lists, j \in Lists, k \in BoundedSeq({"a", "d"}, 1), t \in {"a", "b"}}
    \cup
    {[entries |-> <<EntryOf("b", i), EntryOf("a", j), EntryOf("b", k)>>, target |-> t] :
        i \in BoundedSeq({"a"}, 1), j \in BoundedSeq({"b"}, 1), k \in BoundedSeq({"a"}, 1),
        t \in RoleNames}

AccessInit ==
    /\ mode \in Modes
    /\ EngineInit
    /\ TeamsInit
    /\ mode # "spine" => spine = Bare.spine
    /\ Init
    /\ mode # "walk" => input = [entries |-> <<>>, target |-> "a"]

AccessNext ==
    /\ UNCHANGED mode
    /\ \/ mode = "spine" /\ SpineNext /\ UNCHANGED <<history, locals, teams, vars>>
       \/ mode = "teams" /\ TeamsNext /\ UNCHANGED <<engineVars, vars>>
       \/ mode = "store" /\ EngineNext /\ UNCHANGED <<teams, vars>>
       \/ mode = "walk" /\ Next /\ UNCHANGED <<engineVars, teams>>

AccessSpec == AccessInit /\ [][AccessNext]_<<mode, engineVars, teams, vars>>
=============================================================================
