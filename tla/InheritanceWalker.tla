-------------------------- MODULE InheritanceWalker --------------------------
(***************************************************************************)
(* resolve_inherits (authz-core, rbac/mod.rs): the depth-first collection  *)
(* of the actions a role grants, its own and the inherited ones.  The      *)
(* recursion of InheritanceWalker::collect is the variable stack; an       *)
(* iteration of either of its loops is a step.                             *)
(***************************************************************************)
EXTENDS Naturals, Sequences, Inherits

CONSTANTS
    Actions,   \* the actions a role may allow
    Inputs     \* the arguments: [entries |-> <<entry, ...>>, target |-> name]

Entry == [name : Names, inherits : Seq(Names), allow : Seq(Actions)]

ASSUME InputsAssumption ==
    \A i \in Inputs :
        /\ i.entries \in Seq(Entry)
        /\ i.target \in Names

VARIABLES
    input,      \* the arguments of the call
    next,       \* the next entry to be indexed
    table,      \* rbac_map and inherits_map: the entry of every declared role
    stack,      \* the active calls: role, next own action, next parent
    visiting,
    visited,
    collected,
    result

vars == <<input, next, table, stack, visiting, visited, collected, result>>
-----------------------------------------------------------------------------
Declared == DOMAIN table
Allow(role) == table[role].allow
Parents(role) == table[role].inherits

Elements(s) == {s[i] : i \in DOMAIN s}

Init ==
    /\ input \in Inputs
    /\ next = 1
    /\ table = << >>
    /\ stack = << >>
    /\ visiting = {}
    /\ visited = {}
    /\ collected = << >>
    /\ result = "pending"

Top == stack[Len(stack)]
Running == result = "pending" /\ stack # << >>

\* The frames once the caller has moved on to its next parent.
Caller == IF stack = << >> THEN stack
          ELSE [stack EXCEPT ![Len(stack)].parent = @ + 1]

\* Mutant: a role still being visited counts as done.
CollectSkipsActive(role) ==
    IF role \in visiting \cup visited THEN
        stack' = Caller /\ UNCHANGED <<visiting, visited, collected, result>>
    ELSE IF role \notin Declared THEN
        result' = "unknown" /\ UNCHANGED <<stack, visiting, visited, collected>>
    ELSE /\ stack' = Append(Caller, [role |-> role, action |-> 1, parent |-> 1])
         /\ visiting' = visiting \cup {role}
         /\ UNCHANGED <<visited, collected, result>>
\* The call collect(role).  An error unwinds every caller.
Collect(role) ==
    IF role \in visiting THEN
        result' = "cycle" /\ UNCHANGED <<stack, visiting, visited, collected>>
    ELSE IF role \in visited THEN
        stack' = Caller /\ UNCHANGED <<visiting, visited, collected, result>>
    ELSE IF role \notin Declared THEN
        result' = "unknown" /\ UNCHANGED <<stack, visiting, visited, collected>>
    ELSE /\ stack' = Append(Caller, [role |-> role, action |-> 1, parent |-> 1])
         /\ visiting' = visiting \cup {role}
         /\ UNCHANGED <<visited, collected, result>>

\* HashMap::insert
Inserted(e) ==
    [n \in Declared \cup {e.name} |-> IF n = e.name THEN e ELSE table[n]]

\* The single pass over the entries that builds the maps.
Index ==
    /\ next <= Len(input.entries)
    /\ table' = Inserted(input.entries[next])
    /\ next' = next + 1
    /\ UNCHANGED <<input, stack, visiting, visited, collected, result>>

\* resolve_inherits checks the target, then walks from it.
Start ==
    /\ next > Len(input.entries)
    /\ result = "pending"
    /\ stack = << >>
    /\ Collect(input.target)
    /\ UNCHANGED <<input, next, table>>

\* An action goes in once.
Added(a) == IF a \in Elements(collected) THEN collected ELSE Append(collected, a)

AddAction ==
    /\ Running
    /\ Top.action <= Len(Allow(Top.role))
    /\ collected' = Added(Allow(Top.role)[Top.action])
    /\ stack' = [stack EXCEPT ![Len(stack)].action = @ + 1]
    /\ UNCHANGED <<input, next, table, visiting, visited, result>>

VisitParent ==
    /\ Running
    /\ Top.action > Len(Allow(Top.role))
    /\ Top.parent <= Len(Parents(Top.role))
    /\ Collect(Parents(Top.role)[Top.parent])
    /\ UNCHANGED <<input, next, table>>

\* The call returns Ok; the last one ends the walk.
Leave ==
    /\ Running
    /\ Top.action > Len(Allow(Top.role))
    /\ Top.parent > Len(Parents(Top.role))
    /\ visiting' = visiting \ {Top.role}
    /\ visited' = visited \cup {Top.role}
    /\ stack' = SubSeq(stack, 1, Len(stack) - 1)
    /\ result' = IF Len(stack) = 1 THEN "ok" ELSE "pending"
    /\ UNCHANGED <<input, next, table, collected>>

Next == Index \/ Start \/ AddAction \/ VisitParent \/ Leave

Spec == Init /\ [][Next]_vars

\* A function that was called runs on.
FairSpec == Spec /\ WF_vars(Next)
-----------------------------------------------------------------------------
Frames == [role : Declared, action : Nat \ {0}, parent : Nat \ {0}]

TypeOK ==
    /\ next \in 1 .. Len(input.entries) + 1
    /\ \A n \in Declared : n \in Names /\ table[n] \in Entry
    /\ stack \in Seq(Frames)
    /\ \A i \in DOMAIN stack :
          /\ stack[i].action <= Len(Allow(stack[i].role)) + 1
          /\ stack[i].parent <= Len(Parents(stack[i].role)) + 1
    /\ visiting \subseteq Declared
    /\ visited \subseteq Declared
    /\ collected \in Seq(Actions)
    /\ result \in {"pending", "ok", "cycle", "unknown"}

\* A later entry replaces an earlier one of the same name.
LastEntryWins ==
    /\ Declared = {input.entries[i].name : i \in 1 .. next - 1}
    /\ \A i \in 1 .. next - 1 :
          (\A j \in i + 1 .. next - 1 : input.entries[j].name # input.entries[i].name)
             => table[input.entries[i].name] = input.entries[i]

ParentSets == [n \in Declared |-> Elements(Parents(n))]
Reached == Reach(ParentSets, input.target)

\* resolve_inherits decides exactly whether the target's inheritance
\* resolves, and then collects what every inherited role grants and nothing
\* else; diamonds, repeated parents and repeated entries included.
ResultIsRight ==
    /\ result = "ok" =>
          /\ Resolves(ParentSets, input.target)
          /\ Elements(collected) = UNION {Elements(Allow(n)) : n \in Reached}
    /\ result = "cycle" => \E S \in SUBSET Reached : Cyclic(ParentSets, S)
    /\ result = "unknown" => ~(Reached \subseteq Declared)

\* "Each action appears at most once" (the doc of resolve_inherits).
CollectedOnce == \A i, j \in DOMAIN collected : collected[i] = collected[j] => i = j
=============================================================================
