------------------------------ MODULE Inherits -------------------------------
(***************************************************************************)
(* What resolving the inheritance of RBAC roles means (authz-core,         *)
(* rbac/mod.rs).  Module InheritanceWalker translates the traversal that   *)
(* computes it and is checked against these definitions; module Groups,    *)
(* whose handlers only ask whether a role resolves, uses them directly.    *)
(*                                                                         *)
(* parents is a function from the declared roles to sets of role names; a  *)
(* name it mentions need not be declared.                                  *)
(***************************************************************************)
CONSTANT Names

Closed(parents, S) == \A n \in S \cap DOMAIN parents : parents[n] \subseteq S

\* The role and everything it inherits from, directly or not.
Reach(parents, n) ==
    {m \in Names : \A S \in SUBSET Names : (n \in S /\ Closed(parents, S)) => m \in S}

\* Every role of S inherits from a role of S: a finite S holds a cycle.
Cyclic(parents, S) ==
    /\ S # {}
    /\ \A n \in S : n \in DOMAIN parents /\ parents[n] \cap S # {}

Resolves(parents, n) ==
    /\ Reach(parents, n) \subseteq DOMAIN parents
    /\ ~\E S \in SUBSET Reach(parents, n) : Cyclic(parents, S)

\* Every declared role resolves.
AllResolve(parents) == \A n \in DOMAIN parents : Resolves(parents, n)
=============================================================================
