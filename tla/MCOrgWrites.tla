----------------------------- MODULE MCOrgWrites -----------------------------
(***************************************************************************)
(* TLC instances of OrgWrites.                                             *)
(***************************************************************************)
EXTENDS OrgWrites, TLC

CONSTANTS r1, r2, r3, r4

FourRequests == {r1, r2, r3, r4}

Creates == {[call |-> "create", name |-> "n1", config |-> None]}
Renames == {[call |-> "update", name |-> "n2", config |-> None, conditional |-> FALSE]}
Updates ==
    {[call |-> "update", name |-> n, config |-> c, conditional |-> b] :
        n \in {"n2", None}, c \in {"c1", None}, b \in BOOLEAN}
Lifecycle == {[call |-> v] : v \in Verbs}
Generates == {[call |-> "generate"]}
OfKey(c) == {[call |-> c, key |-> k] : k \in Requests}

AllCalls ==
    Creates \cup Updates \cup Lifecycle \cup Generates \cup OfKey("revoke") \cup OfKey("rotate")

\* One revocation, of the key that r2 mints, beside other key calls.
KeyRaces == Creates \cup Generates \cup {[call |-> "revoke", key |-> r2]}
StatusRaces == Creates \cup {[call |-> "activate"]} \cup Renames
KeyContention == Creates \cup Generates

Mode(calls, total, load, lag, faulty) ==
    [calls |-> calls, total |-> total, load |-> load, lag |-> lag, faulty |-> faulty]

Main ==
    [lagging |-> Mode(AllCalls, 3, 3, TRUE, TRUE),
     fresh   |-> Mode(AllCalls, 3, 3, FALSE, TRUE),
     serial  |-> Mode(AllCalls, 4, 1, FALSE, FALSE),
     keys    |-> Mode(KeyContention, 4, 4, FALSE, FALSE)]
Revocation == [keys |-> Mode(KeyRaces, 4, 4, FALSE, FALSE)]
Activation == [status |-> Mode(StatusRaces, 3, 3, FALSE, FALSE)]

Interchangeable == Permutations(Requests)
=============================================================================
