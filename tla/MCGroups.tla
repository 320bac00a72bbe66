------------------------------ MODULE MCGroups -------------------------------
(***************************************************************************)
(* TLC instances of Groups.                                                *)
(***************************************************************************)
EXTENDS Groups, TLC

CONSTANTS r1, r2, r3, r4, g1, g2

FourRequests == {r1, r2, r3, r4}
TwoNames == {g1, g2}

EntriesOver(ps) == [inherits : ps, body : {"a"}, valid : {TRUE}]
Puts(call, n, es, conditional) ==
    [call : {call}, name : {n}, entry : es, conditional : {conditional}]
Deletes(ns, conditional) == [call : {"delete"}, name : ns, conditional : {conditional}]

Plain == [inherits |-> {}, body |-> "a", valid |-> TRUE]
Child == [inherits |-> {g1}, body |-> "a", valid |-> TRUE]
Broken == [inherits |-> {}, body |-> "a", valid |-> FALSE]
Changed == [inherits |-> {}, body |-> "b", valid |-> TRUE]

\* g1 is created, changed, deleted; g2 inherits from it.
Mixed ==
    Puts("create", g1, {Plain, Broken}, FALSE)
    \cup Puts("update", g1, {Changed}, TRUE)
    \cup Puts("create", g2, {Child}, FALSE)
    \cup Deletes({g1}, FALSE)

\* Two groups that come to inherit from one another, in every order of calls,
\* and a group that is deleted while another comes to inherit from it, each with
\* X-Fg-If-Revision.
Mutual ==
    UNION {Puts("create", n, EntriesOver({{}}), TRUE)
           \cup Puts("update", n, EntriesOver({TwoNames \ {n}}), TRUE) : n \in TwoNames}
Dangling ==
    Puts("create", g1, {Plain}, TRUE) \cup Puts("create", g2, {Child}, TRUE)
    \cup Puts("update", g2, {Plain, Child}, TRUE) \cup Deletes(TwoNames, TRUE)

\* Every shape of inheritance over two names, without the header.
AllUnconditional ==
    UNION {Puts(c, n, EntriesOver(SUBSET TwoNames), FALSE) :
              c \in {"create", "update"}, n \in TwoNames}
    \cup Deletes(TwoNames, FALSE)

AllCalls == Mixed \cup Mutual \cup Dangling \cup AllUnconditional

Mode(calls, total, overlap, joinable, rough) ==
    [calls |-> calls, total |-> total, overlap |-> overlap, joinable |-> joinable,
     lag |-> rough, faulty |-> rough]

Main ==
    [rough    |-> Mode(Mixed, 3, TRUE, {g1}, TRUE),
     mutual   |-> Mode(Mutual, 4, TRUE, {}, FALSE),
     dangling |-> Mode(Dangling, 3, TRUE, {}, FALSE),
     serial   |-> Mode(AllUnconditional, 3, FALSE, {}, FALSE)]

Interchangeable == Permutations(Requests)
=============================================================================
