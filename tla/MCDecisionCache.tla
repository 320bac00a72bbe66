--------------------------- MODULE MCDecisionCache ----------------------------
(***************************************************************************)
(* TLC instances of DecisionCache, and of the retry loop of EventLog       *)
(* without faults (mode "appends"): the two components whose callers wait  *)
(* for a service they share and must end up with an answer.                *)
(***************************************************************************)
EXTENDS DecisionCache, TLC

CONSTANTS r1, r2, r3, p1, p2, c1, c2, alice, acme, admins, editors

TwoProxies == {p1, p2}
TwoSlots == {c1, c2}

InGroups(gs) == [user |-> alice, tenant |-> acme, groups |-> gs]

\* The same groups in two orders, and fewer groups.
ThreeQueries ==
    {InGroups(<<admins, editors>>), InGroups(<<editors, admins>>), InGroups(<<editors>>)}
TwoQueries == {InGroups(<<editors, admins>>), InGroups(<<editors>>)}
OneQuery == {InGroups(<<editors>>)}

Mode(tiered, instances, slots, queries, ch, er) ==
    [tiered |-> tiered, instances |-> instances, slots |-> slots, queries |-> queries,
     changes |-> ch, errors |-> er]

Main ==
    [races  |-> Mode(TRUE, {p1}, TwoSlots, OneQuery, 1, 0),
     shared |-> Mode(TRUE, TwoProxies, {c1}, OneQuery, 1, 0),
     faults |-> Mode(TRUE, {p1}, {c1}, OneQuery, 1, 2),
     keys   |-> Mode(TRUE, {p1}, {c1}, TwoQueries, 0, 0),
     appends |-> Mode(FALSE, {}, {}, {}, 0, 0),
     single |-> Mode(FALSE, {p1}, TwoSlots, ThreeQueries, 1, 1)]

VARIABLES counter, events, items, op, txn, phase, attempt, current, outcome, revision

logVars == <<counter, events, items, op, txn, phase, attempt, current, outcome, revision>>

\* As many attempts as appends.
Log == INSTANCE EventLog
       WITH Requests <- {r1, r2, r3}, Items <- {"item"}, Expectations <- {}, MaxAttempts <- 3,
            Faulty <- FALSE

MCInit == Init /\ Log!Init

MCNext ==
    \/ Next /\ UNCHANGED logVars
    \/ mode = "appends" /\ Log!Next /\ UNCHANGED vars

MCSpec ==
    /\ MCInit
    /\ [][MCNext]_<<vars, logVars>>
    /\ Fairness
    /\ \A r \in {r1, r2, r3} :
          /\ WF_logVars(mode = "appends" /\ Log!Client(r))
          /\ WF_logVars(mode = "appends" /\ Log!Database(r))

\* Every append returns, and without an error while no more of them run at
\* once than the ceiling allows attempts (event_log.rs, append).
EveryCallReturns == Log!EveryCallReturns
=============================================================================
