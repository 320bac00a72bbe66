---------------------------- MODULE MCModelPlane -----------------------------
(***************************************************************************)
(* TLC instances of ModelPlane.                                            *)
(***************************************************************************)
EXTENDS ModelPlane

CONSTANTS s1, s2, a, b, r1, r2

TwoSlots == {s1, s2}
TwoDocs == {a, b}
TwoReplicas == {r1, r2}

Ops(first, second) == [c \in Slots |-> IF c = s1 THEN first ELSE second]

Setup == {"org.created", "org.activated", "resource.promoted"}

Happened(kinds) ==
    [i \in DOMAIN kinds |->
        [seq |-> i, kind |-> kinds[i], doc |-> None,
         id |-> IF kinds[i] = "resource.promoted" THEN i - 2 ELSE None]]
Born == Happened(<<"org.created">>)
Running == Happened(<<"org.created", "org.activated">>)
Promoted1 == Happened(<<"org.created", "org.activated", "resource.promoted">>)
Promoted2 ==
    Happened(<<"org.created", "org.activated", "resource.promoted", "resource.promoted">>)

Mode(history, ops, ids, kinds, events, rough, er) ==
    [history |-> history, ops |-> ops, ids |-> ids, kinds |-> kinds, events |-> events,
     cursors |-> {0}, lag |-> rough, short |-> rough, demands |-> FALSE, errors |-> er]

Main ==
    [\* two writers of one principal and one promotion
     writers |-> Mode(Promoted1, Ops({"upsert", "tombstone"}, {"upsert", "tombstone"}), {1},
                      {"resource.promoted"}, 5, FALSE, 0),
     \* a writer behind a stale gate, whose calls fail
     stale   |-> Mode(Promoted1, Ops({"upsert", "tombstone"}, {}), {1},
                      {"org.suspended", "org.restored"}, 5, TRUE, 1),
     \* a consumer of the events, replicas that lag, short pages
     feed    |-> Mode(Running, Ops({"events"}, {}), {1}, Setup \cup {"org.suspended"}, 4, TRUE, 0),
     \* one whose requests fail, and which may start from any cursor
     cursors |-> [Mode(Running, Ops({"events"}, {}), {1}, {"resource.promoted"}, 4, TRUE, 1)
                  EXCEPT !.cursors = {0, 3, MaxRevision}, !.lag = FALSE],
     \* a client pages through the promotions while they change
     walk    |-> Mode(Promoted2, Ops({"list"}, {"tombstone"}), {1, 2}, Setup, 6, FALSE, 0),
     \* demands, without lag
     demands |-> [Mode(Born, Ops({"events", "list"}, {}), {1}, Setup, 3, FALSE, 0)
                  EXCEPT !.demands = TRUE],
     \* historical reads over lagging replicas and over fresh ones
     fold    |-> Mode(Born, Ops({"fold"}, {}), {1}, Setup, 4, TRUE, 0),
     fresh   |-> Mode(Born, Ops({"fold"}, {"tombstone"}), {1}, Setup, 4, FALSE, 0)]
=============================================================================
