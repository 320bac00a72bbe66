--------------------------- MODULE AccessProofs -----------------------------
(***************************************************************************)
(* The parts of an access decision: resolve_inherits, the spine and the    *)
(* engine that answers from it.                                            *)
(*                                                                         *)
(* resolve_inherits is right for every set of entries and every target.    *)
(*                                                                         *)
(* For every set of names, every list that a spine is loaded from and      *)
(* every order of adds and moves, the spine is a tree, and a change moves  *)
(* one subtree.                                                            *)
(*                                                                         *)
(* For any callers, queries and writes, every answer of the embedded       *)
(* engine is the one that the revision it was pinned to gives.  What one   *)
(* link evaluates to plays no part: the argument is that history only      *)
(* grows, that a revision is pinned once, and that the links before the    *)
(* next one were allowed at the pinned revision.                           *)
(***************************************************************************)
EXTENDS EmbeddedEngine, InheritanceWalker, TLAPS

-----------------------------------------------------------------------------
(* The spine.                                                              *)

\* What Spine::try_new builds, apart from being a tree.
SpineTyped ==
    /\ spine = [units |-> spine.units, root |-> spine.root, org |-> spine.org]
    /\ spine.units = [u \in DOMAIN spine.units |-> spine.units[u]]
    /\ DOMAIN spine.units \subseteq Fgrns

TreeInv == SpineTyped /\ SpineIsTree
-----------------------------------------------------------------------------
(* Ancestry.                                                               *)

\* The climb from a unit holds the unit, and the parent of whatever it holds.
LEMMA AncestryIsClosed ==
    ASSUME NEW units, NEW n \in DOMAIN units,
           \A u \in DOMAIN units : units[u] # None => units[u] \in DOMAIN units
    PROVE  /\ n \in Ancestry(units, n)
           /\ UpwardClosed(units, Ancestry(units, n))
BY Zenon DEF Ancestry, UpwardClosed

\* Nothing outside a closed set that holds a unit is above the unit.
LEMMA AncestryIsLeast ==
    ASSUME NEW units, NEW n, NEW C \in SUBSET DOMAIN units, n \in C, UpwardClosed(units, C)
    PROVE  Ancestry(units, n) \subseteq C
BY Zenon DEF Ancestry

\* Two spines that differ in the edge of one unit, which the climb from n does
\* not meet, have the same climb from n.
LEMMA AncestryUnmoved ==
    ASSUME NEW old, NEW new, NEW moved, NEW n \in DOMAIN old,
           DOMAIN old \subseteq DOMAIN new,
           \A u \in DOMAIN old : old[u] # None => old[u] \in DOMAIN old,
           \A u \in DOMAIN new : new[u] # None => new[u] \in DOMAIN new,
           \A u \in DOMAIN old : u # moved => new[u] = old[u],
           moved \notin Ancestry(old, n)
    PROVE  Ancestry(new, n) = Ancestry(old, n)
<1> DEFINE A == Ancestry(old, n)
           B == Ancestry(new, n)
<1>1. n \in A /\ UpwardClosed(old, A) /\ A \subseteq DOMAIN old
    BY AncestryIsClosed, Zenon DEF Ancestry
<1>2. UpwardClosed(new, A)
    BY <1>1, Zenon DEF UpwardClosed
<1>3. B \subseteq A
    <2>1. A \in SUBSET DOMAIN new
        BY <1>1, Zenon
    <2> HIDE DEF A
    <2> QED BY <1>1, <1>2, <2>1, AncestryIsLeast, Zenon
<1>4. n \in B /\ UpwardClosed(new, B)
    BY AncestryIsClosed, Zenon
<1>5. B \in SUBSET DOMAIN old /\ UpwardClosed(old, B)
    BY <1>1, <1>3, <1>4, Zenon DEF UpwardClosed
<1>6. A \subseteq B
    <2> HIDE DEF B
    <2> QED BY <1>4, <1>5, AncestryIsLeast, Zenon
<1> QED BY <1>3, <1>6, Zenon
-----------------------------------------------------------------------------
(* The operations.                                                         *)

\* A new leaf closes no cycle.
LEMMA AddKeepsTree ==
    ASSUME TreeInv, NEW f \in Fgrns, NEW parent \in Fgrns \cup {None}, CanAdd(spine, f, parent),
           spine' = WithUnit(spine, f, parent)
    PROVE  TreeInv'
<1> DEFINE new == [u \in DOMAIN spine.units \cup {f} |-> IF u = f THEN parent ELSE spine.units[u]]
<1>1. spine' = [units |-> new, root |-> spine.root, org |-> spine.org]
    BY Zenon DEF TreeInv, SpineTyped, WithUnit
<1>2. /\ DOMAIN new = DOMAIN spine.units \cup {f}
      /\ \A u \in DOMAIN spine.units : new[u] = spine.units[u]
      /\ new[f] = parent
    BY Zenon DEF CanAdd, InSpine
<1>3. /\ parent \in DOMAIN spine.units /\ f \notin DOMAIN spine.units /\ parent # None
      /\ f.kind = "orgunit" /\ f.org = spine.org
    BY Zenon DEF CanAdd, InSpine, IsOrgUnit
<1>4. Grounded(new)
    <2> SUFFICES ASSUME NEW S \in SUBSET DOMAIN new, S # {}, \A u \in S : new[u] \in S
                 PROVE  FALSE
        BY Zenon DEF Grounded
    <2> DEFINE T == S \cap DOMAIN spine.units
    <2>1. T \in SUBSET DOMAIN spine.units /\ T # {}
        <3>1. PICK u \in S : TRUE
            BY Zenon
        <3>2. CASE u = f
            BY <1>2, <1>3, <3>1, <3>2, Zenon
        <3>3. CASE u # f
            BY <1>2, <3>1, <3>3, Zenon
        <3> QED BY <3>2, <3>3, Zenon
    <2>3. \A u \in T : spine.units[u] \in DOMAIN spine.units \/ spine.units[u] = None
        BY Zenon DEF TreeInv, SpineIsTree, InSpine
    <2>4. None \notin S
        BY <1>2, FgrnsAssumption, Zenon DEF TreeInv, SpineTyped
    <2>5. \A u \in T : spine.units[u] \in T
        <3> SUFFICES ASSUME NEW u \in T PROVE spine.units[u] \in T
            BY Zenon
        <3>1. spine.units[u] \in S
            BY <1>2, Zenon
        <3> QED BY <2>3, <2>4, <3>1, Zenon
    <2> QED BY <2>1, <2>5, Zenon DEF TreeInv, SpineIsTree, Grounded
<1>5. SpineTyped'
    BY <1>1 DEF TreeInv, SpineTyped
<1>6. \A u \in DOMAIN new : /\ u.kind = "orgunit" /\ u.org = spine.org
                            /\ new[u] = None <=> u = spine.root
                            /\ u # spine.root => new[u] \in DOMAIN new
    BY <1>2, <1>3, Zenon DEF TreeInv, SpineIsTree, InSpine
<1>7. SpineIsTree'
    <2> HIDE DEF new
    <2> QED BY <1>1, <1>2, <1>4, <1>6 DEF TreeInv, SpineIsTree, InSpine
<1> QED BY <1>5, <1>7, Zenon DEF TreeInv

\* The new parent is not at or below the moved unit, so a cycle through the
\* new edge would have been one before.
LEMMA ReparentKeepsTree ==
    ASSUME TreeInv, NEW node \in Fgrns, NEW parent \in Fgrns, CanReparent(spine, node, parent),
           spine' = Reparented(spine, node, parent)
    PROVE  TreeInv'
<1> DEFINE new == [spine.units EXCEPT ![node] = parent]
<1>1. spine' = [units |-> new, root |-> spine.root, org |-> spine.org]
    BY Zenon DEF TreeInv, SpineTyped, Reparented
<1>2. node \in DOMAIN spine.units /\ parent \in DOMAIN spine.units /\ node # spine.root
    BY Zenon DEF CanReparent, InSpine
<1>3. /\ DOMAIN new = DOMAIN spine.units
      /\ new[node] = parent
      /\ \A u \in DOMAIN spine.units : u # node => new[u] = spine.units[u]
    BY <1>2, Zenon DEF TreeInv, SpineTyped
<1>4. Grounded(new)
    <2> SUFFICES ASSUME NEW S \in SUBSET DOMAIN new, S # {}, \A u \in S : new[u] \in S
                 PROVE  FALSE
        BY Zenon DEF Grounded
    <2>1. None \notin S
        BY <1>3, FgrnsAssumption, Zenon DEF TreeInv, SpineTyped
    <2>2. CASE node \notin S
        <3>1. \A u \in S : spine.units[u] \in S
            BY <1>3, <2>2, Zenon
        <3> QED BY <1>3, <3>1, Zenon DEF TreeInv, SpineIsTree, Grounded
    <2>3. CASE node \in S
        <3>1. PICK C \in SUBSET DOMAIN spine.units :
                  parent \in C /\ UpwardClosed(spine.units, C) /\ node \notin C
            BY <1>2, Zenon DEF CanReparent, IsAtOrBelow, Ancestry
        <3> DEFINE T == S \cap C
        <3>2. T \in SUBSET DOMAIN spine.units /\ T # {}
            BY <1>3, <2>3, <3>1, Zenon
        <3>3. \A u \in T : spine.units[u] \in T
            BY <1>3, <2>1, <3>1 DEF UpwardClosed
        <3> QED BY <3>2, <3>3, Zenon DEF TreeInv, SpineIsTree, Grounded
    <2> QED BY <2>2, <2>3, Zenon
<1>5. SpineTyped'
    BY <1>1, <1>3 DEF TreeInv, SpineTyped
<1>6. \A u \in DOMAIN new : /\ u.kind = "orgunit" /\ u.org = spine.org
                            /\ new[u] = None <=> u = spine.root
                            /\ u # spine.root => new[u] \in DOMAIN new
    BY <1>2, <1>3, FgrnsAssumption DEF TreeInv, SpineIsTree, InSpine
<1>7. SpineIsTree'
    <2> HIDE DEF new
    <2> QED BY <1>1, <1>3, <1>4, <1>6 DEF TreeInv, SpineIsTree, InSpine
<1> QED BY <1>5, <1>7, Zenon DEF TreeInv

-----------------------------------------------------------------------------
(* The engine.                                                             *)

\* The store holds at least the revision it was created with.
StoreInv == (\E S : history \in Seq(S)) /\ Latest >= 1

\* A link that was evaluated, and allowed, at model m.
Passed(m, q, i) ==
    Evaluates(m, q.links[i], q.resource) /\ LinkAllows(m, q.links[i], q.action, q.resource)

\* The query of a client that asked, and when it did.
Asked(c) == query[c] \in Queries /\ asked[c] \in Nat /\ asked[c] >= 1 /\ asked[c] <= Latest

\* A client between two links.
Halfway(c) ==
    /\ nextLink[c] \in 1 .. Len(query[c].links)
    /\ \A i \in 1 .. nextLink[c] - 1 : Passed(history[revision[c]], query[c], i)
    /\ nextLink[c] > 1 => KnownRevision(revision[c])

RecordReplays(c) ==
    LET n == answer[c].revision
        q == query[c]
    IN  /\ n \in Pinned(c) /\ KnownRevision(n)
        /\ answer[c].decision <=> \A i \in DOMAIN q.links : Passed(history[n], q, i)

ErrorReplays(c) ==
    LET n == revision[c]
        q == query[c]
    IN  q.revision = None \/ q.revision \in 1 .. asked[c] =>
          \E i \in DOMAIN q.links :
             /\ ~Evaluates(history[n], q.links[i], q.resource)
             /\ \A j \in 1 .. i - 1 : LinkAllows(history[n], q.links[j], q.action, q.resource)

ClientInv(c) ==
    /\ phase[c] \in {"idle", "pinning", "evaluating", "done"}
    /\ phase[c] # "idle" => Asked(c)
    /\ phase[c] \in {"evaluating", "done"} => revision[c] \in Pinned(c)
    /\ phase[c] = "evaluating" => Halfway(c)
    /\ phase[c] = "done" => IF answer[c] = Failure THEN ErrorReplays(c) ELSE RecordReplays(c)

\* Every variable of a client is a function of the clients.
LocalsTyped ==
    \A f \in {query, phase, revision, nextLink, kept, asked, answer} : f = [c \in Clients |-> f[c]]

EngineInv == StoreInv /\ LocalsTyped /\ \A c \in Clients : ClientInv(c)

LEMMA QueriesTyped ==
    ASSUME NEW q \in Queries
    PROVE  /\ q.revision \in Nat \cup {None}
           /\ Len(q.links) \in Nat /\ Len(q.links) >= 1
           /\ DOMAIN q.links = 1 .. Len(q.links)
BY EngineAssumption

LEMMA EngineInitHolds ==
    ASSUME EngineInit
    PROVE  EngineInv
<1>1. StoreInv
    <2>1. PICK m \in Seeds : history = <<m>>
        BY Zenon DEF EngineInit
    <2>2. history \in Seq({m}) /\ Len(history) = 1
        BY <2>1
    <2> QED BY <2>2 DEF StoreInv, Latest
<1>2. LocalsTyped
    BY Zenon DEF EngineInit, LocalsTyped
<1>3. ASSUME NEW c \in Clients PROVE ClientInv(c)
    BY Zenon DEF EngineInit, ClientInv
<1> QED BY <1>1, <1>2, <1>3, Zenon DEF EngineInv

\* A write keeps every revision that was there.
LEMMA HistoryGrows ==
    ASSUME StoreInv, NEW w \in Writes, Apply(w)
    PROVE  /\ StoreInv'
           /\ Latest <= Latest'
           /\ \A n \in 1 .. Latest : history'[n] = history[n]
           /\ Latest \in Nat /\ Latest' \in Nat
<1>1. PICK S : history \in Seq(S)
    BY Zenon DEF StoreInv
<1>2. CASE history' = history
    BY <1>1, <1>2 DEF StoreInv, Latest
<1>3. CASE history' = Append(history, Applied(history[Latest], w))
    <2> DEFINE x == Applied(history[Latest], w)
    <2> HIDE DEF x
    <2>1. history \in Seq(S \cup {x})
        BY <1>1
    <2>2. /\ Append(history, x) \in Seq(S \cup {x})
          /\ Len(Append(history, x)) = Len(history) + 1
          /\ \A n \in 1 .. Len(history) : Append(history, x)[n] = history[n]
        BY <2>1
    <2>3. history' = Append(history, x)
        BY <1>3, Zenon DEF x
    <2> QED BY <1>1, <2>2, <2>3 DEF StoreInv, Latest
<1> QED BY <1>2, <1>3, Zenon DEF Apply

\* What is said of a client stays true when the history grows and the client's
\* own variables do not change.
LEMMA ClientUndisturbed ==
    ASSUME NEW c \in Clients, ClientInv(c),
           UNCHANGED <<query[c], phase[c], revision[c], nextLink[c], asked[c], answer[c]>>,
           Latest \in Nat, Latest' \in Nat, Latest <= Latest',
           \A n \in 1 .. Latest : history'[n] = history[n]
    PROVE  ClientInv(c)'
<1>1. phase[c] # "idle" => Asked(c)'
    BY DEF ClientInv, Asked
<1>2. phase[c] \in {"evaluating", "done"} => (revision[c] \in Pinned(c))'
    BY DEF ClientInv, Pinned, Asked
<1>3. ASSUME phase[c] = "evaluating" PROVE Halfway(c)'
    <2>1. Halfway(c) /\ revision[c] \in Pinned(c) /\ Asked(c)
        BY <1>3, Zenon DEF ClientInv
    <2>2. CASE nextLink[c] > 1
        <3>1. KnownRevision(revision[c]) /\ revision[c] \in Nat
            BY <2>1, <2>2, QueriesTyped DEF Halfway, Pinned, Asked
        <3>2. history'[revision[c]] = history[revision[c]] /\ KnownRevision(revision[c])'
            BY <3>1 DEF KnownRevision
        <3> QED BY <2>1, <3>2, Zenon DEF Halfway, Passed
    <2>3. CASE ~(nextLink[c] > 1)
        BY <2>1, <2>3, QueriesTyped, SMTT(20) DEF Halfway, Asked
    <2> QED BY <2>2, <2>3, Zenon
<1>4. ASSUME phase[c] = "done", answer[c] = Failure PROVE ErrorReplays(c)'
    <2>1. ErrorReplays(c) /\ revision[c] \in Pinned(c) /\ Asked(c)
        BY <1>4, Zenon DEF ClientInv
    <2>2. query[c].revision = None \/ query[c].revision \in 1 .. asked[c] =>
             history'[revision[c]] = history[revision[c]]
        BY <2>1, EngineAssumption, SMTT(20) DEF Pinned, Asked
    <2> QED BY <2>1, <2>2, Zenon DEF ErrorReplays
<1>5. ASSUME phase[c] = "done", answer[c] # Failure PROVE RecordReplays(c)'
    <2>1. RecordReplays(c) /\ Asked(c)
        BY <1>5, Zenon DEF ClientInv
    <2> DEFINE n == answer[c].revision
    <2>2. n \in Pinned(c) /\ KnownRevision(n) /\ n \in Nat
        BY <2>1, QueriesTyped, EngineAssumption DEF RecordReplays, Asked, Pinned, KnownRevision
    <2>3. history'[n] = history[n] /\ KnownRevision(n)' /\ (n \in Pinned(c))'
        BY <2>1, <2>2 DEF KnownRevision, Pinned, Asked
    <2> QED BY <2>1, <2>3, Zenon DEF RecordReplays, Passed
<1> QED BY <1>1, <1>2, <1>3, <1>4, <1>5, Zenon DEF ClientInv

\* One client's step changes its own variables only.
LEMMA OthersUndisturbed ==
    ASSUME EngineInv, NEW c \in Clients, NEW d \in Clients, d # c, UNCHANGED history,
           UNCHANGED <<query[d], phase[d], revision[d], nextLink[d], asked[d], answer[d]>>
    PROVE  ClientInv(d)'
<1>1. Latest \in Nat /\ UNCHANGED Latest
    BY DEF EngineInv, StoreInv, Latest
<1> QED BY <1>1, ClientUndisturbed DEF EngineInv

LEMMA ApplyKeepsInv ==
    ASSUME EngineInv, NEW w \in Writes, Apply(w)
    PROVE  EngineInv'
<1>1. StoreInv' /\ LocalsTyped'
    BY HistoryGrows, Zenon DEF EngineInv, Apply, locals, LocalsTyped
<1>2. ASSUME NEW c \in Clients PROVE ClientInv(c)'
    BY HistoryGrows, ClientUndisturbed, Zenon DEF EngineInv, Apply, locals
<1> QED BY <1>1, <1>2, Zenon DEF EngineInv

LEMMA AskKeepsInv ==
    ASSUME EngineInv, NEW c \in Clients, NEW q \in Queries, Ask(c, q)
    PROVE  EngineInv'
<1>1. StoreInv' /\ LocalsTyped'
    BY Zenon DEF EngineInv, Ask, LocalsTyped, StoreInv, Latest
<1>2. ASSUME NEW d \in Clients, d # c PROVE ClientInv(d)'
    BY <1>2, OthersUndisturbed, Zenon DEF Ask, EngineInv, LocalsTyped
<1>3. query'[c] = q /\ asked'[c] = Latest /\ phase'[c] = "pinning"
    BY Zenon DEF Ask, EngineInv, LocalsTyped
<1>4. Asked(c)'
    <2>1. Latest \in Nat /\ Latest >= 1 /\ Latest' = Latest
        BY DEF EngineInv, StoreInv, Latest, Ask
    <2> QED BY <1>3, <2>1 DEF Asked
<1>5. ClientInv(c)'
    BY <1>3, <1>4, Zenon DEF ClientInv
<1> QED BY <1>1, <1>2, <1>5, Zenon DEF EngineInv

LEMMA PinKeepsInv ==
    ASSUME EngineInv, NEW c \in Clients, Pin(c)
    PROVE  EngineInv'
<1>1. StoreInv' /\ LocalsTyped'
    BY Zenon DEF EngineInv, Pin, LocalsTyped, StoreInv, Latest
<1>2. ASSUME NEW d \in Clients, d # c PROVE ClientInv(d)'
    BY <1>2, OthersUndisturbed, Zenon DEF Pin, EngineInv, LocalsTyped
<1>3. /\ revision'[c] = IF query[c].revision # None THEN query[c].revision ELSE Latest
      /\ nextLink'[c] = 1 /\ phase'[c] = "evaluating"
      /\ UNCHANGED <<query, asked, history>>
    BY Zenon DEF Pin, EngineInv, LocalsTyped
<1>4. Asked(c) /\ Latest \in Nat /\ Latest' = Latest
    BY <1>3 DEF EngineInv, StoreInv, Latest, ClientInv, Pin
<1>5. (revision[c] \in Pinned(c))'
    BY <1>3, <1>4, SMTT(20) DEF Pinned, Asked
<1>6. Halfway(c)'
    BY <1>3, <1>4, QueriesTyped DEF Halfway, Asked
<1>7. Asked(c)'
    BY <1>3, <1>4, Zenon DEF Asked
<1>8. ClientInv(c)'
    BY <1>3, <1>5, <1>6, <1>7, Zenon DEF ClientInv
<1> QED BY <1>1, <1>2, <1>8, Zenon DEF EngineInv

LEMMA EvaluateLinkKeepsInv ==
    ASSUME EngineInv, NEW c \in Clients, EvaluateLink(c)
    PROVE  EngineInv'
<1> DEFINE q == query[c]
           n == revision[c]
           i == nextLink[c]
           m == history[n]
           p == q.links[i]
           allows == LinkAllows(m, p, q.action, q.resource)
           first == IF i = 1 THEN Slice(m, p, q.resource) ELSE kept[c]
<1>1. StoreInv' /\ LocalsTyped'
    BY DEF EngineInv, EvaluateLink, Finish, LocalsTyped, StoreInv, Latest
<1>2. ASSUME NEW d \in Clients, d # c PROVE ClientInv(d)'
    BY <1>2, OthersUndisturbed, SMTT(20) DEF EvaluateLink, Finish, EngineInv, LocalsTyped
<1>3. /\ phase[c] = "evaluating" /\ Halfway(c) /\ Asked(c) /\ n \in Pinned(c)
      /\ Latest \in Nat /\ Latest >= 1
      /\ UNCHANGED <<query, revision, asked, history>> /\ Latest' = Latest
    BY DEF EngineInv, StoreInv, Latest, ClientInv, EvaluateLink
<1>4. Asked(c)' /\ (revision[c] \in Pinned(c))'
    BY <1>3, Zenon DEF Asked, Pinned
<1>5. i \in 1 .. Len(q.links) /\ DOMAIN q.links = 1 .. Len(q.links) /\ Len(q.links) \in Nat
    BY <1>3, QueriesTyped, SMTT(20) DEF Halfway, Asked
<1>6. CASE KnownRevision(n) /\ Evaluates(m, p, q.resource) /\ allows /\ i < Len(q.links)
    <2>1. phase'[c] = "evaluating" /\ nextLink'[c] = i + 1
        BY <1>3, <1>6, SMTT(20) DEF EvaluateLink, ModelAt, EngineInv, LocalsTyped
    <2>2. nextLink'[c] \in 1 .. Len(q.links) /\ nextLink'[c] - 1 = i
        BY <1>5, <1>6, <2>1, SMTT(20)
    <2>3. \A j \in 1 .. i : Passed(m, q, j)
        <3>1. \A j \in 1 .. i - 1 : Passed(m, q, j)
            BY <1>3, Zenon DEF Halfway
        <3>2. Passed(m, q, i)
            BY <1>6, Zenon DEF Passed
        <3> QED BY <1>5, <3>1, <3>2, SMTT(20)
    <2>4. (\A j \in 1 .. nextLink[c] - 1 : Passed(history[revision[c]], query[c], j))'
        <3>1. \A j \in 1 .. nextLink'[c] - 1 : Passed(m, q, j)
            BY <2>2, <2>3, Zenon
        <3> QED BY <1>3, <3>1, Zenon DEF Passed
    <2>5. Halfway(c)'
        BY <1>3, <1>6, <2>1, <2>2, <2>4, Zenon DEF Halfway, KnownRevision
    <2> QED BY <1>1, <1>2, <1>4, <2>1, <2>5, SMTT(20) DEF ClientInv, EngineInv
<1>7. CASE KnownRevision(n) /\ Evaluates(m, p, q.resource) /\ ~(allows /\ i < Len(q.links))
    <2>1. phase'[c] = "done" /\ answer'[c] = Record(allows, n, first)
        BY <1>3, <1>7, SMTT(20) DEF EvaluateLink, ModelAt, Finish, EngineInv, LocalsTyped
    <2>2. answer'[c].revision = n /\ answer'[c].decision = allows /\ answer'[c].tag = "record"
        BY <2>1 DEF Record
    <2>3. answer'[c] # Failure
        BY <2>2 DEF Failure
    <2>4. allows <=> \A j \in DOMAIN q.links : Passed(m, q, j)
        <3>1. \A j \in 1 .. i - 1 : Passed(m, q, j)
            BY <1>3, Zenon DEF Halfway
        <3>2. Passed(m, q, i) <=> allows
            BY <1>7, Zenon DEF Passed
        <3>3. allows => i = Len(q.links)
            BY <1>5, <1>7, SMTT(20)
        <3> HIDE DEF allows, m, q
        <3> QED BY <1>5, <3>1, <3>2, <3>3, SMTT(20)
    <2>5. RecordReplays(c)'
        BY <1>3, <1>4, <1>7, <2>2, <2>4, SMTT(20) DEF RecordReplays, Passed, KnownRevision
    <2> QED BY <1>1, <1>2, <1>4, <2>1, <2>3, <2>5, Zenon DEF ClientInv, EngineInv
<1>8. CASE ~(KnownRevision(n) /\ Evaluates(m, p, q.resource))
    <2>1. phase'[c] = "done" /\ answer'[c] = Failure
        BY <1>3, <1>8, SMTT(20) DEF EvaluateLink, ModelAt, Finish, EngineInv, LocalsTyped
    <2>2. ErrorReplays(c)
        <3> SUFFICES ASSUME q.revision = None \/ q.revision \in 1 .. asked[c]
                     PROVE  \E k \in DOMAIN q.links :
                               /\ ~Evaluates(m, q.links[k], q.resource)
                               /\ \A j \in 1 .. k - 1 :
                                     LinkAllows(m, q.links[j], q.action, q.resource)
            BY Zenon DEF ErrorReplays
        <3>1. KnownRevision(n)
            BY <1>3, EngineAssumption DEF KnownRevision, Pinned, Asked
        <3>2. ~Evaluates(m, q.links[i], q.resource)
            BY <1>8, <3>1, SMTT(20)
        <3>3. \A j \in 1 .. i - 1 : LinkAllows(m, q.links[j], q.action, q.resource)
            BY <1>3, SMTT(20) DEF Halfway, Passed
        <3> QED BY <1>5, <3>2, <3>3, SMTT(20)
    <2>3. ErrorReplays(c)'
        BY <1>3, <2>2, Zenon DEF ErrorReplays
    <2> QED BY <1>1, <1>2, <1>4, <2>1, <2>3, SMTT(20) DEF ClientInv, EngineInv
<1> QED BY <1>6, <1>7, <1>8, Zenon

LEMMA StutterKeepsInv ==
    ASSUME EngineInv, UNCHANGED engineVars
    PROVE  EngineInv'
<1>1. UNCHANGED history /\ UNCHANGED Latest /\ Latest \in Nat
    BY DEF EngineInv, StoreInv, Latest, engineVars
<1>2. ASSUME NEW c \in Clients PROVE ClientInv(c)'
    BY <1>1, ClientUndisturbed DEF EngineInv, engineVars, locals
<1>3. StoreInv' /\ LocalsTyped'
    BY <1>1, Zenon DEF EngineInv, StoreInv, LocalsTyped, engineVars, locals
<1> QED BY <1>2, <1>3, Zenon DEF EngineInv

\* "Any historical decision can be replayed exactly": every record allows what
\* the model of its revision allows, link by link, and an error is one of that
\* model too, whatever is written while a decision is taken.
THEOREM EngineAnswersReplay == EngineSpec => []AnswersReplay
<1>1. EngineInit => EngineInv
    BY EngineInitHolds, Zenon
<1>2. EngineInv /\ [EngineNext]_engineVars => EngineInv'
    BY ApplyKeepsInv, AskKeepsInv, PinKeepsInv, EvaluateLinkKeepsInv, StutterKeepsInv, Zenon
    DEF EngineNext
<1>3. EngineInv => AnswersReplay
    <2> SUFFICES ASSUME EngineInv PROVE AnswersReplay
        BY ZenonT(30)
    <2>1. RecordsReplay
        BY SMTT(20) DEF EngineInv, ClientInv, RecordsReplay, RecordReplays, Passed
    <2>2. ErrorsReplay
        BY Zenon DEF EngineInv, ClientInv, ErrorsReplay, ErrorReplays
    <2> QED BY <2>1, <2>2, Zenon DEF AnswersReplay
<1> QED BY <1>1, <1>2, <1>3, PTL DEF EngineSpec
-----------------------------------------------------------------------------
\* Nothing is visited before the maps are built.
Indexing ==
    next <= Len(input.entries) =>
        stack = << >> /\ visiting = {} /\ visited = {} /\ collected = << >> /\ result = "pending"

\* The roles being visited are those of the active calls, each once; they are
\* not yet visited.
Visiting ==
    /\ visiting = {stack[i].role : i \in DOMAIN stack}
    /\ \A i, j \in DOMAIN stack : stack[i].role = stack[j].role => i = j
    /\ visiting \cap visited = {}
    /\ (stack = << >> /\ result = "pending") => visited = {}
    /\ stack # << >> => stack[1].role = input.target

\* A call other than the last has added its actions and is in the middle of
\* the call for a parent.
WalkPath ==
    \A i \in DOMAIN stack : i < Len(stack) =>
        /\ stack[i].action > Len(Allow(stack[i].role))
        /\ stack[i].parent > 1
        /\ stack[i].parent - 1 <= Len(Parents(stack[i].role))
        /\ Parents(stack[i].role)[stack[i].parent - 1] = stack[i + 1].role

\* What an active call has already done.
Progress ==
    \A i \in DOMAIN stack :
        /\ \A a \in 1 .. stack[i].action - 1 : Allow(stack[i].role)[a] \in Elements(collected)
        /\ \A j \in 1 .. stack[i].parent - 1 :
              \/ Parents(stack[i].role)[j] \in visited
              \/ i < Len(stack) /\ j = stack[i].parent - 1

\* A visited role is done, and so is everything it inherits from; nothing
\* visited is on a cycle.
Finished ==
    /\ \A v \in visited :
          Elements(Parents(v)) \subseteq visited /\ Elements(Allow(v)) \subseteq Elements(collected)
    /\ \A T \in SUBSET visited : ~Cyclic(ParentSets, T)

\* Nothing but what the target reaches is visited or collected.
Within ==
    /\ visiting \cup visited \subseteq Reached
    /\ Elements(collected) \subseteq UNION {Elements(Allow(n)) : n \in Reached \cap Declared}

Ended ==
    /\ result = "ok" => stack = << >> /\ input.target \in visited
    /\ result = "cycle" => \E S \in SUBSET Reached : Cyclic(ParentSets, S)
    /\ result = "unknown" => ~(Reached \subseteq Declared)

WalkInv ==
    /\ input \in Inputs
    /\ TypeOK
    /\ Indexing /\ Visiting /\ WalkPath /\ Progress /\ Finished /\ Within /\ Ended
-----------------------------------------------------------------------------
\* The table as a graph.
LEMMA GraphFacts ==
    ASSUME input \in Inputs, TypeOK
    PROVE  /\ input.target \in Names
           /\ Declared \subseteq Names
           /\ \A n \in Declared : Parents(n) \in Seq(Names) /\ Allow(n) \in Seq(Actions)
           /\ DOMAIN ParentSets = Declared
           /\ \A n \in Declared : ParentSets[n] = Elements(Parents(n)) /\ ParentSets[n] \subseteq Names
  <1>1. input.target \in Names
    BY InputsAssumption, Zenon
  <1>2. \A n \in Declared : n \in Names /\ table[n] \in Entry
    BY Zenon DEF TypeOK
  <1>3. \A n \in Declared : Parents(n) \in Seq(Names) /\ Allow(n) \in Seq(Actions)
    BY <1>2, Zenon DEF Parents, Allow, Entry
  <1>4. \A n \in Declared : Elements(Parents(n)) \subseteq Names
    BY <1>3 DEF Elements
  <1> QED BY <1>1, <1>2, <1>3, <1>4, Zenon DEF ParentSets

\* The target is reached, and so is every parent of what is reached.
LEMMA ReachedFacts ==
    ASSUME input \in Inputs, TypeOK
    PROVE  /\ input.target \in Reached
           /\ Reached \subseteq Names
           /\ \A n \in Reached \cap Declared : Elements(Parents(n)) \subseteq Reached
           /\ \A S \in SUBSET Names :
                 (input.target \in S /\ \A n \in S \cap Declared : Elements(Parents(n)) \subseteq S)
                    => Reached \subseteq S
  <1>1. /\ input.target \in Names
        /\ DOMAIN ParentSets = Declared
        /\ \A n \in Declared : ParentSets[n] = Elements(Parents(n)) /\ ParentSets[n] \subseteq Names
    BY GraphFacts, Zenon
  <1>2. /\ input.target \in Reached /\ Reached \subseteq Names /\ Closed(ParentSets, Reached)
        /\ \A S \in SUBSET Names : (input.target \in S /\ Closed(ParentSets, S)) => Reached \subseteq S
    <2>1. /\ input.target \in Reached /\ Reached \subseteq Names
          /\ \A S \in SUBSET Names : (input.target \in S /\ Closed(ParentSets, S)) => Reached \subseteq S
      BY <1>1, Zenon DEF Reached, Reach
    <2>2. ASSUME NEW n \in Reached \cap DOMAIN ParentSets, NEW m \in ParentSets[n] PROVE m \in Reached
      BY <1>1, <2>2, Zenon DEF Reached, Reach, Closed
    <2> QED BY <2>1, <2>2, Zenon DEF Closed
  <1> QED BY <1>1, <1>2 DEF Closed

\* The graph only depends on the table and the input.
LEMMA GraphStays ==
    ASSUME UNCHANGED <<input, table>>
    PROVE  /\ Declared' = Declared /\ ParentSets' = ParentSets /\ Reached' = Reached
           /\ \A n : Allow(n)' = Allow(n) /\ Parents(n)' = Parents(n)
  BY Zenon DEF Declared, ParentSets, Reached, Allow, Parents

\* The invariant contains the result: what is visited in the end is closed.
LEMMA WalkIsRight == WalkInv => ResultIsRight
  <1> SUFFICES ASSUME WalkInv PROVE ResultIsRight
    BY Zenon
  <1>1. ASSUME result = "ok"
        PROVE  /\ Resolves(ParentSets, input.target)
               /\ Elements(collected) = UNION {Elements(Allow(n)) : n \in Reached}
    <2>1. input.target \in visited /\ visited \subseteq Declared /\ Declared \subseteq Names
      BY <1>1, GraphFacts, Zenon DEF WalkInv, Ended, TypeOK
    <2>2. Reached \subseteq visited
      BY <2>1, ReachedFacts, Zenon DEF WalkInv, Finished
    <2>3. Resolves(ParentSets, input.target)
      <3>1. Reached \subseteq DOMAIN ParentSets
        BY <2>1, <2>2, GraphFacts, Zenon DEF WalkInv
      <3>2. \A S \in SUBSET Reached : ~Cyclic(ParentSets, S)
        BY <2>2, Zenon DEF WalkInv, Finished
      <3> QED BY <3>1, <3>2, Zenon DEF Resolves, Reached
    <2>4. \A n \in Reached : Elements(Allow(n)) \subseteq Elements(collected)
      BY <2>2, Zenon DEF WalkInv, Finished
    <2>5. Elements(collected) \subseteq UNION {Elements(Allow(n)) : n \in Reached}
      BY Zenon DEF WalkInv, Within
    <2> QED BY <2>3, <2>4, <2>5, Zenon
  <1> QED BY <1>1, Zenon DEF WalkInv, Ended, ResultIsRight
-----------------------------------------------------------------------------
\* Sequences of a set.
LEMMA SeqFacts ==
    ASSUME NEW S, NEW s \in Seq(S)
    PROVE  /\ Len(s) \in Nat /\ DOMAIN s = 1 .. Len(s)
           /\ \A i \in 1 .. Len(s) : s[i] \in S
           /\ s # << >> => Len(s) >= 1
  OBVIOUS

LEMMA ElementsOfAppend ==
    ASSUME NEW S, NEW s \in Seq(S), NEW e \in S
    PROVE  /\ Append(s, e) \in Seq(S)
           /\ Elements(Append(s, e)) = Elements(s) \cup {e}
  <1>1. /\ Append(s, e) \in Seq(S) /\ Len(Append(s, e)) = Len(s) + 1
        /\ \A i \in 1 .. Len(s) : Append(s, e)[i] = s[i]
        /\ Append(s, e)[Len(s) + 1] = e
    OBVIOUS
  <1>2. /\ Len(s) \in Nat /\ DOMAIN s = 1 .. Len(s) /\ DOMAIN Append(s, e) = 1 .. Len(s) + 1
    BY <1>1
  <1> HIDE DEF Elements
  <1>3. ASSUME NEW x \in Elements(Append(s, e)) PROVE x \in Elements(s) \cup {e}
    <2>1. PICK i \in 1 .. Len(s) + 1 : x = Append(s, e)[i]
      BY <1>2, Zenon DEF Elements
    <2>2. CASE i = Len(s) + 1
      BY <1>1, <2>1, <2>2, Zenon
    <2>3. CASE i # Len(s) + 1
      BY <1>1, <1>2, <2>1, <2>3 DEF Elements
    <2> QED BY <2>2, <2>3, Zenon
  <1>4. ASSUME NEW x \in Elements(s) \cup {e} PROVE x \in Elements(Append(s, e))
    BY <1>1, <1>2 DEF Elements
  <1> QED BY <1>1, <1>3, <1>4, Zenon

LEMMA InitInv == Init => WalkInv
  <1> SUFFICES ASSUME Init PROVE WalkInv
    BY Zenon
  <1> USE DEF Init
  <1>1. input.entries \in Seq(Entry)
    BY InputsAssumption, Zenon
  <1>2. Len(input.entries) \in Nat /\ DOMAIN table = {} /\ DOMAIN stack = {} /\ Elements(collected) = {}
    BY <1>1 DEF Elements
  <1>3. TypeOK
    BY <1>2 DEF TypeOK, Declared
  <1>4. Indexing /\ Visiting /\ WalkPath /\ Progress
    BY <1>2, Zenon DEF Indexing, Visiting, WalkPath, Progress
  <1>5. Finished
    BY Zenon DEF Finished, Cyclic
  <1>6. Within /\ Ended
    BY <1>2, Zenon DEF Within, Ended
  <1> QED BY <1>3, <1>4, <1>5, <1>6, Zenon DEF WalkInv

LEMMA IndexInv == WalkInv /\ Index => WalkInv'
  <1> SUFFICES ASSUME WalkInv, Index PROVE WalkInv'
    BY Zenon
  <1> USE DEF Index
  <1>1. input.entries \in Seq(Entry) /\ next \in Nat /\ next >= 1
    BY InputsAssumption DEF WalkInv, TypeOK
  <1>2. /\ stack = << >> /\ visiting = {} /\ visited = {} /\ collected = << >> /\ result = "pending"
        /\ input' = input /\ next' = next + 1
        /\ stack' = << >> /\ visiting' = {} /\ visited' = {} /\ collected' = << >> /\ result' = "pending"
    BY Zenon DEF WalkInv, Indexing
  <1>3. Elements(collected)' = {} /\ DOMAIN stack' = {}
    BY <1>2 DEF Elements
  <1>4. input.entries[next] \in Entry /\ input.entries[next].name \in Names
    <2>1. input.entries[next] \in Entry
      BY <1>1, SeqFacts
    <2> QED BY <2>1, Zenon DEF Entry
  <1>5. \A n \in Declared' : n \in Names /\ table'[n] \in Entry
    BY <1>4, Zenon DEF Inserted, Declared, WalkInv, TypeOK
  <1>6. TypeOK'
    <2>1. next' \in 1 .. Len(input'.entries) + 1
      BY <1>1, <1>2
    <2> QED BY <1>2, <1>3, <1>5, <2>1 DEF TypeOK
  <1>7. Indexing' /\ Visiting' /\ WalkPath' /\ Progress'
    BY <1>2, <1>3, Zenon DEF Indexing, Visiting, WalkPath, Progress
  <1>8. Finished'
    BY <1>2, Zenon DEF Finished, Cyclic
  <1>9. Within' /\ Ended'
    BY <1>2, <1>3, Zenon DEF Within, Ended
  <1> QED BY <1>2, <1>6, <1>7, <1>8, <1>9, Zenon DEF WalkInv

\* Elements of a sequence that grows.
LEMMA AddedFacts ==
    ASSUME collected \in Seq(Actions), NEW a \in Actions
    PROVE  /\ Added(a) \in Seq(Actions)
           /\ Elements(Added(a)) = Elements(collected) \cup {a}
  <1>1. CASE a \in Elements(collected)
    BY <1>1, Zenon DEF Added
  <1>2. CASE a \notin Elements(collected)
    BY <1>2, ElementsOfAppend DEF Added
  <1> QED BY <1>1, <1>2, Zenon

\* What a call of collect changes in its frame.
LEMMA FrameFacts ==
    ASSUME NEW f \in Frames
    PROVE  /\ f.role \in Declared /\ f.action \in Nat \ {0} /\ f.parent \in Nat \ {0}
           /\ f = [role |-> f.role, action |-> f.action, parent |-> f.parent]
  BY Zenon DEF Frames

LEMMA NextAction ==
    ASSUME NEW s \in Seq(Frames), NEW n \in 1 .. Len(s)
    PROVE  LET t == [s EXCEPT ![n].action = @ + 1] IN
           /\ t \in Seq(Frames) /\ Len(t) = Len(s) /\ DOMAIN t = 1 .. Len(s)
           /\ \A i \in 1 .. Len(s) :
                 /\ t[i].role = s[i].role
                 /\ t[i].parent = s[i].parent
                 /\ t[i].action = IF i = n THEN s[i].action + 1 ELSE s[i].action
  <1> DEFINE f == [role |-> s[n].role, action |-> s[n].action + 1, parent |-> s[n].parent]
  <1>1. s[n] \in Frames
    BY SeqFacts, Zenon
  <1>2. f \in Frames /\ f = [s[n] EXCEPT !.action = @ + 1]
    <2>1. f \in Frames
      BY <1>1, FrameFacts DEF Frames
    <2>2. s[n] = [role |-> s[n].role, action |-> s[n].action, parent |-> s[n].parent]
      BY <1>1, FrameFacts, Zenon
    <2>3. f = [s[n] EXCEPT !.action = @ + 1]
      BY <2>2
    <2> QED BY <2>1, <2>3, Zenon
  <1>3. f.role = s[n].role /\ f.action = s[n].action + 1 /\ f.parent = s[n].parent
    BY Zenon
  <1>4. [s EXCEPT ![n].action = @ + 1] = [s EXCEPT ![n] = f]
    BY <1>2, Zenon
  <1> HIDE DEF f
  <1> QED BY <1>2, <1>3, <1>4

LEMMA NextParent ==
    ASSUME NEW s \in Seq(Frames), NEW n \in 1 .. Len(s)
    PROVE  LET t == [s EXCEPT ![n].parent = @ + 1] IN
           /\ t \in Seq(Frames) /\ Len(t) = Len(s) /\ DOMAIN t = 1 .. Len(s)
           /\ \A i \in 1 .. Len(s) :
                 /\ t[i].role = s[i].role
                 /\ t[i].action = s[i].action
                 /\ t[i].parent = IF i = n THEN s[i].parent + 1 ELSE s[i].parent
  <1> DEFINE f == [role |-> s[n].role, action |-> s[n].action, parent |-> s[n].parent + 1]
  <1>1. s[n] \in Frames
    BY SeqFacts, Zenon
  <1>2. f \in Frames /\ f = [s[n] EXCEPT !.parent = @ + 1]
    <2>1. f \in Frames
      BY <1>1, FrameFacts DEF Frames
    <2>2. s[n] = [role |-> s[n].role, action |-> s[n].action, parent |-> s[n].parent]
      BY <1>1, FrameFacts, Zenon
    <2>3. f = [s[n] EXCEPT !.parent = @ + 1]
      BY <2>2
    <2> QED BY <2>1, <2>3, Zenon
  <1>3. f.role = s[n].role /\ f.action = s[n].action /\ f.parent = s[n].parent + 1
    BY Zenon
  <1>4. [s EXCEPT ![n].parent = @ + 1] = [s EXCEPT ![n] = f]
    BY <1>2, Zenon
  <1> HIDE DEF f
  <1> QED BY <1>2, <1>3, <1>4

LEMMA AddActionInv == WalkInv /\ AddAction => WalkInv'
  <1> SUFFICES ASSUME WalkInv, AddAction PROVE WalkInv'
    BY Zenon
  <1> DEFINE n == Len(stack)
             a == Allow(Top.role)[Top.action]
  <1>1. TypeOK /\ input \in Inputs
    BY Zenon DEF WalkInv
  <1>2. /\ n \in Nat /\ n >= 1 /\ DOMAIN stack = 1 .. n
        /\ Top = stack[n] /\ Top.role \in Declared
        /\ \A i \in 1 .. n : stack[i] \in Frames
        /\ stack \in Seq(Frames)
    <2>1. stack \in Seq(Frames) /\ stack # << >>
      BY <1>1, Zenon DEF TypeOK, AddAction, Running
    <2>2. stack[n] \in Frames /\ n \in Nat /\ n >= 1 /\ \A i \in 1 .. n : stack[i] \in Frames
      BY <2>1, SeqFacts
    <2>3. stack[n].role \in Declared
      BY <2>2, Zenon DEF Frames
    <2> QED BY <2>1, <2>2, <2>3 DEF Top
  <1>3. /\ \A m \in Declared : Parents(m) \in Seq(Names) /\ Allow(m) \in Seq(Actions)
        /\ Declared \subseteq Names
    BY <1>1, GraphFacts, Zenon
  <1>4. a \in Actions /\ Top.action \in 1 .. Len(Allow(Top.role))
    <2>1. Top.action \in Nat \ {0}
      BY <1>2 DEF Frames
    <2>2. Allow(Top.role) \in Seq(Actions)
      BY <1>2, <1>3, Zenon
    <2>3. Top.action \in 1 .. Len(Allow(Top.role))
      BY <2>1, <2>2 DEF AddAction
    <2> QED BY <2>2, <2>3, SeqFacts, Zenon
  <1>5. collected' \in Seq(Actions) /\ Elements(collected)' = Elements(collected) \cup {a}
    <2>1. collected' = Added(a) /\ collected \in Seq(Actions)
      BY <1>1, Zenon DEF AddAction, TypeOK
    <2>2. Added(a) \in Seq(Actions) /\ Elements(Added(a)) = Elements(collected) \cup {a}
      BY <1>4, <2>1, AddedFacts, Zenon
    <2> HIDE DEF a
    <2> QED BY <2>1, <2>2, Zenon DEF Elements
  <1>6. /\ Len(stack') = n /\ DOMAIN stack' = 1 .. n
        /\ \A i \in 1 .. n :
              /\ stack'[i].role = stack[i].role
              /\ stack'[i].parent = stack[i].parent
              /\ stack'[i].action = IF i = n THEN stack[i].action + 1 ELSE stack[i].action
        /\ stack' \in Seq(Frames)
    <2>1. n \in 1 .. Len(stack)
      BY <1>2
    <2>2. stack' = [stack EXCEPT ![n].action = @ + 1]
      BY Zenon DEF AddAction
    <2> QED BY <1>2, <2>1, <2>2, NextAction, Zenon
  <1>7. UNCHANGED <<input, next, table, visiting, visited, result>> /\ result = "pending" /\ stack # << >>
    BY Zenon DEF AddAction, Running
  <1>8. /\ Declared' = Declared /\ ParentSets' = ParentSets /\ Reached' = Reached
        /\ \A m : Allow(m)' = Allow(m) /\ Parents(m)' = Parents(m)
    BY <1>7, GraphStays, Zenon
  <1>9. n = Len(stack) /\ a = Allow(Top.role)[Top.action]
    BY Zenon
  <1> HIDE DEF n, a
  <1>10. TypeOK'
    <2>1. stack' \in Seq(Frames')
      BY <1>6, <1>8, Zenon DEF Frames
    <2>2. ASSUME NEW i \in 1 .. n
          PROVE  /\ stack'[i].action <= Len(Allow(stack'[i].role)) + 1
                 /\ stack'[i].parent <= Len(Parents(stack'[i].role)) + 1
      <3>1. stack[i].action <= Len(Allow(stack[i].role)) + 1 /\ stack[i].parent <= Len(Parents(stack[i].role)) + 1
        BY <1>1, <1>2, Zenon DEF TypeOK
      <3>2. stack[i].role \in Declared /\ stack[i].action \in Nat
        BY <1>2, Zenon DEF Frames
      <3>3. Len(Allow(stack[i].role)) \in Nat
        BY <3>2, <1>3
      <3>4. CASE i = n
        <4>1. stack[n].action <= Len(Allow(stack[n].role))
          BY <1>2, <1>4
        <4> QED BY <3>1, <3>2, <3>3, <3>4, <4>1, <1>6, SMTT(20)
      <3>5. CASE i # n
        BY <3>1, <3>5, <1>6, <1>8, Zenon
      <3> QED BY <3>4, <3>5, Zenon
    <2> QED BY <1>1, <1>5, <1>6, <1>7, <1>8, <2>1, <2>2, SMTT(20) DEF TypeOK
  <1>11. Indexing' /\ Visiting'
    <2>1. Indexing'
      BY <1>2, <1>7, Zenon DEF WalkInv, Indexing
    <2>2. {stack'[i].role : i \in DOMAIN stack'} = {stack[i].role : i \in DOMAIN stack}
      BY <1>2, <1>6
    <2>3. stack' # << >> /\ stack'[1].role = stack[1].role
      BY <1>2, <1>6
    <2> QED BY <1>2, <1>6, <1>7, <2>1, <2>2, <2>3, Zenon DEF WalkInv, Visiting
  <1>12. WalkPath'
    <2> SUFFICES ASSUME NEW i \in 1 .. n, i < n
                 PROVE  /\ stack'[i].action > Len(Allow(stack'[i].role))
                        /\ stack'[i].parent > 1
                        /\ stack'[i].parent - 1 <= Len(Parents(stack'[i].role))
                        /\ Parents(stack'[i].role)[stack'[i].parent - 1] = stack'[i + 1].role
      BY <1>6, <1>7, Zenon DEF WalkPath, Allow, Parents
    <2>1. i + 1 \in 1 .. n /\ i # n
      BY <1>2
    <2> QED BY <1>2, <1>6, <1>8, <1>9, <2>1, Zenon DEF WalkInv, WalkPath
  <1>13. Progress'
    <2> SUFFICES ASSUME NEW i \in 1 .. n
                 PROVE  /\ \A b \in 1 .. stack'[i].action - 1 : Allow(stack'[i].role)[b] \in Elements(collected)'
                        /\ \A j \in 1 .. stack'[i].parent - 1 :
                              \/ Parents(stack'[i].role)[j] \in visited'
                              \/ i < Len(stack') /\ j = stack'[i].parent - 1
      BY <1>6, <1>7, Zenon DEF Progress, Allow, Parents
    <2>1. /\ \A b \in 1 .. stack[i].action - 1 : Allow(stack[i].role)[b] \in Elements(collected)
          /\ \A j \in 1 .. stack[i].parent - 1 :
                \/ Parents(stack[i].role)[j] \in visited
                \/ i < Len(stack) /\ j = stack[i].parent - 1
      BY <1>2, Zenon DEF WalkInv, Progress
    <2>2. ASSUME NEW b \in 1 .. stack'[i].action - 1
          PROVE  Allow(stack[i].role)[b] \in Elements(collected)'
      <3>1. stack[i].action \in Nat
        BY <1>2, Zenon DEF Frames
      <3>2. CASE i = n
        <4>1. b \in 1 .. stack[n].action - 1 \/ b = stack[n].action
          BY <1>6, <3>1, <3>2
        <4>2. Allow(stack[n].role)[stack[n].action] \in Elements(collected)'
          BY <1>2, <1>5, <1>9, Zenon
        <4> QED BY <1>5, <2>1, <3>2, <4>1, <4>2, Zenon
      <3>3. CASE i # n
        BY <1>5, <1>6, <2>1, <3>1, <3>3, Zenon
      <3> QED BY <3>2, <3>3, Zenon
    <2> QED BY <1>6, <1>7, <1>8, <1>9, <2>1, <2>2, Zenon
  <1>14. Finished' /\ Within' /\ Ended'
    <2>1. Finished'
      BY <1>5, <1>7, <1>8, Zenon DEF WalkInv, Finished
    <2>2. a \in Elements(Allow(Top.role)) /\ Top.role \in Reached \cap Declared
      <3>1. Top.role \in visiting
        BY <1>2 DEF WalkInv, Visiting
      <3>2. Top.role \in Reached \cap Declared
        BY <3>1, <1>2, Zenon DEF WalkInv, Within
      <3>3. Allow(Top.role) \in Seq(Actions)
        BY <1>2, <1>3, Zenon
      <3>4. Top.action \in DOMAIN Allow(Top.role)
        BY <3>3, <1>4
      <3> QED BY <3>2, <3>4, <1>9, Zenon DEF Elements
    <2>3. Within'
      BY <1>5, <1>7, <1>8, <2>2 DEF WalkInv, Within
    <2>4. Ended'
      BY <1>7, Zenon DEF Ended
    <2> QED BY <2>1, <2>3, <2>4, Zenon
  <1> QED BY <1>1, <1>7, <1>10, <1>11, <1>12, <1>13, <1>14, Zenon DEF WalkInv

LEMMA LeaveInv == WalkInv /\ Leave => WalkInv'
  <1> SUFFICES ASSUME WalkInv, Leave PROVE WalkInv'
    BY Zenon
  <1> DEFINE n == Len(stack)
             r == Top.role
  <1>1. TypeOK /\ input \in Inputs
    BY Zenon DEF WalkInv
  <1>2. /\ n \in Nat /\ n >= 1 /\ DOMAIN stack = 1 .. n /\ Top = stack[n]
        /\ \A i \in 1 .. n : stack[i] \in Frames
        /\ stack \in Seq(Frames)
    <2>1. stack \in Seq(Frames) /\ stack # << >>
      BY <1>1, Zenon DEF TypeOK, Leave, Running
    <2>2. n \in Nat /\ n >= 1 /\ \A i \in 1 .. n : stack[i] \in Frames
      BY <2>1, SeqFacts, Zenon
    <2> QED BY <2>1, <2>2 DEF Top
  <1>3. r \in Declared /\ r = stack[n].role
    BY <1>2, FrameFacts
  <1>4. /\ \A m \in Declared : Parents(m) \in Seq(Names) /\ Allow(m) \in Seq(Actions)
        /\ \A m \in Declared : ParentSets[m] = Elements(Parents(m))
        /\ DOMAIN ParentSets = Declared
    BY <1>1, GraphFacts, Zenon
  <1>5. /\ stack' \in Seq(Frames) /\ Len(stack') = n - 1 /\ DOMAIN stack' = 1 .. n - 1
        /\ \A i \in 1 .. n - 1 : stack'[i] = stack[i]
    BY <1>2 DEF Leave
  <1>6. /\ UNCHANGED <<input, next, table, collected>> /\ result = "pending" /\ stack # << >>
        /\ visiting' = visiting \ {r} /\ visited' = visited \cup {r}
        /\ result' = IF n = 1 THEN "ok" ELSE "pending"
    BY Zenon DEF Leave, Running
  <1>7. /\ Declared' = Declared /\ ParentSets' = ParentSets /\ Reached' = Reached
        /\ \A m : Allow(m)' = Allow(m) /\ Parents(m)' = Parents(m)
    BY <1>6, GraphStays
  \* The role is done: so are its parents and its own actions.
  <1>8. Elements(Parents(r)) \subseteq visited /\ Elements(Allow(r)) \subseteq Elements(collected)
    <2>1. /\ \A b \in 1 .. stack[n].action - 1 : Allow(r)[b] \in Elements(collected)
          /\ \A j \in 1 .. stack[n].parent - 1 : Parents(r)[j] \in visited
      BY <1>2, <1>3 DEF WalkInv, Progress
    <2>2. stack[n].action > Len(Allow(r)) /\ stack[n].parent > Len(Parents(r))
      BY <1>2, Zenon DEF Leave
    <2>3. stack[n].action \in Nat /\ stack[n].parent \in Nat
      BY <1>2, FrameFacts
    <2>4. Allow(r) \in Seq(Actions) /\ Parents(r) \in Seq(Names)
      BY <1>3, <1>4, Zenon
    <2>5. DOMAIN Allow(r) \subseteq 1 .. stack[n].action - 1
      BY <2>2, <2>3, <2>4
    <2>6. DOMAIN Parents(r) \subseteq 1 .. stack[n].parent - 1
      BY <2>2, <2>3, <2>4
    <2> QED BY <2>1, <2>5, <2>6, Zenon DEF Elements
  <1>9. r \in visiting /\ r \notin visited /\ \A i \in 1 .. n - 1 : stack[i].role # r
    BY <1>2, <1>3 DEF WalkInv, Visiting
  <1>10. n = Len(stack)
    BY Zenon
  <1> HIDE DEF n, r
  <1>11. TypeOK'
    <2>1. stack' \in Seq(Frames')
      BY <1>5, <1>7, Zenon DEF Frames
    <2>2. \A i \in 1 .. n - 1 :
             /\ stack'[i].action <= Len(Allow(stack'[i].role)) + 1
             /\ stack'[i].parent <= Len(Parents(stack'[i].role)) + 1
      <3>1. \A i \in 1 .. n - 1 : i \in DOMAIN stack
        BY <1>2
      <3> QED BY <1>1, <1>5, <3>1, Zenon DEF TypeOK
    <2>3. \A i \in 1 .. n - 1 :
             /\ stack'[i].action <= Len(table'[stack'[i].role].allow) + 1
             /\ stack'[i].parent <= Len(table'[stack'[i].role].inherits) + 1
      BY <1>6, <2>2, Zenon DEF Allow, Parents
    <2>4. visiting' \subseteq Declared /\ visited' \subseteq Declared
      BY <1>1, <1>3, <1>6, Zenon DEF TypeOK
    <2>5. /\ next' \in 1 .. Len(input'.entries) + 1
          /\ \A m \in Declared' : m \in Names /\ table'[m] \in Entry
          /\ collected' \in Seq(Actions) /\ result' \in {"pending", "ok", "cycle", "unknown"}
      BY <1>1, <1>6, <1>7, Zenon DEF TypeOK
    <2> QED BY <1>5, <1>7, <2>1, <2>3, <2>4, <2>5, Zenon DEF TypeOK, Allow, Parents
  <1>12. Indexing'
    BY <1>6, <1>10, Zenon DEF WalkInv, Indexing
  <1>13. Visiting'
    <2>1. visiting' = {stack'[i].role : i \in DOMAIN stack'}
      <3>1. {stack[i].role : i \in 1 .. n} \ {r} = {stack[i].role : i \in 1 .. n - 1}
        BY <1>2, <1>3, <1>9
      <3>2. {stack'[i].role : i \in DOMAIN stack'} = {stack[i].role : i \in 1 .. n - 1}
        BY <1>5, Zenon
      <3> QED BY <1>2, <1>6, <3>1, <3>2, Zenon DEF WalkInv, Visiting
    <2>2. stack' = << >> => n = 1
      BY <1>2, <1>5
    <2>3. stack' # << >> => n > 1 /\ stack'[1] = stack[1]
      BY <1>2, <1>5
    <2>4. \A i, j \in DOMAIN stack' : stack'[i].role = stack'[j].role => i = j
      <3>1. \A i \in 1 .. n - 1 : i \in DOMAIN stack
        BY <1>2
      <3> QED BY <1>5, <3>1, Zenon DEF WalkInv, Visiting
    <2>5. visiting' \cap visited' = {}
      BY <1>6, Zenon DEF WalkInv, Visiting
    <2>6. ~(stack' = << >> /\ result' = "pending")
      BY <1>6, <2>2, Zenon
    <2>7. stack' # << >> => stack'[1].role = input'.target
      BY <1>6, <2>3, Zenon DEF WalkInv, Visiting
    <2> QED BY <2>1, <2>4, <2>5, <2>6, <2>7, Zenon DEF Visiting
  <1>14. WalkPath'
    <2> SUFFICES ASSUME NEW i \in 1 .. n - 1, i < n - 1
                 PROVE  /\ stack'[i].action > Len(Allow(stack'[i].role))
                        /\ stack'[i].parent > 1
                        /\ stack'[i].parent - 1 <= Len(Parents(stack'[i].role))
                        /\ Parents(stack'[i].role)[stack'[i].parent - 1] = stack'[i + 1].role
      BY <1>5, <1>6, Zenon DEF WalkPath, Allow, Parents
    <2>1. i \in 1 .. n /\ i + 1 \in 1 .. n - 1 /\ i < n
      BY <1>2
    <2> QED BY <1>2, <1>5, <1>10, <2>1, Zenon DEF WalkInv, WalkPath
  <1>15. Progress'
    <2> SUFFICES ASSUME NEW i \in 1 .. n - 1
                 PROVE  /\ \A b \in 1 .. stack'[i].action - 1 : Allow(stack'[i].role)[b] \in Elements(collected)
                        /\ \A j \in 1 .. stack'[i].parent - 1 :
                              \/ Parents(stack'[i].role)[j] \in visited'
                              \/ i < n - 1 /\ j = stack'[i].parent - 1
      BY <1>5, <1>6, Zenon DEF Progress, Allow, Parents, Elements
    <2>1. i \in 1 .. n /\ i < n
      BY <1>2
    <2>2. /\ \A b \in 1 .. stack[i].action - 1 : Allow(stack[i].role)[b] \in Elements(collected)
          /\ \A j \in 1 .. stack[i].parent - 1 :
                Parents(stack[i].role)[j] \in visited \/ j = stack[i].parent - 1
      BY <1>2, <2>1, Zenon DEF WalkInv, Progress
    <2>3. Parents(stack[i].role)[stack[i].parent - 1] = stack[i + 1].role
      BY <1>2, <1>10, <2>1, Zenon DEF WalkInv, WalkPath
    <2>4. CASE i < n - 1
      BY <1>5, <1>6, <2>2, <2>4, Zenon
    <2>5. CASE i = n - 1
      <3>1. stack[i + 1].role = r
        BY <1>2, <1>3, <2>5
      <3> QED BY <1>5, <1>6, <2>2, <2>3, <3>1, Zenon
    <2> QED BY <1>2, <2>4, <2>5
  <1>16. Finished'
    <2>1. ASSUME NEW v \in visited'
          PROVE  Elements(Parents(v)) \subseteq visited' /\ Elements(Allow(v)) \subseteq Elements(collected)
      BY <1>6, <1>8, Zenon DEF WalkInv, Finished
    \* A cycle through the role would need a role of it that was visited first.
    <2>2. ASSUME NEW T \in SUBSET visited', Cyclic(ParentSets, T) PROVE FALSE
      <3>1. T \ {r} \in SUBSET visited
        BY <1>6, Zenon
      <3>2. \A m \in T \ {r} : ParentSets[m] \subseteq visited
        BY <3>1, <1>1, <1>4, Zenon DEF WalkInv, Finished, TypeOK
      <3>3. ParentSets[r] \subseteq visited
        BY <1>3, <1>4, <1>8, Zenon
      <3>4. Cyclic(ParentSets, T \ {r})
        <4>1. \A m \in T : m \in DOMAIN ParentSets /\ ParentSets[m] \cap T # {} /\ ParentSets[m] \subseteq visited
          BY <2>2, <3>2, <3>3, Zenon DEF Cyclic
        <4>2. \A m \in T : ParentSets[m] \cap (T \ {r}) # {}
          BY <1>9, <4>1, Zenon
        <4>3. T # {}
          BY <2>2, Zenon DEF Cyclic
        <4>4. T \ {r} # {}
          BY <4>2, <4>3, Zenon
        <4> QED BY <4>1, <4>2, <4>4, Zenon DEF Cyclic
      <3> QED BY <3>1, <3>4, Zenon DEF WalkInv, Finished
    <2>3. Elements(collected)' = Elements(collected)
      BY <1>6, Zenon DEF Elements
    <2> QED BY <1>7, <2>1, <2>2, <2>3, Zenon DEF Finished
  <1>17. Within'
    <2>1. visiting' \cup visited' \subseteq Reached
      BY <1>6, <1>9, Zenon DEF WalkInv, Within
    <2> QED BY <1>6, <1>7, <2>1, Zenon DEF WalkInv, Within
  <1>18. Ended'
    <2>1. n = 1 => stack' = << >> /\ r = input.target
      BY <1>2, <1>3, <1>5, <1>6 DEF WalkInv, Visiting
    <2> QED BY <1>6, <2>1, Zenon DEF Ended
  <1> QED BY <1>1, <1>6, <1>11, <1>12, <1>13, <1>14, <1>15, <1>16, <1>17, <1>18, Zenon DEF WalkInv

\* The situations in which collect is called: first of all for the target,
\* then for the next parent of the role of the last active call.
Called(role) ==
    \/ stack = << >> /\ role = input.target
    \/ /\ stack # << >>
       /\ Top.action > Len(Allow(Top.role))
       /\ Top.parent <= Len(Parents(Top.role))
       /\ role = Parents(Top.role)[Top.parent]

LEMMA CalledFacts ==
    ASSUME WalkInv, NEW role, Called(role)
    PROVE  /\ role \in Reached
           /\ stack # << >> =>
                 /\ Len(stack) \in 1 .. Len(stack) /\ Top = stack[Len(stack)] /\ Top \in Frames
                 /\ Top.role \in Declared /\ Top.role \in Reached
                 /\ Top.parent \in 1 .. Len(Parents(Top.role))
                 /\ role \in ParentSets[Top.role]
  <1>1. TypeOK /\ input \in Inputs
    BY Zenon DEF WalkInv
  <1>2. CASE stack = << >>
    BY <1>1, <1>2, ReachedFacts, Zenon DEF Called
  <1>3. CASE stack # << >>
    <2>1. Len(stack) \in 1 .. Len(stack) /\ Top = stack[Len(stack)] /\ Top \in Frames /\ DOMAIN stack = 1 .. Len(stack)
      <3>1. stack \in Seq(Frames)
        BY <1>1, Zenon DEF TypeOK
      <3>2. Len(stack) \in Nat /\ Len(stack) >= 1 /\ DOMAIN stack = 1 .. Len(stack)
        BY <1>3, <3>1, SeqFacts, Zenon
      <3>3. stack[Len(stack)] \in Frames
        BY <3>1, <3>2, SeqFacts
      <3> QED BY <3>2, <3>3 DEF Top
    <2>2. Top.role \in Declared /\ Top.parent \in Nat \ {0}
      BY <2>1, FrameFacts, Zenon
    <2>3. Top.role \in Reached
      BY <2>1, Zenon DEF WalkInv, Visiting, Within
    <2>4. Parents(Top.role) \in Seq(Names) /\ ParentSets[Top.role] = Elements(Parents(Top.role))
      BY <1>1, <2>2, GraphFacts, Zenon
    <2>5. Top.parent \in 1 .. Len(Parents(Top.role)) /\ role = Parents(Top.role)[Top.parent]
      BY <1>3, <2>2, <2>4 DEF Called
    <2>6. role \in Elements(Parents(Top.role))
      BY <2>4, <2>5 DEF Elements
    <2>7. role \in Reached
      BY <1>1, <2>2, <2>3, <2>6, ReachedFacts, Zenon
    <2> QED BY <2>1, <2>2, <2>3, <2>4, <2>5, <2>6, <2>7, Zenon
  <1> QED BY <1>2, <1>3, Zenon

\* The active calls from the one for a role on, and a call for that role
\* again: a cycle.
LEMMA CycleFound ==
    ASSUME WalkInv, NEW role, Called(role), role \in visiting
    PROVE  \E S \in SUBSET Reached : Cyclic(ParentSets, S)
  <1>1. TypeOK /\ input \in Inputs /\ stack \in Seq(Frames)
    BY Zenon DEF WalkInv, TypeOK
  <1>2. Len(stack) \in Nat /\ DOMAIN stack = 1 .. Len(stack) /\ \A i \in 1 .. Len(stack) : stack[i] \in Frames
    BY <1>1, SeqFacts, Zenon
  <1>3. PICK k \in 1 .. Len(stack) : stack[k].role = role
    BY <1>2, Zenon DEF WalkInv, Visiting
  <1>4. stack # << >>
    BY <1>2, <1>3
  <1> DEFINE S == {stack[i].role : i \in k .. Len(stack)}
  <1>5. S \subseteq visiting /\ role \in S
    BY <1>2, <1>3 DEF WalkInv, Visiting
  <1>6. S \in SUBSET Reached
    BY <1>5, Zenon DEF WalkInv, Within
  <1>7. ASSUME NEW i \in k .. Len(stack)
        PROVE  stack[i].role \in DOMAIN ParentSets /\ ParentSets[stack[i].role] \cap S # {}
    <2>1. i \in 1 .. Len(stack) /\ stack[i].role \in Declared
      BY <1>2, FrameFacts
    <2>2. /\ DOMAIN ParentSets = Declared
          /\ ParentSets[stack[i].role] = Elements(Parents(stack[i].role))
          /\ Parents(stack[i].role) \in Seq(Names)
      BY <1>1, <2>1, GraphFacts, Zenon
    <2>3. CASE i = Len(stack)
      <3>1. role \in ParentSets[Top.role]
        BY <1>4, CalledFacts, Zenon
      <3>2. Top = stack[i]
        BY <2>3, Zenon DEF Top
      <3> QED BY <1>5, <2>1, <2>2, <3>1, <3>2, Zenon
    <2>4. CASE i # Len(stack)
      <3>1. i < Len(stack) /\ i + 1 \in k .. Len(stack)
        <4>1. Len(stack) \in Nat /\ k \in Nat
          BY <1>2
        <4> QED BY <2>4, <4>1
      <3>2. /\ stack[i].parent > 1
            /\ stack[i].parent - 1 <= Len(Parents(stack[i].role))
            /\ Parents(stack[i].role)[stack[i].parent - 1] = stack[i + 1].role
        BY <1>2, <2>1, <3>1, Zenon DEF WalkInv, WalkPath
      <3>3. stack[i].parent \in Nat
        BY <1>2, <2>1, FrameFacts, Zenon
      <3>4. stack[i].parent - 1 \in DOMAIN Parents(stack[i].role)
        BY <2>2, <3>2, <3>3
      <3>5. stack[i + 1].role \in Elements(Parents(stack[i].role))
        BY <3>2, <3>4, Zenon DEF Elements
      <3> QED BY <2>1, <2>2, <3>1, <3>5, Zenon
    <2> QED BY <2>3, <2>4, Zenon
  <1>8. Cyclic(ParentSets, S)
    BY <1>5, <1>7, Zenon DEF Cyclic
  <1> HIDE DEF S
  <1> QED BY <1>6, <1>8, Zenon

\* An error changes nothing but the result.
LEMMA ErrorInv ==
    ASSUME WalkInv, UNCHANGED <<input, next, table, stack, visiting, visited, collected>>,
           next > Len(input.entries), result = "pending",
           \/ result' = "cycle" /\ \E S \in SUBSET Reached : Cyclic(ParentSets, S)
           \/ result' = "unknown" /\ ~(Reached \subseteq Declared)
    PROVE  WalkInv'
  <1>1. /\ Declared' = Declared /\ ParentSets' = ParentSets /\ Reached' = Reached
        /\ \A m : Allow(m)' = Allow(m) /\ Parents(m)' = Parents(m)
    BY GraphStays, Zenon
  <1>2. TypeOK'
    BY <1>1, Zenon DEF WalkInv, TypeOK, Frames, Declared, Allow, Parents
  <1>3. Indexing'
    <2>1. Len(input.entries) \in Nat /\ next \in Nat
      BY InputsAssumption DEF WalkInv, TypeOK
    <2> QED BY <2>1 DEF Indexing
  <1>4. Visiting' /\ WalkPath' /\ Progress'
    <2>1. Visiting'
      BY Zenon DEF WalkInv, Visiting
    <2>2. WalkPath'
      BY <1>1, Zenon DEF WalkInv, WalkPath
    <2>3. Progress'
      <3>1. Elements(collected)' = Elements(collected)
        BY Zenon DEF Elements
      <3> SUFFICES ASSUME NEW i \in DOMAIN stack
                   PROVE  /\ \A b \in 1 .. stack[i].action - 1 :
                                Allow(stack[i].role)[b] \in Elements(collected)
                          /\ \A j \in 1 .. stack[i].parent - 1 :
                                \/ Parents(stack[i].role)[j] \in visited
                                \/ i < Len(stack) /\ j = stack[i].parent - 1
        BY <1>1, <3>1, Zenon DEF Progress
      <3> QED BY Zenon DEF WalkInv, Progress
    <2> QED BY <2>1, <2>2, <2>3, Zenon
  <1>5. Finished' /\ Within'
    <2>1. Elements(collected)' = Elements(collected)
      BY Zenon DEF Elements
    <2> QED BY <1>1, <2>1, Zenon DEF WalkInv, Finished, Within
  <1>6. Ended'
    BY <1>1, Zenon DEF Ended
  <1> QED BY <1>2, <1>3, <1>4, <1>5, <1>6, Zenon DEF WalkInv

\* A parent that was visited before: the caller moves on.
LEMMA AgainInv ==
    ASSUME WalkInv, NEW role, Called(role), role \in visited, result = "pending",
           stack' = Caller, UNCHANGED <<input, next, table, visiting, visited, collected, result>>
    PROVE  WalkInv'
  <1> DEFINE n == Len(stack)
  <1>1. TypeOK /\ input \in Inputs /\ stack \in Seq(Frames)
    BY Zenon DEF WalkInv, TypeOK
  <1>2. stack # << >>
    BY Zenon DEF WalkInv, Visiting
  <1>3. /\ n \in Nat /\ n >= 1 /\ DOMAIN stack = 1 .. n /\ n \in 1 .. n
        /\ \A i \in 1 .. n : stack[i] \in Frames
    BY <1>1, <1>2, SeqFacts
  <1>4. /\ Top = stack[n] /\ stack[n].parent \in 1 .. Len(Parents(stack[n].role))
        /\ stack[n].role \in Declared
    BY <1>2, CalledFacts, Zenon DEF Top
  <1>5. role = Parents(stack[n].role)[stack[n].parent]
    BY <1>2, <1>4, Zenon DEF Called
  <1>6. /\ stack' \in Seq(Frames) /\ Len(stack') = n /\ DOMAIN stack' = 1 .. n
        /\ \A i \in 1 .. n :
              /\ stack'[i].role = stack[i].role
              /\ stack'[i].action = stack[i].action
              /\ stack'[i].parent = IF i = n THEN stack[i].parent + 1 ELSE stack[i].parent
    <2>1. stack' = [stack EXCEPT ![n].parent = @ + 1]
      BY <1>2, Zenon DEF Caller
    <2> QED BY <1>1, <1>3, <2>1, NextParent
  <1>7. /\ Declared' = Declared /\ ParentSets' = ParentSets /\ Reached' = Reached
        /\ \A m : Allow(m)' = Allow(m) /\ Parents(m)' = Parents(m)
    BY GraphStays, Zenon
  <1>8. \A i \in 1 .. n : stack[i].action \in Nat /\ stack[i].parent \in Nat
    BY <1>3, FrameFacts, Zenon
  <1>9. n = Len(stack)
    BY Zenon
  <1> HIDE DEF n
  <1>10. TypeOK'
    <2>1. stack' \in Seq(Frames')
      BY <1>6, <1>7, Zenon DEF Frames
    <2>2. ASSUME NEW i \in 1 .. n
          PROVE  /\ stack'[i].action <= Len(Allow(stack'[i].role)) + 1
                 /\ stack'[i].parent <= Len(Parents(stack'[i].role)) + 1
      <3>1. stack[i].action <= Len(Allow(stack[i].role)) + 1 /\ stack[i].parent <= Len(Parents(stack[i].role)) + 1
        BY <1>1, <1>3, Zenon DEF TypeOK
      <3>2. CASE i = n
        <4>1. Parents(stack[n].role) \in Seq(Names)
          BY <1>1, <1>4, GraphFacts, Zenon
        <4>2. stack[n].parent <= Len(Parents(stack[n].role)) /\ Len(Parents(stack[n].role)) \in Nat
          BY <1>4, <4>1
        <4>3. stack[n].parent \in Nat
          BY <1>3, <1>8, Zenon
        <4> QED BY <1>6, <3>1, <3>2, <4>2, <4>3
      <3>3. CASE i # n
        BY <1>6, <3>1, <3>3, Zenon
      <3> QED BY <3>2, <3>3, Zenon
    <2>3. \A i \in 1 .. n :
             /\ stack'[i].action <= Len(table'[stack'[i].role].allow) + 1
             /\ stack'[i].parent <= Len(table'[stack'[i].role].inherits) + 1
      BY <2>2, Zenon DEF Allow, Parents
    <2> QED BY <1>1, <1>6, <1>7, <2>1, <2>3, Zenon DEF TypeOK, Allow, Parents
  <1>11. Indexing'
    BY <1>2, Zenon DEF WalkInv, Indexing
  <1>12. Visiting'
    <2>1. {stack'[i].role : i \in DOMAIN stack'} = {stack[i].role : i \in DOMAIN stack}
      BY <1>3, <1>6
    <2>2. stack' # << >> /\ stack'[1].role = stack[1].role
      BY <1>3, <1>6, SMTT(20)
    <2>3. \A i, j \in DOMAIN stack' : stack'[i].role = stack'[j].role => i = j
      BY <1>3, <1>6 DEF WalkInv, Visiting
    <2> QED BY <1>2, <2>1, <2>2, <2>3, Zenon DEF WalkInv, Visiting
  <1>13. WalkPath'
    <2> SUFFICES ASSUME NEW i \in 1 .. n, i < n
                 PROVE  /\ stack'[i].action > Len(Allow(stack'[i].role))
                        /\ stack'[i].parent > 1
                        /\ stack'[i].parent - 1 <= Len(Parents(stack'[i].role))
                        /\ Parents(stack'[i].role)[stack'[i].parent - 1] = stack'[i + 1].role
      BY <1>6, ZenonT(30) DEF WalkPath, Allow, Parents
    <2>1. i + 1 \in 1 .. n /\ i # n
      BY <1>3
    <2> QED BY <1>3, <1>6, <1>9, <2>1, Zenon DEF WalkInv, WalkPath
  <1>14. Progress'
    <2> SUFFICES ASSUME NEW i \in 1 .. n
                 PROVE  /\ \A b \in 1 .. stack'[i].action - 1 : Allow(stack'[i].role)[b] \in Elements(collected)
                        /\ \A j \in 1 .. stack'[i].parent - 1 :
                              \/ Parents(stack'[i].role)[j] \in visited
                              \/ i < n /\ j = stack'[i].parent - 1
      BY <1>6 DEF Progress, Allow, Parents, Elements
    <2>1. /\ \A b \in 1 .. stack[i].action - 1 : Allow(stack[i].role)[b] \in Elements(collected)
          /\ \A j \in 1 .. stack[i].parent - 1 :
                \/ Parents(stack[i].role)[j] \in visited
                \/ i < n /\ j = stack[i].parent - 1
      BY <1>3, <1>9, Zenon DEF WalkInv, Progress
    <2>2. CASE i = n
      <3>1. ASSUME NEW j \in 1 .. stack[n].parent PROVE Parents(stack[n].role)[j] \in visited
        <4>1. CASE j = stack[n].parent
          BY <1>5, <4>1, Zenon
        <4>2. CASE j # stack[n].parent
          <5>1. j \in 1 .. stack[n].parent - 1
            BY <1>3, <1>8, <4>2
          <5> QED BY <2>1, <2>2, <1>3, <5>1
        <4> QED BY <4>1, <4>2, Zenon
      <3>2. stack'[n].parent - 1 = stack[n].parent
        <4>1. stack'[n].parent = stack[n].parent + 1
          BY <1>3, <1>6, Zenon
        <4>2. stack[n].parent \in Nat
          BY <1>3, <1>8, Zenon
        <4> QED BY <4>1, <4>2
      <3> QED BY <1>6, <2>1, <2>2, <3>1, <3>2
    <2>3. CASE i # n
      BY <1>6, <2>1, <2>3, Zenon
    <2> QED BY <2>2, <2>3, Zenon
  <1>15. Finished' /\ Within'
    <2>1. Elements(collected)' = Elements(collected)
      BY Zenon DEF Elements
    <2> QED BY <1>7, <2>1, Zenon DEF WalkInv, Finished, Within
  <1>16. Ended'
    BY Zenon DEF Ended
  <1> QED BY <1>1, <1>10, <1>11, <1>12, <1>13, <1>14, <1>15, <1>16, Zenon DEF WalkInv

LEMMA Successor ==
    ASSUME NEW p \in Nat, NEW q, q = p + 1
    PROVE  /\ q - 1 = p /\ (p >= 1 => q > 1)
           /\ \A j \in 1 .. q - 1 : j \in 1 .. p - 1 \/ j = q - 1
  OBVIOUS

\* A role met for the first time: the call goes on the stack.
LEMMA EnterInv ==
    ASSUME WalkInv, NEW role, Called(role), role \notin visiting, role \notin visited, role \in Declared,
           result = "pending", next > Len(input.entries),
           stack' = Append(Caller, [role |-> role, action |-> 1, parent |-> 1]),
           visiting' = visiting \cup {role},
           UNCHANGED <<input, next, table, visited, collected, result>>
    PROVE  WalkInv'
  <1> DEFINE n == Len(stack)
             new == [role |-> role, action |-> 1, parent |-> 1]
  <1>1. TypeOK /\ input \in Inputs /\ stack \in Seq(Frames)
    BY Zenon DEF WalkInv, TypeOK
  <1>2. n \in Nat /\ DOMAIN stack = 1 .. n /\ \A i \in 1 .. n : stack[i] \in Frames
    BY <1>1, SeqFacts, Zenon
  <1>3. new \in Frames /\ new.role = role /\ new.action = 1 /\ new.parent = 1
    BY DEF Frames
  <1>4. /\ Caller \in Seq(Frames) /\ Len(Caller) = n
        /\ \A i \in 1 .. n :
              /\ Caller[i].role = stack[i].role
              /\ Caller[i].action = stack[i].action
              /\ Caller[i].parent = IF i = n THEN stack[i].parent + 1 ELSE stack[i].parent
    <2>1. CASE stack = << >>
      <3>1. n = 0
        BY <2>1, Zenon
      <3> QED BY <1>1, <2>1, <3>1 DEF Caller
    <2>2. CASE stack # << >>
      <3>1. Caller = [stack EXCEPT ![n].parent = @ + 1]
        BY <2>2, Zenon DEF Caller
      <3>2. n \in 1 .. n
        BY <1>1, <1>2, <2>2, SeqFacts
      <3> QED BY <1>1, <3>1, <3>2, NextParent, Zenon
    <2> QED BY <2>1, <2>2, Zenon
  <1>5. stack' = Append(Caller, new)
    BY Zenon
  <1>6. n = Len(stack)
    BY Zenon
  <1> HIDE DEF n, new
  <1>7. /\ stack' \in Seq(Frames) /\ Len(stack') = n + 1 /\ DOMAIN stack' = 1 .. n + 1
        /\ stack'[n + 1] = new
        /\ \A i \in 1 .. n : stack'[i] = Caller[i]
    BY <1>2, <1>3, <1>4, <1>5, SMTT(20)
  <1>8. /\ stack'[n + 1].role = role /\ stack'[n + 1].action = 1 /\ stack'[n + 1].parent = 1
        /\ \A i \in 1 .. n :
              /\ stack'[i].role = stack[i].role
              /\ stack'[i].action = stack[i].action
              /\ stack'[i].parent = IF i = n THEN stack[i].parent + 1 ELSE stack[i].parent
    BY <1>3, <1>4, <1>7
  <1>9. /\ Declared' = Declared /\ ParentSets' = ParentSets /\ Reached' = Reached
        /\ \A m : Allow(m)' = Allow(m) /\ Parents(m)' = Parents(m)
    BY GraphStays, Zenon
  <1>10. \A i \in 1 .. n : stack[i].action \in Nat /\ stack[i].parent \in Nat
    BY <1>2, FrameFacts
  \* The caller, if there is one., SMTT(20)
  <1>11. ASSUME n \in 1 .. n
         PROVE  /\ stack[n].action > Len(Allow(stack[n].role))
                /\ stack[n].parent \in Nat /\ stack[n].parent >= 1
                /\ stack[n].parent <= Len(Parents(stack[n].role))
                /\ Len(Parents(stack[n].role)) \in Nat
                /\ role = Parents(stack[n].role)[stack[n].parent]
    <2>1. stack # << >> /\ Top = stack[n]
      BY <1>1, <1>2, <1>6, <1>11 DEF Top
    <2>2. stack[n].parent \in 1 .. Len(Parents(stack[n].role)) /\ stack[n].role \in Declared
      BY <2>1, CalledFacts, Zenon
    <2>3. Parents(stack[n].role) \in Seq(Names)
      BY <1>1, <2>2, GraphFacts, Zenon
    <2>4. stack[n].action > Len(Allow(stack[n].role)) /\ role = Parents(stack[n].role)[stack[n].parent]
      BY <2>1, Zenon DEF Called
    <2> QED BY <2>2, <2>3, <2>4
  <1>12. /\ Allow(role) \in Seq(Actions) /\ Parents(role) \in Seq(Names)
    BY <1>1, GraphFacts, Zenon
  <1>13. TypeOK'
    <2>1. stack' \in Seq(Frames')
      BY <1>7, <1>9, Zenon DEF Frames
    <2>2. ASSUME NEW i \in 1 .. n + 1
          PROVE  /\ stack'[i].action <= Len(Allow(stack'[i].role)) + 1
                 /\ stack'[i].parent <= Len(Parents(stack'[i].role)) + 1
      <3>1. CASE i = n + 1
        <4>1. Len(Allow(role)) \in Nat /\ Len(Parents(role)) \in Nat
          BY <1>12
        <4>2. 1 <= Len(Allow(role)) + 1 /\ 1 <= Len(Parents(role)) + 1
          BY <4>1
        <4> QED BY <1>8, <3>1, <4>2, Zenon
      <3>2. CASE i # n + 1
        <4>1. i \in 1 .. n
          BY <1>2, <3>2
        <4>2. stack[i].action <= Len(Allow(stack[i].role)) + 1 /\ stack[i].parent <= Len(Parents(stack[i].role)) + 1
          BY <1>1, <1>2, <4>1, Zenon DEF TypeOK
        <4>3. CASE i = n
          <5>1. stack[n].parent + 1 <= Len(Parents(stack[n].role)) + 1
            BY <1>11, <4>1, <4>3
          <5> QED BY <1>8, <4>1, <4>2, <4>3, <5>1, Zenon
        <4>4. CASE i # n
          BY <1>8, <4>1, <4>2, <4>4, Zenon
        <4> QED BY <4>3, <4>4, Zenon
      <3> QED BY <3>1, <3>2, Zenon
    <2>3. \A i \in 1 .. n + 1 :
             /\ stack'[i].action <= Len(table'[stack'[i].role].allow) + 1
             /\ stack'[i].parent <= Len(table'[stack'[i].role].inherits) + 1
      BY <2>2, Zenon DEF Allow, Parents
    <2>4. visiting' \subseteq Declared
      BY <1>1, Zenon DEF TypeOK
    <2> QED BY <1>1, <1>7, <1>9, <2>1, <2>3, <2>4, Zenon DEF TypeOK, Allow, Parents
  <1>14. Indexing'
    <2>1. Len(input.entries) \in Nat /\ next \in Nat
      BY InputsAssumption DEF WalkInv, TypeOK
    <2> QED BY <2>1 DEF Indexing
  <1>15. Visiting'
    <2>1. visiting' = {stack'[i].role : i \in DOMAIN stack'}
      <3>1. visiting = {stack[i].role : i \in 1 .. n}
        BY <1>2, Zenon DEF WalkInv, Visiting
      <3>2. \A i \in 1 .. n + 1 : i \in 1 .. n \/ i = n + 1
        BY <1>2
      <3>3. \A i \in 1 .. n : i \in 1 .. n + 1
        BY <1>2
      <3>4. n + 1 \in 1 .. n + 1
        BY <1>2
      <3> QED BY <1>7, <1>8, <3>1, <3>2, <3>3, <3>4, SMTT(20)
    <2>2. ASSUME NEW i \in 1 .. n + 1, NEW j \in 1 .. n + 1, stack'[i].role = stack'[j].role
          PROVE  i = j
      <3>1. \A k \in 1 .. n : stack[k].role \in visiting
        BY <1>2, Zenon DEF WalkInv, Visiting
      <3>2. (i \in 1 .. n \/ i = n + 1) /\ (j \in 1 .. n \/ j = n + 1)
        BY <1>2
      <3>3. \A k, l \in 1 .. n : stack[k].role = stack[l].role => k = l
        BY <1>2, Zenon DEF WalkInv, Visiting
      <3>4. CASE i = n + 1
        BY <1>8, <2>2, <3>1, <3>2, <3>4, Zenon
      <3>5. CASE j = n + 1
        BY <1>8, <2>2, <3>1, <3>2, <3>5, Zenon
      <3>6. CASE i \in 1 .. n /\ j \in 1 .. n
        BY <1>8, <2>2, <3>3, <3>6, Zenon
      <3> QED BY <3>2, <3>4, <3>5, <3>6, Zenon
    <2>3. visiting' \cap visited' = {}
      BY Zenon DEF WalkInv, Visiting
    <2>4. stack' # << >>
      BY <1>2, <1>7
    <2>5. stack'[1].role = input'.target
      <3>1. CASE stack = << >>
        <4>1. n = 0
          BY <1>6, <3>1, Zenon
        <4> QED BY <1>8, <3>1, <4>1 DEF Called
      <3>2. CASE stack # << >>
        <4>1. 1 \in 1 .. n
          BY <1>1, <1>6, <3>2, SeqFacts
        <4> QED BY <1>8, <3>2, <4>1, Zenon DEF WalkInv, Visiting
      <3> QED BY <3>1, <3>2, Zenon
    <2> QED BY <1>7, <2>1, <2>2, <2>3, <2>4, <2>5, ZenonT(30) DEF Visiting
  <1>16. WalkPath'
    <2> SUFFICES ASSUME NEW i \in 1 .. n
                 PROVE  /\ stack'[i].action > Len(Allow(stack'[i].role))
                        /\ stack'[i].parent > 1
                        /\ stack'[i].parent - 1 <= Len(Parents(stack'[i].role))
                        /\ Parents(stack'[i].role)[stack'[i].parent - 1] = stack'[i + 1].role
      <3>1. \A i \in 1 .. n + 1 : i < n + 1 => i \in 1 .. n
        BY <1>2
      <3> QED BY <1>7, <3>1, ZenonT(30) DEF WalkPath, Allow, Parents
    <2>1. CASE i = n
      <3>1. stack'[n].parent - 1 = stack[n].parent /\ stack'[n].parent > 1
        <4>1. stack'[n].parent = stack[n].parent + 1
          BY <1>8, <2>1, Zenon
        <4>2. stack[n].parent \in Nat /\ stack[n].parent >= 1
          BY <1>11, <2>1, Zenon
        <4> QED BY <4>1, <4>2, Successor, Zenon
      <3> QED BY <1>8, <1>11, <2>1, <3>1, Zenon
    <2>2. CASE i # n
      <3>1. i < n /\ i + 1 \in 1 .. n
        BY <1>2, <2>2
      <3> QED BY <1>2, <1>6, <1>8, <2>2, <3>1, ZenonT(30) DEF WalkInv, WalkPath
    <2> QED BY <2>1, <2>2, Zenon
  <1>17. Progress'
    <2> SUFFICES ASSUME NEW i \in 1 .. n + 1
                 PROVE  /\ \A b \in 1 .. stack'[i].action - 1 : Allow(stack'[i].role)[b] \in Elements(collected)
                        /\ \A j \in 1 .. stack'[i].parent - 1 :
                              \/ Parents(stack'[i].role)[j] \in visited
                              \/ i < n + 1 /\ j = stack'[i].parent - 1
      BY <1>7 DEF Progress, Allow, Parents, Elements
    <2>1. CASE i = n + 1
      <3>1. stack'[i].action = 1 /\ stack'[i].parent = 1
        BY <1>8, <2>1, Zenon
      <3>2. 1 .. 1 - 1 = {}
        OBVIOUS
      <3>3. 1 .. stack'[i].action - 1 = {} /\ 1 .. stack'[i].parent - 1 = {}
        BY <3>1, <3>2, Zenon
      <3> QED BY <3>3, Zenon
    <2>2. CASE i # n + 1
      <3>1. i \in 1 .. n /\ i < n + 1
        BY <1>2, <2>2
      <3>2. /\ \A b \in 1 .. stack[i].action - 1 : Allow(stack[i].role)[b] \in Elements(collected)
            /\ \A j \in 1 .. stack[i].parent - 1 :
                  \/ Parents(stack[i].role)[j] \in visited
                  \/ i < n /\ j = stack[i].parent - 1
        BY <1>2, <1>6, <3>1, Zenon DEF WalkInv, Progress
      <3>3. CASE i = n
        <4>1. \A j \in 1 .. stack[n].parent - 1 : Parents(stack[n].role)[j] \in visited
          BY <3>2, <3>3
        <4>2. stack'[n].parent = stack[n].parent + 1 /\ stack[n].parent \in Nat
          BY <1>8, <1>10, <3>1, <3>3, Zenon
        <4>3. \A j \in 1 .. stack'[n].parent - 1 : j \in 1 .. stack[n].parent - 1 \/ j = stack'[n].parent - 1
          BY <4>2, Successor, Zenon
        <4> QED BY <1>8, <3>1, <3>2, <3>3, <4>1, <4>3, ZenonT(30)
      <3>4. CASE i # n
        BY <1>8, <3>1, <3>2, <3>4, Zenon
      <3> QED BY <3>3, <3>4, Zenon
    <2> QED BY <2>1, <2>2, ZenonT(30)
  <1>18. Finished' /\ Within'
    <2>1. Elements(collected)' = Elements(collected)
      BY SMTT(20) DEF Elements
    <2>2. role \in Reached
      BY CalledFacts, Zenon
    <2> QED BY <1>9, <2>1, <2>2, Zenon DEF WalkInv, Finished, Within
  <1>19. Ended'
    BY Zenon DEF Ended
  <1> QED BY <1>1, <1>13, <1>14, <1>15, <1>16, <1>17, <1>18, <1>19, Zenon DEF WalkInv

LEMMA CollectInv ==
    ASSUME WalkInv, NEW role, Called(role), Collect(role), UNCHANGED <<input, next, table>>,
           result = "pending", next > Len(input.entries)
    PROVE  WalkInv'
  <1>1. CASE role \in visiting
    <2>1. result' = "cycle" /\ UNCHANGED <<stack, visiting, visited, collected>>
      BY <1>1, Zenon DEF Collect
    <2> QED BY <1>1, <2>1, CycleFound, ErrorInv, Zenon
  <1>2. CASE role \notin visiting /\ role \in visited
    <2>1. stack' = Caller /\ UNCHANGED <<visiting, visited, collected, result>>
      BY <1>2, Zenon DEF Collect
    <2> QED BY <1>2, <2>1, AgainInv, Zenon
  <1>3. CASE role \notin visiting /\ role \notin visited /\ role \notin Declared
    <2>1. result' = "unknown" /\ UNCHANGED <<stack, visiting, visited, collected>>
      BY <1>3, Zenon DEF Collect
    <2>2. ~(Reached \subseteq Declared)
      BY <1>3, CalledFacts, Zenon
    <2> QED BY <2>1, <2>2, ErrorInv, Zenon
  <1>4. CASE role \notin visiting /\ role \notin visited /\ role \in Declared
    <2>1. /\ stack' = Append(Caller, [role |-> role, action |-> 1, parent |-> 1])
          /\ visiting' = visiting \cup {role}
          /\ UNCHANGED <<visited, collected, result>>
      BY <1>4, Zenon DEF Collect
    <2> QED BY <1>4, <2>1, EnterInv, Zenon
  <1> QED BY <1>1, <1>2, <1>3, <1>4, Zenon

\* Every step of the walk keeps the invariant.
LEMMA WalkStep == WalkInv /\ [Next]_vars => WalkInv'
  <1> SUFFICES ASSUME WalkInv, [Next]_vars PROVE WalkInv'
    BY Zenon
  <1>1. CASE Index
    BY <1>1, IndexInv, Zenon
  <1>2. CASE Start
    <2>1. Called(input.target)
      BY <1>2, Zenon DEF Start, Called
    <2> QED BY <1>2, <2>1, CollectInv, Zenon DEF Start
  <1>3. CASE AddAction
    BY <1>3, AddActionInv, Zenon
  <1>4. CASE VisitParent
    <2>1. Called(Parents(Top.role)[Top.parent])
      BY <1>4, Zenon DEF VisitParent, Running, Called
    <2>2. next > Len(input.entries)
      <3>1. ~(next <= Len(input.entries))
        BY <1>4, Zenon DEF WalkInv, Indexing, VisitParent, Running
      <3>2. next \in Nat /\ Len(input.entries) \in Nat
        BY InputsAssumption DEF WalkInv, TypeOK
      <3> QED BY <3>1, <3>2
    <2> QED BY <1>4, <2>1, <2>2, CollectInv, Zenon DEF VisitParent, Running
  <1>5. CASE Leave
    BY <1>5, LeaveInv, Zenon
  <1>6. CASE UNCHANGED vars
    <2>1. /\ Declared' = Declared /\ ParentSets' = ParentSets /\ Reached' = Reached
          /\ \A m : Allow(m)' = Allow(m) /\ Parents(m)' = Parents(m)
      BY <1>6, GraphStays DEF vars
    <2>2. TypeOK'
      BY <1>6, <2>1, ZenonT(30) DEF vars, WalkInv, TypeOK, Frames, Declared, Allow, Parents
    <2>3. Indexing' /\ Visiting' /\ WalkPath' /\ Progress'
      BY <1>6, SMTT(20) DEF vars, WalkInv, Indexing, Visiting, WalkPath, Progress, Allow, Parents, Elements
    <2>4. Elements(collected)' = Elements(collected)
      BY <1>6, Zenon DEF vars, Elements
    <2>5. Finished' /\ Within' /\ Ended'
      BY <1>6, <2>1, <2>4, Zenon DEF vars, WalkInv, Finished, Within, Ended
    <2> QED BY <1>6, <2>2, <2>3, <2>5, Zenon DEF vars, WalkInv
  <1> QED BY <1>1, <1>2, <1>3, <1>4, <1>5, <1>6, Zenon DEF Next

\* The types of the walk, for every input.
THEOREM WalkTypes == Spec => []TypeOK
  <1>1. WalkInv => TypeOK
    BY Zenon DEF WalkInv
  <1> QED BY <1>1, InitInv, WalkStep, PTL DEF Spec

\* resolve_inherits is right about every graph of roles, whatever its size
\* and shape: Ok exactly on what resolves, with exactly the granted actions.
THEOREM WalkResult == Spec => []ResultIsRight
  BY InitInv, WalkStep, WalkIsRight, PTL DEF Spec

\* No action is collected twice.
THEOREM WalkOnce == Spec => []CollectedOnce
  <1>1. Init => CollectedOnce
    BY DEF Init, CollectedOnce
  <1>2. ASSUME WalkInv, CollectedOnce, [Next]_vars PROVE CollectedOnce'
    <2>1. CASE AddAction
      <3> DEFINE a == Allow(Top.role)[Top.action]
      <3>1. collected' = Added(a)
        BY <2>1, Zenon DEF AddAction
      <3>2. CASE a \in Elements(collected)
        BY <1>2, <3>1, <3>2, Zenon DEF Added, CollectedOnce
      <3>3. CASE a \notin Elements(collected)
        <4>1. collected \in Seq(Actions)
          BY <1>2, Zenon DEF WalkInv, TypeOK
        <4>2. collected' = Append(collected, a)
          BY <3>1, <3>3, Zenon DEF Added
        <4> HIDE DEF a
        <4>3. /\ Len(collected) \in Nat /\ DOMAIN collected = 1 .. Len(collected)
              /\ DOMAIN collected' = 1 .. Len(collected) + 1
              /\ \A i \in 1 .. Len(collected) : collected'[i] = collected[i]
              /\ collected'[Len(collected) + 1] = a
          BY <4>1, <4>2
        <4>4. \A i \in 1 .. Len(collected) : collected[i] # a
          BY <3>3, <4>3, Zenon DEF Elements
        <4>5. \A i \in 1 .. Len(collected) + 1 : i \in 1 .. Len(collected) \/ i = Len(collected) + 1
          BY <4>3
        <4> QED BY <1>2, <4>3, <4>4, <4>5, Zenon DEF CollectedOnce
      <3> QED BY <3>2, <3>3, Zenon
    <2>2. CASE ~AddAction
      <3>1. collected' = collected
        BY <1>2, <2>2, Zenon DEF Next, Index, Start, VisitParent, Leave, Collect, vars
      <3> QED BY <1>2, <3>1, Zenon DEF CollectedOnce
    <2> QED BY <2>1, <2>2, Zenon
  <1> QED BY <1>1, <1>2, InitInv, WalkStep, PTL DEF Spec

\* Of several entries of one name the last one counts.
THEOREM WalkLastEntry == Spec => []LastEntryWins
  <1>1. Init => LastEntryWins
    <2> SUFFICES ASSUME Init PROVE LastEntryWins
      BY Zenon
    <2>1. 1 .. next - 1 = {} /\ Declared = {}
      BY SMTT(20) DEF Init, Declared
    <2> QED BY <2>1, Zenon DEF LastEntryWins
  <1>2. ASSUME WalkInv, LastEntryWins, [Next]_vars PROVE LastEntryWins'
    <2>1. CASE Index
      <3> DEFINE e == input.entries[next]
                 N(i) == input.entries[i].name
      <3>1. next \in Nat /\ next >= 1
        BY <1>2, InputsAssumption, SMTT(20) DEF WalkInv, TypeOK
      <3>2. /\ input' = input /\ next' = next + 1 /\ next' - 1 = next
            /\ Declared' = Declared \cup {e.name}
            /\ \A n \in Declared' : table'[n] = IF n = e.name THEN e ELSE table[n]
        BY <2>1, <3>1 DEF Index, Inserted, Declared
      <3>3. \A i \in 1 .. next : i \in 1 .. next - 1 \/ i = next
        BY <3>1
      <3>4. next \in 1 .. next /\ \A i \in 1 .. next - 1 : i \in 1 .. next /\ next \in i + 1 .. next
        BY <3>1
      <3>5. Declared' = {input.entries[i].name : i \in 1 .. next}
        BY <1>2, <3>2, <3>3, <3>4 DEF LastEntryWins
      <3>6. ASSUME NEW i \in 1 .. next, \A j \in i + 1 .. next : N(j) # N(i)
            PROVE  table'[N(i)] = input.entries[i]
        <4>1. CASE i = next
          BY <3>2, <4>1, Zenon
        <4>2. CASE i \in 1 .. next - 1
          <5>1. N(i) # e.name
            BY <3>4, <3>6, <4>2, Zenon
          <5>2. \A j \in i + 1 .. next - 1 : j \in i + 1 .. next
            BY <3>1, <4>2
          <5>3. table[N(i)] = input.entries[i] /\ N(i) \in Declared
            BY <1>2, <3>6, <4>2, <5>2, Zenon DEF LastEntryWins
          <5> QED BY <3>2, <5>1, <5>3, Zenon
        <4> QED BY <3>3, <4>1, <4>2, Zenon
      <3> QED BY <3>2, <3>5, <3>6 DEF LastEntryWins
    <2>2. CASE ~Index
      <3>1. UNCHANGED <<input, next, table>>
        BY <1>2, <2>2, Zenon DEF Next, Start, AddAction, VisitParent, Leave, vars
      <3> QED BY <1>2, <3>1, Zenon DEF LastEntryWins, Declared
    <2> QED BY <2>1, <2>2, Zenon
  <1> QED BY <1>1, <1>2, InitInv, WalkStep, PTL DEF Spec
-----------------------------------------------------------------------------
(* The climbs of Spine::try_new.                                           *)

LOCAL INSTANCE WellFoundedInduction

\* A set of numbers that is not empty has a least one.
LEMMA LeastNat ==
    ASSUME NEW T \in SUBSET Nat, T # {}
    PROVE  \E n \in T : \A m \in T : n <= m
<1>1. IsWellFoundedOn(OpToRel(<, Nat), Nat)
    BY NatLessThanWellFounded, Zenon
<1>2. PICK n \in T : \A m \in T : ~(<<m, n>> \in OpToRel(<, Nat))
    BY <1>1, WFMin, Zenon
<1>3. \A m \in T : ~(m < n)
    BY <1>2, Zenon DEF OpToRel
<1> QED BY <1>3

\* One step up.
Up(units, u) == IF u = None THEN None ELSE units[u]

\* The first k steps of a climb.
Climbing(up, units, n, k) == up = [i \in 0 .. k |-> IF i = 0 THEN n ELSE Up(units, up[i - 1])]

LEMMA ClimbingExists ==
    ASSUME NEW units, NEW n, NEW k \in Nat
    PROVE  \E up : Climbing(up, units, n, k)
<1> DEFINE Bad == {j \in Nat : ~ \E up : Climbing(up, units, n, j)}
<1> SUFFICES ASSUME Bad # {} PROVE FALSE
    BY Zenon
<1>1. PICK j \in Bad : \A m \in Bad : j <= m
    BY LeastNat, Zenon
<1>2. CASE j = 0
    <2> DEFINE up == [i \in 0 .. 0 |-> n]
    <2>1. Climbing(up, units, n, 0)
        BY DEF Climbing
    <2> QED BY <1>1, <1>2, <2>1, Zenon
<1>3. CASE j # 0
    <2>1. j - 1 \in Nat /\ j - 1 \notin Bad
        BY <1>1, <1>3
    <2>2. PICK low : Climbing(low, units, n, j - 1)
        BY <2>1, Zenon
    <2> DEFINE up == [i \in 0 .. j |-> IF i < j THEN low[i] ELSE Up(units, low[j - 1])]
    <2>3. \A i \in 0 .. j - 1 : low[i] = IF i = 0 THEN n ELSE Up(units, low[i - 1])
        BY <2>1, <2>2, Zenon DEF Climbing
    <2>4. \A i \in 0 .. j : up[i] = IF i = 0 THEN n ELSE Up(units, up[i - 1])
        BY <1>1, <1>3, <2>1, <2>3
    <2>5. Climbing(up, units, n, j)
        BY <2>4, Zenon DEF Climbing
    <2> QED BY <1>1, <2>5, Zenon
<1> QED BY <1>2, <1>3, Zenon

LEMMA ClimbSteps ==
    ASSUME NEW units, NEW n, NEW k \in Nat
    PROVE  /\ Climb(units, n, k)[0] = n
           /\ \A i \in 1 .. k : Climb(units, n, k)[i] = Up(units, Climb(units, n, k)[i - 1])
<1> DEFINE climb == CHOOSE up : up = [i \in 0 .. k |->
                        IF i = 0 THEN n
                        ELSE IF up[i - 1] = None THEN None ELSE units[up[i - 1]]]
<1>1. \E up : up = [i \in 0 .. k |-> IF i = 0 THEN n
                                   ELSE IF up[i - 1] = None THEN None ELSE units[up[i - 1]]]
    <2>1. PICK up : Climbing(up, units, n, k)
        BY ClimbingExists, Zenon
    <2>2. up = [i \in 0 .. k |-> IF i = 0 THEN n
                                ELSE IF up[i - 1] = None THEN None ELSE units[up[i - 1]]]
        BY <2>1, Zenon DEF Climbing, Up
    <2> QED BY <2>2, Zenon
<1>2. climb = [i \in 0 .. k |-> IF i = 0 THEN n
                               ELSE IF climb[i - 1] = None THEN None ELSE units[climb[i - 1]]]
    BY <1>1, Zenon
<1>3. Climb(units, n, k) = climb
    BY Zenon DEF Climb
<1> HIDE DEF climb
<1>4. climb[0] = n /\ \A i \in 1 .. k : climb[i] = Up(units, climb[i - 1])
    BY <1>2 DEF Up
<1> QED BY <1>3, <1>4, Zenon

\* The walk that every unit starts finds every cycle: one that starts inside a
\* set of units with parents in the set never leaves it, and takes one step
\* more than there are units.
LEMMA LoadedIsGrounded ==
    ASSUME NEW list \in Loads, Loadable(list)
    PROVE  Grounded(Edges(list))
<1>1. list \in Seq(Fgrns \X (Fgrns \cup {None}))
    BY FgrnsAssumption, Zenon
<1>2. Listed(list) \subseteq Fgrns /\ Len(list) + 1 \in Nat
    BY <1>1 DEF Listed
<1>3. DOMAIN Edges(list) = Listed(list)
    BY Zenon DEF Edges
<1> SUFFICES ASSUME NEW S \in SUBSET Listed(list), NEW n \in S,
                    \A u \in S : Edges(list)[u] \in S
             PROVE  FALSE
    BY <1>3, Zenon DEF Grounded
<1>4. PICK k \in Nat : k = Len(list) + 1
    BY <1>2, Zenon
<1>5. PICK up : up = Climb(Edges(list), n, k)
    BY Zenon
<1>6. up[k] = None /\ None \notin S
    BY <1>2, <1>4, <1>5, FgrnsAssumption, ZenonT(30) DEF Loadable, WalksEnd
<1>7. up[0] = n /\ \A i \in 1 .. k : up[i] = Up(Edges(list), up[i - 1])
    <2>1. /\ Climb(Edges(list), n, k)[0] = n
          /\ \A i \in 1 .. k : Climb(Edges(list), n, k)[i] = Up(Edges(list), Climb(Edges(list), n, k)[i - 1])
        BY ClimbSteps
    <2> QED BY <1>5, <2>1, SMTT(20)
<1> DEFINE Out == {i \in 0 .. k : up[i] \notin S}
<1>8. Out \in SUBSET Nat /\ k \in 0 .. k
    BY <1>4
<1>9. PICK m \in Out : \A j \in Out : m <= j
    BY <1>6, <1>8, LeastNat, Zenon
<1>10. m # 0
    BY <1>7, <1>9, Zenon
<1>11. m \in 1 .. k /\ m - 1 \in 0 .. k /\ ~(m <= m - 1)
    BY <1>4, <1>9, <1>10
<1>12. up[m - 1] \in S
    BY <1>9, <1>11, Zenon
<1>13. up[m] \in S
    BY <1>6, <1>7, <1>11, <1>12, ZenonT(30) DEF Up
<1> QED BY <1>9, <1>13, Zenon

\* What Spine::try_new accepts is a tree.
LEMMA LoadedIsTree ==
    ASSUME NEW list \in Loads, Loadable(list), spine = Loaded(list)
    PROVE  TreeInv
<1>1. list \in Seq(Fgrns \X (Fgrns \cup {None}))
    BY FgrnsAssumption, Zenon
<1>2. /\ DOMAIN Edges(list) = Listed(list)
      /\ \A i \in DOMAIN list : Edges(list)[list[i][1]] = list[i][2]
    <2>1. DOMAIN Edges(list) = Listed(list)
        BY Zenon DEF Edges
    <2>2. ASSUME NEW i \in DOMAIN list
          PROVE  Edges(list)[list[i][1]] = list[i][2]
        <3>1. list[i][1] \in Listed(list)
            BY Zenon DEF Listed
        <3>2. (CHOOSE j \in DOMAIN list : list[j][1] = list[i][1]) = i
            BY Zenon DEF Loadable
        <3> QED BY <3>1, <3>2, Zenon DEF Edges
    <2> QED BY <2>1, <2>2, Zenon
<1>3. Listed(list) \subseteq Fgrns
    BY <1>1 DEF Listed
<1>4. PICK r \in DOMAIN list : Roots(list) = {r}
    BY Zenon DEF Loadable
<1>5. /\ spine = [units |-> Edges(list), root |-> list[r][1], org |-> list[1][1].org]
      /\ list[r][2] = None
      /\ \A i \in DOMAIN list : list[i][2] = None => i = r
    BY <1>4, Zenon DEF Loaded, Roots
<1>6. SpineTyped
    BY <1>2, <1>3, <1>5 DEF SpineTyped, Edges
<1>7. ASSUME NEW u \in Listed(list)
      PROVE  /\ u.kind = "orgunit" /\ u.org = spine.org
             /\ spine.units[u] = None <=> u = spine.root
             /\ u # spine.root => InSpine(spine, spine.units[u])
    <2>1. PICK i \in DOMAIN list : u = list[i][1]
        BY Zenon DEF Listed
    <2>2. u.kind = "orgunit" /\ u.org = spine.org
        BY <1>5, <2>1, SMTT(20) DEF Loadable, IsOrgUnit
    <2>3. spine.units[u] = list[i][2]
        BY <1>2, <1>5, <2>1, SMTT(20)
    <2>4. u = spine.root <=> i = r
        BY <1>5, <2>1 DEF Loadable
    <2>5. spine.units[u] = None <=> u = spine.root
        BY <1>5, <2>3, <2>4, ZenonT(30)
    <2>6. u # spine.root => InSpine(spine, spine.units[u])
        BY <1>2, <1>5, <2>3, <2>5, SMTT(20) DEF Loadable, InSpine
    <2> QED BY <2>2, <2>5, <2>6, Zenon
<1>8. InSpine(spine, spine.root)
    BY <1>2, <1>5, SMTT(20) DEF InSpine, Listed
<1>9. Grounded(spine.units)
    BY <1>5, LoadedIsGrounded
<1> QED BY <1>2, <1>5, <1>6, <1>7, <1>8, <1>9 DEF TreeInv, SpineIsTree

LEMMA NextKeepsTree ==
    ASSUME TreeInv, [SpineNext]_spine
    PROVE  TreeInv'
<1>1. CASE UNCHANGED spine
    BY <1>1 DEF TreeInv, SpineTyped, SpineIsTree, InSpine, Grounded
<1>2. ASSUME NEW f \in Fgrns, NEW parent \in Fgrns \cup {None}, Add(f, parent)
      PROVE  TreeInv'
    BY <1>1, <1>2, AddKeepsTree, Zenon DEF Add
<1>3. ASSUME NEW node \in Fgrns, NEW parent \in Fgrns, Reparent(node, parent)
      PROVE  TreeInv'
    BY <1>1, <1>3, ReparentKeepsTree, Zenon DEF Reparent
<1> QED BY <1>1, <1>2, <1>3, Zenon DEF SpineNext

\* Single root, existing parents, acyclicity and one organization: of whatever
\* Spine::try_new accepts, and after any adds and moves.
THEOREM SpineStaysTree == SpineSpec => []SpineIsTree
<1>1. SpineInit => TreeInv
    BY LoadedIsTree, Zenon DEF SpineInit
<1>2. TreeInv /\ [SpineNext]_spine => TreeInv'
    BY NextKeepsTree, Zenon
<1>3. TreeInv => SpineIsTree
    BY Zenon DEF TreeInv
<1> QED BY <1>1, <1>2, <1>3, PTL DEF SpineSpec

\* What one add or one move may change: one edge, and the ancestors of the
\* units at or below it.
LEMMA StepMovesOne ==
    ASSUME TreeInv, TreeInv', SpineNext
    PROVE  \E moved \in Fgrns : \A u \in DOMAIN spine.units :
              /\ InSpine(spine', u)
              /\ u # moved => spine'.units[u] = spine.units[u]
              /\ ~IsAtOrBelow(spine, u, moved) =>
                    Ancestry(spine'.units, u) = Ancestry(spine.units, u)
<1>1. PICK moved \in Fgrns : /\ DOMAIN spine.units \subseteq DOMAIN spine'.units
                             /\ \A u \in DOMAIN spine.units :
                                   u # moved => spine'.units[u] = spine.units[u]
    <2>1. ASSUME NEW f \in Fgrns, NEW parent \in Fgrns \cup {None}, Add(f, parent)
          PROVE  /\ DOMAIN spine.units \subseteq DOMAIN spine'.units
                 /\ \A u \in DOMAIN spine.units : u # f => spine'.units[u] = spine.units[u]
        BY <2>1 DEF Add, WithUnit, TreeInv, SpineTyped
    <2>2. ASSUME NEW node \in Fgrns, NEW parent \in Fgrns, Reparent(node, parent)
          PROVE  /\ DOMAIN spine.units \subseteq DOMAIN spine'.units
                 /\ \A u \in DOMAIN spine.units : u # node => spine'.units[u] = spine.units[u]
        BY <2>2 DEF Reparent, Reparented, TreeInv, SpineTyped
    <2> QED BY <2>1, <2>2, Zenon DEF SpineNext
<1>2. /\ \A u \in DOMAIN spine.units : spine.units[u] # None => spine.units[u] \in DOMAIN spine.units
      /\ \A u \in DOMAIN spine'.units :
            spine'.units[u] # None => spine'.units[u] \in DOMAIN spine'.units
    BY Zenon DEF TreeInv, SpineIsTree, InSpine
<1>3. ASSUME NEW u \in DOMAIN spine.units, ~IsAtOrBelow(spine, u, moved)
      PROVE  Ancestry(spine'.units, u) = Ancestry(spine.units, u)
    BY <1>1, <1>2, <1>3, AncestryUnmoved DEF IsAtOrBelow
<1> QED BY <1>1, <1>3, Zenon DEF InSpine

\* Spine::add and Spine::reparent never change the position of a unit that is
\* not below the one they add or move.
THEOREM SpineMovesOneSubtree == SpineSpec => MovesOneSubtree
<1>1. SpineInit => TreeInv
    BY LoadedIsTree, Zenon DEF SpineInit
<1>2. TreeInv /\ [SpineNext]_spine => TreeInv'
    BY NextKeepsTree, Zenon
<1> DEFINE A == \E moved \in Fgrns : \A u \in DOMAIN spine.units :
                   /\ InSpine(spine', u)
                   /\ u # moved => spine'.units[u] = spine.units[u]
                   /\ ~IsAtOrBelow(spine, u, moved) =>
                         Ancestry(spine'.units, u) = Ancestry(spine.units, u)
<1>3. TreeInv /\ TreeInv' /\ [SpineNext]_spine => [A]_spine
    BY StepMovesOne, Zenon
<1> QED BY <1>1, <1>2, <1>3, PTL DEF SpineSpec, MovesOneSubtree
=============================================================================
