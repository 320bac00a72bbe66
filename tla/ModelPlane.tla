----------------------------- MODULE ModelPlane ------------------------------
(***************************************************************************)
(* The model plane of an organization over HTTP: the principal upsert, the *)
(* tombstone of a promoted resource, the list of promotions and the events *)
(* cursor with its long poll (handlers/principals, promotions, events and  *)
(* min_revision.rs), and the revision-pinned read fold_at.                 *)
(*                                                                         *)
(* An append is one step (module EventLog).  Reads that do not ask for     *)
(* consistency are served by replicas, which have applied a prefix of the  *)
(* log; the counter, a principal and a promotion are read consistently.    *)
(***************************************************************************)
EXTENDS Naturals, Sequences, FiniteSets

CONSTANTS
    Slots,           \* the requests that may run at the same time
    Ids,             \* native ids, numbers in the order of their sort keys
    Docs,            \* principal documents
    Replicas,
    Limit,           \* the page size after clamp_limit
    FoldPageSize,    \* FOLD_PAGE_SIZE
    MaxPolls,        \* WATCH_DEADLINE / WATCH_TICK
    MaxRevision,     \* u64::MAX
    MaxLog,          \* how many events there may be
    Modes,           \* the circumstances to explore, by name; a mode has
                     \*   history: the events there are at first
                     \*   ops:     what every slot is used for, a set of operations
                     \*   cursors: where consumers of the events start
                     \*   lag:     may replicas be behind?
                     \*   short:   may a page end early (1 MB)?
                     \*   events:  how many events there may be
                     \*   kinds:   the kinds of events other writers append
                     \*   ids:     the native ids that are used
                     \*   demands: do clients send X-Fg-Min-Revision?
                     \*   errors:  how many calls fail
    None

Operations == {"upsert", "tombstone", "events", "list", "fold"}

StatusKinds == {"org.created", "org.activated", "org.suspended", "org.restored"}

\* An event names what its kind is about.
Events ==
    [seq : 1..MaxLog, kind : {"principal.upserted"}, id : Ids, doc : Docs]
    \cup [seq : 1..MaxLog, kind : {"resource.promoted", "resource.tombstoned"}, id : Ids, doc : {None}]
    \cup [seq : 1..MaxLog, kind : StatusKinds, id : {None}, doc : {None}]

\* The state items: the status of the organization, its principals, what is promoted.
Items == [status : {None, "draft", "active", "suspended", "deleted"},
          principals : [Ids -> Docs \cup {None}], promoted : SUBSET Ids]

ASSUME ConstantsAssumption ==
    /\ Ids \subseteq Nat /\ IsFiniteSet(Ids)
    /\ Limit \in Nat \ {0}
    /\ FoldPageSize \in Nat \ {0}
    /\ MaxPolls \in Nat \ {0}
    /\ MaxRevision \in Nat
    /\ MaxLog \in Nat /\ MaxLog < MaxRevision
    /\ \A m \in DOMAIN Modes :
          /\ Modes[m].history \in Seq(Events)
          /\ \A i \in DOMAIN Modes[m].history : Modes[m].history[i].seq = i
          /\ Modes[m].ops \in [Slots -> SUBSET Operations]
          /\ Modes[m].cursors \subseteq 0..MaxRevision
          /\ Modes[m].ids \subseteq Ids
          /\ Modes[m].lag \in BOOLEAN
          /\ Modes[m].short \in BOOLEAN
          /\ Modes[m].events \in 0..MaxLog
          /\ Modes[m].errors \in Nat
    /\ None \notin Nat /\ None \notin Operations /\ None \notin Items

VARIABLES
    mode,      \* the circumstances of this behaviour
    log,       \* the events: seq, kind, id, doc
    items,     \* the state items after every event (and, first, before any)
    replicas,  \* per replica, how many events it has applied
    calls,     \* per slot, the request that runs in it
    consumers, \* per slot, a client of the events cursor
    walks,     \* per slot, a client that pages through the promotions
    errors     \* how many calls failed

vars == <<mode, log, items, replicas, calls, consumers, walks, errors>>

Lag == Modes[mode].lag
-----------------------------------------------------------------------------
(* The log and what folds out of it.                                       *)

NoItems == [status |-> None, principals |-> [i \in Ids |-> None], promoted |-> {}]

StatusAfter ==
    [k \in StatusKinds |->
        CASE k = "org.created" -> "draft"
          [] k = "org.suspended" -> "suspended"
          [] OTHER -> "active"]

\* apply_event: one step of the fold.
ApplyEvent(state, e) ==
    CASE e.kind = "principal.upserted" -> [state EXCEPT !.principals[e.id] = e.doc]
      [] e.kind = "resource.promoted" -> [state EXCEPT !.promoted = @ \cup {e.id}]
      [] e.kind = "resource.tombstoned" -> [state EXCEPT !.promoted = @ \ {e.id}]
      [] OTHER -> [state EXCEPT !.status = StatusAfter[e.kind]]

\* The loop of fold_events.
Folded(events) ==
    LET state[i \in 0..Len(events)] ==
            IF i = 0 THEN NoItems ELSE ApplyEvent(state[i - 1], events[i])
    IN state[Len(events)]

\* The items at revision n, and the latest ones.
At(n) == items[n + 1]
Now == At(Len(log))

Event(kind, id, doc) == [seq |-> Len(log) + 1, kind |-> kind, id |-> id, doc |-> doc]

CanAppend == Len(log) < Modes[mode].events

\* What a read that does not ask for consistency may see.
Views == IF Lag THEN {replicas[r] : r \in Replicas} ELSE {Len(log)}

\* saturating_add: the first sequence number the query asks for.
Successor(after) == IF after = MaxRevision THEN MaxRevision ELSE after + 1

\* events_after, with n events visible: the page, or less than the page.
EventsAfter(n, after, limit) ==
    LET first == Successor(after)
        full == SubSeq(log, first, IF first + limit - 1 < n THEN first + limit - 1 ELSE n)
    IN IF Modes[mode].short /\ full # << >>
       THEN {SubSeq(full, 1, k) : k \in 1..Len(full)}
       ELSE {full}

\* list_promotions: the first ids after the cursor.
PromotionsAfter(n, after) ==
    LET later == {i \in At(n).promoted : after = None \/ i > after}
    IN {i \in later : Cardinality({j \in later : j < i}) < Limit}
-----------------------------------------------------------------------------
(* Requests.                                                               *)

Idle == [at |-> "idle", op |-> None, id |-> None, doc |-> None, min |-> None, after |-> None,
         wait |-> FALSE, start |-> 0, page |-> << >>, listed |-> {}, polls |-> 0,
         code |-> None, revision |-> None, result |-> None]

Init ==
    /\ mode \in DOMAIN Modes
    /\ log = Modes[mode].history
    /\ items = [n \in 1..Len(log) + 1 |-> Folded(SubSeq(log, 1, n - 1))]
    /\ replicas = [r \in Replicas |-> Len(log)]
    /\ calls = [c \in Slots |-> Idle]
    /\ \E from \in Modes[mode].cursors :
          consumers = [c \in Slots |-> [from |-> from, cursor |-> from, received |-> << >>]]
    /\ walks = [c \in Slots |-> [after |-> None, seen |-> {}, since |-> None]]
    /\ errors = 0

Unread == UNCHANGED <<mode, log, items, replicas, consumers, walks, errors>>
Goto(c, at) == calls' = [calls EXCEPT ![c].at = at]

Respond(c, code, revision) ==
    calls' = [calls EXCEPT ![c].at = "answered", ![c].code = code, ![c].revision = revision]

\* A client may send X-Fg-Min-Revision; fold_at takes a revision or none.
Demands(op) == op = "fold" \/ (op \in {"events", "list"} /\ Modes[mode].demands)

Begin(c, op) ==
    /\ calls[c].at = "idle"
    /\ op \in Modes[mode].ops[c]
    /\ \E id \in IF op \in {"upsert", "tombstone"} THEN Modes[mode].ids ELSE {None},
          doc \in IF op = "upsert" THEN Docs ELSE {None},
          min \in {None} \cup IF Demands(op) THEN 0..(Len(log) + 1) ELSE {},
          wait \in IF op = "events" THEN BOOLEAN ELSE {FALSE} :
          calls' = [calls EXCEPT ![c] = [Idle EXCEPT
              !.at = IF op = "fold" THEN "target" ELSE "gate", !.op = op, !.id = id,
              !.doc = doc, !.min = min, !.wait = wait, !.start = Len(log),
              !.after = CASE op = "events" -> consumers[c].cursor
                          [] op = "list" -> walks[c].after
                          [] OTHER -> None]]
    /\ walks' = IF op = "list" /\ walks[c].since = None
                THEN [walks EXCEPT ![c].since = Len(log)] ELSE walks
    /\ UNCHANGED <<mode, log, items, replicas, consumers, errors>>

\* Mutant: the events of a suspended organization are not served.
GateActiveOnly(c) ==
    /\ calls[c].at = "gate"
    /\ \E n \in Views :
          IF At(n).status # "active"
          THEN Respond(c, 409, None)
          ELSE Goto(c, IF calls[c].op \in {"upsert", "tombstone"} THEN "read"
                       ELSE IF calls[c].min # None THEN "min" ELSE "page")
    /\ Unread

\* The organization must exist and, except for the events, be active.  No writer
\* of this module deletes one.
Gate(c) ==
    /\ calls[c].at = "gate"
    /\ \E n \in Views :
          LET status == At(n).status
          IN IF status \in {None, "deleted"}
             THEN Respond(c, 404, None)
             ELSE IF status # "active" /\ calls[c].op # "events"
             THEN Respond(c, 409, None)
             ELSE Goto(c, IF calls[c].op \in {"upsert", "tombstone"} THEN "read"
                          ELSE IF calls[c].min # None THEN "min" ELSE "page")
    /\ Unread

\* check_min_revision against the counter.
CheckMin(c) ==
    /\ calls[c].at = "min"
    /\ IF Len(log) >= calls[c].min THEN Goto(c, "page") ELSE Respond(c, 412, Len(log))
    /\ Unread

\* list_events_handler reads a page; an empty one may be held.
ReadEvents(c) ==
    /\ calls[c].at = "page"
    /\ calls[c].op = "events"
    /\ \E n \in Views : \E page \in EventsAfter(n, calls[c].after, Limit) :
          calls' = [calls EXCEPT ![c].page = page,
                    ![c].at = IF page = << >> /\ calls[c].wait THEN "watch" ELSE "latest"]
    /\ Unread

\* watch_for_events: a tick.  Reads take time, so the deadline may come early.
Poll(c) ==
    /\ calls[c].at = "watch"
    /\ IF Len(log) > calls[c].after
       THEN Goto(c, "rerun")
       ELSE \/ Goto(c, "latest")
            \/ /\ calls[c].polls + 1 < MaxPolls
               /\ calls' = [calls EXCEPT ![c].polls = @ + 1]
    /\ Unread

\* watch_for_events: the log has moved, the query runs once more.
Rerun(c) ==
    /\ calls[c].at = "rerun"
    /\ \E n \in Views : \E page \in EventsAfter(n, calls[c].after, Limit) :
          calls' = [calls EXCEPT ![c].page = page, ![c].at = "latest"]
    /\ Unread

\* list_promotions_handler reads a page.
ReadPromotions(c) ==
    /\ calls[c].at = "page"
    /\ calls[c].op = "list"
    /\ \E n \in Views :
          calls' = [calls EXCEPT ![c].listed = PromotionsAfter(n, calls[c].after),
                                 ![c].at = "latest"]
    /\ Unread

\* The revision of the response.
Latest(c) ==
    /\ calls[c].at = "latest"
    /\ Respond(c, IF calls[c].code = None THEN 200 ELSE calls[c].code, Len(log))
    /\ Unread

\* upsert_principal: decide_upsert compares the stored document.
ReadPrincipal(c) ==
    /\ calls[c].at = "read"
    /\ calls[c].op = "upsert"
    /\ LET existing == Now.principals[calls[c].id]
       IN calls' = [calls EXCEPT
              ![c].at = IF existing = calls[c].doc THEN "latest" ELSE "append",
              ![c].code = IF existing = None THEN 201 ELSE 200]
    /\ Unread

\* tombstone_promotion_handler: nothing to do without a promotion.
ReadPromotion(c) ==
    /\ calls[c].at = "read"
    /\ calls[c].op = "tombstone"
    /\ calls' = [calls EXCEPT
           ![c].at = IF calls[c].id \in Now.promoted THEN "append" ELSE "latest",
           ![c].code = IF calls[c].id \in Now.promoted THEN 200 ELSE 204]
    /\ Unread

\* A transaction: the event and the items.
Transact(kind, id, doc, new) ==
    /\ CanAppend
    /\ log' = Append(log, Event(kind, id, doc))
    /\ items' = Append(items, new)

\* upsert_changed: the event and the item, whatever is stored by now.
PutPrincipal(c) ==
    Transact("principal.upserted", calls[c].id, calls[c].doc,
             [Now EXCEPT !.principals[calls[c].id] = calls[c].doc])

AppendPrincipal(c) ==
    /\ calls[c].at = "append"
    /\ calls[c].op = "upsert"
    /\ PutPrincipal(c)
    /\ Respond(c, calls[c].code, Len(log) + 1)
    /\ UNCHANGED <<mode, replicas, consumers, walks, errors>>

DeletePromotion(c) ==
    Transact("resource.tombstoned", calls[c].id, None,
             [Now EXCEPT !.promoted = @ \ {calls[c].id}])

\* Mutant: the delete has no condition on the item.
AppendTombstoneUnguarded(c) ==
    /\ calls[c].at = "append"
    /\ calls[c].op = "tombstone"
    /\ DeletePromotion(c)
    /\ Respond(c, 200, Len(log) + 1)
    /\ UNCHANGED <<mode, replicas, consumers, walks, errors>>

\* tombstone_promotion: unless somebody else was faster.
AppendTombstone(c) ==
    /\ calls[c].at = "append"
    /\ calls[c].op = "tombstone"
    /\ \/ /\ calls[c].id \in Now.promoted
          /\ DeletePromotion(c)
          /\ Respond(c, 200, Len(log) + 1)
       \/ /\ calls[c].id \notin Now.promoted
          /\ calls' = [calls EXCEPT ![c].at = "latest", ![c].code = 204]
          /\ UNCHANGED <<log, items>>
    /\ UNCHANGED <<mode, replicas, consumers, walks, errors>>

\* A call to the store fails, and the request with it.  An append that fails
\* may have happened.
Fails(c) ==
    /\ calls[c].at \notin {"idle", "answered"}
    /\ errors < Modes[mode].errors
    /\ errors' = errors + 1
    /\ Respond(c, 500, None)
    /\ \/ UNCHANGED <<log, items>>
       \/ /\ calls[c].at = "append"
          /\ \/ calls[c].op = "upsert" /\ PutPrincipal(c)
             \/ calls[c].op = "tombstone" /\ calls[c].id \in Now.promoted /\ DeletePromotion(c)
    /\ UNCHANGED <<mode, replicas, consumers, walks>>
-----------------------------------------------------------------------------
(* fold_at.                                                                *)

\* The revision to fold at: the demanded one or the latest.
Target(c) ==
    /\ calls[c].at = "target"
    /\ IF calls[c].min = None /\ log = << >>
       THEN calls' = [calls EXCEPT ![c].at = "answered", ![c].code = 200,
                                   ![c].revision = 0, ![c].result = NoItems]
       ELSE calls' = [calls EXCEPT ![c].at = "collect", ![c].after = 0,
                          ![c].revision = IF calls[c].min = None THEN Len(log) ELSE calls[c].min]
    /\ Unread

\* A page of events; the last one is empty, short or reaches the target.
Collect(c) ==
    /\ calls[c].at = "collect"
    /\ \E n \in Views : \E page \in EventsAfter(n, calls[c].after, FoldPageSize) :
          LET after == IF page = << >> THEN calls[c].after ELSE page[Len(page)].seq
          IN calls' = [calls EXCEPT
                 ![c].page = calls[c].page \o page,
                 ![c].after = after,
                 ![c].at = IF Len(page) < FoldPageSize \/ after >= calls[c].revision
                           THEN "fold" ELSE "collect"]
    /\ Unread

\* Mutant: folds whatever was collected.
FoldEventsAnyway(events, at) ==
    Folded(SelectSeq(events, LAMBDA e : e.seq <= at))

\* fold_events: the state at a revision, or None when that is not among the
\* events or there is a gap before it.
FoldEvents(events, at) ==
    IF \/ at = 0
       \/ events = << >> \/ at > events[Len(events)].seq
       \/ \E i \in DOMAIN events : events[i].seq # i /\ i <= at + 1
    THEN None
    ELSE Folded(SubSeq(events, 1, at))

Fold(c) ==
    /\ calls[c].at = "fold"
    /\ LET result == FoldEvents(calls[c].page, calls[c].revision)
       IN calls' = [calls EXCEPT ![c].at = "answered", ![c].result = result,
                                 ![c].code = IF result = None THEN 500 ELSE 200]
    /\ Unread
-----------------------------------------------------------------------------
(* Clients, other writers and replicas.                                    *)

\* Mutant: a consumer goes on from the revision of the response.
ContinuesFromRevision(call) == IF call.page = << >> THEN call.after ELSE call.revision

\* next_after of a page of events.
NextAfter(call) == IF call.page = << >> THEN call.after ELSE call.page[Len(call.page)].seq

\* The client has the response.  A consumer goes on after next_after; who pages
\* through the promotions does so until a page is empty.
Take(c) ==
    LET call == calls[c]
        ok == call.code = 200
    IN /\ call.at = "answered"
       /\ calls' = [calls EXCEPT ![c] = Idle]
       /\ consumers' = IF call.op = "events" /\ ok
                       THEN [consumers EXCEPT ![c].cursor = NextAfter(call),
                                              ![c].received = consumers[c].received \o call.page]
                       ELSE consumers
       /\ walks' = IF call.op = "list" /\ ok
                   THEN [walks EXCEPT ![c] =
                            IF call.listed = {} THEN [after |-> None, seen |-> {}, since |-> None]
                            ELSE [after |-> CHOOSE i \in call.listed : \A j \in call.listed : j <= i,
                                  seen |-> walks[c].seen \cup call.listed,
                                  since |-> walks[c].since]]
                   ELSE walks
       /\ UNCHANGED <<mode, log, items, replicas, errors>>

\* transition_handler reads the record, without asking for consistency, some time
\* before it appends.
WasOnce(status) == \E n \in 0..Len(log) : At(n).status = status

\* Another writer changes the status of the organization.
ChangeStatus(kind) ==
    /\ kind \in Modes[mode].kinds
    /\ CASE kind = "org.created" -> Now.status = None
         [] kind = "org.activated" -> WasOnce("draft")
         [] kind = "org.suspended" -> WasOnce("active")
         [] kind = "org.restored" -> WasOnce("suspended")
    /\ Transact(kind, None, None, [Now EXCEPT !.status = StatusAfter[kind]])
    /\ UNCHANGED <<mode, replicas, calls, consumers, walks, errors>>

\* put_promotion: whether or not it is promoted already.
Promote(id) ==
    /\ "resource.promoted" \in Modes[mode].kinds
    /\ Now.status # None
    /\ Transact("resource.promoted", id, None, [Now EXCEPT !.promoted = @ \cup {id}])
    /\ UNCHANGED <<mode, replicas, calls, consumers, walks, errors>>

\* A replica applies the next event.
Replicate(r) ==
    /\ Lag
    /\ replicas[r] < Len(log)
    /\ replicas' = [replicas EXCEPT ![r] = @ + 1]
    /\ UNCHANGED <<mode, log, items, calls, consumers, walks, errors>>

Step(c) ==
    \/ Gate(c) \/ CheckMin(c) \/ ReadEvents(c) \/ Poll(c) \/ Rerun(c)
    \/ ReadPromotions(c) \/ Latest(c)
    \/ ReadPrincipal(c) \/ AppendPrincipal(c) \/ ReadPromotion(c) \/ AppendTombstone(c)
    \/ Target(c) \/ Collect(c) \/ Fold(c)

Next ==
    \/ \E c \in Slots :
          \/ \E op \in Operations : Begin(c, op)
          \/ Step(c) \/ Fails(c) \/ Take(c)
    \/ \E kind \in DOMAIN StatusAfter : ChangeStatus(kind)
    \/ \E id \in Modes[mode].ids : Promote(id)
    \/ \E r \in Replicas : Replicate(r)

Spec == Init /\ [][Next]_vars

\* Calls to the store return, clients read responses and poll, replicas catch up.
FairSpec ==
    /\ Spec
    /\ \A c \in Slots : WF_vars(Step(c)) /\ WF_vars(Take(c)) /\ WF_vars(Begin(c, "events"))
    /\ \A r \in Replicas : WF_vars(Replicate(r))
-----------------------------------------------------------------------------
\* The variables have their types, no replica is ahead of the log, and a held
\* request polls less often than its deadline allows.
TypeOK ==
    /\ mode \in DOMAIN Modes
    /\ Len(log) <= MaxLog /\ \A i \in DOMAIN log : log[i] \in Events /\ log[i].seq = i
    /\ Len(items) = Len(log) + 1 /\ \A i \in DOMAIN items : items[i] \in Items
    /\ replicas \in [Replicas -> 0..Len(log)]
    /\ \A c \in Slots :
          /\ calls[c].op \in Operations \cup {None}
          /\ calls[c].polls \in 0..(MaxPolls - 1)
          /\ calls[c].result \in Items \cup {None}
          /\ calls[c].listed \subseteq Ids
          /\ \A i \in DOMAIN calls[c].page : calls[c].page[i] \in Events
          /\ consumers[c].from \in 0..MaxRevision /\ consumers[c].cursor \in 0..MaxRevision
          /\ walks[c].seen \subseteq Ids
    /\ errors \in Nat

Answered(c, op) == calls[c].at = "answered" /\ calls[c].op = op

\* A page is one that the log had at revision n.
ViewedAt(call, n) ==
    IF call.op = "events" THEN call.page \in EventsAfter(n, call.after, Limit)
    ELSE call.listed = PromotionsAfter(n, call.after)

\* The demand of a minimum revision: with lag it is at least not ahead of the
\* revision of the response, without lag the page has it ("any request may carry a
\* minimum-revision demand and be answered with state at least that fresh",
\* docs/brief.md).
DemandMet(call) ==
    call.code = 200 /\ call.min # None =>
        /\ call.revision >= call.min
        /\ ~Lag /\ call.op \in {"events", "list"} => \E n \in call.min..Len(log) : ViewedAt(call, n)

\* Between two revisions, a principal was stored (or, with None, there was none),
\* and a resource was not promoted.
Stored(id, doc, from, to) == \E n \in from..to : At(n).principals[id] = doc
Unpromoted(id, from, to) == \E n \in from..to : id \notin At(n).promoted

\* The event of a revision removed a promotion.
Removed(id, n) ==
    /\ log[n].kind = "resource.tombstoned" /\ log[n].id = id
    /\ id \in At(n - 1).promoted

\* A response is true of some moment of the request, although handlers read the
\* item, append and read the revision in steps of their own: an upsert's
\* document was stored, a 201 found none, a 200 to a tombstone is the event
\* that removed the promotion, a 204 found none, and no page is ahead of the
\* revision that comes with it.  Who has paged through the promotions has seen
\* all that were promoted throughout, whatever was promoted and tombstoned
\* between the pages (when replicas do not lag).  And a demanded revision is met.
AnswersAreTrue ==
    \A c \in Slots :
        LET call == calls[c]
        IN /\ Answered(c, "upsert") /\ call.code \in {200, 201} =>
                 /\ Stored(call.id, call.doc, call.start, call.revision)
                 /\ call.code = 201 => Stored(call.id, None, call.start, call.revision)
           /\ Answered(c, "tombstone") /\ call.code = 200 => Removed(call.id, call.revision)
           /\ Answered(c, "tombstone") /\ call.code = 204 =>
                 Unpromoted(call.id, call.start, call.revision)
           /\ Answered(c, "events") /\ call.code = 200 =>
                 \A i \in DOMAIN call.page : call.page[i].seq <= call.revision
           /\ ~Lag /\ Answered(c, "list") /\ call.code = 200 /\ call.listed = {} =>
                 \A id \in Ids : (\A n \in walks[c].since..Len(log) : id \in At(n).promoted)
                                  => id \in walks[c].seen
           /\ call.at = "answered" => DemandMet(call)

\* A consumer that goes on from next_after receives every event after the one
\* it started from exactly once and in order, whatever replicas serve it, however
\* short the pages are and whichever requests fail.
ConsumerSeesLog ==
    \A c \in Slots :
        LET k == consumers[c]
        IN /\ k.cursor = k.from + Len(k.received)
           /\ \A i \in DOMAIN k.received :
                 k.from + i <= Len(log) /\ k.received[i] = log[k.from + i]

\* The state items are what fold_events makes of the log, so that fold_at and
\* the reads of single items agree; fold_at returns the state at the demanded
\* revision or the latest one, never that of a shorter log; and without lag and
\* short pages it fails only for a revision that does not exist.
FoldIsHistory ==
    /\ Now = Folded(log)
    /\ \A c \in Slots : Answered(c, "fold") =>
           LET call == calls[c]
           IN /\ call.code = 200 =>
                    /\ call.revision <= Len(log) /\ call.result = At(call.revision)
                    /\ IF call.min = None THEN call.revision >= call.start
                       ELSE call.revision = call.min
              /\ call.code = 500 /\ errors = 0 /\ ~Lag /\ ~Modes[mode].short =>
                    call.min = 0 \/ call.min > call.start

\* A consumer that keeps asking, and demands nothing, catches up with the log, the
\* events of an organization that has been suspended included.
CatchesUp ==
    \A c \in Slots :
        []<>(Modes[mode].ops[c] = {"events"} => consumers[c].cursor >= Len(log))

\* Every request is answered: a held one by the deadline, an append unless the
\* bound on the log stops it.
EveryRequestEnds ==
    \A c \in Slots :
        calls[c].at \notin {"idle", "answered"}
           ~> (calls[c].at \in {"idle", "answered"} \/ (calls[c].at = "append" /\ ~CanAppend))

\* Consumers catch up and requests end: nobody waits for ever.
EveryoneProceeds == CatchesUp /\ EveryRequestEnds
=============================================================================
