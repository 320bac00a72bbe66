------------------------------ MODULE EventLog ------------------------------
(***************************************************************************)
(* The event log of one organization, crates/control-plane/src/event_log.rs. *)
(*                                                                         *)
(* The organization's DynamoDB partition holds a counter item (SK = SEQ),  *)
(* one item per event (SK = EVT#{seq}) and the state items the events are  *)
(* about.  An append reads the counter and then sends ONE transaction:     *)
(* move the counter from `current` to `current + 1`, put the event under   *)
(* that number if the number is free, and put or delete the state item.    *)
(* Any number of appends run concurrently and a cancelled one starts over. *)
(*                                                                         *)
(* A request is one call of append or append_with_delete.  Its transaction *)
(* is a thing of its own: DynamoDB may execute it after the caller gave up *)
(* (an SDK timeout, or the request future dropped by the router's timeout).*)
(***************************************************************************)
EXTENDS Naturals, FiniteSets, Options

CONSTANTS
    Requests,      \* the calls of append and append_with_delete
    Items,         \* the sort keys of the state items they write
    Expectations,  \* the revisions a caller may demand (X-Fg-If-Revision)
    MaxAttempts,   \* MAX_APPEND_ATTEMPTS
    Faulty         \* may calls to DynamoDB fail for reasons of their own?

(***************************************************************************)
(* "put" is append with StateGuard::None, "create" append with             *)
(* StateGuard::MustNotExist, "delete" append_with_delete.                  *)
(***************************************************************************)
Writes == {"put", "create", "delete"}

Ops == [write : Writes, item : Items, expected : Expectations \cup {None}]

ASSUME ConstantsAssumption ==
    /\ Expectations \subseteq Nat
    /\ MaxAttempts \in Nat \ {0}
    /\ Faulty \in BOOLEAN
    /\ None \notin Requests \cup Ops
    /\ None \notin Nat

VARIABLES
    counter,   \* the counter item's seq; 0 when the item does not exist
    events,    \* the event items, a function from the seq in their sort key
    items,     \* per state item, the request whose put it holds, or None
    op,        \* per request, the arguments of the call
    phase,     \* per request, where the call is
    attempt,   \* per request, the index of the current loop iteration
    current,   \* per request, the counter value this iteration read
    txn,       \* per request, the state of its latest transaction
    outcome,   \* per request, how the call returned
    revision   \* per request, the revision the returned value carries

table == <<counter, events, items>>
calls == <<op, phase, attempt, current, outcome, revision>>
vars == <<table, txn, calls>>
-----------------------------------------------------------------------------
Events == [request : Requests, item : Items, write : Writes]

Phases == {"idle", "reading", "waiting", "returned"}

Txns == {"none", "sent", "committed", "stateFailed", "cancelled"}

\* Ok(revision), RevisionMismatch, Conflict, Ok(None), any other Err
Outcomes == {"pending", "ok", "mismatch", "conflict", "gone", "error"}

TypeOK ==
    /\ counter \in Nat
    /\ DOMAIN events \subseteq Nat
    /\ \A s \in DOMAIN events : events[s] \in Events
    /\ items \in [Items -> Requests \cup {None}]
    /\ op \in [Requests -> Ops \cup {None}]
    /\ phase \in [Requests -> Phases]
    /\ attempt \in [Requests -> Nat]
    /\ current \in [Requests -> Nat]
    /\ txn \in [Requests -> Txns]
    /\ outcome \in [Requests -> Outcomes]
    /\ revision \in [Requests -> Nat]
    /\ \A r \in Requests : op[r] = None => phase[r] = "idle" /\ txn[r] = "none"

Init ==
    /\ counter = 0
    /\ events = [s \in {} |-> None]
    /\ items = [i \in Items |-> None]
    /\ op = [r \in Requests |-> None]
    /\ phase = [r \in Requests |-> "idle"]
    /\ attempt = [r \in Requests |-> 0]
    /\ current = [r \in Requests |-> 0]
    /\ txn = [r \in Requests |-> "none"]
    /\ outcome = [r \in Requests |-> "pending"]
    /\ revision = [r \in Requests |-> 0]
-----------------------------------------------------------------------------
\* What the state item's condition expression demands of the stored item.
StateCondition(o) ==
    CASE o.write = "put"    -> TRUE
      [] o.write = "create" -> items[o.item] = None
      [] o.write = "delete" -> items[o.item] # None

\* Mutant: the delete leaves the item.
WrittenKeepsDeleted(r) == r

\* The state item after the write.
Written(r) == IF op[r].write = "delete" THEN None ELSE r

\* Mutant: the precondition is checked on the first iteration only.
ExpectedHoldsOnce(r, n) == attempt[r] > 0 \/ op[r].expected = None \/ op[r].expected = n

\* check_expected_revision
ExpectedHolds(r, n) == op[r].expected = None \/ op[r].expected = n

\* The revision the envelope is built for.
NextSeq(r) == current[r] + 1

\* The conditions of counter_update and event_put.
SeqConditions(r) == counter = current[r] /\ NextSeq(r) \notin DOMAIN events

Return(r, out, rev) ==
    /\ phase' = [phase EXCEPT ![r] = "returned"]
    /\ outcome' = [outcome EXCEPT ![r] = out]
    /\ revision' = [revision EXCEPT ![r] = rev]

\* The call is made.
Call(r) ==
    /\ phase[r] = "idle"
    /\ \E o \in Ops : op' = [op EXCEPT ![r] = o]
    /\ phase' = [phase EXCEPT ![r] = "reading"]
    /\ UNCHANGED <<table, txn, attempt, current, outcome, revision>>

(***************************************************************************)
(* One iteration up to its await: the consistent counter read, the         *)
(* precondition, the envelope built for current + 1, the transaction sent. *)
(***************************************************************************)
ReadCounter(r) ==
    /\ phase[r] = "reading"
    /\ IF ExpectedHolds(r, counter)
       THEN /\ current' = [current EXCEPT ![r] = counter]
            /\ txn' = [txn EXCEPT ![r] = "sent"]
            /\ phase' = [phase EXCEPT ![r] = "waiting"]
            /\ UNCHANGED <<outcome, revision>>
       ELSE /\ Return(r, "mismatch", counter)
            /\ UNCHANGED <<current, txn>>
    /\ UNCHANGED <<table, op, attempt>>

\* DynamoDB executes the transaction: all three items are written.
Commit(r) ==
    /\ txn[r] = "sent"
    /\ SeqConditions(r)
    /\ StateCondition(op[r])
    /\ counter' = NextSeq(r)
    /\ events' = [s \in DOMAIN events \cup {NextSeq(r)} |->
                     IF s = NextSeq(r)
                     THEN [request |-> r, item |-> op[r].item, write |-> op[r].write]
                     ELSE events[s]]
    /\ items' = [items EXCEPT ![op[r].item] = Written(r)]
    /\ txn' = [txn EXCEPT ![r] = "committed"]
    /\ UNCHANGED calls

(***************************************************************************)
(* DynamoDB cancels the transaction and says of each item why.  The third  *)
(* reason is ConditionalCheckFailed exactly when the state item's own      *)
(* condition failed.  A conflict with another transaction on the same      *)
(* items also cancels, although no condition failed.                       *)
(***************************************************************************)
Cancel(r) ==
    /\ txn[r] = "sent"
    /\ \/ /\ ~StateCondition(op[r])
          /\ txn' = [txn EXCEPT ![r] = "stateFailed"]
       \/ /\ StateCondition(op[r])
          /\ ~SeqConditions(r)
          /\ txn' = [txn EXCEPT ![r] = "cancelled"]
       \/ /\ Faulty
          /\ txn' = [txn EXCEPT ![r] = "cancelled"]
    /\ UNCHANGED <<table, calls>>

ReceiveOk(r) ==
    /\ phase[r] = "waiting"
    /\ txn[r] = "committed"
    /\ Return(r, "ok", NextSeq(r))
    /\ UNCHANGED <<table, txn, op, attempt, current>>

\* Index 2 of the cancellation reasons: Conflict for append, Ok(None) for
\* append_with_delete; neither is retried.
ReceiveStateFailed(r) ==
    /\ phase[r] = "waiting"
    /\ txn[r] = "stateFailed"
    /\ Return(r, IF op[r].write = "create" THEN "conflict" ELSE "gone", 0)
    /\ UNCHANGED <<table, txn, op, attempt, current>>

\* Mutant: one iteration too few.
ReceiveCancelledEarly(r) ==
    /\ phase[r] = "waiting"
    /\ txn[r] = "cancelled"
    /\ IF attempt[r] + 2 < MaxAttempts
       THEN /\ phase' = [phase EXCEPT ![r] = "reading"]
            /\ attempt' = [attempt EXCEPT ![r] = attempt[r] + 1]
            /\ UNCHANGED <<outcome, revision>>
       ELSE Return(r, "error", 0) /\ UNCHANGED attempt
    /\ UNCHANGED <<table, txn, op, current>>

\* Any other cancellation: the next iteration, or the error after the last.
ReceiveCancelled(r) ==
    /\ phase[r] = "waiting"
    /\ txn[r] = "cancelled"
    /\ IF attempt[r] + 1 < MaxAttempts
       THEN /\ phase' = [phase EXCEPT ![r] = "reading"]
            /\ attempt' = [attempt EXCEPT ![r] = attempt[r] + 1]
            /\ UNCHANGED <<outcome, revision>>
       ELSE /\ Return(r, "error", 0)
            /\ UNCHANGED attempt
    /\ UNCHANGED <<table, txn, op, current>>

\* Mutant: a lost answer is reported as a RevisionMismatch.
CallFailsAsMismatch(r) ==
    /\ Faulty
    /\ phase[r] \in {"reading", "waiting"}
    /\ Return(r, "mismatch", 0)
    /\ UNCHANGED <<table, txn, op, attempt, current>>

(***************************************************************************)
(* The counter read fails, the transaction's answer does not arrive, or    *)
(* the caller is dropped: an error with no retry.  A sent transaction is   *)
(* not recalled and may still commit.                                      *)
(***************************************************************************)
CallFails(r) ==
    /\ Faulty
    /\ phase[r] \in {"reading", "waiting"}
    /\ Return(r, "error", 0)
    /\ UNCHANGED <<table, txn, op, attempt, current>>

Client(r) ==
    \/ ReadCounter(r)
    \/ ReceiveOk(r)
    \/ ReceiveStateFailed(r)
    \/ ReceiveCancelled(r)

Database(r) == Commit(r) \/ Cancel(r)

Next == \E r \in Requests : Call(r) \/ Client(r) \/ Database(r) \/ CallFails(r)

Spec == Init /\ [][Next]_vars

(***************************************************************************)
(* The runtime polls a ready task, and DynamoDB answers or the SDK's       *)
(* timeout does.                                                           *)
(***************************************************************************)
Fairness == \A r \in Requests : WF_vars(Client(r)) /\ WF_vars(Database(r))

FairSpec == Spec /\ Fairness
-----------------------------------------------------------------------------
\* The events of request r in the log.
EventsOf(r) == {s \in DOMAIN events : events[s].request = r}

\* The log is gap-free and the counter is its head: EVT# items 1 .. counter
\* and no other exist, so a reader paging by seq misses nothing.
GapFree == DOMAIN events = 1 .. counter

\* Replaying the log yields the state table: every state item is what the
\* latest event about it wrote, and is absent when no event is about it.
StateIsReplay ==
    \A i \in Items :
        LET about == {s \in DOMAIN events : events[s].item = i}
        IN  \/ about = {} /\ items[i] = None
            \/ \E last \in about :
                  /\ \A s \in about : s <= last
                  /\ items[i] = IF events[last].write = "delete"
                                THEN None
                                ELSE events[last].request

\* Retrying never appends twice: a call leaves at most one event, whatever
\* was cancelled, conflicted or lost on the way.
AppendedOnce == \A r \in Requests : \A s, t \in EventsOf(r) : s = t

\* An acknowledged append is in the log at the acknowledged revision and
\* carries that call's write.
AckedIsLogged ==
    \A r \in Requests : outcome[r] = "ok" =>
        /\ revision[r] \in DOMAIN events
        /\ events[revision[r]] = [request |-> r, item |-> op[r].item, write |-> op[r].write]

\* A refusal is final: a call that returned RevisionMismatch, Conflict or
\* Ok(None) has no event and no transaction that could still add one.
RefusedIsAbsent ==
    \A r \in Requests : outcome[r] \in {"mismatch", "conflict", "gone"} =>
        EventsOf(r) = {} /\ txn[r] # "sent"

\* A conditional append lands directly on the revision it demanded, however
\* often it was retried: nothing is ever slipped in between.
ExpectedIsPredecessor ==
    \A r \in Requests : \A s \in EventsOf(r) :
        op[r].expected # None => s = op[r].expected + 1

\* What append and append_with_delete answer is true now and stays true: a
\* success is in the log, a refusal never will be, and an append under a
\* demanded revision is the next one after it.
TrueAnswers == AckedIsLogged /\ RefusedIsAbsent /\ ExpectedIsPredecessor

\* The state guards hold in the log itself: a create is never logged over a
\* live item, and a delete is never logged for an item that is not there, so
\* one item is never created twice or deleted twice in a row.
GuardsHoldInLog ==
    \A s \in DOMAIN events :
        LET before == {t \in DOMAIN events : t < s /\ events[t].item = events[s].item}
            live == \E t \in before :
                       /\ events[t].write # "delete"
                       /\ \A u \in before : u <= t
        IN  /\ events[s].write = "create" => ~live
            /\ events[s].write = "delete" => live

\* The log is append-only: no step removes, renumbers or rewrites an event.
AppendOnly ==
    [][\A s \in DOMAIN events : s \in DOMAIN events' /\ events'[s] = events[s]]_vars

\* The retry loop is bounded and waits on nobody else, so every call returns;
\* without faults of the service it does so without an error as long as the
\* ceiling is at least the number of concurrent appends (the comment on
\* MAX_APPEND_ATTEMPTS): every lost race is another append's success.
EveryCallReturns ==
    /\ [](\A r \in Requests : ~Faulty /\ Cardinality(Requests) <= MaxAttempts
                                => outcome[r] # "error")
    /\ \A r \in Requests : (phase[r] # "idle") ~> (phase[r] = "returned")

\* The log implements the indivisible log: the step that matters is Commit,
\* and the counter reads, cancellations and retries are invisible.
Atomic ==
    INSTANCE AtomicLog
    WITH log <- [s \in 1 .. counter |-> events[s]],
         state <- items,
         call <- op,
         answer <- [r \in Requests |-> [tag |-> outcome[r], revision |-> revision[r]]]

\* Everything a caller of append and append_with_delete can observe of the
\* counter, the events, the items and the answers, it could observe of a log
\* whose appends are indivisible.
ImplementsAtomicLog == Atomic!Spec
=============================================================================
