--------------------------- MODULE EventLogProofs ---------------------------
(***************************************************************************)
(* The event log's safety for any number of requests, items, retries and   *)
(* expected revisions.  The invariants of EventLog are not inductive: what *)
(* makes them so is how far each call's transaction can have got (CallInv).*)
(* The second part is about what the log holds: signed events, which       *)
(* verify from outside (EventAudit).                                       *)
(***************************************************************************)
EXTENDS EventLog, EventAudit, TLAPS

\* The event a transaction of r puts.
EventOf(r) == [request |-> r, item |-> op[r].item, write |-> op[r].write]

\* The life of one call: phase, outcome and transaction agree, a transaction
\* is sent only for a revision the caller accepts, and the log holds the
\* call's event exactly when its transaction committed.
CallInv(r) ==
    /\ phase[r] # "returned" <=> outcome[r] = "pending"
    /\ phase[r] = "idle" => txn[r] = "none" /\ op[r] = None
    /\ phase[r] = "reading" => txn[r] \in {"none", "cancelled"}
    /\ txn[r] \in {"sent", "committed"} =>
          /\ phase[r] \in {"waiting", "returned"}
          /\ outcome[r] \in {"pending", "ok", "error"}
          /\ ExpectedHolds(r, current[r])
    /\ txn[r] # "committed" => \A s \in DOMAIN events : events[s].request # r
    /\ txn[r] = "committed" =>
          /\ current[r] + 1 \in DOMAIN events
          /\ events[current[r] + 1] = EventOf(r)
          /\ \A s \in DOMAIN events : events[s].request = r => s = current[r] + 1
    /\ txn[r] = "stateFailed" => op[r].write \in {"create", "delete"}
    /\ outcome[r] = "ok" => txn[r] = "committed" /\ revision[r] = current[r] + 1

IInv ==
    /\ TypeOK
    /\ GapFree
    /\ StateIsReplay
    /\ GuardsHoldInLog
    /\ \A r \in Requests : CallInv(r)

LEMMA InitIInv == Init => IInv
<1> SUFFICES ASSUME Init PROVE IInv
  BY Zenon
<1>1. TypeOK
  BY ConstantsAssumption, Zenon DEF Init, TypeOK, Phases, Txns, Outcomes
<1>2. DOMAIN events = {} /\ counter = 0
  BY Zenon DEF Init
<1>3. GapFree /\ StateIsReplay /\ GuardsHoldInLog
  BY <1>2 DEF Init, GapFree, StateIsReplay, GuardsHoldInLog
<1>4. ASSUME NEW r \in Requests PROVE CallInv(r)
  BY <1>2, Zenon DEF Init, CallInv
<1> QED
  BY <1>1, <1>3, <1>4, Zenon DEF IInv

\* Calls, reads, answers and failures touch neither the table nor a
\* transaction that is in the log; only Commit does.
LEMMA TypePreserved == TypeOK /\ [Next]_vars => TypeOK'
<1> SUFFICES ASSUME TypeOK, [Next]_vars PROVE TypeOK'
  BY Zenon
<1> USE ConstantsAssumption
<1>1. ASSUME NEW r \in Requests, Call(r) PROVE TypeOK'
  BY <1>1 DEF TypeOK, Call, table, Phases
<1>2. ASSUME NEW r \in Requests, ReadCounter(r) PROVE TypeOK'
  BY <1>2 DEF TypeOK, ReadCounter, Return, table, Phases, Txns, Outcomes
<1>3. ASSUME NEW r \in Requests, Commit(r) PROVE TypeOK'
  <2> DEFINE n == current[r] + 1
             e == [request |-> r, item |-> op[r].item, write |-> op[r].write]
  <2>1. n \in Nat /\ op[r] \in Ops
    BY <1>3 DEF TypeOK, Commit, Txns
  <2>2. e \in Events /\ Written(r) \in Requests \cup {None}
    BY <2>1, Zenon DEF Events, Ops, Written
  <2>3. /\ DOMAIN events' = DOMAIN events \cup {n}
        /\ \A s \in DOMAIN events' : events'[s] = IF s = n THEN e ELSE events[s]
    BY <1>3, Zenon DEF Commit, NextSeq
  <2>4. DOMAIN events' \subseteq Nat /\ \A s \in DOMAIN events' : events'[s] \in Events
    BY <2>1, <2>2, <2>3, Zenon DEF TypeOK
  <2>5. counter' \in Nat /\ items' \in [Items -> Requests \cup {None}]
    BY <1>3, <2>1, <2>2, Zenon DEF TypeOK, Commit, NextSeq, Ops
  <2> HIDE DEF n, e
  <2> QED
    BY <1>3, <2>1, <2>4, <2>5, Zenon DEF TypeOK, Commit, calls, Txns
<1>4. ASSUME NEW r \in Requests, Cancel(r) PROVE TypeOK'
  BY <1>4, Zenon DEF TypeOK, Cancel, calls, table, Txns
<1>5. ASSUME NEW r \in Requests, ReceiveOk(r) PROVE TypeOK'
  BY <1>5 DEF TypeOK, ReceiveOk, NextSeq, Return, table, Phases, Outcomes
<1>6. ASSUME NEW r \in Requests, ReceiveStateFailed(r) PROVE TypeOK'
  BY <1>6, Zenon DEF TypeOK, ReceiveStateFailed, Return, table, Phases, Outcomes
<1>7. ASSUME NEW r \in Requests, ReceiveCancelled(r) PROVE TypeOK'
  BY <1>7 DEF TypeOK, ReceiveCancelled, Return, table, Phases, Outcomes
<1>8. ASSUME NEW r \in Requests, CallFails(r) PROVE TypeOK'
  BY <1>8, Zenon DEF TypeOK, CallFails, Return, table, Phases, Outcomes
<1>9. CASE UNCHANGED vars
  BY <1>9, Zenon DEF TypeOK, vars, table, calls
<1> QED
  BY <1>1, <1>2, <1>3, <1>4, <1>5, <1>6, <1>7, <1>8, <1>9, Zenon DEF Next, Client, Database

\* A step that leaves the table alone keeps what is said of the table.
LEMMA TableUnchanged ==
    ASSUME GapFree, StateIsReplay, GuardsHoldInLog, UNCHANGED table
    PROVE  GapFree' /\ StateIsReplay' /\ GuardsHoldInLog'
BY DEF table, GapFree, StateIsReplay, GuardsHoldInLog

\* The steps other than Commit keep every call's invariant: the log does not
\* change, and the call that moves moves along its life cycle.
LEMMA QuietStep ==
    ASSUME IInv, NEW r \in Requests,
           \/ Call(r) \/ ReadCounter(r) \/ Cancel(r) \/ ReceiveOk(r)
           \/ ReceiveStateFailed(r) \/ ReceiveCancelled(r) \/ CallFails(r)
    PROVE  UNCHANGED table /\ \A q \in Requests : CallInv(q)'
<1> USE ConstantsAssumption
<1>1. UNCHANGED table
  BY Zenon DEF Call, ReadCounter, Cancel, ReceiveOk, ReceiveStateFailed, ReceiveCancelled, CallFails
<1> SUFFICES ASSUME NEW q \in Requests PROVE CallInv(q)'
  BY <1>1, Zenon
<1>2. CallInv(q) /\ TypeOK
  BY Zenon DEF IInv
<1>3. CASE Call(r)
  BY <1>1, <1>2, <1>3
  DEF Call, CallInv, EventOf, ExpectedHolds, TypeOK, table, Phases, Outcomes, Txns
<1>4. CASE ReadCounter(r)
  BY <1>1, <1>2, <1>4
  DEF ReadCounter, Return, CallInv, EventOf, ExpectedHolds, TypeOK, table, Phases, Outcomes, Txns
<1>5. CASE Cancel(r)
  <2>1. UNCHANGED calls /\ txn' \in [Requests -> Txns]
        /\ txn[r] = "sent" /\ txn'[r] \in {"stateFailed", "cancelled"}
        /\ \A p \in Requests \ {r} : txn'[p] = txn[p]
    BY <1>2, <1>5, Zenon DEF Cancel, TypeOK, Txns
  <2>2. /\ phase'[q] = phase[q] /\ op'[q] = op[q] /\ outcome'[q] = outcome[q]
        /\ current'[q] = current[q] /\ revision'[q] = revision[q]
        /\ EventOf(q)' = EventOf(q) /\ events' = events
        /\ ExpectedHolds(q, current[q])' <=> ExpectedHolds(q, current[q])
    BY <1>1, <2>1, Zenon DEF calls, table, EventOf, ExpectedHolds
  <2>3. CASE q # r
    BY <1>2, <2>1, <2>2, <2>3, Zenon DEF CallInv
  <2>4. CASE q = r
    <3>1. txn'[r] = "stateFailed" => op[r].write \in {"create", "delete"}
      BY <1>2, <1>5, <2>1, Zenon DEF Cancel, StateCondition, TypeOK, Ops, Writes
    <3>2. phase[r] \in {"waiting", "returned"} /\ outcome[r] # "ok"
      BY <1>2, <2>1, <2>4, Zenon DEF CallInv
    <3> QED
      BY <1>2, <2>1, <2>2, <2>4, <3>1, <3>2, Zenon DEF CallInv
  <2> QED
    BY <2>3, <2>4, Zenon
<1>6. CASE ReceiveOk(r)
  BY <1>1, <1>2, <1>6, Zenon
  DEF ReceiveOk, NextSeq, Return, CallInv, EventOf, ExpectedHolds, TypeOK, table, Phases, Outcomes, Txns
<1>7. CASE ReceiveStateFailed(r)
  BY <1>1, <1>2, <1>7
  DEF ReceiveStateFailed, Return, CallInv, EventOf, ExpectedHolds, TypeOK, table, Phases,
      Outcomes, Txns
<1>8. CASE ReceiveCancelled(r)
  BY <1>1, <1>2, <1>8
  DEF ReceiveCancelled, Return, CallInv, EventOf, ExpectedHolds, TypeOK, table, Phases,
      Outcomes, Txns
<1>9. CASE CallFails(r)
  BY <1>1, <1>2, <1>9, Zenon
  DEF CallFails, Return, CallInv, EventOf, ExpectedHolds, TypeOK, table, Phases, Outcomes, Txns
<1> QED
  BY <1>3, <1>4, <1>5, <1>6, <1>7, <1>8, <1>9, Zenon

\* What Commit does to the log: one event more, at the end.
LEMMA CommitAppends ==
    ASSUME IInv, NEW r \in Requests, Commit(r)
    PROVE  /\ op[r] \in Ops
           /\ current[r] = counter
           /\ counter' = counter + 1
           /\ DOMAIN events = 1 .. counter
           /\ DOMAIN events' = 1 .. counter + 1
           /\ events'[counter + 1] = EventOf(r)
           /\ \A s \in 1 .. counter : events'[s] = events[s]
<1>1. counter \in Nat /\ current[r] = counter /\ op[r] \in Ops /\ DOMAIN events = 1 .. counter
  BY Zenon DEF IInv, TypeOK, GapFree, Commit, SeqConditions, NextSeq, Txns
<1>2. (1 .. counter) \cup {counter + 1} = 1 .. counter + 1 /\ counter + 1 \notin 1 .. counter
  BY <1>1
<1>3. events' = [s \in 1 .. counter + 1 |-> IF s = counter + 1 THEN EventOf(r) ELSE events[s]]
  BY <1>1, <1>2, Zenon DEF Commit, NextSeq, EventOf
<1> QED
  BY <1>1, <1>2, <1>3, Zenon DEF Commit

LEMMA CommitStep ==
    ASSUME IInv, NEW r \in Requests, Commit(r)
    PROVE  IInv'
<1> USE ConstantsAssumption
<1> DEFINE n == counter + 1
<1>1. TypeOK /\ GapFree /\ StateIsReplay /\ GuardsHoldInLog
  BY Zenon DEF IInv
<1>2. TypeOK'
  BY <1>1, TypePreserved, Zenon DEF Next, Database
<1>3. /\ op[r] \in Ops
      /\ current[r] = counter
      /\ counter' = n
      /\ DOMAIN events = 1 .. counter
      /\ DOMAIN events' = 1 .. n
      /\ events'[n] = EventOf(r)
      /\ \A s \in 1 .. counter : events'[s] = events[s]
  BY CommitAppends, Zenon
<1>4. counter \in Nat /\ n \in 1 .. n /\ 1 .. n = (1 .. counter) \cup {n}
  BY <1>1 DEF TypeOK
<1>5. GapFree'
  BY <1>3, Zenon DEF GapFree
<1>6. /\ items' = [items EXCEPT ![op[r].item] = Written(r)]
      /\ op[r].item \in Items
      /\ items \in [Items -> Requests \cup {None}]
  BY <1>1, <1>3, Zenon DEF Commit, TypeOK, Ops
<1> HIDE DEF n
<1>7. StateIsReplay'
  <2> SUFFICES ASSUME NEW i \in Items
               PROVE  LET about == {s \in DOMAIN events' : events'[s].item = i}
                      IN  \/ about = {} /\ items'[i] = None
                          \/ \E last \in about :
                                /\ \A s \in about : s <= last
                                /\ items'[i] = IF events'[last].write = "delete"
                                               THEN None
                                               ELSE events'[last].request
    BY Zenon DEF StateIsReplay
  <2> DEFINE about == {s \in DOMAIN events : events[s].item = i}
             after == {s \in DOMAIN events' : events'[s].item = i}
  <2>1. CASE i = op[r].item
    <3>1. n \in after /\ \A s \in after : s <= n
      BY <1>3, <1>4, <2>1 DEF EventOf, n
    <3>2. items'[i] = IF events'[n].write = "delete" THEN None ELSE events'[n].request
      BY <1>3, <1>6, <2>1 DEF EventOf, Written
    <3> QED
      BY <3>1, <3>2, Zenon
  <2>2. CASE i # op[r].item
    <3>1. after = about
      BY <1>3, <1>4, <2>2 DEF EventOf
    <3>2. items'[i] = items[i]
      BY <1>6, <2>2, Zenon
    <3>3. \A s \in about : events'[s] = events[s]
      BY <1>3, Zenon
    <3> HIDE DEF after
    <3>4. \/ about = {} /\ items[i] = None
          \/ \E last \in about :
                /\ \A s \in about : s <= last
                /\ items[i] = IF events[last].write = "delete"
                              THEN None
                              ELSE events[last].request
      BY <1>1, Zenon DEF StateIsReplay
    <3> HIDE DEF about
    <3> QED
      BY <3>1, <3>2, <3>3, <3>4, Zenon DEF after
  <2> QED
    BY <2>1, <2>2, Zenon
<1>8. GuardsHoldInLog'
  <2> DEFINE before(s) == {t \in DOMAIN events : t < s /\ events[t].item = events[s].item}
             after(s) == {t \in DOMAIN events' : t < s /\ events'[t].item = events'[s].item}
             live(s) == \E t \in before(s) : events[t].write # "delete" /\ \A u \in before(s) : u <= t
             alive(s) == \E t \in after(s) : events'[t].write # "delete" /\ \A u \in after(s) : u <= t
  <2> SUFFICES ASSUME NEW s \in DOMAIN events'
               PROVE  /\ events'[s].write = "create" => ~alive(s)
                      /\ events'[s].write = "delete" => alive(s)
    BY Zenon DEF GuardsHoldInLog
  <2>1. CASE s \in 1 .. counter
    <3>1. after(s) = before(s) /\ events'[s] = events[s]
      BY <1>3, <1>4, <2>1 DEF n
    <3>2. \A t \in before(s) : events'[t] = events[t]
      BY <1>3, Zenon
    <3>3. /\ events[s].write = "create" => ~live(s)
          /\ events[s].write = "delete" => live(s)
      BY <1>1, <1>3, <2>1, Zenon DEF GuardsHoldInLog
    <3> HIDE DEF after, before
    <3> QED
      BY <3>1, <3>2, <3>3, Zenon
  <2>2. CASE s = n
    <3> DEFINE about == {t \in DOMAIN events : events[t].item = op[r].item}
    <3>1. after(s) = about /\ \A t \in about : events'[t] = events[t]
      BY <1>3, <1>4, <2>2 DEF n, EventOf
    <3>2. \/ about = {} /\ items[op[r].item] = None
          \/ \E last \in about :
                /\ \A t \in about : t <= last
                /\ items[op[r].item] = IF events[last].write = "delete"
                                       THEN None
                                       ELSE events[last].request
      BY <1>1, <1>6, Zenon DEF StateIsReplay
    <3>3. \A t \in about : events[t].request # None /\ t \in Nat
      BY <1>1 DEF TypeOK, Events
    <3> HIDE DEF about
    <3>4. (\E t \in about : events[t].write # "delete" /\ \A u \in about : u <= t)
             <=> items[op[r].item] # None
      BY <3>2, <3>3
    <3>5. alive(s) <=> items[op[r].item] # None
      <4> HIDE DEF after
      <4> QED BY <3>1, <3>4, Zenon
    <3>6. events'[s].write = op[r].write
      BY <1>3, <2>2 DEF EventOf
    <3>7. /\ op[r].write = "create" => items[op[r].item] = None
          /\ op[r].write = "delete" => items[op[r].item] # None
      BY Zenon DEF Commit, StateCondition
    <3> HIDE DEF alive
    <3> QED
      BY <3>5, <3>6, <3>7, Zenon
  <2> QED
    BY <1>3, <1>4, <2>1, <2>2, Zenon
<1>9. ASSUME NEW q \in Requests PROVE CallInv(q)'
  <2>1. CallInv(q) /\ CallInv(r)
    BY Zenon DEF IInv
  <2>2. CASE q = r
    BY <1>1, <1>3, <1>4, <2>1, <2>2
    DEF Commit, calls, CallInv, EventOf, ExpectedHolds, TypeOK, Txns, n
  <2>3. CASE q # r
    <3>1. txn'[q] = txn[q] /\ UNCHANGED calls
      BY <1>1, <2>3, Zenon DEF Commit, TypeOK
    <3>2. \A s \in 1 .. n : events'[s].request = q => s \in 1 .. counter
      BY <1>3, <1>4, <2>3 DEF EventOf
    <3>3. /\ phase'[q] = phase[q] /\ op'[q] = op[q] /\ outcome'[q] = outcome[q]
          /\ current'[q] = current[q] /\ revision'[q] = revision[q]
          /\ EventOf(q)' = EventOf(q)
          /\ ExpectedHolds(q, current[q])' <=> ExpectedHolds(q, current[q])
      BY <3>1, Zenon DEF calls, EventOf, ExpectedHolds
    <3>4. txn[q] # "committed" => \A s \in DOMAIN events' : events'[s].request # q
      BY <1>3, <1>4, <2>1, <3>2 DEF CallInv
    <3>5. txn[q] = "committed" =>
             /\ current[q] + 1 \in DOMAIN events'
             /\ events'[current[q] + 1] = EventOf(q)
             /\ \A s \in DOMAIN events' : events'[s].request = q => s = current[q] + 1
      BY <1>3, <1>4, <2>1, <3>2 DEF CallInv
    <3> QED
      BY <2>1, <3>1, <3>3, <3>4, <3>5, Zenon DEF CallInv
  <2> QED
    BY <2>2, <2>3, Zenon
<1> QED
  BY <1>2, <1>5, <1>7, <1>8, <1>9, Zenon DEF IInv

LEMMA StepIInv == IInv /\ [Next]_vars => IInv'
<1> SUFFICES ASSUME IInv, [Next]_vars PROVE IInv'
  BY Zenon
<1>1. TypeOK'
  BY TypePreserved, Zenon DEF IInv
<1>2. CASE UNCHANGED vars
  <2>1. UNCHANGED table
    BY <1>2, Zenon DEF vars
  <2>2. GapFree' /\ StateIsReplay' /\ GuardsHoldInLog'
    BY <2>1, TableUnchanged, Zenon DEF IInv
  <2>3. \A r \in Requests : CallInv(r)'
    BY <1>2 DEF IInv, vars, table, calls, CallInv, EventOf, ExpectedHolds
  <2> QED
    BY <1>1, <2>2, <2>3, Zenon DEF IInv
<1>3. ASSUME NEW r \in Requests,
             \/ Call(r) \/ ReadCounter(r) \/ Cancel(r) \/ ReceiveOk(r)
             \/ ReceiveStateFailed(r) \/ ReceiveCancelled(r) \/ CallFails(r)
      PROVE  IInv'
  <2>1. UNCHANGED table /\ \A q \in Requests : CallInv(q)'
    BY <1>3, QuietStep, Zenon
  <2>2. GapFree' /\ StateIsReplay' /\ GuardsHoldInLog'
    BY <2>1, TableUnchanged, Zenon DEF IInv
  <2> QED
    BY <1>1, <2>1, <2>2, Zenon DEF IInv
<1>4. ASSUME NEW r \in Requests, Commit(r) PROVE IInv'
  BY <1>4, CommitStep, Zenon
<1> QED
  BY <1>2, <1>3, <1>4, Zenon DEF Next, Client, Database

LEMMA Invariance == Spec => []IInv
BY InitIInv, StepIInv, PTL DEF Spec
-----------------------------------------------------------------------------
\* Type correctness of the log, its items and its calls.
THEOREM TypeCorrect == Spec => []TypeOK
<1>1. IInv => TypeOK
  BY Zenon DEF IInv
<1> QED
  BY <1>1, Invariance, PTL

\* The EVT# items are exactly 1 .. counter, for any number of concurrent
\* appends, any failures and any retries.
THEOREM LogGapFree == Spec => []GapFree
<1>1. IInv => GapFree
  BY Zenon DEF IInv
<1> QED
  BY <1>1, Invariance, PTL

\* The state items are at every moment the replay of the log.
THEOREM ReplayIsState == Spec => []StateIsReplay
<1>1. IInv => StateIsReplay
  BY Zenon DEF IInv
<1> QED
  BY <1>1, Invariance, PTL

\* MustNotExist and the delete's attribute_exists hold in the log itself.
THEOREM LogRespectsGuards == Spec => []GuardsHoldInLog
<1>1. IInv => GuardsHoldInLog
  BY Zenon DEF IInv
<1> QED
  BY <1>1, Invariance, PTL

\* The retry loop never appends the same call twice.
THEOREM RetriesAppendOnce == Spec => []AppendedOnce
<1>1. IInv => AppendedOnce
  BY DEF IInv, CallInv, AppendedOnce, EventsOf
<1> QED
  BY <1>1, Invariance, PTL

\* Ok(revision) is durable and truthful; an X-Fg-If-Revision append lands on
\* the revision it demanded; and a refused append has left no trace and can
\* leave none later.
THEOREM AnswersAreTrue == Spec => []TrueAnswers
<1>1. ASSUME IInv PROVE AckedIsLogged
  BY <1>1 DEF IInv, CallInv, AckedIsLogged, EventOf
<1>2. ASSUME IInv PROVE ExpectedIsPredecessor
  BY <1>2 DEF IInv, CallInv, ExpectedIsPredecessor, EventsOf, ExpectedHolds, TypeOK, Txns
<1>3. ASSUME IInv PROVE RefusedIsAbsent
  BY <1>3 DEF IInv, CallInv, RefusedIsAbsent, EventsOf, TypeOK, Txns, Outcomes
<1>4. IInv => TrueAnswers
  BY <1>1, <1>2, <1>3, Zenon DEF TrueAnswers
<1> QED
  BY <1>4, Invariance, PTL

\* No step removes, renumbers or rewrites an event.
THEOREM LogAppendOnly == Spec => AppendOnly
<1> DEFINE Kept == \A s \in DOMAIN events : s \in DOMAIN events' /\ events'[s] = events[s]
<1>1. ASSUME IInv, [Next]_vars PROVE Kept \/ UNCHANGED vars
  <2>1. ASSUME NEW r \in Requests, Commit(r) PROVE Kept
    BY <1>1, <2>1, CommitAppends, SMTT(20) DEF IInv, TypeOK
  <2>2. ASSUME NEW r \in Requests,
               \/ Call(r) \/ ReadCounter(r) \/ Cancel(r) \/ ReceiveOk(r)
               \/ ReceiveStateFailed(r) \/ ReceiveCancelled(r) \/ CallFails(r)
        PROVE  Kept
    BY <1>1, <2>2, QuietStep, Zenon DEF table
  <2> QED
    BY <1>1, <2>1, <2>2, Zenon DEF Next, Client, Database
<1>2. IInv /\ [Next]_vars => [Kept]_vars
  BY <1>1, Zenon
<1> QED
  BY <1>2, Invariance, PTL DEF Spec, AppendOnly
-----------------------------------------------------------------------------
\* The abstract values of the refinement mapping.
Log == [s \in 1 .. counter |-> events[s]]
Answers == [r \in Requests |-> [tag |-> outcome[r], revision |-> revision[r]]]

LEMMA LogIsSequence ==
    ASSUME IInv
    PROVE  Log \in Seq(Events) /\ Len(Log) = counter /\ \A s \in 1 .. counter : Log[s] = events[s]
<1>1. counter \in Nat /\ \A s \in 1 .. counter : events[s] \in Events
  BY Zenon DEF IInv, TypeOK, GapFree
<1> QED
  BY <1>1 DEF Log

LEMMA InitRefines == Init => Atomic!Init
<1> SUFFICES ASSUME Init PROVE Atomic!Init
  BY Zenon
<1>1. Log = <<>>
  BY DEF Init, Log
<1>2. Answers = [r \in Requests |-> [tag |-> "pending", revision |-> 0]]
  BY Zenon DEF Init, Answers
<1> QED
  BY <1>1, <1>2, Zenon DEF Init, Atomic!Init, Log, Answers

\* Commit is the indivisible append.
LEMMA CommitRefines ==
    ASSUME IInv, NEW r \in Requests, Commit(r)
    PROVE  Atomic!Append_(r)
<1>1. CallInv(r) /\ TypeOK
  BY Zenon DEF IInv
<1>2. /\ op[r] \in Ops
      /\ current[r] = counter
      /\ counter' = counter + 1
      /\ DOMAIN events = 1 .. counter
      /\ DOMAIN events' = 1 .. counter + 1
      /\ events'[counter + 1] = EventOf(r)
      /\ \A s \in 1 .. counter : events'[s] = events[s]
  BY CommitAppends, Zenon
<1>3. Log \in Seq(Events) /\ Len(Log) = counter /\ \A s \in 1 .. counter : Log[s] = events[s]
  BY LogIsSequence, Zenon
<1>4. Log' = Append(Log, EventOf(r))
  <2>1. counter \in Nat
    BY <1>1, Zenon DEF TypeOK
  <2>2. Log' = [s \in 1 .. counter + 1 |-> IF s = counter + 1 THEN EventOf(r) ELSE events[s]]
    BY <1>2, <2>1 DEF Log
  <2>3. EventOf(r) \in Events
    BY <1>2, Zenon DEF EventOf, Events, Ops
  <2> DEFINE longer == Append(Log, EventOf(r))
  <2>4. /\ longer \in Seq(Events)
        /\ Len(longer) = counter + 1
        /\ longer[counter + 1] = EventOf(r)
        /\ \A s \in 1 .. counter : longer[s] = Log[s]
    BY <1>3, <2>1, <2>3
  <2> HIDE DEF longer
  <2>5. longer = [s \in 1 .. counter + 1 |-> longer[s]]
    BY <2>1, <2>4
  <2>6. \A s \in 1 .. counter + 1 : longer[s] = IF s = counter + 1 THEN EventOf(r) ELSE events[s]
    BY <1>3, <2>1, <2>4
  <2>7. Log' = longer
    BY <2>2, <2>5, <2>6, Zenon
  <2> QED
    BY <2>7, Zenon DEF longer
<1>5. ~\E m \in 1 .. Len(Log) : Log[m].request = r
  BY <1>1, <1>2, <1>3, SMTT(20) DEF CallInv, Commit
<1>6. Answers[r].tag \in {"pending", "error"} /\ Answers' = Answers /\ op' = op
  BY <1>1, Zenon DEF CallInv, Commit, calls, Answers
<1>7. op[r] # None /\ (op[r].expected = None \/ op[r].expected = counter)
  BY <1>1, <1>2, ConstantsAssumption, Zenon DEF CallInv, Commit, ExpectedHolds
<1>8. /\ op[r].write = "create" => items[op[r].item] = None
      /\ op[r].write = "delete" => items[op[r].item] # None
      /\ items' = [items EXCEPT ![op[r].item] = IF op[r].write = "delete" THEN None ELSE r]
  BY Zenon DEF Commit, StateCondition, Written
<1> QED
  BY <1>3, <1>4, <1>5, <1>6, <1>7, <1>8, Zenon
  DEF Atomic!Append_, Atomic!Logged, Log, Answers, EventOf

\* Returning is the truthful answer; the other steps are not seen.
LEMMA ReturnRefines ==
    ASSUME IInv, NEW r \in Requests, UNCHANGED <<table, op>>,
           op[r] # None, outcome[r] = "pending",
           NEW tag \in {"ok", "mismatch", "conflict", "gone", "error"},
           NEW rev \in 0 .. counter,
           Return(r, tag, rev), Atomic!Truthful(r, tag, rev)
    PROVE  Atomic!Answer(r)
<1>1. TypeOK
  BY Zenon DEF IInv
<1>2. Log' = Log
  BY Zenon DEF Log, table
<1>3. Answers' = [Answers EXCEPT ![r] = [tag |-> tag, revision |-> rev]]
  BY <1>1, Zenon DEF Answers, Return, TypeOK
<1>4. Answers[r].tag = "pending"
  BY Zenon DEF Answers
<1>5. Len(Log) = counter
  BY LogIsSequence, Zenon
<1> QED
  BY <1>2, <1>3, <1>4, <1>5, Zenon DEF Atomic!Answer, Answers, Log, table

\* A call under way has arguments and no outcome yet.
LEMMA CallPending ==
    ASSUME IInv, NEW r \in Requests, phase[r] \in {"reading", "waiting"}
    PROVE  op[r] # None /\ outcome[r] = "pending" /\ counter \in 0 .. counter /\ 0 \in 0 .. counter
<1>1. TypeOK /\ CallInv(r)
  BY Zenon DEF IInv
<1>2. outcome[r] = "pending"
  BY <1>1, Zenon DEF CallInv
<1>3. op[r] # None
  BY <1>1, Zenon DEF TypeOK
<1>4. counter \in Nat
  BY <1>1, Zenon DEF TypeOK
<1> QED
  BY <1>2, <1>3, <1>4

LEMMA StepRefines == IInv /\ [Next]_vars => [Atomic!Next]_(Atomic!vars)
<1> SUFFICES ASSUME IInv, [Next]_vars
             PROVE  Atomic!Next \/ UNCHANGED Atomic!vars
  BY Zenon
<1> USE ConstantsAssumption
<1>1. TypeOK /\ \A r \in Requests : CallInv(r)
  BY Zenon DEF IInv
<1>2. Log \in Seq(Events) /\ Len(Log) = counter /\ \A s \in 1 .. counter : Log[s] = events[s]
  BY LogIsSequence, Zenon
<1>3. ASSUME UNCHANGED <<table, op, outcome, revision>> PROVE UNCHANGED Atomic!vars
  BY <1>3, Zenon DEF Atomic!vars, table
<1>4. ASSUME NEW r \in Requests, ~\E s \in DOMAIN events : events[s].request = r
      PROVE  ~Atomic!Logged(r)
  BY <1>2, <1>4, Zenon DEF Atomic!Logged, Log, IInv, GapFree
<1>5. ASSUME NEW r \in Requests, Call(r) PROVE Atomic!Call(r)
  <2>1. op[r] = None
    BY <1>1, <1>5, Zenon DEF Call, CallInv
  <2> QED
    BY <1>5, <2>1, Zenon DEF Call, Atomic!Call, table
<1>6. ASSUME NEW r \in Requests, ReadCounter(r)
      PROVE  Atomic!Answer(r) \/ UNCHANGED Atomic!vars
  <2>1. CASE ExpectedHolds(r, counter)
    BY <1>3, <1>6, <2>1, Zenon DEF ReadCounter
  <2>2. CASE ~ExpectedHolds(r, counter)
    <3>1. ~\E s \in DOMAIN events : events[s].request = r
      BY <1>1, <1>6 DEF ReadCounter, CallInv
    <3>2. Atomic!Truthful(r, "mismatch", counter)
      BY <1>2, <1>4, <2>2, <3>1, Zenon DEF Atomic!Truthful, ExpectedHolds, Log
    <3>3. op[r] # None /\ outcome[r] = "pending" /\ counter \in 0 .. counter
      BY <1>6, CallPending, Zenon DEF ReadCounter
    <3> QED
      BY <1>6, <2>2, <3>2, <3>3, ReturnRefines, Zenon DEF ReadCounter
  <2> QED
    BY <2>1, <2>2, Zenon
<1>7. ASSUME NEW r \in Requests, Cancel(r) PROVE UNCHANGED Atomic!vars
  BY <1>3, <1>7, Zenon DEF Cancel, calls
<1>8. ASSUME NEW r \in Requests, ReceiveOk(r) PROVE Atomic!Answer(r)
  <2>1. current[r] + 1 \in 1 .. counter /\ events[current[r] + 1].request = r
    <3>1. CallInv(r) /\ txn[r] = "committed" /\ DOMAIN events = 1 .. counter
      BY <1>1, <1>8, Zenon DEF ReceiveOk, IInv, GapFree
    <3> QED
      BY <3>1 DEF CallInv, EventOf
  <2>2. Atomic!Truthful(r, "ok", current[r] + 1)
    BY <1>2, <2>1, Zenon DEF Atomic!Truthful, Log
  <2>3. op[r] # None /\ outcome[r] = "pending" /\ current[r] + 1 \in 0 .. counter
    BY <1>8, <2>1, CallPending DEF ReceiveOk
  <2> QED
    BY <1>8, <2>2, <2>3, ReturnRefines, Zenon DEF ReceiveOk, NextSeq
<1>9. ASSUME NEW r \in Requests, ReceiveStateFailed(r) PROVE Atomic!Answer(r)
  <2>1. ~\E s \in DOMAIN events : events[s].request = r
    BY <1>1, <1>9 DEF ReceiveStateFailed, CallInv
  <2>2. op[r] # None /\ outcome[r] = "pending" /\ 0 \in 0 .. counter
    BY <1>9, CallPending, Zenon DEF ReceiveStateFailed
  <2>3. CASE op[r].write = "create"
    <3>1. Atomic!Truthful(r, "conflict", 0)
      BY <1>4, <2>1, <2>3, Zenon DEF Atomic!Truthful
    <3> QED
      BY <1>9, <2>2, <2>3, <3>1, ReturnRefines, Zenon DEF ReceiveStateFailed
  <2>4. CASE op[r].write = "delete"
    <3>1. Atomic!Truthful(r, "gone", 0)
      BY <1>4, <2>1, <2>4, Zenon DEF Atomic!Truthful
    <3> QED
      BY <1>9, <2>2, <2>4, <3>1, ReturnRefines, Zenon DEF ReceiveStateFailed
  <2> QED
    BY <1>1, <1>9, <2>3, <2>4, Zenon DEF ReceiveStateFailed, CallInv
<1>10. ASSUME NEW r \in Requests, op[r] # None, outcome[r] = "pending",
              UNCHANGED <<table, op>>, Return(r, "error", 0)
       PROVE  Atomic!Answer(r)
  <2>1. Atomic!Truthful(r, "error", 0) /\ 0 \in 0 .. counter
    BY <1>1 DEF Atomic!Truthful, TypeOK
  <2> QED
    BY <1>10, <2>1, ReturnRefines, Zenon
<1>11. ASSUME NEW r \in Requests, ReceiveCancelled(r)
       PROVE  Atomic!Answer(r) \/ UNCHANGED Atomic!vars
  <2>1. op[r] # None /\ outcome[r] = "pending"
    BY <1>11, CallPending, Zenon DEF ReceiveCancelled
  <2> QED
    BY <1>3, <1>10, <1>11, <2>1, Zenon DEF ReceiveCancelled
<1>12. ASSUME NEW r \in Requests, CallFails(r) PROVE Atomic!Answer(r)
  <2>1. op[r] # None /\ outcome[r] = "pending"
    BY <1>12, CallPending, Zenon DEF CallFails
  <2> QED
    BY <1>10, <1>12, <2>1, Zenon DEF CallFails
<1>13. ASSUME NEW r \in Requests, Commit(r) PROVE Atomic!Append_(r)
  BY <1>13, CommitRefines, Zenon
<1>14. CASE UNCHANGED vars
  BY <1>3, <1>14, Zenon DEF vars, calls
<1> QED
  BY <1>5, <1>6, <1>7, <1>8, <1>9, <1>11, <1>12, <1>13, <1>14, Zenon
  DEF Next, Client, Database, Atomic!Next

\* The optimistic, retrying, multi-item protocol implements the log whose
\* appends are indivisible: the promise of append and append_with_delete.
THEOREM LogIsAtomic == Spec => ImplementsAtomicLog
BY InitRefines, StepRefines, Invariance, PTL DEF Spec, ImplementsAtomicLog, Atomic!Spec

-----------------------------------------------------------------------------
(* Signed events and their verification.                                   *)

\* The event that a writer builds for number n.
Built(org, kind, w, n, private) == BuildModelEvent(org, kind, w, w, private, w, n, <<w, n>>)

\* Its fields.
BuiltFields(org, kind, w, n, private) ==
    [event_id |-> <<w, n>>, seq |-> n, kind |-> kind, occurred_at |-> w, actor |-> w,
     narrowing |-> Narrowing(kind), schema_version |-> SchemaVersion, payload |-> w,
     key_id |-> EventSigningKeyId,
     signature |-> [base64 |-> SignBytes(private,
         [org |-> org, seq |-> n, event_id |-> <<w, n>>, kind |-> KindAsStr(kind), occurred_at |-> w,
          narrowing |-> Narrowing(kind), schema_version |-> SchemaVersion,
          payload_sha256 |-> [hash |-> w]])]]

\* Every kind is read back from its wire name.
LEMMA WireNames ==
    ASSUME NEW k \in EventKinds
    PROVE  KindFromStr(KindAsStr(k)) = k
  <1>1. CASE k = "OrgCreated"
    BY <1>1 DEF KindAsStr, KindFromStr
  <1>2. CASE k = "OrgUpdated"
    BY <1>2 DEF KindAsStr, KindFromStr
  <1>3. CASE k = "OrgUnitPut"
    BY <1>3 DEF KindAsStr, KindFromStr
  <1>4. CASE k = "PrincipalUpserted"
    BY <1>4 DEF KindAsStr, KindFromStr
  <1>5. CASE k = "PrincipalSetPut"
    BY <1>5 DEF KindAsStr, KindFromStr
  <1>6. CASE k = "GrantAdded"
    BY <1>6 DEF KindAsStr, KindFromStr
  <1>7. CASE k = "GrantRemoved"
    BY <1>7 DEF KindAsStr, KindFromStr
  <1>8. CASE k = "ResourcePromoted"
    BY <1>8 DEF KindAsStr, KindFromStr
  <1>9. CASE k = "ResourceTombstoned"
    BY <1>9 DEF KindAsStr, KindFromStr
  <1>10. CASE k = "DenyCreated"
    BY <1>10 DEF KindAsStr, KindFromStr
  <1>11. CASE k = "DenyRemoved"
    BY <1>11 DEF KindAsStr, KindFromStr
  <1>12. CASE k = "OrgActivated"
    BY <1>12 DEF KindAsStr, KindFromStr
  <1>13. CASE k = "OrgSuspended"
    BY <1>13 DEF KindAsStr, KindFromStr
  <1>14. CASE k = "OrgRestored"
    BY <1>14 DEF KindAsStr, KindFromStr
  <1>15. CASE k = "OrgKeyGenerated"
    BY <1>15 DEF KindAsStr, KindFromStr
  <1>16. CASE k = "OrgKeyRevoked"
    BY <1>16 DEF KindAsStr, KindFromStr
  <1>17. CASE k = "OrgKeyRotated"
    BY <1>17 DEF KindAsStr, KindFromStr
  <1>18. CASE k = "GroupPut"
    BY <1>18 DEF KindAsStr, KindFromStr
  <1>19. CASE k = "GroupDeleted"
    BY <1>19 DEF KindAsStr, KindFromStr
  <1> QED BY <1>1, <1>2, <1>3, <1>4, <1>5, <1>6, <1>7, <1>8, <1>9, <1>10, <1>11, <1>12, <1>13, <1>14, <1>15, <1>16, <1>17, <1>18, <1>19, Zenon DEF EventKinds

LEMMA SignedFields ==
    ASSUME NEW id, NEW seq, NEW kind, NEW at, NEW actor, NEW payload, NEW keyId, NEW sig
    PROVE  FromSigned(EventDraft(id, seq, kind, at, actor, payload), keyId, sig)
             = [event_id |-> id, seq |-> seq, kind |-> kind, occurred_at |-> at, actor |-> actor,
                narrowing |-> Narrowing(kind), schema_version |-> SchemaVersion, payload |-> payload,
                key_id |-> keyId, signature |-> sig]
  BY DEF FromSigned, EventDraft

LEMMA BuiltIs ==
    ASSUME NEW org, NEW kind, NEW w, NEW n, NEW private
    PROVE  Built(org, kind, w, n, private) = BuiltFields(org, kind, w, n, private)
  <1> DEFINE draft == EventDraft(<<w, n>>, n, kind, w, w, w)
             bytes == [org |-> org, seq |-> n, event_id |-> <<w, n>>, kind |-> KindAsStr(kind),
                       occurred_at |-> w, narrowing |-> Narrowing(kind),
                       schema_version |-> SchemaVersion, payload_sha256 |-> [hash |-> w]]
  <1>1. CanonicalBytes(draft, org) = bytes
    BY DEF CanonicalBytes, EventDraft
  <1>2. Built(org, kind, w, n, private)
          = FromSigned(draft, EventSigningKeyId, [base64 |-> SignBytes(private, bytes)])
    BY <1>1, Zenon DEF Built, BuildModelEvent
  <1> HIDE DEF bytes
  <1>3. Built(org, kind, w, n, private)
          = [event_id |-> <<w, n>>, seq |-> n, kind |-> kind, occurred_at |-> w, actor |-> w,
             narrowing |-> Narrowing(kind), schema_version |-> SchemaVersion, payload |-> w,
             key_id |-> EventSigningKeyId, signature |-> [base64 |-> SignBytes(private, bytes)]]
    BY <1>2, SignedFields
  <1> QED BY <1>3 DEF BuiltFields, bytes

\* A stored event is read back as it was built.
LEMMA EventsReadBack ==
    ASSUME NEW org, NEW kind \in EventKinds, NEW w, NEW n, NEW private, NEW item,
           item = EventItem(Built(org, kind, w, n, private))
    PROVE  /\ EnvelopeFromItem(item) = BuiltFields(org, kind, w, n, private)
           /\ item.kind = KindAsStr(kind)
  <1> DEFINE b == Built(org, kind, w, n, private)
             sig == b.signature
  <1>1. /\ DOMAIN b = {"event_id", "seq", "kind", "occurred_at", "actor", "narrowing",
                      "schema_version", "payload", "key_id", "signature"}
        /\ b.event_id = <<w, n>> /\ b.seq = n /\ b.kind = kind /\ b.occurred_at = w /\ b.actor = w
        /\ b.payload = w /\ b.key_id = EventSigningKeyId
        /\ b.signature = BuiltFields(org, kind, w, n, private).signature
    BY BuiltIs DEF BuiltFields
  <1> HIDE DEF b
  <1>2. /\ item.event_id = <<w, n>> /\ item.seq = n /\ item.kind = KindAsStr(kind)
        /\ item.occurred_at = w /\ item.actor.json = w /\ item.payload.json = w
        /\ item.key_id = EventSigningKeyId /\ item.signature = sig
    BY <1>1 DEF EventItem, b
  <1>3. EnvelopeFromItem(item)
          = FromSigned(EventDraft(<<w, n>>, n, kind, w, w, w), EventSigningKeyId, sig)
    BY <1>2, WireNames, Zenon DEF EnvelopeFromItem
  <1>4. BuiltFields(org, kind, w, n, private)
          = [event_id |-> <<w, n>>, seq |-> n, kind |-> kind, occurred_at |-> w, actor |-> w,
             narrowing |-> Narrowing(kind), schema_version |-> SchemaVersion, payload |-> w,
             key_id |-> EventSigningKeyId, signature |-> sig]
    BY <1>1 DEF BuiltFields
  <1> QED BY <1>2, <1>3, <1>4, SignedFields
KeyRing(private) == [id \in {EventSigningKeyId} |-> PublicKey(private)]

\* It verifies under the key that signed it, and tells its number and kind.
LEMMA BuiltVerifies ==
    ASSUME NEW org, NEW kind, NEW w, NEW n, NEW private, NEW e,
           e = BuiltFields(org, kind, w, n, private)
    PROVE  /\ VerifyOne(org, e, KeyRing(private)) = "Ok"
           /\ e.seq = n /\ e.kind = kind
  <1> DEFINE keys == KeyRing(private)
             bytes == [org |-> org, seq |-> n, event_id |-> <<w, n>>, kind |-> KindAsStr(kind),
                       occurred_at |-> w, narrowing |-> Narrowing(kind),
                       schema_version |-> SchemaVersion, payload_sha256 |-> [hash |-> w]]
  <1>1. /\ e.event_id = <<w, n>> /\ e.seq = n /\ e.kind = kind /\ e.occurred_at = w
        /\ e.narrowing = Narrowing(kind) /\ e.schema_version = SchemaVersion /\ e.payload = w
        /\ e.key_id = EventSigningKeyId /\ e.signature = [base64 |-> SignBytes(private, bytes)]
    BY DEF BuiltFields
  <1>2. CanonicalBytes(e, org) = bytes
    BY <1>1, Zenon DEF CanonicalBytes
  <1> HIDE DEF bytes
  <1>3. "base64" \in DOMAIN e.signature /\ e.signature.base64 = SignBytes(private, bytes)
    BY <1>1
  <1>4. DOMAIN keys = {EventSigningKeyId} /\ keys[EventSigningKeyId] = PublicKey(private)
    BY DEF KeyRing
  <1> HIDE DEF keys
  <1>5. VerifyBytes(PublicKey(private), bytes, SignBytes(private, bytes))
    BY DEF VerifyBytes, SignBytes
  <1>6. VerifyOne(org, e, keys) = "Ok"
    BY <1>1, <1>2, <1>3, <1>4, <1>5 DEF VerifyOne
  <1> QED BY <1>1, <1>6 DEF keys

-----------------------------------------------------------------------------
Privates == AuditOrgs \X EventWriters

StoredItems ==
    {EventItem(Built(o, k, w, n, p)) :
        o \in AuditOrgs, k \in AuditKinds, w \in EventWriters, n \in Nat, p \in Privates}

\* The n-th item of a log was built for that number and signed by the one key.
Honest(o, n, item) ==
    /\ eventKeys[o] # None
    /\ \E k \in AuditKinds, w \in EventWriters : item = EventItem(Built(o, k, w, n, eventKeys[o]))

LogInv ==
    /\ eventKeys \in [AuditOrgs -> Privates \cup {None}]
    /\ eventLog \in [AuditOrgs -> Seq(StoredItems)]
    /\ \A o \in AuditOrgs : \A n \in 1 .. Len(eventLog[o]) : Honest(o, n, eventLog[o][n])

Writing(w, c) ==
    /\ DOMAIN c = {"at", "org", "kind", "actor", "private", "envelope"}
    /\ c.at \in {"counter", "transact"}
    /\ c.org \in AuditOrgs /\ c.kind \in AuditKinds /\ c.actor = w
    /\ c.private = eventKeys[c.org] /\ c.private # None
    /\ c.at = "transact" => \E n \in Nat : c.envelope = Built(c.org, c.kind, w, n, c.private)

WritersInv ==
    /\ DOMAIN writer = EventWriters
    /\ \A w \in EventWriters : \A c : c = writer[w] => c = NoWriter \/ Writing(w, c)

\* Position i of a page is in the log.
InLog(a, i) == i \in Nat /\ a.after \in Nat /\ a.after + i \in 1 .. Len(eventLog[a.org])

FetchedInv(a) ==
    /\ a.at = "keys" =>
          /\ a.org \in AuditOrgs
          /\ \A i \in DOMAIN a.envelopes :
                InLog(a, i) /\ a.envelopes[i] = EnvelopeFromItem(eventLog[a.org][a.after + i])
    /\ a.at = "done" => a.error # "verification"
    /\ a.at = "done" /\ "outcomes" \in DOMAIN a =>
          /\ a.org \in AuditOrgs
          /\ \A i \in DOMAIN a.outcomes :
                /\ InLog(a, i)
                /\ a.outcomes[i].seq = a.after + i
                /\ a.outcomes[i].kind = eventLog[a.org][a.after + i].kind

AuditInv == LogInv /\ WritersInv /\ FetchedInv(audit)

LEMMA AuditTypes ==
    ASSUME AuditInv, NEW o \in AuditOrgs
    PROVE  /\ eventLog[o] \in Seq(StoredItems) /\ Len(eventLog[o]) \in Nat
           /\ eventKeys[o] \in Privates \cup {None}
  BY DEF AuditInv, LogInv

\* A step that keeps the keys there are and only extends the logs keeps what
\* the auditor has fetched.
LEMMA FetchedStays ==
    ASSUME NEW a, FetchedInv(a),
           \A o \in AuditOrgs : Len(eventLog'[o]) \in Nat /\ Len(eventLog[o]) \in Nat
               /\ Len(eventLog[o]) <= Len(eventLog'[o])
               /\ \A n \in 1 .. Len(eventLog[o]) : eventLog'[o][n] = eventLog[o][n],
           audit = a, audit' = a
    PROVE  FetchedInv(audit)'
  <1>1. ASSUME a.org \in AuditOrgs, NEW i, InLog(a, i)
        PROVE  /\ i \in Nat /\ a.after \in Nat /\ a.after + i \in 1 .. Len(eventLog'[a.org])
               /\ eventLog'[a.org][a.after + i] = eventLog[a.org][a.after + i]
    BY <1>1, SMTT(20) DEF InLog
  <1>2. a.at = "keys" =>
          /\ a.org \in AuditOrgs
          /\ \A i \in DOMAIN a.envelopes :
                InLog(audit, i)' /\ a.envelopes[i] = EnvelopeFromItem(eventLog'[a.org][a.after + i])
    BY <1>1, Zenon DEF FetchedInv, InLog
  <1>3. a.at = "done" /\ "outcomes" \in DOMAIN a =>
          /\ a.org \in AuditOrgs
          /\ \A i \in DOMAIN a.outcomes :
                /\ InLog(audit, i)'
                /\ a.outcomes[i].seq = a.after + i
                /\ a.outcomes[i].kind = eventLog'[a.org][a.after + i].kind
    BY <1>1, Zenon DEF FetchedInv, InLog
  <1>4. a.at = "done" => a.error # "verification"
    BY Zenon DEF FetchedInv
  <1> QED BY <1>2, <1>3, <1>4, Zenon DEF FetchedInv

LEMMA LogStays ==
    ASSUME LogInv, eventLog' = eventLog, eventKeys' = eventKeys
    PROVE  LogInv'
  <1>1. ASSUME NEW o \in AuditOrgs, NEW n \in 1 .. Len(eventLog[o])
        PROVE  Honest(o, n, eventLog[o][n])'
    BY Zenon DEF LogInv, Honest
  <1> QED BY <1>1, Zenon DEF LogInv

LEMMA WritersStay ==
    ASSUME WritersInv, writer' = writer, eventKeys' = eventKeys
    PROVE  WritersInv'
  <1>1. \A w, c : Writing(w, c) => Writing(w, c)'
    BY Zenon DEF Writing
  <1> QED BY <1>1, Zenon DEF WritersInv

LEMMA ObtainKeyKeeps ==
    ASSUME AuditInv, NEW w \in EventWriters, NEW org \in AuditOrgs, NEW kind \in AuditKinds,
           ObtainKey(w, org, kind)
    PROVE  AuditInv'
  <1>0. PICK private : private = IF eventKeys[org] = None THEN <<org, w>> ELSE eventKeys[org]
    BY Zenon
  <1> DEFINE c == [at |-> "counter", org |-> org, kind |-> kind, actor |-> w,
                   private |-> private, envelope |-> None]
  <1>1. /\ eventKeys' = [eventKeys EXCEPT ![org] = private] /\ writer' = [writer EXCEPT ![w] = c]
        /\ eventLog' = eventLog /\ audit' = audit
    BY <1>0, Zenon DEF ObtainKey
  <1>2. private \in Privates /\ private # None
    <2>1. <<org, w>> \in Privates
      BY DEF Privates
    <2> QED BY <1>0, <2>1, AuditTypes, AuditAssumption, Zenon DEF Privates
  <1>3. /\ eventKeys' \in [AuditOrgs -> Privates \cup {None}]
        /\ \A o \in AuditOrgs : eventKeys[o] # None => eventKeys'[o] = eventKeys[o]
        /\ eventKeys'[org] = private
    <2>1. eventKeys[org] # None => private = eventKeys[org]
      BY <1>0
    <2> QED BY <1>1, <1>2, <2>1 DEF AuditInv, LogInv
  <1>4. LogInv'
    <2>1. eventLog' \in [AuditOrgs -> Seq(StoredItems)]
      BY <1>1, Zenon DEF AuditInv, LogInv
    <2>2. ASSUME NEW o \in AuditOrgs, NEW n \in 1 .. Len(eventLog'[o])
          PROVE  Honest(o, n, eventLog[o][n])'
      <3>1. Honest(o, n, eventLog[o][n])
        BY <1>1, <2>2, Zenon DEF AuditInv, LogInv
      <3>2. eventKeys'[o] = eventKeys[o]
        BY <1>3, <3>1, Zenon DEF Honest
      <3> QED BY <1>1, <3>1, <3>2, Zenon DEF Honest
    <2> QED BY <1>3, <2>1, <2>2, Zenon DEF LogInv
  <1>5. WritersInv'
    <2>1. /\ DOMAIN writer' = EventWriters /\ writer'[w] = c
          /\ \A v \in EventWriters \ {w} : writer'[v] = writer[v]
      BY <1>1, Zenon DEF AuditInv, WritersInv
    <2>2. Writing(w, c)'
      BY <1>2, <1>3 DEF Writing
    <2> HIDE DEF c
    <2>3. ASSUME NEW v \in EventWriters, NEW d, d = writer'[v]
          PROVE  d = NoWriter \/ Writing(v, d)'
      <3>1. CASE v = w
        BY <2>1, <2>2, <2>3, <3>1, Zenon
      <3>2. CASE v # w
        <4>1. d = NoWriter \/ Writing(v, d)
          BY <2>1, <2>3, <3>2, Zenon DEF AuditInv, WritersInv
        <4>2. Writing(v, d) => Writing(v, d)'
          BY <1>3, Zenon DEF Writing
        <4> QED BY <4>1, <4>2, Zenon
      <3> QED BY <3>1, <3>2, Zenon
    <2> QED BY <2>1, <2>3, Zenon DEF WritersInv
  <1>6. FetchedInv(audit)'
    BY <1>1, Zenon DEF AuditInv, FetchedInv, InLog
  <1> QED BY <1>4, <1>5, <1>6, Zenon DEF AuditInv

LEMMA ReadCounterKeeps ==
    ASSUME AuditInv, NEW w \in EventWriters, ReadCounterAndBuild(w)
    PROVE  AuditInv'
  <1> DEFINE c == writer[w]
             seq == Len(eventLog[c.org]) + 1
             envelope == BuildModelEvent(c.org, c.kind, c.actor, w, c.private, w, seq, <<w, seq>>)
  <1>1. /\ writer' = [writer EXCEPT ![w].at = "transact", ![w].envelope = envelope]
        /\ c.at = "counter"
        /\ eventKeys' = eventKeys /\ eventLog' = eventLog /\ audit' = audit
    BY Zenon DEF ReadCounterAndBuild
  <1>2. Writing(w, c)
    <2>1. c = NoWriter \/ Writing(w, c)
      BY Zenon DEF AuditInv, WritersInv
    <2>2. c # NoWriter
      BY <1>1 DEF NoWriter
    <2> QED BY <2>1, <2>2, Zenon
  <1>3. seq \in Nat /\ envelope = Built(c.org, c.kind, w, seq, c.private)
    <2>1. c.org \in AuditOrgs /\ c.actor = w
      BY <1>2, Zenon DEF Writing
    <2>2. seq \in Nat
      BY <2>1, AuditTypes
    <2> QED BY <2>1, <2>2, Zenon DEF Built
  <1> DEFINE d == [c EXCEPT !.at = "transact", !.envelope = envelope]
  <1>4. /\ DOMAIN writer' = EventWriters /\ writer'[w] = d
        /\ \A v \in EventWriters \ {w} : writer'[v] = writer[v]
    <2> HIDE DEF envelope
    <2>1. DOMAIN writer = EventWriters
      BY Zenon DEF AuditInv, WritersInv
    <2> QED BY <1>1, <2>1
  <1> HIDE DEF seq, envelope
  <1>5. /\ DOMAIN d = {"at", "org", "kind", "actor", "private", "envelope"} /\ d.at = "transact"
        /\ d.org = c.org /\ d.kind = c.kind /\ d.actor = c.actor /\ d.private = c.private
        /\ d.envelope = envelope
    BY <1>2 DEF Writing
  <1> HIDE DEF c, d
  <1>6. Writing(w, d)
    <2>1. d.envelope = Built(d.org, d.kind, w, seq, d.private)
      BY <1>3, <1>5, Zenon
    <2> QED BY <1>2, <1>3, <1>5, <2>1, Zenon DEF Writing
  <1>7. WritersInv'
    <2>1. ASSUME NEW v \in EventWriters, NEW e, e = writer'[v]
          PROVE  e = NoWriter \/ Writing(v, e)'
      <3>1. e = NoWriter \/ Writing(v, e)
        BY <1>4, <1>6, <2>1, Zenon DEF AuditInv, WritersInv
      <3> QED BY <1>1, <3>1, Zenon DEF Writing
    <2> QED BY <1>4, <2>1, Zenon DEF WritersInv
  <1>8. LogInv' /\ FetchedInv(audit)'
    BY <1>1, Zenon DEF AuditInv, LogInv, Honest, FetchedInv, InLog
  <1> QED BY <1>7, <1>8, Zenon DEF AuditInv

LEMMA TransactEventKeeps ==
    ASSUME AuditInv, NEW w \in EventWriters, TransactEvent(w)
    PROVE  AuditInv'
  <1>0. PICK c : c = writer[w]
    BY Zenon
  <1>1. c.at = "transact" /\ eventKeys' = eventKeys /\ audit' = audit
    BY <1>0, Zenon DEF TransactEvent
  <1>2. Writing(w, c)
    <2>1. c = NoWriter \/ Writing(w, c)
      BY <1>0, Zenon DEF AuditInv, WritersInv
    <2>2. c # NoWriter
      BY <1>1 DEF NoWriter
    <2> QED BY <2>1, <2>2, Zenon
  <1>3. c.org \in AuditOrgs /\ c.kind \in AuditKinds /\ c.private = eventKeys[c.org] /\ c.private # None
    BY <1>2, Zenon DEF Writing
  <1>4. PICK n \in Nat : c.envelope = Built(c.org, c.kind, w, n, c.private)
    BY <1>1, <1>2, Zenon DEF Writing
  <1>5. c.envelope.seq = n
    <2>1. PICK e : e = c.envelope /\ e = BuiltFields(c.org, c.kind, w, n, c.private)
      BY <1>4, BuiltIs, Zenon
    <2>2. e.seq = n
      BY <2>1 DEF BuiltFields
    <2> QED BY <2>1, <2>2, Zenon
  <1>6. ASSUME NEW d, Writing(w, d) \/ d = NoWriter, writer' = [writer EXCEPT ![w] = d]
        PROVE  WritersInv'
    <2>1. /\ DOMAIN writer' = EventWriters /\ writer'[w] = d
          /\ \A v \in EventWriters \ {w} : writer'[v] = writer[v]
      BY <1>6, Zenon DEF AuditInv, WritersInv
    <2>2. ASSUME NEW v \in EventWriters, NEW e, e = writer'[v]
          PROVE  e = NoWriter \/ Writing(v, e)'
      <3>1. e = NoWriter \/ Writing(v, e)
        BY <1>6, <2>1, <2>2, Zenon DEF AuditInv, WritersInv
      <3> QED BY <1>1, <3>1, Zenon DEF Writing
    <2> QED BY <2>1, <2>2, Zenon DEF WritersInv
  <1>7. CASE c.envelope.seq = Len(eventLog[c.org]) + 1
    <2> DEFINE log == eventLog[c.org]
               item == EventItem(c.envelope)
    <2>1. eventLog' = [eventLog EXCEPT ![c.org] = Append(log, item)]
          /\ writer' = [writer EXCEPT ![w] = NoWriter]
      BY <1>0, <1>7, Zenon DEF TransactEvent
    <2>2. WritersInv'
      BY <1>6, <2>1, Zenon
    <2>3. item \in StoredItems
      <3>1. c.private \in Privates
        BY <1>3, AuditTypes, Zenon
      <3> QED BY <1>3, <1>4, <3>1 DEF StoredItems
    <2>4. Honest(c.org, n, item)
      BY <1>3, <1>4, Zenon DEF Honest
    <2>5. n = Len(log) + 1
      BY <1>5, <1>7
    <2>6. log \in Seq(StoredItems)
      BY <1>3, AuditTypes
    <2> HIDE DEF log, item
    <2>7. /\ Append(log, item) \in Seq(StoredItems) /\ Len(Append(log, item)) = Len(log) + 1
          /\ Len(log) \in Nat
          /\ \A i \in 1 .. Len(log) : Append(log, item)[i] = log[i]
          /\ Append(log, item)[Len(log) + 1] = item
      BY <2>3, <2>6
    <2>8. /\ eventLog' \in [AuditOrgs -> Seq(StoredItems)]
          /\ eventLog'[c.org] = Append(log, item)
          /\ \A o \in AuditOrgs \ {c.org} : eventLog'[o] = eventLog[o]
      BY <1>3, <2>1, <2>7 DEF AuditInv, LogInv
    <2>9. LogInv'
      <3>1. ASSUME NEW o \in AuditOrgs, NEW i \in 1 .. Len(eventLog'[o])
            PROVE  Honest(o, i, eventLog'[o][i])
        <4>1. CASE o # c.org
          BY <2>8, <3>1, <4>1, Zenon DEF AuditInv, LogInv
        <4>2. CASE o = c.org /\ i \in 1 .. Len(log)
          <5>1. eventLog'[o][i] = eventLog[o][i]
            BY <2>7, <2>8, <4>2, SMTT(20) DEF log
          <5> QED BY <4>2, <5>1, Zenon DEF AuditInv, LogInv, log
        <4>3. CASE o = c.org /\ i = Len(log) + 1
          BY <2>4, <2>5, <2>7, <2>8, <4>3, Zenon
        <4> QED BY <2>7, <2>8, <4>1, <4>2, <4>3
      <3>2. \A o \in AuditOrgs : \A i \in 1 .. Len(eventLog'[o]) : Honest(o, i, eventLog[o][i])'
        BY <1>1, <3>1, Zenon DEF Honest
      <3> QED BY <1>1, <2>8, <3>2, Zenon DEF AuditInv, LogInv
    <2>10. FetchedInv(audit)'
      <3>1. \A o \in AuditOrgs : Len(eventLog'[o]) \in Nat /\ Len(eventLog[o]) \in Nat
               /\ Len(eventLog[o]) <= Len(eventLog'[o])
               /\ \A i \in 1 .. Len(eventLog[o]) : eventLog'[o][i] = eventLog[o][i]
        <4> SUFFICES ASSUME NEW o \in AuditOrgs
                     PROVE  /\ Len(eventLog'[o]) \in Nat /\ Len(eventLog[o]) \in Nat
                            /\ Len(eventLog[o]) <= Len(eventLog'[o])
                            /\ \A i \in 1 .. Len(eventLog[o]) : eventLog'[o][i] = eventLog[o][i]
          BY Zenon
        <4>1. CASE o = c.org
          BY <2>7, <2>8, <4>1 DEF log
        <4>2. CASE o # c.org
          BY <2>8, <4>2, AuditTypes
        <4> QED BY <4>1, <4>2
      <3>2. PICK a : a = audit
        BY Zenon
      <3>3. FetchedInv(a) /\ audit' = a
        BY <1>1, <3>2, Zenon DEF AuditInv
      <3> QED BY <3>1, <3>2, <3>3, FetchedStays
    <2> QED BY <2>2, <2>9, <2>10, Zenon DEF AuditInv
  <1>8. CASE c.envelope.seq # Len(eventLog[c.org]) + 1
    <2>1. eventLog' = eventLog
          /\ writer' \in {[writer EXCEPT ![w].at = "counter"], [writer EXCEPT ![w] = NoWriter]}
      BY <1>0, <1>8, Zenon DEF TransactEvent
    <2>2. WritersInv'
      <3>1. CASE writer' = [writer EXCEPT ![w] = NoWriter]
        BY <1>6, <3>1, Zenon
      <3>2. CASE writer' = [writer EXCEPT ![w].at = "counter"]
        <4> DEFINE d == [c EXCEPT !.at = "counter"]
        <4>1. writer' = [writer EXCEPT ![w] = d]
          BY <1>0, <3>2
        <4>2. /\ DOMAIN d = {"at", "org", "kind", "actor", "private", "envelope"} /\ d.at = "counter"
              /\ d.org = c.org /\ d.kind = c.kind /\ d.actor = c.actor /\ d.private = c.private
          BY <1>2 DEF Writing
        <4> HIDE DEF d
        <4>3. d.at # "transact"
          BY <4>2
        <4>4. Writing(w, d)
          BY <1>2, <4>2, <4>3, Zenon DEF Writing
        <4> QED BY <1>6, <4>1, <4>4, Zenon
      <3> QED BY <2>1, <3>1, <3>2, Zenon
    <2>3. LogInv' /\ FetchedInv(audit)'
      <3>1. FetchedInv(audit)'
        BY <1>1, <2>1, Zenon DEF AuditInv, FetchedInv, InLog
      <3> QED BY <1>1, <2>1, <3>1, LogStays, Zenon DEF AuditInv
    <2> QED BY <2>2, <2>3, Zenon DEF AuditInv
  <1> QED BY <1>7, <1>8, Zenon

LEMMA FetchEventsKeeps ==
    ASSUME AuditInv, NEW org \in AuditOrgs, NEW after \in 0 .. MaxEvents, NEW limit \in {1, MaxEvents},
           FetchEvents(org, after, limit)
    PROVE  AuditInv'
  <1>1. eventLog' = eventLog /\ eventKeys' = eventKeys /\ writer' = writer
    BY DEF FetchEvents
  <1>2. LogInv' /\ WritersInv'
    BY <1>1, LogStays, WritersStay, Zenon DEF AuditInv
  <1>3. CASE audit' = [at |-> "done", error |-> "events"]
    <2>1. /\ audit'.at = "done" /\ audit'.at # "keys" /\ audit'.error # "verification"
          /\ "outcomes" \notin DOMAIN audit'
      BY <1>3
    <2> QED BY <1>2, <2>1, Zenon DEF AuditInv, FetchedInv
  <1>4. ASSUME NEW visible \in 0 .. Len(eventLog[org]), NEW last,
               last = IF after + limit < visible THEN after + limit ELSE visible,
               audit' = [at |-> "keys", org |-> org, after |-> after,
                         envelopes |-> [i \in 1 .. (last - after) |->
                                           EnvelopeFromItem(eventLog[org][after + i])]]
        PROVE  AuditInv'
    <2>1. /\ audit'.at = "keys" /\ audit'.at # "done" /\ audit'.org = org /\ audit'.after = after
          /\ DOMAIN audit'.envelopes = 1 .. (last - after)
          /\ \A i \in 1 .. (last - after) :
                audit'.envelopes[i] = EnvelopeFromItem(eventLog[org][after + i])
      BY <1>4
    <2>2. ASSUME NEW i \in 1 .. (last - after)
          PROVE  i \in Nat /\ after \in Nat /\ after + i \in 1 .. Len(eventLog[org])
      BY <1>4, <2>2, AuditTypes, AuditAssumption
    <2>3. FetchedInv(audit)'
      BY <1>1, <2>1, <2>2, Zenon DEF FetchedInv, InLog
    <2> QED BY <1>2, <2>3, Zenon DEF AuditInv
  <1> QED BY <1>3, <1>4, Zenon DEF FetchEvents

LEMMA VerifyKeeps ==
    ASSUME AuditInv, FetchKeysAndVerify
    PROVE  AuditInv'
  <1>1. eventLog' = eventLog /\ eventKeys' = eventKeys /\ writer' = writer /\ audit.at = "keys"
    BY DEF FetchKeysAndVerify
  <1>2. LogInv' /\ WritersInv'
    BY <1>1, LogStays, WritersStay, Zenon DEF AuditInv
  <1>3. CASE audit' = [at |-> "done", error |-> "keys"]
    <2>1. /\ audit'.at = "done" /\ audit'.at # "keys" /\ audit'.error # "verification"
          /\ "outcomes" \notin DOMAIN audit'
      BY <1>3
    <2> QED BY <1>2, <2>1, Zenon DEF AuditInv, FetchedInv
  <1>4. ASSUME NEW outcomes,
               outcomes = VerifyEnvelopes(audit.org, audit.envelopes, ListSigningKeys(audit.org)),
               audit' = [at |-> "done", org |-> audit.org, after |-> audit.after, outcomes |-> outcomes,
                         error |-> IF \A i \in DOMAIN outcomes : outcomes[i].result = "Ok"
                                   THEN None ELSE "verification"]
        PROVE  AuditInv'
    <2>1. /\ audit.org \in AuditOrgs
          /\ \A i \in DOMAIN audit.envelopes :
                InLog(audit, i) /\ audit.envelopes[i] = EnvelopeFromItem(eventLog[audit.org][audit.after + i])
      BY <1>1, Zenon DEF AuditInv, FetchedInv
    <2>2. /\ DOMAIN outcomes = DOMAIN audit.envelopes
          /\ \A i \in DOMAIN outcomes :
                /\ outcomes[i].seq = audit.envelopes[i].seq
                /\ outcomes[i].kind = KindAsStr(audit.envelopes[i].kind)
                /\ outcomes[i].result = VerifyOne(audit.org, audit.envelopes[i], ListSigningKeys(audit.org))
      BY <1>4 DEF VerifyEnvelopes
    <2>3. ASSUME NEW i \in DOMAIN outcomes
          PROVE  /\ InLog(audit, i) /\ outcomes[i].result = "Ok"
                 /\ outcomes[i].seq = audit.after + i
                 /\ outcomes[i].kind = eventLog[audit.org][audit.after + i].kind
      <3>1. PICK o, n, e, p : /\ o = audit.org /\ n = audit.after + i /\ e = audit.envelopes[i]
                             /\ p = eventKeys[o]
        BY Zenon
      <3>2. InLog(audit, i) /\ e = EnvelopeFromItem(eventLog[o][n])
        BY <2>1, <2>2, <2>3, <3>1, Zenon
      <3>3. Honest(o, n, eventLog[o][n])
        BY <2>1, <3>1, <3>2, Zenon DEF InLog, AuditInv, LogInv
      <3>4. PICK k \in AuditKinds, w \in EventWriters : eventLog[o][n] = EventItem(Built(o, k, w, n, p))
        BY <3>1, <3>3, Zenon DEF Honest
      <3>5. k \in EventKinds
        BY AuditAssumption
      <3>6. e = BuiltFields(o, k, w, n, p) /\ eventLog[o][n].kind = KindAsStr(k)
        BY <3>2, <3>4, <3>5, EventsReadBack, SMTT(20)
      <3>7. ListSigningKeys(o) = KeyRing(p)
        BY <3>1, <3>3, Zenon DEF ListSigningKeys, Honest, KeyRing
      <3>8. VerifyOne(o, e, KeyRing(p)) = "Ok" /\ e.seq = n /\ e.kind = k
        BY <3>6, BuiltVerifies, SMTT(20)
      <3> QED BY <2>2, <2>3, <3>1, <3>2, <3>6, <3>7, <3>8, Zenon
    <2>4. /\ audit'.at = "done" /\ audit'.at # "keys" /\ audit'.org = audit.org
          /\ audit'.after = audit.after /\ audit'.outcomes = outcomes
      BY <1>4
    <2>5. audit'.error = None
      BY <1>4, <2>3
    <2>6. FetchedInv(audit)'
      BY <1>1, <2>1, <2>3, <2>4, <2>5, AuditAssumption, Zenon DEF FetchedInv, InLog
    <2> QED BY <1>2, <2>6, Zenon DEF AuditInv
  <1> QED BY <1>3, <1>4, Zenon DEF FetchKeysAndVerify

LEMMA AuditStep ==
    ASSUME AuditInv, [AuditNext]_auditVars
    PROVE  AuditInv'
  <1>1. ASSUME EndAudit
        PROVE  AuditInv'
    <2>1. /\ eventLog' = eventLog /\ eventKeys' = eventKeys /\ writer' = writer
          /\ audit'.at # "keys" /\ audit'.at # "done"
      BY <1>1 DEF EndAudit
    <2>2. LogInv' /\ WritersInv'
      BY <2>1, LogStays, WritersStay, Zenon DEF AuditInv
    <2> QED BY <2>1, <2>2, Zenon DEF AuditInv, FetchedInv
  <1>2. ASSUME UNCHANGED auditVars
        PROVE  AuditInv'
    <2>1. eventLog' = eventLog /\ eventKeys' = eventKeys /\ writer' = writer /\ audit' = audit
      BY <1>2 DEF auditVars
    <2>2. FetchedInv(audit)'
      BY <2>1, Zenon DEF AuditInv, FetchedInv, InLog
    <2> QED BY <2>1, <2>2, LogStays, WritersStay, Zenon DEF AuditInv
  <1> QED BY <1>1, <1>2, ObtainKeyKeeps, ReadCounterKeeps, TransactEventKeeps, FetchEventsKeeps,
             VerifyKeeps, Zenon DEF AuditNext

(* A log that only the control plane wrote verifies from outside, for every *)
(* set of organizations, writers and kinds: whoever minted the key, however *)
(* often an append lost its number (append of event_log.rs, verify-events). *)
THEOREM HonestLogsVerify == AuditSpec => []HonestLogVerifies
  <1>1. AuditInit => AuditInv
    <2> SUFFICES ASSUME AuditInit
                 PROVE  AuditInv
      OBVIOUS
    <2>1. LogInv
      BY DEF AuditInit, LogInv
    <2>2. WritersInv
      BY DEF AuditInit, WritersInv
    <2>3. audit.at # "keys" /\ audit.at # "done"
      BY DEF AuditInit
    <2> QED BY <2>1, <2>2, <2>3, Zenon DEF AuditInv, FetchedInv
  <1>2. AuditInv /\ [AuditNext]_auditVars => AuditInv'
    BY AuditStep
  <1>3. AuditInv => HonestLogVerifies
    BY Zenon DEF AuditInv, FetchedInv, HonestLogVerifies
  <1> QED BY <1>1, <1>2, <1>3, PTL DEF AuditSpec
=============================================================================
