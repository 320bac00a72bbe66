--------------------------- MODULE OrgWritesProofs ---------------------------
(***************************************************************************)
(* For any number of concurrent requests, with lagging reads, lost answers *)
(* and late commits: the events of an organization carry the published     *)
(* event-signing key, answers are true of the log, and a conditional       *)
(* update changes what its body names.  Requests that run one at a time    *)
(* also keep to the lifecycle and keep the item equal to the fold.         *)
(***************************************************************************)
EXTENDS OrgWrites, TLAPS

-----------------------------------------------------------------------------
(* The inductive invariant.                                                *)

\* The maps have their domains, the item its two fields.
Shape ==
    /\ mode \in DOMAIN Modes
    /\ \E S : log \in Seq(S)
    /\ meta # None =>
          /\ meta = [org |-> meta.org, keys |-> meta.keys]
          /\ DOMAIN meta.keys = Requests
    /\ \A item \in {meta, replica} \ {None} : "status" \in DOMAIN item.org
    /\ DOMAIN op = Requests
    /\ DOMAIN phase = Requests
    /\ DOMAIN record = Requests
    /\ DOMAIN keys = Requests
    /\ \A r \in Requests : DOMAIN keys[r] = Requests
    /\ DOMAIN expected = Requests
    /\ DOMAIN signer = Requests
    /\ DOMAIN answer = Requests

\* A request follows the path of its call.
OnPath(r) ==
    /\ phase[r] # "idle" =>
          /\ op[r] \in Calls
          /\ op[r].call \in {"create", "update"} \cup Verbs \cup KeyCalls
          /\ op[r].call \in {"revoke", "rotate"} => op[r].key \in Requests
    /\ phase[r] = "get" => op[r].call \in {"update"} \cup Verbs
    /\ phase[r] = "readItem" => op[r].call \in KeyCalls
    /\ phase[r] = "readKeys" => op[r].call \notin KeyCalls
    /\ phase[r] = "revision" => op[r].call \in Verbs \cup KeyCalls

\* An answer is given once; only a request that has returned has an event.
Answering(r) ==
    /\ phase[r] \notin {"abandoned", "returned"} => answer[r].tag = "pending"
    /\ phase[r] = "abandoned" => answer[r].tag = "error"
    /\ \A s \in DOMAIN log :
          log[s].by = r => phase[r] = "returned" /\ answer[r].tag \in {"applied", "error"}
    /\ answer[r].tag = "applied" => answer[r].revision \in DOMAIN log

\* Past ensure_signing_key a request holds a key, and it is the published one.
Keyed(r) ==
    /\ signer[r] # None => signer[r] = eventKey
    /\ (\/ phase[r] \in {"readKeys", "append", "abandoned"}
        \/ phase[r] = "revision" /\ op[r].call \in KeyCalls) => signer[r] # None

Minted(r) == \E s \in DOMAIN log : log[s].by = r

\* Nobody has the key of a request that has logged nothing, except itself.
Unminted(r) ==
    ~Minted(r) =>
        /\ meta # None => meta.keys[r] = "absent"
        /\ \A q \in Requests \ {r} : keys[q][r] = "absent"

\* A request that has decided what to write.
Decided(r) ==
    \/ phase[r] \in {"ensureKey", "putKey", "readKeys", "append", "abandoned"}
    \/ phase[r] = "revision"

\* What it will write is what its call promises.
Promising(r) ==
    /\ phase[r] # "idle" /\ op[r].call = "create"
          => record[r] = [name |-> op[r].name, config |-> op[r].config, status |-> "Draft"]
    /\ Decided(r) => Effect(r, Event(r)) /\ "status" \in DOMAIN record[r]

Conditional(r) == phase[r] # "idle" /\ op[r].call = "update" /\ op[r].conditional

\* While the revision a conditional update demands is the latest one, what it
\* has read is what is stored.
Current(r) ==
    Conditional(r) =>
        /\ expected[r] \in Nat
        /\ expected[r] <= Len(log)
        /\ ~Lag /\ expected[r] = Len(log) /\ Decided(r) =>
              /\ meta # None
              /\ record[r] = Updated(meta.org, op[r])
              /\ phase[r] \in {"append", "abandoned"} => keys[r] = meta.keys

WritesInv ==
    /\ Shape
    /\ SignedByPublishedKey
    /\ AnswersAreTrue
    /\ \A r \in Requests :
          OnPath(r) /\ Answering(r) /\ Keyed(r) /\ Unminted(r) /\ Promising(r) /\ Current(r)
-----------------------------------------------------------------------------
\* A body that was applied changes nothing when it is applied again.
LEMMA UpdatedTwice ==
    ASSUME NEW org, NEW c
    PROVE  Updated(Updated(org, c), c) = Updated(org, c)
BY Zenon DEF Updated

\* Everything of a request but the answer and what was answered before.
Untouched(q) ==
    /\ op'[q] = op[q] /\ phase'[q] = phase[q] /\ record'[q] = record[q] /\ keys'[q] = keys[q]
    /\ expected'[q] = expected[q] /\ signer'[q] = signer[q] /\ answer'[q] = answer[q]

Own(r) == OnPath(r) /\ Answering(r) /\ Keyed(r) /\ Promising(r) /\ Current(r)

\* A step of one request that neither logs nor writes the item only has to
\* keep the invariant of that request.
LEMMA QuietStep ==
    ASSUME WritesInv, NEW r \in Requests, UNCHANGED <<mode, log, meta>>, Shape',
           \A q \in Requests \ {r} : Untouched(q),
           eventKey' = eventKey \/ eventKey = None,
           phase[r] # "returned", answer'[r].tag # "applied",
           \A q \in Requests \ {r} : ~Minted(q) => keys'[r][q] = "absent",
           Own(r)'
    PROVE  WritesInv'
  <1> USE DEF WritesInv
  <1>1. SignedByPublishedKey'
    BY Zenon DEF SignedByPublishedKey
  <1>2. \A s \in DOMAIN log : log[s].by # r
    BY Zenon DEF Answering
  <1>3. AnswersAreTrue'
    <2> SUFFICES ASSUME NEW q \in Requests PROVE AnswerIsTrue(q)'
      BY Zenon DEF AnswersAreTrue
    <2>1. CASE q = r
      BY <1>2, <2>1, SMTT(20) DEF AnswerIsTrue
    <2>2. CASE q # r
      BY <2>2, SMTT(20) DEF AnswersAreTrue, AnswerIsTrue, Untouched, Effect
    <2> QED BY <2>1, <2>2, Zenon
  <1>4. ASSUME NEW q \in Requests, q # r
        PROVE  OnPath(q)' /\ Answering(q)' /\ Promising(q)' /\ Current(q)'
    <2>1. Untouched(q) /\ UNCHANGED <<mode, log, meta>>
      BY <1>4, Zenon
    <2>2. OnPath(q)'
      BY <1>4, <2>1 DEF OnPath, Untouched, Calls
    <2>3. Answering(q)'
      BY <1>4, <2>1, SMTT(20) DEF Answering, Untouched
    <2>4. Promising(q)'
      BY <1>4, <2>1, SMTT(20) DEF Promising, Untouched, Decided, Effect, Event
    <2>5. Current(q)'
      BY <1>4, <2>1 DEF Current, Untouched, Decided, Conditional, Lag
    <2> QED BY <2>2, <2>3, <2>4, <2>5, Zenon
  <1>5. ASSUME NEW q \in Requests, q # r PROVE Keyed(q)'
    BY <1>5 DEF Keyed, Untouched
  <1>6. ASSUME NEW q \in Requests PROVE Unminted(q)'
    BY <1>6 DEF Unminted, Minted, Untouched
  <1> QED BY <1>1, <1>3, <1>4, <1>5, <1>6, Zenon DEF Own
-----------------------------------------------------------------------------
(* The steps that do not append.                                           *)

\* What a request may still write when it holds the keys it held before.
LEMMA KeysKept ==
    ASSUME WritesInv, NEW r \in Requests, keys'[r] = keys[r]
    PROVE  \A q \in Requests \ {r} : ~Minted(q) => keys'[r][q] = "absent"
BY SMTT(20) DEF WritesInv, Unminted

LEMMA CallKeeps ==
    ASSUME WritesInv, NEW r \in Requests, Call(r), UNCHANGED mode
    PROVE  WritesInv'
  <1>1. PICK c \in Calls :
             /\ op' = [op EXCEPT ![r] = c]
             /\ record' = [record EXCEPT ![r] =
                   IF c.call = "create"
                   THEN [name |-> c.name, config |-> c.config, status |-> "Draft"]
                   ELSE None]
             /\ \E n \in Demands(c) : expected' = [expected EXCEPT ![r] = n]
             /\ Goto(r, FirstAwait(c))
    BY Zenon DEF Call
  <1>2. UNCHANGED <<mode, log, meta, replica, eventKey, keys, signer, answer>> /\ phase[r] = "idle"
    BY Zenon DEF Call, store
  <1>3. Shape
    BY Zenon DEF WritesInv
  <1>4. Shape' /\ \A q \in Requests \ {r} : Untouched(q)
    BY <1>1, <1>2, <1>3, Zenon DEF Shape, Untouched, Goto
  <1>5. /\ op'[r] = c /\ phase'[r] = FirstAwait(c) /\ expected'[r] \in Demands(c)
        /\ record'[r] = IF c.call = "create"
                        THEN [name |-> c.name, config |-> c.config, status |-> "Draft"]
                        ELSE None
    BY <1>1, <1>3, Zenon DEF Shape, Goto
  <1>6. /\ c.call \in {"create", "update"} \cup Verbs \cup KeyCalls
        /\ c.call \in {"revoke", "rotate"} => c.key \in Requests
    BY <1>3, ConstantsAssumption, Zenon DEF Shape, Calls
  <1>7. phase'[r] \in {"ensureKey", "readItem", "get"}
    BY <1>5, Zenon DEF FirstAwait
  <1>8. OnPath(r)'
    BY <1>2, <1>5, <1>6, Zenon DEF OnPath, FirstAwait, Calls
  <1>9. Answering(r)' /\ Keyed(r)'
    BY <1>2, <1>7, Zenon DEF WritesInv, Answering, Keyed
  <1>10. Promising(r)'
    BY <1>5, <1>6 DEF Promising, Decided, FirstAwait, Effect, Event, Verbs, KeyCalls
  <1>11. Current(r)'
    <2>1. Len(log) \in Nat
      BY <1>3 DEF Shape
    <2> QED BY <1>2, <1>5, <2>1 DEF Current, Conditional, Decided, FirstAwait, Demands, KeyCalls
  <1> QED BY <1>2, <1>4, <1>8, <1>9, <1>10, <1>11, KeysKept, QuietStep, Zenon DEF Own, WritesInv, Answering

Refusals == {"noop", "notFound", "conflict", "mismatch", "error"}

\* A request that answers without having sent its transaction.
LEMMA ReturnKeeps ==
    ASSUME WritesInv, NEW r \in Requests, phase[r] \notin {"idle", "abandoned", "returned"},
           NEW tag \in Refusals, NEW n, Return(r, tag, n),
           UNCHANGED <<mode, log, meta, replica, eventKey, op, record, keys, expected, signer>>
    PROVE  WritesInv'
  <1>1. Shape
    BY Zenon DEF WritesInv
  <1>2. Shape' /\ \A q \in Requests \ {r} : Untouched(q)
    BY <1>1, Zenon DEF Shape, Untouched, Goto, Return
  <1>3. phase'[r] = "returned" /\ answer'[r].tag = tag /\ tag # "applied"
    BY <1>1, Zenon DEF Shape, Goto, Return, Refusals
  <1>4. OnPath(r)'
    BY <1>3, Zenon DEF WritesInv, OnPath, Calls
  <1>5. Answering(r)' /\ Keyed(r)'
    BY <1>3, SMTT(20) DEF WritesInv, Answering, Keyed
  <1>6. Promising(r)'
    BY <1>3, SMTT(20) DEF WritesInv, Promising, Decided
  <1>7. Current(r)'
    BY <1>3, Zenon DEF WritesInv, Current, Conditional, Decided
  <1> QED BY <1>2, <1>3, <1>4, <1>5, <1>6, <1>7, KeysKept, QuietStep, Zenon DEF Own

\* A request that goes on to a phase in which nothing is decided yet.
LEMMA GotoKeeps ==
    ASSUME WritesInv, NEW r \in Requests, phase[r] \notin {"idle", "abandoned", "returned"},
           NEW p \in {"current", "readItem"}, Goto(r, p),
           p = "readItem" => op[r].call \in KeyCalls,
           UNCHANGED <<mode, log, meta, replica, eventKey, op, record, keys, expected, signer, answer>>
    PROVE  WritesInv'
  <1>1. Shape
    BY Zenon DEF WritesInv
  <1>2. Shape' /\ \A q \in Requests \ {r} : Untouched(q)
    BY <1>1, Zenon DEF Shape, Untouched, Goto
  <1>3. phase'[r] = p
    BY <1>1, Zenon DEF Shape, Goto
  <1>4. OnPath(r)'
    BY <1>3, Zenon DEF WritesInv, OnPath, Calls
  <1>5. Answering(r)' /\ Keyed(r)' /\ answer'[r].tag # "applied"
    BY <1>3, Zenon DEF WritesInv, Answering, Keyed
  <1>6. Promising(r)'
    BY <1>3, Zenon DEF WritesInv, Promising, Decided
  <1>7. Current(r)'
    BY <1>3, Zenon DEF WritesInv, Current, Conditional, Decided
  <1> QED BY <1>2, <1>3, <1>4, <1>5, <1>6, <1>7, KeysKept, QuietStep, Zenon DEF Own

\* update_handler reads the record.
LEMMA GetForUpdateKeeps ==
    ASSUME WritesInv, NEW r \in Requests, GetForUpdate(r), UNCHANGED mode
    PROVE  WritesInv'
  <1>1. /\ UNCHANGED <<mode, log, meta, replica, eventKey, op, keys, expected, signer, answer>>
        /\ phase[r] = "get" /\ op[r].call = "update"
    BY Zenon DEF GetForUpdate, store
  <1>2. PICK item \in Served \ {None} :
             LET candidate == Updated(item.org, op[r])
             IN  IF candidate = item.org
                 THEN Goto(r, "current") /\ UNCHANGED record
                 ELSE /\ record' = [record EXCEPT ![r] = candidate]
                      /\ Goto(r, "ensureKey")
    BY Zenon DEF GetForUpdate
  <1>3. CASE Goto(r, "current") /\ UNCHANGED record
    BY <1>1, <1>3, GotoKeeps, Zenon
  <1>4. CASE record' = [record EXCEPT ![r] = Updated(item.org, op[r])] /\ Goto(r, "ensureKey")
    <2>1. Shape
      BY Zenon DEF WritesInv
    <2>2. Shape' /\ \A q \in Requests \ {r} : Untouched(q)
      BY <1>1, <1>4, <2>1, Zenon DEF Shape, Untouched, Goto
    <2>3. phase'[r] = "ensureKey" /\ record'[r] = Updated(item.org, op[r])
      BY <1>4, <2>1, Zenon DEF Shape, Goto
    <2>4. OnPath(r)'
      BY <1>1, <2>3, Zenon DEF WritesInv, OnPath, Calls
    <2>5. Answering(r)' /\ Keyed(r)' /\ answer'[r].tag # "applied"
      BY <1>1, <2>3, SMTT(20) DEF WritesInv, Answering, Keyed
    <2>6. Promising(r)'
      <3>1. record'[r] = Updated(record'[r], op'[r])
        BY <1>1, <2>3, UpdatedTwice
      <3>2. "status" \in DOMAIN record'[r]
        BY <2>1, <2>3, Zenon DEF Shape, Served, Updated
      <3> QED BY <1>1, <3>1, <3>2, Zenon DEF Promising, Effect, Event, Verbs, KeyCalls
    <2>7. Current(r)'
      <3>1. ~Lag => item = meta /\ meta # None
        BY Zenon DEF Served
      <3> QED BY <1>1, <2>3, <3>1, Zenon DEF WritesInv, Current, Conditional, Lag
    <2> QED BY <1>1, <2>2, <2>4, <2>5, <2>6, <2>7, KeysKept, QuietStep, Zenon DEF Own
  <1> QED BY <1>2, <1>3, <1>4, Zenon

\* transition_handler reads the record.
LEMMA GetForTransitionKeeps ==
    ASSUME WritesInv, NEW r \in Requests, GetForTransition(r), UNCHANGED mode
    PROVE  WritesInv'
  <1>1. /\ UNCHANGED <<mode, log, meta, replica, eventKey, op, keys, expected, signer>>
        /\ phase[r] = "get" /\ op[r].call \in Verbs
    BY Zenon DEF GetForTransition, store
  <1>2. Shape
    BY Zenon DEF WritesInv
  <1>3. PICK item \in Served \ {None} :
          \/ Goto(r, "current") /\ UNCHANGED <<record, answer>>
          \/ Return(r, "conflict", 0) /\ UNCHANGED record
          \/ /\ record' = [record EXCEPT ![r] = Transitioned(item.org, Target(op[r].call))]
             /\ Goto(r, "revision")
             /\ UNCHANGED answer
    BY Zenon DEF GetForTransition
  <1>4. CASE Goto(r, "current") /\ UNCHANGED <<record, answer>>
    BY <1>1, <1>4, GotoKeeps, Zenon
  <1>5. CASE Return(r, "conflict", 0) /\ UNCHANGED record
    BY <1>1, <1>5, ReturnKeeps, Zenon DEF Refusals
  <1>6. CASE /\ record' = [record EXCEPT ![r] = Transitioned(item.org, Target(op[r].call))]
             /\ Goto(r, "revision")
             /\ UNCHANGED answer
    <2>1. Shape' /\ \A q \in Requests \ {r} : Untouched(q)
      BY <1>1, <1>2, <1>6, Zenon DEF Shape, Untouched, Goto
    <2>2. phase'[r] = "revision" /\ record'[r] = Transitioned(item.org, Target(op[r].call))
      BY <1>2, <1>6, Zenon DEF Shape, Goto
    <2>3. record'[r].status = Target(op[r].call) /\ "status" \in DOMAIN record'[r]
      BY <1>2, <2>2 DEF Shape, Served, Transitioned
    <2>4. OnPath(r)'
      BY <1>1, <2>2, SMTT(20) DEF WritesInv, OnPath, Calls
    <2>5. Answering(r)' /\ Keyed(r)' /\ answer'[r].tag # "applied"
      BY <1>1, <1>6, <2>2, SMTT(20) DEF WritesInv, Answering, Keyed, Verbs, KeyCalls
    <2>6. Promising(r)'
      BY <1>1, <2>3, Zenon DEF Promising, Effect, Event, Verbs, KeyCalls
    <2>7. Current(r)'
      BY <1>1, SMTT(20) DEF Current, Conditional, Verbs
    <2> QED BY <1>1, <2>1, <2>4, <2>5, <2>6, <2>7, KeysKept, QuietStep, Zenon DEF Own
  <1> QED BY <1>3, <1>4, <1>5, <1>6, Zenon

\* latest_revision of a transition or a key call.
LEMMA ReadRevisionKeeps ==
    ASSUME WritesInv, NEW r \in Requests, ReadRevision(r), UNCHANGED mode
    PROVE  WritesInv'
  <1>1. /\ UNCHANGED <<mode, log, meta, replica, eventKey, op, record, keys, signer, answer>>
        /\ phase[r] = "revision" /\ expected' = [expected EXCEPT ![r] = Len(log)]
        /\ Goto(r, IF op[r].call \in KeyCalls THEN "append" ELSE "ensureKey")
    BY Zenon DEF ReadRevision, store
  <1>2. Shape
    BY Zenon DEF WritesInv
  <1>3. Shape' /\ \A q \in Requests \ {r} : Untouched(q)
    BY <1>1, <1>2, Zenon DEF Shape, Untouched, Goto
  <1>4. phase'[r] = IF op[r].call \in KeyCalls THEN "append" ELSE "ensureKey"
    BY <1>1, <1>2, Zenon DEF Shape, Goto
  <1>5. OnPath(r)'
    BY <1>1, <1>4, SMTT(20) DEF WritesInv, OnPath, Calls
  <1>6. Answering(r)' /\ Keyed(r)' /\ answer'[r].tag # "applied"
    BY <1>1, <1>4, Zenon DEF WritesInv, Answering, Keyed
  <1>7. Promising(r)'
    BY <1>1, <1>4, ZenonT(30) DEF WritesInv, Promising, Decided, Effect, Event
  <1>8. Current(r)'
    BY <1>1, Zenon DEF WritesInv, OnPath, Current, Conditional, Verbs, KeyCalls
  <1> QED BY <1>1, <1>3, <1>5, <1>6, <1>7, <1>8, KeysKept, QuietStep, Zenon DEF Own

\* ensure_signing_key reads the key.
LEMMA EnsureKeyKeeps ==
    ASSUME WritesInv, NEW r \in Requests, EnsureKey(r), UNCHANGED mode
    PROVE  WritesInv'
  <1>1. /\ UNCHANGED <<mode, log, meta, replica, eventKey, op, record, keys, expected, answer>>
        /\ phase[r] = "ensureKey" /\ signer' = [signer EXCEPT ![r] = eventKey]
        /\ Goto(r, IF eventKey = None THEN "putKey" ELSE AfterEnsureKey(r))
    BY Zenon DEF EnsureKey, store
  <1>2. Shape
    BY Zenon DEF WritesInv
  <1>3. Shape' /\ \A q \in Requests \ {r} : Untouched(q)
    BY <1>1, <1>2, Zenon DEF Shape, Untouched, Goto
  <1>4. /\ phase'[r] = IF eventKey = None THEN "putKey" ELSE AfterEnsureKey(r)
        /\ signer'[r] = eventKey
    BY <1>1, <1>2, Zenon DEF Shape, Goto
  <1>5. OnPath(r)'
    BY <1>1, <1>4, SMTT(20) DEF WritesInv, OnPath, Calls, AfterEnsureKey
  <1>6. Answering(r)' /\ Keyed(r)' /\ answer'[r].tag # "applied"
    BY <1>1, <1>4, Zenon DEF WritesInv, Answering, Keyed, AfterEnsureKey
  <1>7. Promising(r)'
    BY <1>1, <1>4, ZenonT(30) DEF WritesInv, Promising, Decided, Effect, Event
  <1>8. Current(r)'
    BY <1>1, <1>4, SMTT(20) DEF WritesInv, Current, Conditional, Decided, Lag, AfterEnsureKey
  <1> QED BY <1>1, <1>3, <1>5, <1>6, <1>7, <1>8, KeysKept, QuietStep, Zenon DEF Own

\* ensure_signing_key puts a key unless there is one.
LEMMA PutKeyKeeps ==
    ASSUME WritesInv, NEW r \in Requests, PutKey(r), UNCHANGED mode
    PROVE  WritesInv'
  <1>1. /\ UNCHANGED <<mode, log, meta, replica, op, record, keys, expected, answer>>
        /\ phase[r] = "putKey"
        /\ \/ /\ eventKey = None /\ eventKey' = r /\ signer' = [signer EXCEPT ![r] = r]
              /\ Goto(r, AfterEnsureKey(r))
           \/ Goto(r, "ensureKey") /\ UNCHANGED <<eventKey, signer>>
    BY Zenon DEF PutKey
  <1>2. Shape
    BY Zenon DEF WritesInv
  <1>3. Shape' /\ \A q \in Requests \ {r} : Untouched(q)
    BY <1>1, <1>2, Zenon DEF Shape, Untouched, Goto
  <1>4. \/ eventKey = None /\ phase'[r] = AfterEnsureKey(r) /\ signer'[r] = r /\ eventKey' = r
        \/ phase'[r] = "ensureKey" /\ UNCHANGED <<eventKey, signer>>
    BY <1>1, <1>2, Zenon DEF Shape, Goto
  <1>5. OnPath(r)'
    BY <1>1, <1>4, SMTT(20) DEF WritesInv, OnPath, Calls, AfterEnsureKey
  <1>6. Answering(r)' /\ Keyed(r)' /\ answer'[r].tag # "applied"
    BY <1>1, <1>4, ConstantsAssumption DEF WritesInv, Answering, Keyed, AfterEnsureKey
  <1>7. Promising(r)'
    BY <1>1, <1>4, Zenon DEF WritesInv, Promising, Decided, Effect, Event
  <1>8. Current(r)'
    BY <1>1, <1>4, Zenon DEF WritesInv, Current, Conditional, Decided, Lag, AfterEnsureKey
  <1> QED BY <1>1, <1>3, <1>5, <1>6, <1>7, <1>8, KeysKept, QuietStep, SMTT(20) DEF Own

\* append_org_state reads the keys to carry over.
LEMMA ReadKeysKeeps ==
    ASSUME WritesInv, NEW r \in Requests, ReadKeys(r), UNCHANGED mode
    PROVE  WritesInv'
  <1>1. /\ UNCHANGED <<mode, log, meta, replica, eventKey, op, record, expected, signer, answer>>
        /\ phase[r] = "readKeys" /\ keys' = [keys EXCEPT ![r] = CarriedKeys]
        /\ Goto(r, "append")
    BY Zenon DEF ReadKeys, store
  <1>2. Shape
    BY Zenon DEF WritesInv
  <1>3. DOMAIN CarriedKeys = Requests
    BY <1>2, Zenon DEF Shape, CarriedKeys, NoKeys
  <1>4. phase'[r] = "append" /\ keys'[r] = CarriedKeys
    BY <1>1, <1>2, Zenon DEF Shape, Goto
  <1>5. Shape' /\ \A q \in Requests \ {r} : Untouched(q)
    BY <1>1, <1>2, <1>3, SMTT(20) DEF Shape, Untouched, Goto
  <1>6. OnPath(r)'
    BY <1>1, <1>4, SMTT(20) DEF WritesInv, OnPath, Calls
  <1>7. Answering(r)' /\ Keyed(r)' /\ answer'[r].tag # "applied"
    BY <1>1, <1>4, Zenon DEF WritesInv, Answering, Keyed
  <1>8. Promising(r)'
    <2>1. op[r].call \notin KeyCalls
      BY <1>1, Zenon DEF WritesInv, OnPath
    <2> QED BY <1>1, <1>4, <2>1, ZenonT(20) DEF WritesInv, Promising, Decided, Effect, Event, KeyCalls
  <1>9. Current(r)'
    BY <1>1, <1>4, Zenon DEF WritesInv, Current, Conditional, Decided, Lag, CarriedKeys
  <1>10. \A q \in Requests \ {r} : ~Minted(q) => keys'[r][q] = "absent"
    BY <1>4, SMTT(20) DEF WritesInv, Unminted, CarriedKeys, NoKeys
  <1> QED BY <1>1, <1>5, <1>6, <1>7, <1>8, <1>9, <1>10, QuietStep, Zenon DEF Own

\* What a transition of the keys returns when it changes them: the promise of
\* its call, and no key out of nothing but its own.
LEMMA TransitionPromises ==
    ASSUME NEW r \in Requests, NEW ks, DOMAIN ks = Requests, ks[r] = "absent",
           op[r].call \in KeyCalls,
           op[r].call \in {"revoke", "rotate"} => op[r].key \in Requests,
           KeyTransition(r, ks).tag = "changed"
    PROVE  LET new == KeyTransition(r, ks).keys
           IN  /\ DOMAIN new = Requests
               /\ \A q \in Requests \ {r} : ks[q] = "absent" => new[q] = "absent"
               /\ op[r].call \in {"generate", "rotate"} => new[r] = "Active"
               /\ op[r].call = "rotate" => new[op[r].key] = "Rotating"
               /\ op[r].call = "revoke" => new[op[r].key] = "Revoked"
  <1>1. CASE op[r].call = "generate"
    BY <1>1, Zenon DEF KeyTransition, GenerateEntries
  <1>2. CASE op[r].call = "revoke"
    BY <1>2, Zenon DEF KeyTransition, RevokeEntries
  <1>3. CASE op[r].call = "rotate"
    BY <1>3, Zenon DEF KeyTransition, RotateEntries
  <1> QED BY <1>1, <1>2, <1>3, Zenon DEF KeyCalls

\* append_org_keys reads the item and applies the transition.
LEMMA ReadItemKeeps ==
    ASSUME WritesInv, NEW r \in Requests, ReadItem(r), UNCHANGED mode
    PROVE  WritesInv'
  <1>1. /\ UNCHANGED <<mode, log, meta, replica, eventKey, op, expected, signer>>
        /\ phase[r] = "readItem"
    BY Zenon DEF ReadItem, store
  <1>2. Shape
    BY Zenon DEF WritesInv
  <1> DEFINE next == KeyTransition(r, meta.keys)
  <1>3. \/ \E tag \in {"notFound", "conflict"} : Return(r, tag, 0) /\ UNCHANGED <<record, keys>>
        \/ Goto(r, "current") /\ UNCHANGED <<record, keys, answer>>
        \/ /\ meta # None
           /\ next.tag = "changed"
           /\ record' = [record EXCEPT ![r] = meta.org]
           /\ keys' = [keys EXCEPT ![r] = next.keys]
           /\ Goto(r, "ensureKey")
           /\ UNCHANGED answer
    BY Zenon DEF ReadItem
  <1>4. ASSUME NEW tag \in {"notFound", "conflict"}, Return(r, tag, 0), UNCHANGED <<record, keys>>
        PROVE  WritesInv'
    BY <1>1, <1>4, ReturnKeeps, Zenon DEF Refusals
  <1>5. CASE Goto(r, "current") /\ UNCHANGED <<record, keys, answer>>
    BY <1>1, <1>5, GotoKeeps, Zenon
  <1>6. CASE /\ meta # None
             /\ next.tag = "changed"
             /\ record' = [record EXCEPT ![r] = meta.org]
             /\ keys' = [keys EXCEPT ![r] = next.keys]
             /\ Goto(r, "ensureKey")
             /\ UNCHANGED answer
    <2>1. /\ meta.keys[r] = "absent"
          /\ op[r].call \in KeyCalls
          /\ op[r].call \in {"revoke", "rotate"} => op[r].key \in Requests
          /\ DOMAIN meta.keys = Requests
      BY <1>1, <1>6, SMTT(20) DEF WritesInv, Shape, Unminted, Minted, Answering, OnPath
    <2>2. /\ DOMAIN next.keys = Requests
          /\ \A q \in Requests \ {r} : meta.keys[q] = "absent" => next.keys[q] = "absent"
          /\ op[r].call \in {"generate", "rotate"} => next.keys[r] = "Active"
          /\ op[r].call = "rotate" => next.keys[op[r].key] = "Rotating"
          /\ op[r].call = "revoke" => next.keys[op[r].key] = "Revoked"
      BY <1>6, <2>1, TransitionPromises
    <2> HIDE DEF next
    <2>3. phase'[r] = "ensureKey" /\ record'[r] = meta.org /\ keys'[r] = next.keys
      BY <1>2, <1>6, Zenon DEF Shape, Goto
    <2>4. Shape' /\ \A q \in Requests \ {r} : Untouched(q)
      BY <1>1, <1>2, <1>6, <2>2, Zenon DEF Shape, Untouched, Goto
    <2>5. OnPath(r)'
      BY <1>1, <2>3, Zenon DEF WritesInv, OnPath, Calls
    <2>6. Answering(r)' /\ Keyed(r)' /\ answer'[r].tag # "applied"
      BY <1>1, <1>6, <2>3, ZenonT(30) DEF WritesInv, Answering, Keyed
    <2>7. Promising(r)'
      <3>1. "status" \in DOMAIN record'[r]
        BY <1>2, <1>6, <2>3, Zenon DEF Shape
      <3> QED BY <1>1, <2>1, <2>2, <2>3, <3>1, Zenon DEF Promising, Effect, Event, Verbs, KeyCalls
    <2>8. Current(r)'
      BY <1>1, <2>1, Zenon DEF Current, Conditional, KeyCalls
    <2>9. \A q \in Requests \ {r} : ~Minted(q) => keys'[r][q] = "absent"
      BY <1>6, <2>2, <2>3, SMTT(20) DEF WritesInv, Unminted
    <2> QED BY <1>1, <2>4, <2>5, <2>6, <2>7, <2>8, <2>9, QuietStep, Zenon DEF Own
  <1> QED BY <1>3, <1>4, <1>5, <1>6, Zenon

\* A request gives up after its transaction was sent.
LEMMA GiveUpKeeps ==
    ASSUME WritesInv, NEW r \in Requests, GiveUp(r), UNCHANGED mode
    PROVE  WritesInv'
  <1>1. /\ UNCHANGED <<mode, log, meta, replica, eventKey, op, record, keys, signer>>
        /\ phase[r] = "append" /\ ExpectedHolds(r) /\ Goto(r, "abandoned")
        /\ expected' = [expected EXCEPT ![r] = Len(log)]
        /\ answer' = [answer EXCEPT ![r] = [tag |-> "error", revision |-> 0]]
    BY Zenon DEF GiveUp, store
  <1>2. Shape
    BY Zenon DEF WritesInv
  <1>3. Shape' /\ \A q \in Requests \ {r} : Untouched(q)
    BY <1>1, <1>2, Zenon DEF Shape, Untouched, Goto
  <1>4. phase'[r] = "abandoned" /\ expected'[r] = Len(log) /\ answer'[r].tag = "error"
    BY <1>1, <1>2, SMTT(20) DEF Shape, Goto
  <1>5. OnPath(r)'
    <2>1. OnPath(r) /\ mode' = mode /\ op' = op
      BY <1>1, Zenon DEF WritesInv
    <2>2. phase[r] = "append" /\ phase'[r] = "abandoned"
      BY <1>1, <1>4, Zenon
    <2> QED BY <2>1, <2>2, Zenon DEF OnPath, Calls
  <1>6. Answering(r)' /\ Keyed(r)'
    BY <1>1, <1>4, Zenon DEF WritesInv, Answering, Keyed
  <1>7. Promising(r)'
    <2>1. Promising(r) /\ op' = op /\ record' = record /\ keys' = keys /\ signer' = signer
      BY <1>1, Zenon DEF WritesInv
    <2>2. phase[r] # "idle" /\ Decided(r)
      BY <1>1, Zenon DEF Decided
    <2>3. Event(r)' = Event(r)
      BY <2>1, Zenon DEF Event
    <2> QED BY <2>1, <2>2, <2>3, Zenon DEF Promising, Effect
  <1>8. Current(r)'
    <2>1. Len(log) \in Nat
      BY <1>2, SMTT(20) DEF Shape
    <2>2. CASE expected[r] = None
      <3>1. Current(r) /\ None \notin Nat
        BY ConstantsAssumption, Zenon DEF WritesInv
      <3>2. ~Conditional(r)
        BY <2>2, <3>1, Zenon DEF Current
      <3> QED BY <1>1, <3>2, Zenon DEF Current, Conditional
    <2>3. CASE expected[r] = Len(log)
      BY <1>1, <1>4, <2>1, <2>3, Zenon DEF WritesInv, Current, Conditional, Decided, Lag
    <2> QED BY <1>1, <2>2, <2>3, Zenon DEF ExpectedHolds
  <1> QED BY <1>1, <1>3, <1>4, <1>5, <1>6, <1>7, <1>8, KeysKept, QuietStep, Zenon DEF Own

\* An answer, the request and the log it speaks of are left alone.
LEMMA AnswerUnchanged ==
    ASSUME NEW r \in Requests, AnswerIsTrue(r), UNCHANGED <<log, op, answer>>
    PROVE  AnswerIsTrue(r)'
  <1>1. log' = log /\ op' = op /\ answer' = answer
    BY Zenon
  <1>2. \A e : Effect(r, e) => Effect(r, e)'
    BY <1>1, Zenon DEF Effect
  <1> QED BY <1>1, <1>2, Zenon DEF AnswerIsTrue

\* A replica catches up.
LEMMA ReplicateKeeps ==
    ASSUME WritesInv, Replicate, UNCHANGED mode
    PROVE  WritesInv'
  <1>1. /\ UNCHANGED <<mode, log, meta, eventKey, op, phase, locals, answer>>
        /\ replica' = meta
    BY Zenon DEF Replicate
  <1>2. Shape'
    BY <1>1, Zenon DEF WritesInv, Shape, locals
  <1>3. SignedByPublishedKey'
    BY <1>1, SMTT(20) DEF WritesInv, SignedByPublishedKey
  <1>4. ASSUME NEW r \in Requests PROVE AnswerIsTrue(r)'
    BY <1>1, AnswerUnchanged, ZenonT(30) DEF WritesInv, AnswersAreTrue
  <1>5. ASSUME NEW r \in Requests PROVE OnPath(r)' /\ Answering(r)' /\ Keyed(r)'
    BY <1>1, SMTT(20) DEF WritesInv, locals, OnPath, Calls, Answering, Keyed
  <1>6. ASSUME NEW r \in Requests PROVE Unminted(r)'
    BY <1>1, Zenon DEF WritesInv, locals, Unminted, Minted
  <1>7. ASSUME NEW r \in Requests PROVE Promising(r)'
    BY <1>1, Zenon DEF WritesInv, locals, Promising, Decided, Effect, Event
  <1>8. ASSUME NEW r \in Requests PROVE Current(r)'
    BY <1>1, Zenon DEF WritesInv, locals, Current, Conditional, Decided, Lag
  <1> QED BY <1>2, <1>3, <1>4, <1>5, <1>6, <1>7, <1>8, Zenon DEF WritesInv, AnswersAreTrue
-----------------------------------------------------------------------------
(* The append.                                                             *)

\* A transaction commits, in its request's lifetime or after it.
Commits(r) ==
    /\ phase[r] \in {"append", "abandoned"}
    /\ Append_(r)
    /\ Goto(r, "returned")
    /\ UNCHANGED <<op, locals>>
    /\ \/ phase[r] = "append"
          /\ answer' = [answer EXCEPT ![r] = [tag |-> "applied", revision |-> Len(log) + 1]]
       \/ phase[r] = "abandoned" /\ UNCHANGED answer

\* The log after it.
LEMMA LogGrows ==
    ASSUME Shape, NEW e, log' = Append(log, e)
    PROVE  /\ \E S : log' \in Seq(S)
           /\ Len(log) \in Nat
           /\ Len(log') = Len(log) + 1
           /\ DOMAIN log' = DOMAIN log \cup {Len(log) + 1}
           /\ \A s \in DOMAIN log : log'[s] = log[s]
           /\ log'[Len(log) + 1] = e
  <1>1. PICK S : log \in Seq(S)
    BY Zenon DEF Shape
  <1>2. log \in Seq(S \cup {e}) /\ e \in S \cup {e}
    BY <1>1
  <1> HIDE <1>1
  <1>3. log' \in Seq(S \cup {e})
    BY <1>2
  <1> QED BY <1>2, <1>3

LEMMA CommitKeeps ==
    ASSUME WritesInv, NEW r \in Requests, Commits(r), UNCHANGED mode
    PROVE  WritesInv'
  <1>1. /\ UNCHANGED <<mode, replica, eventKey, op, record, keys, expected, signer>>
        /\ log' = Append(log, Event(r))
        /\ meta' = [org |-> record[r], keys |-> keys[r]]
        /\ Goto(r, "returned")
        /\ Decided(r)
    BY Zenon DEF Commits, Append_, locals, Decided
  <1>2. Shape
    BY Zenon DEF WritesInv
  <1>3. /\ \E S : log' \in Seq(S)
        /\ Len(log) \in Nat
        /\ Len(log') = Len(log) + 1
        /\ DOMAIN log' = DOMAIN log \cup {Len(log) + 1}
        /\ \A s \in DOMAIN log : log'[s] = log[s]
        /\ log'[Len(log) + 1] = Event(r)
    BY <1>1, <1>2, LogGrows, ZenonT(20)
  <1>4. Event(r).by = r /\ Event(r).signer = signer[r] /\ Event(r).kind = Kind(op[r].call)
    BY Zenon DEF Event
  <1>5. /\ phase'[r] = "returned"
        /\ \A q \in Requests \ {r} : phase'[q] = phase[q] /\ answer'[q] = answer[q]
        /\ DOMAIN phase' = Requests /\ DOMAIN answer' = Requests
        /\ \/ answer'[r].tag = "applied" /\ answer'[r].revision = Len(log) + 1
           \/ answer'[r].tag = "error"
    BY <1>1, <1>2 DEF Commits, Goto, Shape, WritesInv, Answering
  <1>6. Shape'
    <2>1. "status" \in DOMAIN record[r]
      BY <1>1, Zenon DEF WritesInv, Promising
    <2>2. /\ meta' = [org |-> meta'.org, keys |-> meta'.keys]
          /\ DOMAIN meta'.keys = Requests
          /\ "status" \in DOMAIN meta'.org
      BY <1>1, <1>2, <2>1, Zenon DEF Shape
    <2> QED BY <1>1, <1>2, <1>3, <1>5, <2>2, Zenon DEF Shape
  <1>7. SignedByPublishedKey'
    <2>1. signer[r] = eventKey /\ eventKey # None
      BY Zenon DEF WritesInv, Keyed, Commits
    <2> QED BY <1>1, <1>3, <1>4, <2>1, ZenonT(20) DEF WritesInv, SignedByPublishedKey
  <1>8. ASSUME NEW q \in Requests PROVE AnswerIsTrue(q)'
    <2>1. CASE q = r
      <3>1. Effect(r, Event(r))
        BY <1>1, Zenon DEF WritesInv, Promising
      <3>2. Effect(r, log'[Len(log) + 1])
        BY <1>3, <3>1, Zenon
      <3>3. log'[Len(log) + 1].by = r /\ log'[Len(log) + 1].kind = Kind(op[r].call)
        BY <1>3, <1>4, SMTT(20)
      <3> QED BY <1>1, <1>5, <2>1, <3>2, <3>3, ZenonT(20) DEF AnswerIsTrue, Effect
    <2>2. CASE q # r
      <3>1. answer'[q] = answer[q] /\ op'[q] = op[q] /\ log'[Len(log) + 1].by # q
        BY <1>1, <1>3, <1>4, <1>5, <2>2, SMTT(20)
      <3>2. answer[q].tag = "applied" => log'[answer[q].revision] = log[answer[q].revision]
        BY <1>3, Zenon DEF WritesInv, Answering
      <3>3. AnswerIsTrue(q)
        BY Zenon DEF WritesInv, AnswersAreTrue
      <3>4. answer[q].tag = "applied" => Effect(q, log[answer[q].revision])'
        BY <1>1, <3>1, <3>2, <3>3, ZenonT(20) DEF AnswerIsTrue, Effect
      <3> QED BY <1>3, <3>1, <3>2, <3>3, <3>4, SMTT(20) DEF AnswerIsTrue
    <2> QED BY <2>1, <2>2, Zenon
  <1>9. ASSUME NEW q \in Requests PROVE OnPath(q)'
    BY <1>1, <1>5, ZenonT(20) DEF WritesInv, OnPath, Calls, Commits
  <1>10. ASSUME NEW q \in Requests PROVE Answering(q)'
    BY <1>1, <1>3, <1>4, <1>5, SMTT(20) DEF WritesInv, Answering
  <1>11. ASSUME NEW q \in Requests PROVE Keyed(q)'
    BY <1>1, <1>5, Zenon DEF WritesInv, Keyed
  <1>12. ASSUME NEW q \in Requests PROVE Unminted(q)'
    <2>1. Minted(q) \/ q = r => Minted(q)'
      BY <1>3, <1>4, Zenon DEF Minted
    <2> QED BY <1>1, <2>1, Zenon DEF WritesInv, Unminted
  <1>13. ASSUME NEW q \in Requests PROVE Promising(q)'
    <2>1. CASE q = r
      BY <1>1, <1>5, <2>1, ZenonT(20) DEF WritesInv, Promising, Decided, Commits
    <2>2. CASE q # r
      <3>1. phase'[q] = phase[q] /\ op' = op /\ record' = record /\ keys' = keys
        BY <1>1, <1>5, <2>2, SMTT(20)
      <3>2. Event(q)' = Event(q)
        BY <1>1, Zenon DEF Event
      <3>3. Promising(q)
        BY SMTT(20) DEF WritesInv
      <3>4. Effect(q, Event(q)) => Effect(q, Event(q))'
        BY <3>1, <3>2, SMTT(20) DEF Effect
      <3> QED BY <3>1, <3>3, <3>4, ZenonT(30) DEF Promising, Decided
    <2> QED BY <2>1, <2>2, Zenon
  <1>14. ASSUME NEW q \in Requests PROVE Current(q)'
    <2>1. Conditional(q)' => Conditional(q)
      BY <1>1, <1>5, Zenon DEF Conditional, Commits
    <2>2. Conditional(q) => expected[q] \in Nat /\ expected[q] <= Len(log)
      BY Zenon DEF WritesInv, Current
    <2>3. Conditional(q) => expected'[q] \in Nat /\ expected'[q] <= Len(log') /\ expected'[q] # Len(log')
      BY <1>1, <1>3, <2>2
    <2> QED BY <2>1, <2>3, Zenon DEF Current
  <1> QED BY <1>6, <1>7, <1>8, <1>9, <1>10, <1>11, <1>12, <1>13, <1>14, Zenon DEF WritesInv, AnswersAreTrue
-----------------------------------------------------------------------------
(* The theorems.                                                           *)

LEMMA WritesInit == Init => WritesInv
  <1> SUFFICES ASSUME Init PROVE WritesInv
    BY Zenon
  <1>1. log = << >> /\ DOMAIN log = {} /\ log \in Seq({})
    BY DEF Init
  <1>2. Shape
    BY <1>1, Zenon DEF Init, Shape, NoKeys
  <1>3. SignedByPublishedKey
    BY <1>1, Zenon DEF SignedByPublishedKey
  <1>4. ASSUME NEW r \in Requests
        PROVE  /\ phase[r] = "idle" /\ answer[r].tag = "pending" /\ signer[r] = None
               /\ \A q \in Requests : keys[r][q] = "absent"
    BY Zenon DEF Init, NoKeys
  <1>5. AnswersAreTrue
    BY <1>4, ZenonT(30) DEF AnswersAreTrue, AnswerIsTrue
  <1>6. ASSUME NEW r \in Requests
        PROVE  OnPath(r) /\ Answering(r) /\ Keyed(r) /\ Unminted(r) /\ Promising(r) /\ Current(r)
    <2>1. meta = None
      BY Zenon DEF Init
    <2> QED BY <1>1, <1>4, <2>1, Zenon DEF OnPath, Answering, Keyed, Unminted, Promising, Decided, Current,
                                    Conditional
  <1> QED BY <1>2, <1>3, <1>5, <1>6, Zenon DEF WritesInv

\* The steps of a request that write neither the log nor the item.
Quiet(r) ==
    \/ Call(r) \/ GetMissing(r) \/ GetForUpdate(r) \/ GetForTransition(r)
    \/ ReadCurrent(r) \/ ReadRevision(r) \/ ReadItem(r)
    \/ EnsureKey(r) \/ PutKey(r) \/ ReadKeys(r)
    \/ AppendMismatch(r) \/ AppendConflict(r) \/ GiveUp(r)

\* Every step of one request: it commits or it writes nothing.
LEMMA StepCases ==
    ASSUME Next
    PROVE  Replicate \/ \E r \in Requests : Commits(r) \/ (UNCHANGED <<log, meta>> /\ Quiet(r))
  <1>1. ASSUME NEW r \in Requests, AppendCommits(r) PROVE Commits(r)
    BY <1>1, Zenon DEF AppendCommits, Commits, Return
  <1>2. ASSUME NEW r \in Requests, LateCommit(r) PROVE Commits(r)
    BY <1>2, Zenon DEF LateCommit, Commits
  <1>3. ASSUME NEW r \in Requests, Quiet(r) PROVE UNCHANGED <<log, meta>>
    BY <1>3, Zenon DEF Quiet, Call, GetMissing, GetForUpdate, GetForTransition, ReadCurrent, ReadRevision,
                ReadItem, EnsureKey, PutKey, ReadKeys, AppendMismatch, AppendConflict, GiveUp, store
  <1> QED BY <1>1, <1>2, <1>3, Zenon DEF Next, Step, Quiet

LEMMA WritesStep == WritesInv /\ [Next]_vars => WritesInv'
  <1> SUFFICES ASSUME WritesInv, [Next]_vars PROVE WritesInv'
    BY Zenon
  <1>1. CASE UNCHANGED vars
    <2>1. /\ UNCHANGED <<mode, log, meta, replica, eventKey, op, phase>>
          /\ UNCHANGED <<record, keys, expected, signer, answer>>
      BY <1>1, Zenon DEF vars, store, locals
    <2>2. Shape'
      BY <2>1, Zenon DEF WritesInv, Shape
    <2>3. SignedByPublishedKey'
      BY <2>1, SMTT(20) DEF WritesInv, SignedByPublishedKey
    <2>4. ASSUME NEW r \in Requests PROVE AnswerIsTrue(r)'
      BY <2>1, AnswerUnchanged, Zenon DEF WritesInv, AnswersAreTrue
    <2>5. ASSUME NEW r \in Requests PROVE OnPath(r)' /\ Answering(r)' /\ Keyed(r)'
      BY <2>1, Zenon DEF WritesInv, OnPath, Calls, Answering, Keyed
    <2>6. ASSUME NEW r \in Requests PROVE Unminted(r)' /\ Current(r)'
      BY <2>1, Zenon DEF WritesInv, Unminted, Minted, Current, Conditional, Decided, Lag
    <2>7. ASSUME NEW r \in Requests PROVE Promising(r)'
      BY <2>1, Zenon DEF WritesInv, Promising, Decided, Effect, Event
    <2> QED BY <2>2, <2>3, <2>4, <2>5, <2>6, <2>7, Zenon DEF WritesInv, AnswersAreTrue
  <1>2. CASE Next
    <2>0. UNCHANGED mode
      BY <1>2, Zenon DEF Next
    <2>1. CASE Replicate
      BY <2>0, <2>1, ReplicateKeeps, Zenon
    <2>2. ASSUME NEW r \in Requests, Commits(r) PROVE WritesInv'
      BY <2>0, <2>2, CommitKeeps, Zenon
    <2>3. ASSUME NEW r \in Requests, GetMissing(r) \/ ReadCurrent(r) \/ AppendConflict(r)
          PROVE  WritesInv'
      <3>1. /\ UNCHANGED <<mode, log, meta, replica, eventKey, op, record, keys, expected, signer>>
            /\ phase[r] \in {"get", "current", "append"}
            /\ \E tag \in {"notFound", "noop", "conflict"}, n \in {0, Len(log)} : Return(r, tag, n)
        BY <2>0, <2>3, Zenon DEF GetMissing, ReadCurrent, AppendConflict, store, locals
      <3> QED BY <3>1, ReturnKeeps, Zenon DEF Refusals
    <2>4. ASSUME NEW r \in Requests, AppendMismatch(r) PROVE WritesInv'
      <3>1. /\ UNCHANGED <<mode, log, meta, replica, eventKey, op, record, keys, expected, signer>>
            /\ phase[r] = "append"
            /\ \/ Return(r, "mismatch", Len(log))
               \/ Return(r, "error", 0)
               \/ Goto(r, "readItem") /\ op[r].call \in KeyCalls /\ UNCHANGED answer
        BY <2>0, <2>4, Zenon DEF AppendMismatch, store
      <3> QED BY <3>1, ReturnKeeps, GotoKeeps, SMTT(20) DEF Refusals
    <2>5. ASSUME NEW r \in Requests,
                 \/ Call(r) \/ GetForUpdate(r) \/ GetForTransition(r) \/ ReadRevision(r)
                 \/ ReadItem(r) \/ EnsureKey(r) \/ PutKey(r) \/ ReadKeys(r) \/ GiveUp(r)
          PROVE  WritesInv'
      BY <2>0, <2>5, CallKeeps, GetForUpdateKeeps, GetForTransitionKeeps, ReadRevisionKeeps,
         ReadItemKeeps, EnsureKeyKeeps, PutKeyKeeps, ReadKeysKeeps, GiveUpKeeps, Zenon
    <2> QED BY <1>2, <2>1, <2>2, <2>3, <2>4, <2>5, StepCases, Zenon DEF Quiet
  <1> QED BY <1>1, <1>2, Zenon

\* The invariant holds for every number of requests, with or without lag and
\* faults.
THEOREM WritesInvariant == Spec => []WritesInv
BY WritesInit, WritesStep, PTL DEF Spec

\* The requests of ensure_signing_key agree on one key, so that every event
\* verifies, however many first writers race.
THEOREM EventsVerify == Spec => []SignedByPublishedKey
BY WritesInvariant, PTL DEF WritesInv

\* What create, update, the verbs and the key calls answer is true of the log,
\* with lagging reads, lost answers and late commits.
THEOREM AnswersStayTrue == Spec => []AnswersAreTrue
BY WritesInvariant, PTL DEF WritesInv

\* The append of a conditional update writes the stored item with the fields
\* of the body.
LEMMA CommitIsExact ==
    ASSUME WritesInv, NEW r \in Requests, Commits(r), ~Lag, op[r].call = "update", op[r].conditional
    PROVE  meta' = [meta EXCEPT !.org = Updated(@, op[r])]
  <1>1. Conditional(r) /\ Decided(r) /\ phase[r] \in {"append", "abandoned"}
    BY Zenon DEF Commits, Conditional, Decided
  <1>2. expected[r] = Len(log)
    BY <1>1, ConstantsAssumption, ZenonT(20) DEF WritesInv, Current, Commits, Append_, ExpectedHolds
  <1>3. meta # None /\ record[r] = Updated(meta.org, op[r]) /\ keys[r] = meta.keys
    BY <1>1, <1>2, Zenon DEF WritesInv, Current
  <1>4. meta = [org |-> meta.org, keys |-> meta.keys]
    BY <1>3, SMTT(20) DEF WritesInv, Shape
  <1>5. meta' = [org |-> Updated(meta.org, op[r]), keys |-> meta.keys]
    BY <1>3, Zenon DEF Commits, Append_
  <1> QED BY <1>4, <1>5

\* A step that makes the log longer is a commit of the request it names.
LEMMA AppendsCommit ==
    ASSUME WritesInv, [Next]_vars, Appends
    PROVE  \E r \in Requests : Commits(r) /\ Last'.by = r
  <1>1. Len(log) \in Nat
    BY DEF WritesInv, Shape
  <1>2. log' # log
    BY <1>1 DEF Appends
  <1>3. Next /\ ~Replicate
    BY <1>2, Zenon DEF vars, store, Replicate
  <1>4. PICK r \in Requests : Commits(r)
    BY <1>2, <1>3, StepCases, Zenon
  <1>5. log' = Append(log, Event(r)) /\ Event(r).by = r
    BY <1>4, Zenon DEF Commits, Append_, Event
  <1>6. Len(log') = Len(log) + 1 /\ log'[Len(log) + 1] = Event(r)
    BY <1>5, LogGrows, Zenon DEF WritesInv
  <1> QED BY <1>4, <1>5, <1>6, Zenon DEF Last

\* A PUT with X-Fg-If-Revision overwrites nothing that its body does not name:
\* not the status a racing verb set, and not the keys.
THEOREM ConditionalUpdatesAreExact == Spec => ConditionalUpdateIsExact
  <1> DEFINE Exact == \A r \in Requests :
                        (~Lag /\ Appends /\ Last'.by = r /\ op[r].call = "update" /\ op[r].conditional)
                           => meta' = [meta EXCEPT !.org = Updated(@, op[r])]
  <1>1. WritesInv /\ [Next]_vars => [Exact]_vars
    BY AppendsCommit, CommitIsExact, Zenon
  <1> QED BY <1>1, WritesInvariant, PTL DEF Spec, ConditionalUpdateIsExact
-----------------------------------------------------------------------------
(* Types.                                                                  *)

\* The type invariant, and that a request has a record when it has decided.
TypeInv ==
    /\ meta \in Items \cup {None}
    /\ replica \in Items \cup {None}
    /\ keys \in [Requests -> KeyLists]
    /\ \A r \in Requests : Decided(r) => record[r] \in Orgs

\* The record after a PUT, a transition or a creation is a record.
LEMMA RecordTypes ==
    ASSUME NEW org \in Orgs, NEW c \in Calls
    PROVE  /\ c.call = "update" => Updated(org, c) \in Orgs
           /\ \A status \in Statuses : Transitioned(org, status) \in Orgs
  <1>1. ASSUME c.call = "update" PROVE Updated(org, c) \in Orgs
    BY <1>1, Zenon DEF Orgs, OrgsOf, Updated
  <1>2. ASSUME NEW status \in Statuses PROVE Transitioned(org, status) \in Orgs
    BY <1>2, Zenon DEF Orgs, OrgsOf, Transitioned
  <1> QED BY <1>1, <1>2, Zenon

LEMMA TransitionType ==
    ASSUME NEW r \in Requests, NEW ks \in KeyLists, op[r].call \in KeyCalls,
           KeyTransition(r, ks).tag = "changed"
    PROVE  KeyTransition(r, ks).keys \in KeyLists
  <1>1. {"Active", "Revoked", "Rotating"} \subseteq KeyStatuses
    BY Zenon DEF KeyStatuses
  <1>2. CASE op[r].call = "generate"
    BY <1>1, <1>2, Zenon DEF KeyTransition, GenerateEntries, KeyLists
  <1>3. CASE op[r].call = "revoke"
    BY <1>1, <1>3, Zenon DEF KeyTransition, RevokeEntries, KeyLists
  <1>4. CASE op[r].call = "rotate"
    BY <1>1, <1>4, Zenon DEF KeyTransition, RotateEntries, KeyLists
  <1> QED BY <1>2, <1>3, <1>4, Zenon DEF KeyCalls

LEMMA TypeInit == Init => TypeInv
  <1>1. NoKeys \in KeyLists
    BY SMTT(20) DEF NoKeys, KeyLists, KeyStatuses
  <1> QED BY <1>1, Zenon DEF Init, TypeInv, Decided

\* A step that leaves the items and the keys alone, and the record where it
\* was or brings one.
LEMMA TypeKept ==
    ASSUME TypeInv, NEW r \in Requests, UNCHANGED <<mode, meta, replica>>,
           keys' \in [Requests -> KeyLists],
           \A q \in Requests \ {r} : Untouched(q),
           Decided(r)' => record'[r] \in Orgs
    PROVE  TypeInv'
  <1>1. Orgs' = Orgs /\ Items' = Items
    BY SMTT(20) DEF Orgs, Items, Calls
  <1>2. ASSUME NEW q \in Requests, Decided(q)' PROVE record'[q] \in Orgs
    BY <1>2, Zenon DEF TypeInv, Untouched, Decided
  <1> QED BY <1>1, <1>2, Zenon DEF TypeInv

\* A request only touches what is its own.
LEMMA OthersUntouched ==
    ASSUME Shape, NEW r \in Requests, Quiet(r)
    PROVE  UNCHANGED <<log, meta, replica>> /\ \A q \in Requests \ {r} : Untouched(q)
  <1> USE DEF Shape, Untouched, Goto, Return, store, locals
  <1>1. CASE Call(r) BY <1>1, Zenon DEF Call
  <1>2. CASE GetMissing(r) \/ ReadCurrent(r) \/ AppendConflict(r)
    BY <1>2, Zenon DEF GetMissing, ReadCurrent, AppendConflict
  <1>3. CASE GetForUpdate(r) BY <1>3, SMTT(20) DEF GetForUpdate
  <1>4. CASE GetForTransition(r) BY <1>4, Zenon DEF GetForTransition
  <1>5. CASE ReadRevision(r) BY <1>5, Zenon DEF ReadRevision
  <1>6. CASE ReadItem(r) BY <1>6, Zenon DEF ReadItem
  <1>7. CASE EnsureKey(r) BY <1>7, Zenon DEF EnsureKey
  <1>8. CASE PutKey(r) BY <1>8, Zenon DEF PutKey
  <1>9. CASE ReadKeys(r) BY <1>9, Zenon DEF ReadKeys
  <1>10. CASE AppendMismatch(r) BY <1>10, Zenon DEF AppendMismatch
  <1>11. CASE GiveUp(r) BY <1>11, Zenon DEF GiveUp
  <1> QED BY <1>1, <1>2, <1>3, <1>4, <1>5, <1>6, <1>7, <1>8, <1>9, <1>10, <1>11, ZenonT(30) DEF Quiet

\* What the one request that moves has decided, and from what.
LEMMA QuietTypes ==
    ASSUME WritesInv, TypeInv, NEW r \in Requests, Quiet(r), UNCHANGED mode
    PROVE  keys' \in [Requests -> KeyLists] /\ (Decided(r)' => record'[r] \in Orgs)
  <1>0. Shape
    BY SMTT(20) DEF WritesInv
  <1>1. CASE Call(r)
    <2>1. PICK c \in Calls :
               /\ op' = [op EXCEPT ![r] = c]
               /\ record' = [record EXCEPT ![r] =
                     IF c.call = "create"
                     THEN [name |-> c.name, config |-> c.config, status |-> "Draft"]
                     ELSE None]
               /\ Goto(r, FirstAwait(c))
      BY <1>1, Zenon DEF Call
    <2>2. c.call = "create" => [name |-> c.name, config |-> c.config, status |-> "Draft"] \in Orgs
      BY Zenon DEF Orgs, OrgsOf, Statuses
    <2>3. Decided(r)' => c.call = "create"
      BY <1>0, <2>1, SMTT(20) DEF Decided, Shape, Goto, FirstAwait
    <2> QED BY <1>0, <1>1, <2>1, <2>2, <2>3, Zenon DEF Call, Shape, TypeInv
  <1>2. CASE GetMissing(r) \/ ReadCurrent(r) \/ AppendConflict(r)
    BY <1>0, <1>2, SMTT(20) DEF GetMissing, ReadCurrent, AppendConflict, Return, Goto, Decided, Shape, locals, TypeInv
  <1>3. CASE GetForUpdate(r)
    <2>1. PICK item \in Served \ {None} :
               \/ Goto(r, "current") /\ UNCHANGED record
               \/ /\ record' = [record EXCEPT ![r] = Updated(item.org, op[r])]
                  /\ Goto(r, "ensureKey")
      BY <1>3, Zenon DEF GetForUpdate
    <2>2. item.org \in Orgs
      BY Zenon DEF Served, TypeInv, Items
    <2>3. op[r] \in Calls /\ op[r].call = "update"
      BY <1>3, Zenon DEF GetForUpdate, WritesInv, OnPath
    <2>4. Updated(item.org, op[r]) \in Orgs
      BY <2>2, <2>3, RecordTypes, SMTT(20)
    <2> QED BY <1>0, <1>3, <2>1, <2>4 DEF GetForUpdate, Goto, Decided, Shape, TypeInv
  <1>4. CASE GetForTransition(r)
    <2>1. PICK item \in Served \ {None} :
            \/ phase'[r] \in {"current", "returned"}
            \/ record' = [record EXCEPT ![r] = Transitioned(item.org, Target(op[r].call))]
      BY <1>0, <1>4, Zenon DEF GetForTransition, Goto, Return, Shape
    <2>2. item.org \in Orgs
      BY Zenon DEF Served, TypeInv, Items
    <2>3. op[r] \in Calls
      BY <1>4, Zenon DEF GetForTransition, WritesInv, OnPath
    <2>4. Transitioned(item.org, Target(op[r].call)) \in Orgs
      BY <2>2, <2>3, RecordTypes, SMTT(20) DEF Target, Statuses
    <2> QED BY <1>0, <1>4, <2>1, <2>4, SMTT(20) DEF GetForTransition, Decided, Shape, TypeInv
  <1>5. CASE ReadItem(r)
    <2>1. op[r].call \in KeyCalls
      BY <1>5, Zenon DEF ReadItem, WritesInv, OnPath
    <2>2. CASE UNCHANGED <<record, keys>> /\ phase'[r] \in {"current", "returned"}
      BY <2>2, Zenon DEF Decided, TypeInv
    <2>3. CASE /\ meta # None
               /\ KeyTransition(r, meta.keys).tag = "changed"
               /\ record' = [record EXCEPT ![r] = meta.org]
               /\ keys' = [keys EXCEPT ![r] = KeyTransition(r, meta.keys).keys]
      <3>1. meta.keys \in KeyLists /\ meta.org \in Orgs
        BY <2>3, SMTT(20) DEF TypeInv, Items
      <3>2. KeyTransition(r, meta.keys).keys \in KeyLists
        BY <2>1, <2>3, <3>1, TransitionType, SMTT(20)
      <3> QED BY <1>0, <2>3, <3>1, <3>2, Zenon DEF Shape, TypeInv
    <2> QED BY <1>0, <1>5, <2>2, <2>3, Zenon DEF ReadItem, Goto, Return, Shape
  <1>6. CASE ReadRevision(r)
    BY <1>0, <1>6, Zenon DEF ReadRevision, Decided, TypeInv
  <1>7. CASE EnsureKey(r) \/ PutKey(r)
    BY <1>0, <1>7, Zenon DEF EnsureKey, PutKey, Decided, TypeInv
  <1>8. CASE ReadKeys(r)
    <2>1. CarriedKeys \in KeyLists
      BY Zenon DEF CarriedKeys, NoKeys, TypeInv, Items, KeyLists, KeyStatuses
    <2> QED BY <1>0, <1>8, <2>1, Zenon DEF ReadKeys, Decided, TypeInv
  <1>9. CASE AppendMismatch(r) \/ GiveUp(r)
    BY <1>0, <1>9, Zenon DEF AppendMismatch, GiveUp, Decided, TypeInv
  <1> QED BY <1>1, <1>2, <1>3, <1>4, <1>5, <1>6, <1>7, <1>8, <1>9, Zenon DEF Quiet

LEMMA TypeStep == WritesInv /\ TypeInv /\ [Next]_vars => TypeInv'
  <1> SUFFICES ASSUME WritesInv, TypeInv, [Next]_vars PROVE TypeInv'
    BY Zenon
  <1>1. Shape
    BY SMTT(20) DEF WritesInv
  <1>2. CASE UNCHANGED vars \/ (Replicate /\ UNCHANGED mode)
    <2>1. UNCHANGED <<mode, meta, keys, record, phase>> /\ replica' \in {replica, meta}
      BY <1>2, Zenon DEF vars, store, locals, Replicate
    <2> QED BY <2>1, Zenon DEF TypeInv, Decided, Orgs, Items, Calls
  <1>3. ASSUME NEW r \in Requests, Quiet(r), UNCHANGED mode PROVE TypeInv'
    BY <1>1, <1>3, OthersUntouched, QuietTypes, TypeKept, Zenon
  <1>4. ASSUME NEW r \in Requests, Commits(r), UNCHANGED mode PROVE TypeInv'
    <2>1. record[r] \in Orgs /\ keys[r] \in KeyLists
      BY <1>4, ZenonT(20) DEF TypeInv, Commits, Decided
    <2>2. meta' \in Items
      BY <1>4, <2>1, Zenon DEF Commits, Append_, Items
    <2>3. UNCHANGED <<mode, replica, record, keys>> /\ \A q \in Requests : Decided(q)' => Decided(q)
      BY <1>1, <1>4, Zenon DEF Commits, Append_, locals, Decided, Goto, Shape
    <2> QED BY <2>2, <2>3, Zenon DEF TypeInv, Orgs, Items, Calls
  <1>5. Next => UNCHANGED mode
    BY SMTT(20) DEF Next
  <1> QED BY <1>2, <1>3, <1>4, <1>5, StepCases, Zenon

-----------------------------------------------------------------------------
(* Requests that run one at a time.                                        *)

\* What a request has decided still follows from what is stored.
Fresh(r) ==
    /\ op[r].call = "update" => meta # None /\ record[r] = Updated(meta.org, op[r])
    /\ op[r].call \in Verbs =>
          /\ meta # None
          /\ CanTransition(meta.org.status, Target(op[r].call))
          /\ record[r] = Transitioned(meta.org, Target(op[r].call))
    /\ op[r].call \in KeyCalls =>
          /\ meta # None
          /\ record[r] = meta.org
          /\ KeyTransition(r, meta.keys).tag = "changed"
          /\ keys[r] = KeyTransition(r, meta.keys).keys
    /\ phase[r] \in {"append", "abandoned"} /\ op[r].call \notin KeyCalls => keys[r] = CarriedKeys

\* The fold looks at the last event of a set of kinds: there is one.
HasLast(kinds) ==
    About(kinds) # {} => \E s \in About(kinds) : \A t \in About(kinds) : s >= t

Alone == \A q, r \in InFlight : q = r

SerialInv ==
    Serial =>
        /\ Alone
        /\ FoldMatches
        /\ HasLast(OrgKinds)
        /\ HasLast(KeyKinds)
        /\ \A r \in Requests : Decided(r) => Fresh(r)

LEMMA SerialInit == Init => SerialInv
BY DEF Init, SerialInv, Alone, InFlight, FoldMatches, HasLast, About, Decided

\* The request that moves decides from the item as it is.
LEMMA QuietFresh ==
    ASSUME WritesInv, NEW r \in Requests, Quiet(r), UNCHANGED <<mode, log, meta>>, ~Lag,
           Decided(r) => Fresh(r), Decided(r)'
    PROVE  Fresh(r)'
  <1>0. Shape
    BY Zenon DEF WritesInv
  <1>1. CASE Call(r)
    <2>1. op'[r].call = "create" /\ phase'[r] = "ensureKey"
      BY <1>0, <1>1, SMTT(20) DEF Call, Goto, FirstAwait, Shape, Decided
    <2> QED BY <2>1, Zenon DEF Fresh, Verbs, KeyCalls
  <1>2. CASE GetMissing(r) \/ ReadCurrent(r) \/ AppendConflict(r)
    BY <1>0, <1>2, Zenon DEF GetMissing, ReadCurrent, AppendConflict, Return, Goto, Decided, Shape
  <1>3. CASE GetForUpdate(r)
    <2>1. /\ UNCHANGED op /\ op[r].call = "update"
          /\ phase'[r] = "ensureKey"
          /\ meta # None /\ record'[r] = Updated(meta.org, op[r])
      BY <1>0, <1>3 DEF GetForUpdate, Goto, Shape, Decided, Served
    <2> QED BY <2>1, Zenon DEF Fresh, Verbs, KeyCalls
  <1>4. CASE GetForTransition(r)
    <2>1. /\ UNCHANGED op /\ op[r].call \in Verbs
          /\ phase'[r] = "revision"
          /\ meta # None
          /\ CanTransition(meta.org.status, Target(op[r].call))
          /\ record'[r] = Transitioned(meta.org, Target(op[r].call))
      BY <1>0, <1>4 DEF GetForTransition, Goto, Return, Shape, Decided, Served
    <2> QED BY <2>1, ZenonT(30) DEF Fresh, Verbs, KeyCalls
  <1>5. CASE ReadItem(r)
    <2>1. op[r].call \in KeyCalls
      BY <1>5, Zenon DEF ReadItem, WritesInv, OnPath
    <2>2. /\ UNCHANGED op
          /\ meta # None
          /\ record'[r] = meta.org
          /\ KeyTransition(r, meta.keys).tag = "changed"
          /\ keys'[r] = KeyTransition(r, meta.keys).keys
      BY <1>0, <1>5, Zenon DEF ReadItem, Goto, Return, Shape, Decided
    <2>3. KeyTransition(r, meta.keys)' = KeyTransition(r, meta.keys)
      BY <2>2, Zenon DEF KeyTransition
    <2> QED BY <2>1, <2>2, <2>3, ZenonT(20) DEF Fresh, Verbs, KeyCalls
  <1>6. CASE ReadRevision(r) \/ EnsureKey(r) \/ PutKey(r) \/ GiveUp(r)
    <2>1. /\ UNCHANGED <<op, record, keys>> /\ Decided(r)
          /\ phase'[r] \in {"append", "abandoned"} /\ op[r].call \notin KeyCalls => phase[r] = "append"
      BY <1>0, <1>6, Zenon DEF ReadRevision, EnsureKey, PutKey, GiveUp, AfterEnsureKey, Goto, Shape, Decided
    <2> QED BY <2>1, ZenonT(30) DEF Fresh, KeyTransition, CarriedKeys
  <1>7. CASE ReadKeys(r)
    <2>1. UNCHANGED <<op, record>> /\ Decided(r) /\ op[r].call \notin KeyCalls /\ keys'[r] = CarriedKeys
      BY <1>0, <1>7, SMTT(20) DEF ReadKeys, Decided, Shape, WritesInv, OnPath
    <2> QED BY <2>1, ZenonT(30) DEF Fresh, CarriedKeys
  <1>8. CASE AppendMismatch(r)
    BY <1>0, <1>8, Zenon DEF AppendMismatch, Return, Goto, Decided, Shape
  <1> QED BY <1>1, <1>2, <1>3, <1>4, <1>5, <1>6, <1>7, <1>8, Zenon DEF Quiet

\* A request starts only when no other is in flight.
LEMMA CallAlone ==
    ASSUME WritesInv, NEW r \in Requests, Call(r), Modes[mode].load = 1
    PROVE  InFlight = {}
  <1>1. InFlight # {} => Modes[mode].load > 1
    BY Zenon DEF Call
  <1> QED BY <1>1

\* Every other step is one of a request in flight.
LEMMA StepInFlight ==
    ASSUME Shape, NEW r \in Requests, Quiet(r) \/ Commits(r), ~Call(r)
    PROVE  r \in InFlight
BY Zenon DEF Shape, Quiet, Commits, InFlight, GetMissing, GetForUpdate, GetForTransition, ReadCurrent, ReadRevision,
       ReadItem, EnsureKey, PutKey, ReadKeys, AppendMismatch, AppendConflict, GiveUp

LEMMA QuietSerial ==
    ASSUME WritesInv, SerialInv, NEW r \in Requests, Quiet(r), UNCHANGED <<mode, log, meta>>
    PROVE  SerialInv'
  <1>1. Serial' = Serial
    BY Zenon DEF Serial, Lag
  <1> SUFFICES ASSUME Serial PROVE SerialInv'
    BY <1>1, Zenon DEF SerialInv
  <1>2. FoldMatches' /\ HasLast(OrgKinds)' /\ HasLast(KeyKinds)'
    BY Zenon DEF SerialInv, FoldMatches, FoldedOrg, FoldedKeys, About, HasLast
  <1>3. \A q \in Requests \ {r} : Untouched(q)
    BY OthersUntouched, Zenon DEF WritesInv
  <1>4. InFlight \subseteq {r}
    BY CallAlone, StepInFlight, Zenon DEF WritesInv, SerialInv, Alone, Serial
  <1>5. InFlight' \subseteq {r}
    BY <1>3, <1>4, Zenon DEF InFlight, Untouched
  <1>6. ASSUME NEW q \in Requests, Decided(q)' PROVE Fresh(q)'
    <2>1. q = r
      BY <1>5, <1>6 DEF InFlight, Decided
    <2> QED BY <1>6, <2>1, QuietFresh, Zenon DEF SerialInv, Serial
  <1> QED BY <1>2, <1>5, <1>6, Zenon DEF SerialInv, Alone

\* The last event of some kinds after an append: the new one or, when it is of
\* another kind, the one that was the last.
LEMMA LastAfter ==
    ASSUME Shape, NEW e, log' = Append(log, e), NEW kinds, HasLast(kinds)
    PROVE  /\ HasLast(kinds)'
           /\ e.kind \in kinds => About(kinds)' # {} /\ log'[Max(About(kinds)')] = e
           /\ e.kind \notin kinds =>
                 /\ About(kinds)' = About(kinds)
                 /\ About(kinds) # {} => log'[Max(About(kinds))] = log[Max(About(kinds))]
  <1>1. /\ Len(log) \in Nat
        /\ DOMAIN log' = DOMAIN log \cup {Len(log) + 1}
        /\ \A s \in DOMAIN log : log'[s] = log[s]
        /\ log'[Len(log) + 1] = e
    BY LogGrows, Zenon
  <1>2. \A s \in DOMAIN log : s \in Nat /\ s <= Len(log)
    BY SMTT(20) DEF Shape
  <1>3. CASE e.kind \in kinds
    <2>1. About(kinds)' = About(kinds) \cup {Len(log) + 1}
      BY <1>1, <1>3, Zenon DEF About
    <2>2. \A s \in About(kinds)' : Len(log) + 1 >= s /\ s \in Nat
      BY <1>1, <1>2, <2>1 DEF About
    <2>3. Max(About(kinds)') = Len(log) + 1
      BY <1>1, <2>1, <2>2, SMTT(20) DEF Max
    <2> QED BY <1>1, <1>3, <2>1, <2>2, <2>3, SMTT(20) DEF HasLast
  <1>4. CASE e.kind \notin kinds
    <2>1. About(kinds)' = About(kinds)
      BY <1>1, <1>2, <1>4, Zenon DEF About
    <2>2. About(kinds) # {} => Max(About(kinds)) \in DOMAIN log
      BY Zenon DEF HasLast, Max, About
    <2> QED BY <1>1, <1>4, <2>1, <2>2, Zenon DEF HasLast
  <1> QED BY <1>3, <1>4, Zenon

\* An append of an organization event keeps the keys, and one of a key event
\* the record: the item stays the fold.
LEMMA CommitFolds ==
    ASSUME WritesInv, TypeInv, SerialInv, Serial, NEW r \in Requests, Commits(r), UNCHANGED mode
    PROVE  FoldMatches' /\ HasLast(OrgKinds)' /\ HasLast(KeyKinds)'
  <1>1. /\ log' = Append(log, Event(r))
        /\ meta' = [org |-> record[r], keys |-> keys[r]]
    BY Zenon DEF Commits, Append_
  <1>2. Decided(r) /\ Fresh(r) /\ FoldMatches /\ HasLast(OrgKinds) /\ HasLast(KeyKinds) /\ Shape
    BY Zenon DEF Commits, Decided, SerialInv, WritesInv
  <1>3. meta' # None
    <2>1. meta' \in Items
      BY <1>1, <1>2, Zenon DEF TypeInv, Items
    <2> QED BY <1>2, <2>1, NoneAssumption, Zenon DEF Items, Orgs, Calls, Shape
  <1>4. op[r].call \in {"create", "update"} \cup Verbs \cup KeyCalls
    BY Zenon DEF Commits, WritesInv, OnPath
  <1>5. CASE op[r].call \in KeyCalls
    <2>1. Event(r).kind \in KeyKinds /\ Event(r).kind \notin OrgKinds /\ Event(r).keys = keys[r]
      BY <1>5, Zenon DEF Event, Kind, KeyCalls, KeyKinds, OrgKinds
    <2>2. HasLast(OrgKinds)' /\ FoldedOrg' = FoldedOrg
      BY <1>1, <1>2, <2>1, LastAfter, Zenon DEF FoldedOrg
    <2>3. HasLast(KeyKinds)' /\ FoldedKeys' = keys[r]
      BY <1>1, <1>2, <2>1, LastAfter, ZenonT(30) DEF FoldedKeys
    <2>4. FoldedOrg = record[r]
      <3>1. meta # None /\ record[r] = meta.org
        BY <1>2, <1>5, Zenon DEF Fresh
      <3>2. meta.org = FoldedOrg
        BY <1>2, <3>1 DEF FoldMatches
      <3> QED BY <3>1, <3>2, Zenon
    <2> QED BY <1>1, <1>3, <2>2, <2>3, <2>4, Zenon DEF FoldMatches
  <1>6. CASE op[r].call \notin KeyCalls
    <2>1. Event(r).kind \in OrgKinds /\ Event(r).kind \notin KeyKinds /\ Event(r).org = record[r]
      BY <1>4, <1>6, Zenon DEF Event, Kind, Verbs, KeyCalls, KeyKinds, OrgKinds
    <2>2. HasLast(OrgKinds)' /\ FoldedOrg' = record[r]
      BY <1>1, <1>2, <2>1, LastAfter, Zenon DEF FoldedOrg
    <2>3. HasLast(KeyKinds)' /\ FoldedKeys' = FoldedKeys
      BY <1>1, <1>2, <2>1, LastAfter, ZenonT(20) DEF FoldedKeys
    <2>4. keys[r] = CarriedKeys
      BY <1>2, <1>6, Zenon DEF Fresh, Commits
    <2>5. CASE meta = None
      <3>1. FoldedKeys = NoKeys
        BY <1>2, <2>5, SMTT(20) DEF FoldMatches, FoldedKeys, About
      <3> QED BY <1>1, <1>3, <2>2, <2>3, <2>4, <2>5, <3>1, Zenon DEF FoldMatches, CarriedKeys
    <2>6. CASE meta # None
      <3>1. FoldedKeys = meta.keys
        BY <1>2, <2>6 DEF FoldMatches
      <3> QED BY <1>1, <1>3, <2>2, <2>3, <2>4, <2>6, <3>1, Zenon DEF FoldMatches, CarriedKeys
    <2> QED BY <2>5, <2>6, Zenon
  <1> QED BY <1>5, <1>6, Zenon

LEMMA CommitSerial ==
    ASSUME WritesInv, TypeInv, SerialInv, NEW r \in Requests, Commits(r), UNCHANGED mode
    PROVE  SerialInv'
  <1>1. Serial' = Serial
    BY Zenon DEF Serial, Lag
  <1> SUFFICES ASSUME Serial PROVE SerialInv'
    BY <1>1, Zenon DEF SerialInv
  <1>2. FoldMatches' /\ HasLast(OrgKinds)' /\ HasLast(KeyKinds)'
    BY CommitFolds, Zenon
  <1>3. InFlight \subseteq {r}
    BY SMTT(20) DEF Commits, InFlight, SerialInv, Alone
  <1>4. InFlight' = {}
    BY <1>3, Zenon DEF InFlight, Commits, Goto, WritesInv, Shape
  <1>5. \A q \in Requests : ~Decided(q)'
    BY <1>4, Zenon DEF InFlight, Decided
  <1> QED BY <1>2, <1>4, <1>5, Zenon DEF SerialInv, Alone

LEMMA SerialStep == WritesInv /\ TypeInv /\ SerialInv /\ [Next]_vars => SerialInv'
  <1> SUFFICES ASSUME WritesInv, TypeInv, SerialInv, [Next]_vars PROVE SerialInv'
    BY Zenon
  <1>1. CASE UNCHANGED vars
    <2>1. UNCHANGED <<mode, log, meta, op, phase, record, keys>>
      BY <1>1, Zenon DEF vars, store, locals
    <2>2. Serial' = Serial /\ Alone' = Alone
      BY <2>1, SMTT(20) DEF Serial, Lag, Alone, InFlight
    <2>3. FoldMatches' = FoldMatches /\ HasLast(OrgKinds)' = HasLast(OrgKinds) /\ HasLast(KeyKinds)' = HasLast(KeyKinds)
      BY <2>1, Zenon DEF FoldMatches, FoldedOrg, FoldedKeys, About, HasLast
    <2>4. ASSUME NEW r \in Requests PROVE Decided(r)' = Decided(r) /\ Fresh(r)' = Fresh(r)
      BY <2>1, Zenon DEF Decided, Fresh, KeyTransition, CarriedKeys
    <2> QED BY <2>2, <2>3, <2>4, Zenon DEF SerialInv
  <1>2. CASE Next
    <2>1. UNCHANGED mode
      BY <1>2, Zenon DEF Next
    <2>2. CASE Replicate
      BY <2>1, <2>2, Zenon DEF SerialInv, Serial, Replicate, Lag
    <2>3. ASSUME NEW r \in Requests, Quiet(r), UNCHANGED <<log, meta>> PROVE SerialInv'
      BY <2>1, <2>3, QuietSerial, Zenon
    <2>4. ASSUME NEW r \in Requests, Commits(r) PROVE SerialInv'
      BY <2>1, <2>4, CommitSerial, Zenon
    <2> QED BY <1>2, <2>2, <2>3, <2>4, StepCases, Zenon
  <1> QED BY <1>1, <1>2, Zenon

\* A commit of a request that ran alone.
LEMMA CommitMoves ==
    ASSUME WritesInv, SerialInv, Serial, NEW r \in Requests, Commits(r)
    PROVE  /\ AlongTheArrows
           /\ op[r].call \in Verbs => StatusMoves
           /\ StaysRevoked
  <1>1. meta' = [org |-> record[r], keys |-> keys[r]] /\ GuardHolds(r)
    BY Zenon DEF Commits, Append_
  <1>2. Fresh(r) /\ phase[r] \in {"append", "abandoned"}
    BY Zenon DEF Commits, Decided, SerialInv
  <1>3. op[r].call \in {"create", "update"} \cup Verbs \cup KeyCalls
    BY <1>2, Zenon DEF WritesInv, OnPath
  <1>4. meta # None => "status" \in DOMAIN meta.org /\ DOMAIN meta.keys = Requests
    BY SMTT(20) DEF WritesInv, Shape
  <1>5. CASE op[r].call \in {"create", "update"}
    <2>1. AlongTheArrows
      BY <1>1, <1>2, <1>4, <1>5, Zenon DEF GuardHolds, Fresh, Updated, AlongTheArrows, StatusMoves
    <2>2. StaysRevoked
      BY <1>1, <1>2, <1>5, Zenon DEF Fresh, KeyCalls, CarriedKeys, StaysRevoked
    <2> QED BY <1>5, <2>1, <2>2, Zenon DEF Verbs
  <1>6. CASE op[r].call \in Verbs
    <2>1. meta # None /\ meta'.org.status = Target(op[r].call) /\ CanTransition(meta.org.status, meta'.org.status)
      BY <1>1, <1>2, <1>4, <1>6, Zenon DEF Fresh, Transitioned
    <2>2. StatusMoves
      BY <2>1, Zenon DEF StatusMoves, CanTransition
    <2>3. StaysRevoked
      BY <1>1, <1>2, <1>6, ZenonT(30) DEF Fresh, Verbs, KeyCalls, CarriedKeys, StaysRevoked
    <2> QED BY <2>1, <2>2, <2>3, Zenon DEF AlongTheArrows
  <1>7. CASE op[r].call \in KeyCalls
    <2>1. /\ meta # None /\ meta'.org = meta.org
          /\ KeyTransition(r, meta.keys).tag = "changed"
          /\ meta'.keys = KeyTransition(r, meta.keys).keys
      BY <1>1, <1>2, <1>7, ZenonT(30) DEF Fresh
    <2>2. meta.keys[r] = "absent"
      BY <1>2, <2>1, SMTT(20) DEF WritesInv, Answering, Unminted, Minted
    <2>3. StaysRevoked
      <3> SUFFICES ASSUME NEW k \in Requests, meta.keys[k] = "Revoked" PROVE meta'.keys[k] = "Revoked"
        BY Zenon DEF StaysRevoked
      <3>1. CASE op[r].call = "generate"
        BY <1>4, <2>1, <2>2, <3>1, Zenon DEF KeyTransition, GenerateEntries
      <3>2. CASE op[r].call = "revoke"
        BY <1>4, <2>1, <2>2, <3>2, Zenon DEF KeyTransition, RevokeEntries
      <3>3. CASE op[r].call = "rotate"
        BY <1>4, <2>1, <2>2, <3>3, Zenon DEF KeyTransition, RotateEntries
      <3> QED BY <1>7, <3>1, <3>2, <3>3, Zenon DEF KeyCalls
    <2> QED BY <1>7, <2>1, <2>3, Zenon DEF AlongTheArrows, StatusMoves, KeyCalls, Verbs
  <1> QED BY <1>3, <1>5, <1>6, <1>7, SMTT(20)

\* Requests that run one at a time move the status along the arrows, leave no
\* revoked key usable, and keep the item equal to the fold of the log: with
\* ConditionalUpdatesAreExact, what the writers guarantee; what they do not
\* guarantee when they overlap is in LifecycleRespected and RevokedForever.
THEOREM SerialRequestsAreSafe == Spec => SerialSteps
  <1> DEFINE Safe == Serial => AlongTheArrows /\ VerbsMove /\ StaysRevoked /\ FoldMatches'
             IInv == WritesInv /\ TypeInv /\ SerialInv
  <1>1. Init => IInv
    BY WritesInit, TypeInit, SerialInit, Zenon
  <1>2. IInv /\ [Next]_vars => IInv'
    BY WritesStep, TypeStep, SerialStep, Zenon
  <1>3. IInv /\ IInv' /\ [Next]_vars => [Safe]_vars
    <2> SUFFICES ASSUME IInv, IInv', Next, Serial
                 PROVE  AlongTheArrows /\ VerbsMove /\ StaysRevoked /\ FoldMatches'
      BY Zenon
    <2>1. Serial' /\ FoldMatches'
      BY Zenon DEF Next, Serial, Lag, SerialInv
    <2>2. CASE \E r \in Requests : Commits(r)
      <3>1. PICK r \in Requests : Commits(r)
        BY <2>2, Zenon
      <3>2. Appends => Last'.by = r
        <4>1. log' = Append(log, Event(r)) /\ Event(r).by = r
          BY <3>1, Zenon DEF Commits, Append_, Event
        <4>2. Len(log') = Len(log) + 1 /\ log'[Len(log) + 1] = Event(r)
          BY <4>1, LogGrows, ZenonT(20) DEF WritesInv
        <4> QED BY <4>1, <4>2, Zenon DEF Last
      <3> QED BY <2>1, <3>1, <3>2, CommitMoves, Zenon DEF VerbsMove
    <2>3. CASE ~\E r \in Requests : Commits(r)
      <3>1. UNCHANGED <<log, meta>>
        BY <2>3, StepCases, Zenon DEF Replicate
      <3>2. Len(log) \in Nat
        BY DEF WritesInv, Shape
      <3> QED BY <2>1, <3>1, <3>2 DEF AlongTheArrows, StatusMoves, StaysRevoked, VerbsMove, Appends
    <2> QED BY <2>2, <2>3, Zenon
  <1> QED BY <1>1, <1>2, <1>3, PTL DEF Spec, SerialSteps

=============================================================================
