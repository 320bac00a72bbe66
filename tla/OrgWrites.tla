------------------------------ MODULE OrgWrites ------------------------------
(***************************************************************************)
(* The writers of an organization's META item: creation, updates, the      *)
(* lifecycle verbs and the request-signing keys, from the HTTP handlers    *)
(* (handlers/mod.rs, lifecycle.rs, keys.rs) through DynamoModelEventStore  *)
(* (model_event_store/mod.rs) to the append.                               *)
(*                                                                         *)
(* The item carries two things with separate writers: the organization     *)
(* record (name, config, status) and the list of signing keys.  Every      *)
(* writer replaces the WHOLE item, so each one first reads the part it is  *)
(* not about.  A request is a sequence of awaits and other requests run    *)
(* between any two of them; every await is a step here.                    *)
(*                                                                         *)
(* The append itself is one step: module EventLog shows that append with   *)
(* its counter reads and retries implements an indivisible one.            *)
(***************************************************************************)
EXTENDS Naturals, Sequences, FiniteSets, FiniteSetsExt

CONSTANTS
    Requests,        \* the HTTP requests; a key is named by the request minting it
    MaxKeyAttempts,  \* MAX_KEY_APPEND_ATTEMPTS
    Modes,           \* the circumstances to explore, by name; a mode has
                     \*   calls:  the operations a request may ask for
                     \*   total:  how many requests there are
                     \*   load:   how many of them run at the same time
                     \*   lag:    may an eventually consistent read return an older item?
                     \*   faulty: may the answer of an append be lost?
    None

Verbs == {"activate", "suspend", "restore"}
KeyCalls == {"generate", "revoke", "rotate"}

ASSUME ConstantsAssumption ==
    /\ MaxKeyAttempts \in Nat \ {0}
    /\ \A m \in DOMAIN Modes :
          /\ Modes[m].total \in Nat
          /\ Modes[m].load \in Nat \ {0}
          /\ Modes[m].lag \in BOOLEAN
          /\ Modes[m].faulty \in BOOLEAN
          /\ \A c \in Modes[m].calls :
                /\ c.call \in {"create", "update"} \cup Verbs \cup KeyCalls
                /\ c.call \in {"revoke", "rotate"} => c.key \in Requests
    /\ IsFiniteSet(Requests)
    /\ None \notin Requests \cup Nat

VARIABLES
    mode,       \* the circumstances of this behaviour
    log,        \* the events, with their payloads
    meta,       \* the META item, or None
    replica,    \* an older META item that a lagging replica may still serve
    eventKey,   \* the EVENT_SIGNING_KEY item: the request that minted it, or None
    op,         \* per request, the call it makes
    phase,      \* per request, the next await
    record,     \* per request, the organization record it will write
    keys,       \* per request, the signing keys it will write
    expected,   \* per request, the revision its append demands, or None
    attempt,    \* per request, the iteration of append_org_keys
    signer,     \* per request, the event-signing key it obtained
    began,      \* per request, the revision when it started
    answer      \* per request, the response

store == <<log, meta, replica, eventKey>>
locals == <<record, keys, expected, attempt, signer, began>>
vars == <<mode, store, op, phase, locals, answer>>

Calls == Modes[mode].calls
Lag == Modes[mode].lag
Faulty == Modes[mode].faulty
-----------------------------------------------------------------------------
OrgKinds == {"OrgCreated", "OrgUpdated", "OrgActivated", "OrgSuspended", "OrgRestored"}
KeyKinds == {"OrgKeyGenerated", "OrgKeyRevoked", "OrgKeyRotated"}

\* The statuses the control plane can reach: no handler starts a deletion.
Statuses == {"Draft", "Active", "Suspended"}
KeyStatuses == {"absent", "Active", "Rotating", "Revoked"}

NoKeys == [k \in Requests |-> "absent"]

Kind(c) ==
    CASE c = "create"   -> "OrgCreated"
      [] c = "update"   -> "OrgUpdated"
      [] c = "activate" -> "OrgActivated"
      [] c = "suspend"  -> "OrgSuspended"
      [] c = "restore"  -> "OrgRestored"
      [] c = "generate" -> "OrgKeyGenerated"
      [] c = "revoke"   -> "OrgKeyRevoked"
      [] c = "rotate"   -> "OrgKeyRotated"

\* LifecycleVerb::target and LifecycleVerb::valid_from
Target(verb) == IF verb = "suspend" THEN "Suspended" ELSE "Active"
ValidFrom(verb, status) ==
    CASE verb = "activate" -> status = "Draft"
      [] verb = "suspend"  -> status = "Active"
      [] verb = "restore"  -> status = "Suspended"

\* OrgStatus::can_transition_to, on the statuses that occur
CanTransition(from, to) ==
    <<from, to>> \in {<<"Draft", "Active">>, <<"Active", "Suspended">>, <<"Suspended", "Active">>}

\* Organization::transition_to, once allowed
Transitioned(org, to) == [org EXCEPT !.status = to]

\* The organization after a PUT: a field the body leaves out is kept.
Updated(org, c) ==
    [org EXCEPT !.name = IF c.name = None THEN @ ELSE c.name,
                !.config = IF c.config = None THEN @ ELSE c.config]

\* generate_key_transition
GenerateEntries(ks, new) == [tag |-> "changed", keys |-> [ks EXCEPT ![new] = "Active"]]

\* revoke_entries
RevokeEntries(ks, k) ==
    IF ks[k] \in {"absent", "Revoked"}
    THEN [tag |-> "noop"]
    ELSE [tag |-> "changed", keys |-> [ks EXCEPT ![k] = "Revoked"]]

\* rotate_entries
RotateEntries(ks, k, new) ==
    IF ks[k] = "absent" THEN [tag |-> "notFound"]
    ELSE IF ks[k] # "Active" THEN [tag |-> "conflict"]
    ELSE [tag |-> "changed", keys |-> [ks EXCEPT ![k] = "Rotating", ![new] = "Active"]]

\* The transition closure of the call: new keys, nothing to do, or an error.
KeyTransition(r, ks) ==
    CASE op[r].call = "generate" -> GenerateEntries(ks, r)
      [] op[r].call = "revoke"   -> RevokeEntries(ks, op[r].key)
      [] op[r].call = "rotate"   -> RotateEntries(ks, op[r].key, r)
-----------------------------------------------------------------------------
Init ==
    /\ mode \in DOMAIN Modes
    /\ log = << >>
    /\ meta = None
    /\ replica = None
    /\ eventKey = None
    /\ op = [r \in Requests |-> None]
    /\ phase = [r \in Requests |-> "idle"]
    /\ record = [r \in Requests |-> None]
    /\ keys = [r \in Requests |-> NoKeys]
    /\ expected = [r \in Requests |-> None]
    /\ attempt = [r \in Requests |-> 0]
    /\ signer = [r \in Requests |-> None]
    /\ began = [r \in Requests |-> 0]
    /\ answer = [r \in Requests |-> [tag |-> "pending", revision |-> 0]]

Goto(r, p) == phase' = [phase EXCEPT ![r] = p]

Return(r, tag, revision) ==
    /\ Goto(r, "returned")
    /\ answer' = [answer EXCEPT ![r] = [tag |-> tag, revision |-> revision]]

InFlight == {r \in Requests : phase[r] \notin {"idle", "returned"}}

\* What the caller of X-Fg-If-Revision demands; it was told that revision.
Demands(c) == IF c.call = "update" /\ c.conditional THEN 0 .. Len(log) ELSE {None}

FirstAwait(c) ==
    IF c.call = "create" THEN "ensureKey"
    ELSE IF c.call \in KeyCalls THEN "readItem"
    ELSE "get"

\* A request arrives.  create_handler builds the Draft record at once.
Call(r) ==
    /\ phase[r] = "idle"
    /\ InFlight # {} => Modes[mode].load > 1 /\ Cardinality(InFlight) < Modes[mode].load
    /\ Cardinality({q \in Requests : phase[q] # "idle"}) < Modes[mode].total
    /\ \E c \in Calls :
          /\ op' = [op EXCEPT ![r] = c]
          /\ record' = [record EXCEPT ![r] =
                IF c.call = "create"
                THEN [name |-> c.name, config |-> c.config, status |-> "Draft"]
                ELSE None]
          /\ \E n \in Demands(c) : expected' = [expected EXCEPT ![r] = n]
          /\ Goto(r, FirstAwait(c))
    /\ began' = [began EXCEPT ![r] = Len(log)]
    /\ UNCHANGED <<store, keys, attempt, signer, answer>>

\* OrgStore::get sets no consistent_read.
Served == IF Lag THEN {meta, replica} ELSE {meta}

\* No organization: 404.
GetMissing(r) ==
    /\ phase[r] = "get"
    /\ None \in Served
    /\ Return(r, "notFound", 0)
    /\ UNCHANGED <<store, op, locals>>

\* update_handler: the candidate record, or the semantic no-op.
GetForUpdate(r) ==
    /\ phase[r] = "get"
    /\ op[r].call = "update"
    /\ \E item \in Served \ {None} :
          LET candidate == Updated(item.org, op[r])
          IN  IF candidate = item.org
              THEN Goto(r, "current") /\ UNCHANGED record
              ELSE /\ record' = [record EXCEPT ![r] = candidate]
                   /\ Goto(r, "ensureKey")
    /\ UNCHANGED <<store, op, keys, expected, attempt, signer, began, answer>>

\* transition_handler: already there, not allowed, or the record to write.
GetForTransition(r) ==
    /\ phase[r] = "get"
    /\ op[r].call \in Verbs
    /\ \E item \in Served \ {None} :
          LET from == item.org.status
              to == Target(op[r].call)
          IN  \/ /\ from = to
                 /\ Goto(r, "current")
                 /\ UNCHANGED <<record, answer>>
              \/ /\ from # to
                 /\ ~(ValidFrom(op[r].call, from) /\ CanTransition(from, to))
                 /\ Return(r, "conflict", 0)
                 /\ UNCHANGED record
              \/ /\ from # to
                 /\ ValidFrom(op[r].call, from)
                 /\ CanTransition(from, to)
                 /\ record' = [record EXCEPT ![r] = Transitioned(item.org, to)]
                 /\ Goto(r, "revision")
                 /\ UNCHANGED answer
    /\ UNCHANGED <<store, op, keys, expected, attempt, signer, began>>

\* A no-op answers with the current revision, read after the decision.
ReadCurrent(r) ==
    /\ phase[r] = "current"
    /\ Return(r, "noop", Len(log))
    /\ UNCHANGED <<store, op, locals>>

\* latest_revision, for a transition before append_org_state and for a key
\* call at the end of the iteration.
ReadRevision(r) ==
    /\ phase[r] = "revision"
    /\ expected' = [expected EXCEPT ![r] = Len(log)]
    /\ Goto(r, IF op[r].call \in KeyCalls THEN "append" ELSE "ensureKey")
    /\ UNCHANGED <<store, op, record, keys, attempt, signer, began, answer>>

\* append_org_keys: the consistent read of the item and the transition.
ReadItem(r) ==
    /\ phase[r] = "readItem"
    /\ IF meta = None
       THEN Return(r, "notFound", 0) /\ UNCHANGED <<record, keys>>
       ELSE LET next == KeyTransition(r, meta.keys)
            IN  \/ /\ next.tag = "changed"
                   /\ record' = [record EXCEPT ![r] = meta.org]
                   /\ keys' = [keys EXCEPT ![r] = next.keys]
                   /\ Goto(r, "ensureKey")
                   /\ UNCHANGED answer
                \/ /\ next.tag = "noop"
                   /\ Goto(r, "current")
                   /\ UNCHANGED <<record, keys, answer>>
                \/ /\ next.tag \in {"notFound", "conflict"}
                   /\ Return(r, next.tag, 0)
                   /\ UNCHANGED <<record, keys>>
    /\ UNCHANGED <<store, op, expected, attempt, signer, began>>

AfterEnsureKey(r) == IF op[r].call \in KeyCalls THEN "revision" ELSE "readKeys"

\* ensure_signing_key: the consistent read; a missing key is minted.
EnsureKey(r) ==
    /\ phase[r] = "ensureKey"
    /\ signer' = [signer EXCEPT ![r] = eventKey]
    /\ Goto(r, IF eventKey = None THEN "putKey" ELSE AfterEnsureKey(r))
    /\ UNCHANGED <<store, op, record, keys, expected, attempt, began, answer>>

\* Mutant: the put is unconditional.
PutKeyClobbers(r) ==
    /\ phase[r] = "putKey"
    /\ eventKey' = r
    /\ signer' = [signer EXCEPT ![r] = r]
    /\ Goto(r, AfterEnsureKey(r))
    /\ UNCHANGED <<log, meta, replica, op, record, keys, expected, attempt, began, answer>>

\* ensure_signing_key: the conditional put; the loser reads again.
PutKey(r) ==
    /\ phase[r] = "putKey"
    /\ IF eventKey = None
       THEN /\ eventKey' = r
            /\ signer' = [signer EXCEPT ![r] = r]
            /\ Goto(r, AfterEnsureKey(r))
       ELSE /\ Goto(r, "ensureKey")
            /\ UNCHANGED <<eventKey, signer>>
    /\ UNCHANGED <<log, meta, replica, op, record, keys, expected, attempt, began, answer>>

\* Mutant: the keys are not carried over.
CarriedKeysDropped == NoKeys

\* signing_keys_from_item of the item to be replaced
CarriedKeys == IF meta = None THEN NoKeys ELSE meta.keys

\* append_org_state: the keys to carry over, read before the append.
ReadKeys(r) ==
    /\ phase[r] = "readKeys"
    /\ keys' = [keys EXCEPT ![r] = CarriedKeys]
    /\ Goto(r, "append")
    /\ UNCHANGED <<store, op, record, expected, attempt, signer, began, answer>>
-----------------------------------------------------------------------------
\* Mutant: the append does not check the revision.
ExpectedIgnored(r) == TRUE

\* The precondition of the append and the guard of its state put.
ExpectedHolds(r) == expected[r] = None \/ expected[r] = Len(log)
GuardHolds(r) == op[r].call = "create" => meta = None

\* The payload of an organization event carries the record, that of a key
\* event the list of keys.
Event(r) ==
    [kind |-> Kind(op[r].call), by |-> r, signer |-> signer[r],
     org |-> IF op[r].call \in KeyCalls THEN None ELSE record[r],
     keys |-> IF op[r].call \in KeyCalls THEN keys[r] ELSE None]

\* The append commits: the event and the whole new item.
Append_(r) ==
    /\ ExpectedHolds(r)
    /\ GuardHolds(r)
    /\ log' = Append(log, Event(r))
    /\ meta' = [org |-> record[r], keys |-> keys[r]]
    /\ UNCHANGED <<replica, eventKey>>

AppendCommits(r) ==
    /\ phase[r] = "append"
    /\ Append_(r)
    /\ Return(r, "applied", Len(log) + 1)
    /\ UNCHANGED <<op, locals>>

\* Mutant: the retry budget is one iteration short.
RetriesLeftEarly(r) == attempt[r] + 2 < MaxKeyAttempts

RetriesLeft(r) == attempt[r] + 1 < MaxKeyAttempts

\* RevisionMismatch: a key call starts over, the others answer 412 or 409.
AppendMismatch(r) ==
    /\ phase[r] = "append"
    /\ ~ExpectedHolds(r)
    /\ IF op[r].call \notin KeyCalls
       THEN Return(r, "mismatch", Len(log)) /\ UNCHANGED attempt
       ELSE IF RetriesLeft(r)
            THEN /\ attempt' = [attempt EXCEPT ![r] = attempt[r] + 1]
                 /\ Goto(r, "readItem")
                 /\ UNCHANGED answer
            ELSE Return(r, "error", 0) /\ UNCHANGED attempt
    /\ UNCHANGED <<store, op, record, keys, expected, signer, began>>

\* StateGuard::MustNotExist: the organization already exists.
AppendConflict(r) ==
    /\ phase[r] = "append"
    /\ ExpectedHolds(r)
    /\ ~GuardHolds(r)
    /\ Return(r, "conflict", 0)
    /\ UNCHANGED <<store, op, locals>>

\* Mutant: a lost answer is reported as a lost race.
GiveUpAsMismatch(r) ==
    /\ Faulty
    /\ phase[r] = "append"
    /\ ExpectedHolds(r)
    /\ expected' = [expected EXCEPT ![r] = Len(log)]
    /\ Goto(r, "abandoned")
    /\ answer' = [answer EXCEPT ![r] = [tag |-> "mismatch", revision |-> Len(log)]]
    /\ UNCHANGED <<store, op, record, keys, attempt, signer, began>>

\* The request fails after its transaction was sent.  The transaction may
\* still commit, as long as the counter is where it found it.
GiveUp(r) ==
    /\ Faulty
    /\ phase[r] = "append"
    /\ ExpectedHolds(r)
    /\ expected' = [expected EXCEPT ![r] = Len(log)]
    /\ Goto(r, "abandoned")
    /\ answer' = [answer EXCEPT ![r] = [tag |-> "error", revision |-> 0]]
    /\ UNCHANGED <<store, op, record, keys, attempt, signer, began>>

LateCommit(r) ==
    /\ phase[r] = "abandoned"
    /\ Append_(r)
    /\ Goto(r, "returned")
    /\ UNCHANGED <<op, locals, answer>>

\* A replica catches up.
Replicate ==
    /\ Lag
    /\ replica # meta
    /\ replica' = meta
    /\ UNCHANGED <<log, meta, eventKey, op, phase, locals, answer>>

Step(r) ==
    \/ GetMissing(r) \/ GetForUpdate(r) \/ GetForTransition(r)
    \/ ReadCurrent(r) \/ ReadRevision(r) \/ ReadItem(r)
    \/ EnsureKey(r) \/ PutKey(r) \/ ReadKeys(r)
    \/ AppendCommits(r) \/ AppendMismatch(r) \/ AppendConflict(r)

Next ==
    /\ \/ \E r \in Requests : Call(r) \/ Step(r) \/ GiveUp(r) \/ LateCommit(r)
       \/ Replicate
    /\ UNCHANGED mode

Spec == Init /\ [][Next]_vars
-----------------------------------------------------------------------------
Tags == {"pending", "applied", "noop", "notFound", "conflict", "mismatch", "error"}

OrgsOf(calls) ==
    LET bodies == {c \in calls : c.call \in {"create", "update"}}
    IN  [name : {c.name : c \in bodies}, config : {c.config : c \in bodies}, status : Statuses]
Orgs == OrgsOf(Calls)
KeyLists == [Requests -> KeyStatuses]
Items == [org : Orgs, keys : KeyLists]

ASSUME NoneAssumption == \A m \in DOMAIN Modes : None \notin [org : OrgsOf(Modes[m].calls), keys : KeyLists]

TypeOK ==
    /\ \A s \in DOMAIN log :
          /\ log[s].kind \in OrgKinds => log[s].org \in Orgs /\ log[s].keys = None
          /\ log[s].kind \in KeyKinds => log[s].org = None /\ log[s].keys \in KeyLists
          /\ log[s].kind \in OrgKinds \cup KeyKinds
          /\ log[s].by \in Requests
    /\ meta \in Items \cup {None}
    /\ replica \in Items \cup {None}
    /\ eventKey \in Requests \cup {None}
    /\ record \in [Requests -> Orgs \cup {None}]
    /\ keys \in [Requests -> KeyLists]
    /\ expected \in [Requests -> 0 .. Len(log) \cup {None}]
    /\ attempt \in [Requests -> 0 .. MaxKeyAttempts - 1]
    /\ answer \in [Requests -> [tag : Tags, revision : 0 .. Len(log)]]

\* Every event verifies under the one published event-signing key, whoever
\* minted it: the conditional put of ensure_signing_key loses no key that
\* has already signed an event.
SignedByPublishedKey == \A s \in DOMAIN log : log[s].signer = eventKey /\ eventKey # None

\* What the event says that the call promised.
Effect(r, e) ==
    LET c == op[r]
    IN  /\ c.call = "create" => e.org = [name |-> c.name, config |-> c.config, status |-> "Draft"]
        /\ c.call = "update" => e.org = Updated(e.org, c)
        /\ c.call \in Verbs => e.org.status = Target(c.call)
        /\ c.call \in {"generate", "rotate"} => e.keys[r] = "Active"
        /\ c.call = "rotate" => e.keys[c.key] = "Rotating"
        /\ c.call = "revoke" => e.keys[c.key] = "Revoked"

AnswerIsTrue(r) ==
    /\ answer[r].tag = "applied" =>
          /\ log[answer[r].revision].by = r
          /\ log[answer[r].revision].kind = Kind(op[r].call)
          /\ Effect(r, log[answer[r].revision])
    /\ answer[r].tag \in {"noop", "notFound", "conflict", "mismatch"} =>
          \A s \in DOMAIN log : log[s].by # r

\* Answers are true of the log: a success names the revision whose event
\* carries the requested change, and a refusal or no-op left no event
\* (append_org_state, append_org_keys and the handlers that answer from them).
AnswersAreTrue == \A r \in Requests : AnswerIsTrue(r)

Appends == Len(log') > Len(log)
Last == log[Len(log)]

\* A PUT with X-Fg-If-Revision changes the fields of its body and nothing
\* else, whatever runs beside it: not the status, and not the keys; provided
\* that its read of the record does not lag.
ConditionalUpdateIsExact ==
    [][\A r \in Requests :
          (~Lag /\ Appends /\ Last'.by = r /\ op[r].call = "update" /\ op[r].conditional)
             => meta' = [meta EXCEPT !.org = Updated(@, op[r])]]_vars

StatusMoves == meta # None /\ meta'.org.status # meta.org.status
AlongTheArrows == StatusMoves => CanTransition(meta.org.status, meta'.org.status)
StaysRevoked == \A k \in Requests : (meta # None /\ meta.keys[k] = "Revoked") => meta'.keys[k] = "Revoked"
VerbsMove == (Appends /\ op[Last'.by].call \in Verbs) => StatusMoves

About(kinds) == {s \in DOMAIN log : log[s].kind \in kinds}

\* apply_event for the organization's own kinds.
FoldedOrg ==
    IF About(OrgKinds) = {} THEN None ELSE log[Max(About(OrgKinds))].org
FoldedKeys ==
    IF About(KeyKinds) = {} THEN NoKeys ELSE log[Max(About(KeyKinds))].keys

Serial == Modes[mode].load = 1 /\ ~Lag

FoldMatches == IF meta = None THEN log = << >> ELSE meta = [org |-> FoldedOrg, keys |-> FoldedKeys]

\* Requests that run one at a time, on reads that do not lag, move the status
\* along the arrows of OrgStatus only, a lifecycle verb that logs an event moves
\* it, and no generation or rotation makes a revoked key usable again.  They
\* keep the item equal to the fold of the log: an organization event preserves
\* signing_keys (the comment in append_org_state) and a key event the record.
SerialSteps == [][Serial => AlongTheArrows /\ VerbsMove /\ StaysRevoked /\ FoldMatches']_vars

\* The status only moves along the arrows of OrgStatus, whatever runs beside
\* the request.
LifecycleRespected == [][AlongTheArrows]_vars

\* "Revoked keys are never usable" (signing_key.rs), whatever runs beside
\* the revocation.
RevokedForever == [][StaysRevoked]_vars

\* Every request is answered: one that is in flight can always take its next
\* step, and the retries of a key call, its only loop, are counted; and a key
\* call gives up (its 500) only when other writers really landed
\* MAX_KEY_APPEND_ATTEMPTS events while it ran (append_org_keys,
\* ensure_signing_key).
EveryRequestProceeds ==
    \A r \in Requests :
        /\ phase[r] \notin {"idle", "abandoned", "returned"} => ENABLED Step(r)
        /\ attempt[r] < MaxKeyAttempts
        /\ ~Faulty /\ answer[r].tag = "error" => Len(log) - began[r] >= MaxKeyAttempts
=============================================================================
