----------------------------- MODULE EventAudit -----------------------------
(***************************************************************************)
(* Signed events and their verification from outside: the kinds, drafts and *)
(* envelopes of authz-core event/, their canonical bytes, the signature of  *)
(* build_model_event, the stored item of event_log.rs, and                  *)
(* `cargo xtask control-plane verify-events`, which fetches the events and  *)
(* then the keys of an organization over HTTP and checks every signature.   *)
(*                                                                          *)
(* Writers race for the sequence numbers of an organization; an event is    *)
(* signed for the number it hopes to get.  EventLog has the transaction     *)
(* behind an append and OrgWrites the minting of a key step by step; each   *)
(* is one step here.                                                        *)
(***************************************************************************)
EXTENDS Naturals, Sequences, Options

CONSTANTS AuditOrgs, EventWriters,
          AuditKinds,      \* the kinds of event that are written
          MaxEvents        \* how many events a log holds

VARIABLES eventLog,    \* per organization, the stored event items
          eventKeys,   \* per organization, its event-signing key or None
          writer,      \* per writer, the append it is in
          audit        \* the verify-events command

auditVars == <<eventLog, eventKeys, writer, audit>>
-----------------------------------------------------------------------------
(* Kinds of event and their wire names.                                     *)

EventKinds ==
    {"OrgCreated", "OrgUpdated", "OrgUnitPut", "PrincipalUpserted", "PrincipalSetPut",
     "GrantAdded", "GrantRemoved", "ResourcePromoted", "ResourceTombstoned", "DenyCreated",
     "DenyRemoved", "OrgActivated", "OrgSuspended", "OrgRestored", "OrgKeyGenerated",
     "OrgKeyRevoked", "OrgKeyRotated", "GroupPut", "GroupDeleted"}

KindAsStr(kind) ==
    CASE kind = "OrgCreated" -> "org.created" [] kind = "OrgUpdated" -> "org.updated"
      [] kind = "OrgUnitPut" -> "org_unit.put" [] kind = "PrincipalUpserted" -> "principal.upserted"
      [] kind = "PrincipalSetPut" -> "principal_set.put" [] kind = "GrantAdded" -> "grant.added"
      [] kind = "GrantRemoved" -> "grant.removed" [] kind = "ResourcePromoted" -> "resource.promoted"
      [] kind = "ResourceTombstoned" -> "resource.tombstoned" [] kind = "DenyCreated" -> "deny.created"
      [] kind = "DenyRemoved" -> "deny.removed" [] kind = "OrgActivated" -> "org.activated"
      [] kind = "OrgSuspended" -> "org.suspended" [] kind = "OrgRestored" -> "org.restored"
      [] kind = "OrgKeyGenerated" -> "org.key_generated" [] kind = "OrgKeyRevoked" -> "org.key_revoked"
      [] kind = "OrgKeyRotated" -> "org.key_rotated" [] kind = "GroupPut" -> "group.put"
      [] kind = "GroupDeleted" -> "group.deleted"

(* from_str: the other direction, a table of its own.                       *)
KindFromStr(text) ==
    CASE text = "org.created" -> "OrgCreated" [] text = "org.updated" -> "OrgUpdated"
      [] text = "org_unit.put" -> "OrgUnitPut" [] text = "principal.upserted" -> "PrincipalUpserted"
      [] text = "principal_set.put" -> "PrincipalSetPut" [] text = "grant.added" -> "GrantAdded"
      [] text = "grant.removed" -> "GrantRemoved" [] text = "resource.promoted" -> "ResourcePromoted"
      [] text = "resource.tombstoned" -> "ResourceTombstoned" [] text = "deny.created" -> "DenyCreated"
      [] text = "deny.removed" -> "DenyRemoved" [] text = "org.activated" -> "OrgActivated"
      [] text = "org.suspended" -> "OrgSuspended" [] text = "org.restored" -> "OrgRestored"
      [] text = "org.key_generated" -> "OrgKeyGenerated" [] text = "org.key_revoked" -> "OrgKeyRevoked"
      [] text = "org.key_rotated" -> "OrgKeyRotated" [] text = "group.put" -> "GroupPut"
      [] text = "group.deleted" -> "GroupDeleted"
      [] OTHER -> None

ASSUME AuditAssumption ==
    /\ AuditKinds \subseteq EventKinds
    /\ MaxEvents \in Nat
    /\ None \notin AuditOrgs \X EventWriters
    /\ None # "verification"

Narrowing(kind) ==
    kind \in {"GrantRemoved", "ResourceTombstoned", "DenyCreated", "OrgSuspended",
              "OrgKeyRevoked", "GroupPut", "GroupDeleted"}
-----------------------------------------------------------------------------
(* Drafts, envelopes, canonical bytes and signatures.                       *)

SchemaVersion == 1
EventSigningKeyId == "event-signing-key-1"

(* EventDraft::new: whether it narrows follows from the kind.               *)
EventDraft(id, seq, kind, occurredAt, actor, payload) ==
    [event_id |-> id, seq |-> seq, kind |-> kind, occurred_at |-> occurredAt, actor |-> actor,
     narrowing |-> Narrowing(kind), schema_version |-> SchemaVersion, payload |-> payload]

FromSigned(draft, keyId, signature) ==
    [event_id |-> draft.event_id, seq |-> draft.seq, kind |-> draft.kind,
     occurred_at |-> draft.occurred_at, actor |-> draft.actor, narrowing |-> draft.narrowing,
     schema_version |-> draft.schema_version, payload |-> draft.payload,
     key_id |-> keyId, signature |-> signature]

(* canonical_bytes: of a draft or of an envelope.  The actor is not in it,  *)
(* the payload only by its hash.                                            *)
CanonicalBytes(fields, org) ==
    [org |-> org, seq |-> fields.seq, event_id |-> fields.event_id, kind |-> KindAsStr(fields.kind),
     occurred_at |-> fields.occurred_at, narrowing |-> fields.narrowing,
     schema_version |-> fields.schema_version, payload_sha256 |-> [hash |-> fields.payload]]

(* Ed25519: what a private key signs, its public key verifies.              *)
PublicKey(private) == [public |-> private]
SignBytes(private, bytes) == [by |-> private, over |-> bytes]
VerifyBytes(public, bytes, signature) ==
    public = PublicKey(signature.by) /\ signature.over = bytes

(* build_model_event, for the revision the event is to have.                *)
BuildModelEvent(org, kind, actor, payload, private, occurredAt, revision, id) ==
    LET draft == EventDraft(id, revision, kind, occurredAt, actor, payload)
    IN  FromSigned(draft, EventSigningKeyId,
                   [base64 |-> SignBytes(private, CanonicalBytes(draft, org))])

(* event_item: the kind by its wire name, the payload as its JSON text.     *)
EventItem(envelope) ==
    [envelope EXCEPT !.kind = KindAsStr(@), !.payload = [json |-> @], !.actor = [json |-> @]]

(* envelope_from_item: narrowing and the version are not taken from the     *)
(* item but set anew.                                                       *)
EnvelopeFromItem(item) ==
    FromSigned(EventDraft(item.event_id, item.seq, KindFromStr(item.kind), item.occurred_at,
                          item.actor.json, item.payload.json),
               item.key_id, item.signature)
-----------------------------------------------------------------------------
(* Writers.                                                                 *)

NoWriter == [at |-> "idle"]

AuditInit ==
    /\ eventLog = [o \in AuditOrgs |-> << >>]
    /\ eventKeys = [o \in AuditOrgs |-> None]
    /\ writer = [w \in EventWriters |-> NoWriter]
    /\ audit = [at |-> "idle"]

(* ensure_signing_key, for an event whose kind, actor and time are fixed.   *)
ObtainKey(w, org, kind) ==
    /\ writer[w].at = "idle"
    /\ Len(eventLog[org]) < MaxEvents
    /\ LET private == IF eventKeys[org] = None THEN <<org, w>> ELSE eventKeys[org]
       IN  /\ eventKeys' = [eventKeys EXCEPT ![org] = private]
           /\ writer' = [writer EXCEPT ![w] = [at |-> "counter", org |-> org, kind |-> kind, actor |-> w,
                                              private |-> private, envelope |-> None]]
    /\ UNCHANGED <<eventLog, audit>>

(* Mutant: the envelope is built once and moved to the next number.         *)
ReadCounterReuses(w) ==
    LET c == writer[w]
        seq == Len(eventLog[c.org]) + 1
    IN  /\ c.at = "counter"
        /\ writer' = [writer EXCEPT ![w].at = "transact", ![w].envelope =
               IF c.envelope # None THEN [c.envelope EXCEPT !.seq = seq]
               ELSE BuildModelEvent(c.org, c.kind, c.actor, w, c.private, w, seq, <<w, seq>>)]
        /\ UNCHANGED <<eventLog, eventKeys, audit>>

(* append: the counter is read and the event built for the next number,     *)
(* with a new id in every attempt.                                          *)
ReadCounterAndBuild(w) ==
    LET c == writer[w]
        seq == Len(eventLog[c.org]) + 1
    IN  /\ c.at = "counter"
        /\ writer' = [writer EXCEPT ![w].at = "transact", ![w].envelope =
               BuildModelEvent(c.org, c.kind, c.actor, w, c.private, w, seq, <<w, seq>>)]
        /\ UNCHANGED <<eventLog, eventKeys, audit>>

(* The transaction: it is cancelled when the counter has moved, and the     *)
(* writer tries again or, after its last attempt, gives up.                 *)
TransactEvent(w) ==
    LET c == writer[w]
    IN  /\ c.at = "transact"
        /\ IF c.envelope.seq = Len(eventLog[c.org]) + 1
           THEN /\ eventLog' = [eventLog EXCEPT ![c.org] = Append(@, EventItem(c.envelope))]
                /\ writer' = [writer EXCEPT ![w] = NoWriter]
           ELSE /\ writer' \in {[writer EXCEPT ![w].at = "counter"], [writer EXCEPT ![w] = NoWriter]}
                /\ UNCHANGED eventLog
        /\ UNCHANGED <<eventKeys, audit>>
-----------------------------------------------------------------------------
(* verify-events.                                                           *)

(* GET /events: it fails, or serves a page after the cursor from a replica  *)
(* that may lag.                                                            *)
FetchEvents(org, after, limit) ==
    /\ audit.at = "idle"
    /\ \/ audit' = [at |-> "done", error |-> "events"]
       \/ \E visible \in 0 .. Len(eventLog[org]) :
            LET last == IF after + limit < visible THEN after + limit ELSE visible
            IN  audit' = [at |-> "keys", org |-> org, after |-> after,
                          envelopes |-> [i \in 1 .. (last - after) |->
                                            EnvelopeFromItem(eventLog[org][after + i])]]
    /\ UNCHANGED <<eventLog, eventKeys, writer>>

(* list_signing_keys: the public half of the one key, read consistently.    *)
ListSigningKeys(org) ==
    IF eventKeys[org] = None THEN <<>> ELSE [id \in {EventSigningKeyId} |-> PublicKey(eventKeys[org])]

VerifyOne(org, envelope, keys) ==
    IF envelope.key_id \notin DOMAIN keys THEN "UnknownKey"
    ELSE IF "base64" \notin DOMAIN envelope.signature THEN "BadSignatureEncoding"
    ELSE IF VerifyBytes(keys[envelope.key_id], CanonicalBytes(envelope, org), envelope.signature.base64)
    THEN "Ok" ELSE "Invalid"

VerifyEnvelopes(org, envelopes, keys) ==
    [i \in DOMAIN envelopes |-> [seq |-> envelopes[i].seq, kind |-> KindAsStr(envelopes[i].kind),
                                 result |-> VerifyOne(org, envelopes[i], keys)]]

(* GET /signing-keys, which may fail, and the verdict.                      *)
FetchKeysAndVerify ==
    /\ audit.at = "keys"
    /\ \/ audit' = [at |-> "done", error |-> "keys"]
       \/ LET outcomes == VerifyEnvelopes(audit.org, audit.envelopes, ListSigningKeys(audit.org))
          IN  audit' = [at |-> "done", org |-> audit.org, after |-> audit.after, outcomes |-> outcomes,
                        error |-> IF \A i \in DOMAIN outcomes : outcomes[i].result = "Ok"
                                  THEN None ELSE "verification"]
    /\ UNCHANGED <<eventLog, eventKeys, writer>>

(* The operator reads the report.                                          *)
EndAudit == audit.at = "done" /\ audit' = [at |-> "idle"] /\ UNCHANGED <<eventLog, eventKeys, writer>>

AuditNext ==
    \/ \E w \in EventWriters :
          \/ \E o \in AuditOrgs, k \in AuditKinds : ObtainKey(w, o, k)
          \/ ReadCounterAndBuild(w)
          \/ TransactEvent(w)
    \/ \E o \in AuditOrgs, after \in 0 .. MaxEvents, limit \in {1, MaxEvents} : FetchEvents(o, after, limit)
    \/ FetchKeysAndVerify
    \/ EndAudit

AuditSpec == AuditInit /\ [][AuditNext]_auditVars
-----------------------------------------------------------------------------
(* A log that only the control plane wrote verifies from outside: whoever   *)
(* minted the key, however often an append lost its number and was built    *)
(* again ("seq is part of the canonical signing bytes, so the envelope must *)
(* be rebuilt", event_log.rs), and although the keys are fetched after the  *)
(* events.  The report names the events after the cursor, without a gap,    *)
(* each with the kind under which it is stored.                             *)
HonestLogVerifies ==
    /\ audit.at = "done" => audit.error # "verification"
    /\ audit.at = "done" /\ "outcomes" \in DOMAIN audit =>
         \A i \in DOMAIN audit.outcomes :
            LET item == eventLog[audit.org][audit.after + i]
            IN  audit.outcomes[i].seq = audit.after + i /\ audit.outcomes[i].kind = item.kind
=============================================================================
