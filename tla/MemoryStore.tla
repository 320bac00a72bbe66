----------------------------- MODULE MemoryStore -----------------------------
(***************************************************************************)
(* The in-memory stores behind `--store=memory` (crates/control-plane       *)
(* model_event_store/in_memory.rs and store/mod.rs, with the in-memory log  *)
(* of authz-core event/log.rs): an event log, one map per domain, and the   *)
(* read model that is written through to.  Every map has its own lock, none *)
(* is held across the steps of a call, and calls run concurrently.          *)
(*                                                                          *)
(* One organization with one principal, promotion and group; a value is the *)
(* request that wrote it, the keys are a sequence of [id, status].          *)
(***************************************************************************)
EXTENDS Naturals, Sequences, FiniteSets, Options

CONSTANTS MemRequests,   \* the calls, numbered in the order they are made
          MemLoads,      \* how many calls may overlap
          Seeds,         \* the organization in the configuration file, or None
          Values         \* the contents of a group

VARIABLES mlog, maps, mirror, mreq, load, seed

memVars == <<mlog, maps, mirror, mreq, load, seed>>

Domains == {"org", "keys", "principal", "promotion", "group"}
Mirrored == {"org", "keys", "group"}

Absent(d) == IF d = "keys" THEN <<>> ELSE None

NoCall == [pc |-> "idle", kind |-> None, on |-> None, value |-> None, expected |-> None,
           revision |-> 0, answer |-> None]

(* build_org_store fills the read model, and only it, from the file.        *)
MemInit ==
    /\ mlog = <<>>
    /\ maps = [d \in Domains |-> Absent(d)]
    /\ seed \in Seeds
    /\ mirror = [[d \in Mirrored |-> Absent(d)] EXCEPT !["org"] = seed]
    /\ mreq = [r \in MemRequests |-> NoCall]
    /\ load \in MemLoads

LatestRevision == IF mlog = <<>> THEN 0 ELSE mlog[Len(mlog)].seq

Running == {r \in MemRequests : mreq[r].pc \notin {"idle", "done"}}

-----------------------------------------------------------------------------
(* The calls, each with its first look at a map.                            *)

Enter(r, kind, domain, value, expected, pc, answer) ==
    /\ mreq[r].pc = "idle" /\ Cardinality(Running) < load
    /\ \A q \in MemRequests : q < r => mreq[q].pc # "idle"
    /\ mreq' = [mreq EXCEPT ![r] = [pc |-> pc, kind |-> kind, on |-> domain, value |-> value,
                                    expected |-> expected, revision |-> 0, answer |-> answer]]
    /\ UNCHANGED <<mlog, maps, mirror, load, seed>>

CreateOrg(r) ==
    IF maps["org"] # None THEN Enter(r, "create", "org", r, None, "done", "conflict")
    ELSE Enter(r, "create", "org", r, None, "mint", None)

(* update_org and transition_org.                                           *)
UpdateOrg(r) ==
    \E expected \in {None} \cup 0 .. Len(mlog) : Enter(r, "update", "org", r, expected, "expect", None)

OrgKeyCall(r) ==
    \E kind \in {"generate", "revoke", "rotate"}, target \in MemRequests :
        /\ kind = "generate" => target = r
        /\ IF maps["org"] = None THEN Enter(r, kind, "keys", target, None, "done", "not found")
           ELSE Enter(r, kind, "keys", target, None, "keys", None)

UpsertChanged(r) == Enter(r, "upsert", "principal", r, None, "mint", None)

PutPromotion(r) == Enter(r, "promote", "promotion", r, None, "mint", None)

TombstonePromotion(r) ==
    IF maps["promotion"] = None THEN Enter(r, "tombstone", "promotion", None, None, "done", "absent")
    ELSE Enter(r, "tombstone", "promotion", None, None, "mint", None)

PutGroup(r) ==
    \E v \in Values, expected \in {None} \cup 0 .. Len(mlog) :
        Enter(r, "put", "group", v, expected, IF maps["group"] = v THEN "noop" ELSE "expect", None)

DeleteGroup(r) ==
    \E expected \in {None} \cup 0 .. Len(mlog) :
        Enter(r, "delete", "group", None, expected,
              IF maps["group"] = None THEN "noop" ELSE "expect", None)

-----------------------------------------------------------------------------
(* The steps they share.                                                    *)

Goes(r, pc) == mreq' = [mreq EXCEPT ![r].pc = pc]
Returns(r, answer, revision) ==
    mreq' = [mreq EXCEPT ![r].pc = "done", ![r].answer = answer, ![r].revision = revision]

(* The key call's answer, or None when it writes the keys, and those keys.  *)
KeyAnswer(kind, keys, target) ==
    LET Is(status) == \E i \in DOMAIN keys : keys[i].id = target /\ keys[i].status = status
    IN  CASE kind = "generate" -> None
          [] kind = "revoke"   -> IF Is("active") \/ Is("rotating") THEN None ELSE "noop"
          [] kind = "rotate"   -> IF Is("active") THEN None
                                  ELSE IF Is("rotating") \/ Is("revoked") THEN "conflict"
                                  ELSE "not found"

KeyTransition(kind, keys, target, r) ==
    LET With(status) == [i \in DOMAIN keys |-> IF keys[i].id = target
                                                 THEN [keys[i] EXCEPT !.status = status] ELSE keys[i]]
        fresh == [id |-> r, status |-> "active"]
    IN  CASE kind = "generate" -> Append(keys, fresh)
          [] kind = "revoke"   -> With("revoked")
          [] kind = "rotate"   -> Append(With("rotating"), fresh)

AppendOrgKeys(r) ==
    LET q      == mreq[r]
        answer == KeyAnswer(q.kind, maps["keys"], q.value)
    IN  /\ q.pc = "keys"
        /\ IF answer # None THEN Returns(r, answer, 0)
           ELSE mreq' = [mreq EXCEPT ![r].pc = "mint",
                                     ![r].value = KeyTransition(q.kind, maps["keys"], q.value, r)]
        /\ UNCHANGED <<mlog, maps, mirror, load, seed>>

CheckExpectedRevision(r) ==
    /\ mreq[r].pc = "expect"
    /\ IF mreq[r].expected \in {None, LatestRevision} THEN Goes(r, "mint")
       ELSE Returns(r, "mismatch", LatestRevision)
    /\ UNCHANGED <<mlog, maps, mirror, load, seed>>

NoOp(r) ==
    /\ mreq[r].pc = "noop"
    /\ Returns(r, "noop", LatestRevision)
    /\ UNCHANGED <<mlog, maps, mirror, load, seed>>

Mint(r) ==
    /\ mreq[r].pc = "mint"
    /\ mreq' = [mreq EXCEPT ![r].pc = "push", ![r].revision = LatestRevision + 1]
    /\ UNCHANGED <<mlog, maps, mirror, load, seed>>

(* Mutant: the map is written before the event is pushed.                   *)
PushLast(r) ==
    LET q == mreq[r]
    IN  /\ q.pc = "push"
        /\ maps' = [maps EXCEPT ![q.on] = q.value]
        /\ Goes(r, "map")
        /\ UNCHANGED <<mlog, mirror, load, seed>>

(* The log's push and the write of the map take different locks; the read   *)
(* model of the organization is written before its map, the others after.   *)
Push(r) ==
    LET q == mreq[r]
    IN  /\ q.pc = "push"
        /\ mlog' = Append(mlog, [seq |-> q.revision, on |-> q.on, value |-> q.value, by |-> r])
        /\ Goes(r, IF q.on = "org" THEN "mirror" ELSE "map")
        /\ UNCHANGED <<maps, mirror, load, seed>>

Apply(r) ==
    LET q == mreq[r]
    IN  /\ q.pc = "map"
        /\ maps' = [maps EXCEPT ![q.on] = q.value]
        /\ IF q.on \in {"keys", "group"} THEN Goes(r, "mirror") ELSE Returns(r, "ok", q.revision)
        /\ UNCHANGED <<mlog, mirror, load, seed>>

WriteThrough(r) ==
    LET q == mreq[r]
    IN  /\ q.pc = "mirror"
        /\ mirror' = [mirror EXCEPT ![q.on] = q.value]
        /\ IF q.on = "org" THEN Goes(r, "map") ELSE Returns(r, "ok", q.revision)
        /\ UNCHANGED <<mlog, maps, load, seed>>

MemNext ==
    \E r \in MemRequests :
        \/ CreateOrg(r) \/ UpdateOrg(r) \/ OrgKeyCall(r) \/ UpsertChanged(r) \/ PutPromotion(r)
        \/ TombstonePromotion(r) \/ PutGroup(r) \/ DeleteGroup(r)
        \/ AppendOrgKeys(r) \/ CheckExpectedRevision(r) \/ NoOp(r) \/ Mint(r) \/ Push(r)
        \/ Apply(r) \/ WriteThrough(r)

-----------------------------------------------------------------------------
(* The last value the log gives a domain, and what it was before.           *)
Replayed(d, before) ==
    LET at == {i \in DOMAIN mlog : mlog[i].on = d}
    IN  IF at = {} THEN before ELSE mlog[CHOOSE i \in at : \A j \in at : j =< i].value

(* At rest the revisions count the events, every map is the replay of the   *)
(* log, and so is the read model, except that an organization from the file *)
(* stays until its first event (in_memory.rs mirrors what DynamoDB shares). *)
MatchesLog ==
    /\ \A i \in DOMAIN mlog : mlog[i].seq = i
    /\ \A d \in Domains : maps[d] = Replayed(d, Absent(d))
    /\ \A d \in Mirrored : mirror[d] = Replayed(d, IF d = "org" THEN seed ELSE Absent(d))

(* What a map or the read model holds is in the log, what was removed was   *)
(* removed by an event, and an answer with a revision has its event there.  *)
EventBeforeState ==
    LET Logged(d, v) == \E i \in DOMAIN mlog : mlog[i].on = d /\ mlog[i].value = v
    IN  /\ \A d \in Domains : maps[d] # Absent(d) => Logged(d, maps[d])
        /\ \A d \in {"promotion", "group"} :
              (maps[d] = None /\ \E r \in MemRequests : mreq[r].on = d /\ mreq[r].value # None
                                                         /\ mreq[r].answer = "ok")
                  => Logged(d, None)
        /\ \A d \in Mirrored : mirror[d] = Absent(d) \/ (d = "org" /\ mirror[d] = seed)
                                \/ Logged(d, mirror[d])
        /\ \A r \in MemRequests : mreq[r].answer = "ok" =>
              \E i \in DOMAIN mlog : mlog[i].by = r /\ mlog[i].seq = mreq[r].revision

(* However calls overlap, no reader sees state without its event ("the      *)
(* removal happens last so a mint_and_push failure never leaves the         *)
(* promotion deleted without its event"), and calls that do not overlap     *)
(* leave the store as the log says.                                         *)
StoreFollowsLog == EventBeforeState /\ (load = 1 /\ Running = {} => MatchesLog)
=============================================================================
