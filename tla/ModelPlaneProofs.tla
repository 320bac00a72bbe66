--------------------------- MODULE ModelPlaneProofs ----------------------------
(***************************************************************************)
(* A consumer of the events cursor misses and repeats nothing, for any     *)
(* number of requests, replicas, writers and events and any page size.     *)
(*                                                                         *)
(* Behind that theorem: what fold_events computes, what a page of          *)
(* promotions is, and AnswerInv, which says of every request what its      *)
(* reads so far have told it of the log.  ModelPlaneSteps shows that the   *)
(* steps keep AnswerInv, and draws the conclusions.  Facts about numbers   *)
(* and finite sets are collected in Counting, which the lemmas assume and  *)
(* the end of ModelPlaneSteps proves from the library.                     *)
(***************************************************************************)
EXTENDS ModelPlane, TLAPS

-----------------------------------------------------------------------------
Fields == {"at", "op", "id", "doc", "min", "after", "wait", "start", "page", "listed",
           "polls", "code", "revision", "result"}

\* The events of a log are numbered.
Numbered(events) ==
    /\ events \in Seq(Events)
    /\ Len(events) <= MaxLog
    /\ \A i \in 1..Len(events) : events[i].seq = i

\* Replicas hold prefixes of the log.
LogInv ==
    /\ mode \in DOMAIN Modes
    /\ Numbered(log)
    /\ replicas \in [Replicas -> Nat]
    /\ \A r \in Replicas : replicas[r] <= Len(log)

\* A page is the part of the log behind a cursor.
Continues(events, page, after) ==
    /\ page \in Seq(Events)
    /\ \A i \in 1..Len(page) : after + i <= Len(events) /\ page[i] = events[after + i]

\* A request for events goes on from its consumer's cursor.
Reads(events, call, cursor) ==
    /\ DOMAIN call = Fields
    /\ call.op \in {"upsert", "tombstone"} => call.id \in Ids
    /\ call.op = "upsert" => call.doc \in Docs
    /\ call.op = "events" =>
          /\ call.after = cursor
          /\ Continues(events, call.page, call.after)
          /\ call.at \notin {"target", "collect", "fold"}

Received(events, consumer) ==
    /\ DOMAIN consumer = {"from", "cursor", "received"}
    /\ consumer.from \in 0..MaxRevision
    /\ consumer.cursor \in 0..MaxRevision
    /\ consumer.cursor = consumer.from + Len(consumer.received)
    /\ Continues(events, consumer.received, consumer.from)

PlaneInv ==
    /\ LogInv
    /\ DOMAIN calls = Slots
    /\ DOMAIN consumers = Slots
    /\ \A c \in Slots : Reads(log, calls[c], consumers[c].cursor) /\ Received(log, consumers[c])
-----------------------------------------------------------------------------
\* Whatever a query returns is the part of the log behind its cursor.
LEMMA PagesContinue ==
    ASSUME LogInv, NEW n \in Views, NEW after \in 0..MaxRevision, NEW limit \in Nat \ {0},
           NEW page \in EventsAfter(n, after, limit)
    PROVE  Continues(log, page, after)
  <1>1. n \in 0..Len(log) /\ log \in Seq(Events) /\ Len(log) < MaxRevision
    BY ConstantsAssumption DEF Views, LogInv, Numbered
  <1> DEFINE first == Successor(after)
             last == IF first + limit - 1 < n THEN first + limit - 1 ELSE n
             full == SubSeq(log, first, last)
  <1>2. /\ first \in Nat \ {0} /\ last \in Nat /\ last <= Len(log)
        /\ first = after + 1 \/ first > last
    BY <1>1, ConstantsAssumption DEF Successor
  <1>3. page = full \/ \E k \in 1..Len(full) : page = SubSeq(full, 1, k)
    BY Zenon DEF EventsAfter
  <1> HIDE DEF first, last
  <1>4. full \in Seq(Events) /\ Len(full) = IF first <= last THEN last - first + 1 ELSE 0
    BY <1>1, <1>2
  <1>5. \A i \in 1..Len(full) : after + i <= Len(log) /\ full[i] = log[after + i]
    BY <1>1, <1>2, <1>4
  <1> HIDE DEF full
  <1>6. ASSUME NEW k \in 1..Len(full), page = SubSeq(full, 1, k)
        PROVE  Continues(log, page, after)
    <2>1. page \in Seq(Events) /\ Len(page) = k /\ \A i \in 1..k : page[i] = full[i]
      BY <1>4, <1>6
    <2> QED BY <2>1, <1>5 DEF Continues
  <1> QED BY <1>3, <1>4, <1>5, <1>6, Zenon DEF Continues

\* A longer log continues what the shorter one did.
LEMMA ContinuesStays ==
    ASSUME NEW events \in Seq(Events), NEW e \in Events, NEW page, NEW after \in Nat,
           Continues(events, page, after)
    PROVE  Continues(Append(events, e), page, after)
  <1>1. /\ Len(Append(events, e)) = Len(events) + 1
        /\ \A i \in 1..Len(events) : Append(events, e)[i] = events[i]
    OBVIOUS
  <1>2. \A i \in 1..Len(page) : after + i \in 1..Len(events)
    BY DEF Continues
  <1> QED BY <1>1, <1>2 DEF Continues

\* What a consumer has received and the page behind its cursor make the part
\* of the log behind where it began.
LEMMA ContinuesJoin ==
    ASSUME NEW events \in Seq(Events), NEW r, NEW s, NEW from \in Nat,
           Continues(events, r, from), Continues(events, s, from + Len(r))
    PROVE  Continues(events, r \o s, from)
  <1>1. /\ r \o s \in Seq(Events) /\ Len(r \o s) = Len(r) + Len(s)
        /\ Len(r) \in Nat /\ Len(s) \in Nat
        /\ \A i \in 1..Len(r) + Len(s) : (r \o s)[i] = IF i <= Len(r) THEN r[i] ELSE s[i - Len(r)]
    BY DEF Continues
  <1>2. ASSUME NEW i \in 1..Len(r) + Len(s)
        PROVE  from + i <= Len(events) /\ (r \o s)[i] = events[from + i]
    <2>1. CASE i <= Len(r)
      BY <1>1, <2>1 DEF Continues
    <2>2. CASE i > Len(r)
      <3>1. i - Len(r) \in 1..Len(s) /\ from + Len(r) + (i - Len(r)) = from + i
        BY <1>1, <2>2
      <3> QED BY <1>1, <2>2, <3>1 DEF Continues
    <2> QED BY <1>1, <2>1, <2>2
  <1> QED BY <1>1, <1>2, Zenon DEF Continues
-----------------------------------------------------------------------------
(* Most steps leave the cursor and the page of a request for events alone. *)

Kept(old, new) ==
    /\ DOMAIN new = Fields
    /\ new.id = old.id /\ new.doc = old.doc /\ new.op = old.op
    /\ new.op = "events" =>
          /\ new.after = old.after /\ new.page = old.page
          /\ new.at \notin {"target", "collect", "fold"}

\* The log stays or has one more event.
Grows ==
    \/ log' = log
    \/ \E e \in Events : log' = Append(log, e) /\ e.seq = Len(log) + 1 /\ Len(log) < MaxLog

LEMMA InvInit ==
    Init => PlaneInv
  <1> SUFFICES ASSUME Init PROVE PlaneInv
    BY Zenon
  <1>1. LogInv
    <2>1. mode \in DOMAIN Modes /\ log \in Seq(Events) /\ \A i \in 1..Len(log) : log[i].seq = i
      BY ConstantsAssumption DEF Init
    <2>2. Len(log) <= MaxLog
      <3>1. CASE Len(log) = 0
        BY <3>1, ConstantsAssumption
      <3>2. CASE Len(log) # 0
        <4>1. log[Len(log)] \in Events /\ log[Len(log)].seq = Len(log)
          BY <2>1, <3>2
        <4> QED BY <4>1, ConstantsAssumption DEF Events
      <3> QED BY <3>1, <3>2, Zenon
    <2>3. replicas = [r \in Replicas |-> Len(log)]
      BY Zenon DEF Init
    <2> QED BY <2>1, <2>2, <2>3 DEF LogInv, Numbered
  <1>2. PICK from \in Modes[mode].cursors :
            consumers = [c \in Slots |-> [from |-> from, cursor |-> from, received |-> << >>]]
    BY Zenon DEF Init
  <1>3. from \in 0..MaxRevision
    BY <1>2, ConstantsAssumption, Zenon DEF Init
  <1>4. calls = [c \in Slots |-> Idle]
    BY Zenon DEF Init
  <1>5. Continues(log, << >>, from)
    BY DEF Continues
  <1>6. ASSUME NEW c \in Slots
        PROVE  Reads(log, calls[c], consumers[c].cursor) /\ Received(log, consumers[c])
    <2>1. /\ DOMAIN Idle = Fields /\ Idle.op = None
      BY Zenon DEF Idle, Fields
    <2>2. Idle.op \notin Operations
      BY <2>1, ConstantsAssumption, Zenon
    <2>3. Reads(log, Idle, from)
      BY <2>1, <2>2, Zenon DEF Reads, Operations
    <2>4. Received(log, [from |-> from, cursor |-> from, received |-> << >>])
      BY <1>3, <1>5, ConstantsAssumption DEF Received
    <2> QED BY <1>2, <1>4, <2>3, <2>4, Zenon
  <1> QED BY <1>1, <1>2, <1>4, <1>6, Zenon DEF PlaneInv

\* What was read stays a part of a log that grows.
LEMMA GrowthKeeps ==
    ASSUME PlaneInv, Grows, NEW page, NEW after \in Nat, Continues(log, page, after)
    PROVE  Continues(log', page, after)
  <1>1. log \in Seq(Events)
    BY Zenon DEF PlaneInv, LogInv, Numbered
  <1>2. CASE log' = log
    BY <1>2, Zenon
  <1>3. ASSUME NEW e \in Events, log' = Append(log, e) PROVE Continues(log', page, after)
    BY <1>1, <1>3, ContinuesStays, Zenon
  <1> QED BY <1>2, <1>3, Zenon DEF Grows

\* A step that keeps what requests have read keeps the invariant.
LEMMA KeptStep ==
    ASSUME PlaneInv, Grows, UNCHANGED <<mode, replicas, consumers>>,
           DOMAIN calls' = Slots,
           \A c \in Slots : calls'[c] = calls[c] \/ Kept(calls[c], calls'[c])
    PROVE  PlaneInv'
  <1>1. LogInv'
    <2>1. LogInv /\ log \in Seq(Events) /\ Len(log) <= MaxLog
          /\ \A i \in 1..Len(log) : log[i].seq = i
      BY Zenon DEF PlaneInv, LogInv, Numbered
    <2>2. CASE log' = log
      BY <2>1, <2>2, Zenon DEF LogInv, Numbered
    <2>3. ASSUME NEW e \in Events, log' = Append(log, e), e.seq = Len(log) + 1, Len(log) < MaxLog
          PROVE  LogInv'
      <3>1. log' \in Seq(Events) /\ Len(log') = Len(log) + 1
        BY <2>1, <2>3
      <3>2. Len(log') <= MaxLog
        BY <2>1, <2>3, <3>1, ConstantsAssumption
      <3>3. \A i \in 1..Len(log') : log'[i].seq = i
        BY <2>1, <2>3, <3>1
      <3>4. replicas' \in [Replicas -> Nat] /\ \A r \in Replicas : replicas'[r] <= Len(log')
        BY <2>1, <3>1 DEF LogInv
      <3> QED BY <2>1, <3>1, <3>2, <3>3, <3>4, Zenon DEF LogInv, Numbered
    <2> QED BY <2>2, <2>3, Zenon DEF Grows
  <1>2. ASSUME NEW c \in Slots
        PROVE  Reads(log', calls'[c], consumers'[c].cursor) /\ Received(log', consumers'[c])
    <2>1. Reads(log, calls[c], consumers[c].cursor) /\ Received(log, consumers[c])
      BY Zenon DEF PlaneInv
    <2>2. consumers[c].from \in Nat /\ consumers[c].cursor \in Nat
      BY <2>1 DEF Received
    <2>3. Received(log', consumers'[c])
      BY <2>1, <2>2, GrowthKeeps, Zenon DEF Received
    <2>4. /\ DOMAIN calls'[c] = Fields /\ calls'[c].id = calls[c].id /\ calls'[c].doc = calls[c].doc
          /\ calls'[c].op = calls[c].op
          /\ calls'[c].op = "events" =>
                /\ calls[c].op = "events"
                /\ calls'[c].after = calls[c].after /\ calls'[c].page = calls[c].page
                /\ calls'[c].at \notin {"target", "collect", "fold"}
      BY <2>1, Zenon DEF Kept, Reads
    <2>5. Reads(log', calls'[c], consumers'[c].cursor)
      BY <2>1, <2>2, <2>4, GrowthKeeps, Zenon DEF Reads
    <2> QED BY <2>3, <2>5, Zenon
  <1> QED BY <1>1, <1>2, Zenon DEF PlaneInv

\* Only the request in slot c changes, and keeps what it has read.
LEMMA OneKept ==
    ASSUME PlaneInv, Grows, UNCHANGED <<mode, replicas, consumers>>, NEW c \in Slots, NEW new,
           calls' = [calls EXCEPT ![c] = new], Kept(calls[c], new)
    PROVE  PlaneInv'
  <1>1. DOMAIN calls = Slots
    BY Zenon DEF PlaneInv
  <1>2. DOMAIN calls' = Slots /\ calls'[c] = new /\ \A d \in Slots \ {c} : calls'[d] = calls[d]
    BY <1>1, Zenon
  <1> QED BY <1>2, KeptStep, Zenon

\* Going on, setting a code and answering touch no page of events.
LEMMA GotoKeeps ==
    ASSUME PlaneInv, Grows, UNCHANGED <<mode, replicas, consumers>>, NEW c \in Slots,
           NEW at, at \notin {"target", "collect", "fold"}, Goto(c, at)
    PROVE  PlaneInv'
  <1> DEFINE new == [calls[c] EXCEPT !.at = at]
  <1>1. calls' = [calls EXCEPT ![c] = new]
    BY Zenon DEF Goto
  <1>2. Kept(calls[c], new)
    BY Zenon DEF PlaneInv, Reads, Kept, Fields
  <1> QED BY <1>1, <1>2, OneKept, Zenon

LEMMA CodeKeeps ==
    ASSUME PlaneInv, Grows, UNCHANGED <<mode, replicas, consumers>>, NEW c \in Slots,
           NEW at, at \notin {"target", "collect", "fold"}, NEW code,
           calls' = [calls EXCEPT ![c].at = at, ![c].code = code]
    PROVE  PlaneInv'
  <1> DEFINE new == [calls[c] EXCEPT !.at = at, !.code = code]
  <1>1. DOMAIN calls = Slots /\ DOMAIN calls[c] = Fields
    BY Zenon DEF PlaneInv, Reads
  <1>2. calls' = [calls EXCEPT ![c] = new]
    BY <1>1, Zenon
  <1>3. Kept(calls[c], new)
    BY <1>1, Zenon DEF Kept, Fields
  <1> QED BY <1>2, <1>3, OneKept, Zenon

LEMMA RespondKeeps ==
    ASSUME PlaneInv, Grows, UNCHANGED <<mode, replicas, consumers>>, NEW c \in Slots,
           NEW code, NEW revision, Respond(c, code, revision)
    PROVE  PlaneInv'
  <1> DEFINE new == [calls[c] EXCEPT !.at = "answered", !.code = code, !.revision = revision]
  <1>1. DOMAIN calls = Slots /\ DOMAIN calls[c] = Fields
    BY Zenon DEF PlaneInv, Reads
  <1>2. calls' = [calls EXCEPT ![c] = new]
    BY <1>1, Zenon DEF Respond
  <1>3. Kept(calls[c], new)
    BY <1>1, Zenon DEF Kept, Fields
  <1> QED BY <1>2, <1>3, OneKept, Zenon

\* The steps of handlers that leave the log alone.
LEMMA QuietSteps ==
    ASSUME PlaneInv, NEW c \in Slots,
           \/ Gate(c) \/ CheckMin(c) \/ Latest(c) \/ ReadPrincipal(c) \/ ReadPromotion(c)
    PROVE  PlaneInv'
  <1>1. Grows /\ UNCHANGED <<mode, replicas, consumers>>
    BY Zenon DEF Grows, Gate, CheckMin, Latest, ReadPrincipal, ReadPromotion, Unread
  <1>2. CASE Gate(c)
    <2> DEFINE next == IF calls[c].op \in {"upsert", "tombstone"} THEN "read"
                       ELSE IF calls[c].min # None THEN "min" ELSE "page"
    <2>1. next \notin {"target", "collect", "fold"}
      BY Zenon
    <2>2. Respond(c, 404, None) \/ Respond(c, 409, None) \/ Goto(c, next)
      BY <1>2 DEF Gate
    <2> HIDE DEF next
    <2> QED BY <1>1, <2>1, <2>2, GotoKeeps, RespondKeeps
  <1>3. CASE CheckMin(c)
    <2>1. Goto(c, "page") \/ Respond(c, 412, Len(log))
      BY <1>3, Zenon DEF CheckMin
    <2>2. "page" \notin {"target", "collect", "fold"}
      BY Zenon
    <2> QED BY <1>1, <2>1, <2>2, GotoKeeps, RespondKeeps
  <1>4. CASE Latest(c)
    <2>1. \E code : Respond(c, code, Len(log))
      BY <1>4 DEF Latest
    <2> QED BY <1>1, <2>1, RespondKeeps, Zenon
  <1>5. CASE ReadPrincipal(c) \/ ReadPromotion(c)
    <2>1. \E at \in {"latest", "append"} : \E code :
              calls' = [calls EXCEPT ![c].at = at, ![c].code = code]
      BY <1>5 DEF ReadPrincipal, ReadPromotion
    <2> QED BY <1>1, <2>1, CodeKeeps, Zenon
  <1> QED BY <1>2, <1>3, <1>4, <1>5, Zenon

\* The events that are appended name what their kind is about.
LEMMA EventTyped ==
    ASSUME PlaneInv, CanAppend
    PROVE  /\ \A id \in Ids, doc \in Docs : Event("principal.upserted", id, doc) \in Events
           /\ \A id \in Ids : /\ Event("resource.promoted", id, None) \in Events
                             /\ Event("resource.tombstoned", id, None) \in Events
           /\ \A kind \in StatusKinds : Event(kind, None, None) \in Events
  <1>1. log \in Seq(Events) /\ Modes[mode].events \in 0..MaxLog /\ Len(log) < Modes[mode].events
    BY ConstantsAssumption, Zenon DEF PlaneInv, LogInv, Numbered, CanAppend
  <1>2. Len(log) + 1 \in 1..MaxLog
    BY <1>1, ConstantsAssumption
  <1> QED BY <1>2, Zenon DEF Event, Events

\* A transaction appends the next event.
LEMMA TransactGrows ==
    ASSUME PlaneInv, NEW kind, NEW id, NEW doc, NEW new, Transact(kind, id, doc, new),
           Event(kind, id, doc) \in Events
    PROVE  Grows
  <1>1. log \in Seq(Events) /\ Modes[mode].events \in 0..MaxLog /\ Len(log) < Modes[mode].events
    BY ConstantsAssumption, Zenon DEF PlaneInv, LogInv, Numbered, Transact, CanAppend
  <1>2. Len(log) < MaxLog
    BY <1>1, ConstantsAssumption
  <1>3. Event(kind, id, doc).seq = Len(log) + 1
    BY Zenon DEF Event
  <1> QED BY <1>2, <1>3, Zenon DEF Transact, Grows

\* The steps that write or fail.
LEMMA WritingSteps ==
    ASSUME PlaneInv, NEW c \in Slots, AppendPrincipal(c) \/ AppendTombstone(c) \/ Fails(c)
    PROVE  PlaneInv'
  <1>1. UNCHANGED <<mode, replicas, consumers>>
    BY DEF AppendPrincipal, AppendTombstone, Fails
  <1>2. Grows
    <2>1. /\ calls[c].op \in {"upsert", "tombstone"} => calls[c].id \in Ids
          /\ calls[c].op = "upsert" => calls[c].doc \in Docs
      BY Zenon DEF PlaneInv, Reads
    <2>2. calls[c].op = "upsert" /\ PutPrincipal(c) => Grows
      BY <2>1, EventTyped, TransactGrows, Zenon DEF PutPrincipal, Transact
    <2>3. calls[c].op = "tombstone" /\ DeletePromotion(c) => Grows
      BY <2>1, EventTyped, TransactGrows DEF DeletePromotion, Transact
    <2>4. log' = log => Grows
      BY Zenon DEF Grows
    <2>5. \/ calls[c].op = "upsert" /\ PutPrincipal(c)
          \/ calls[c].op = "tombstone" /\ DeletePromotion(c)
          \/ log' = log
      BY DEF AppendPrincipal, AppendTombstone, Fails
    <2> QED BY <2>2, <2>3, <2>4, <2>5, Zenon
  <1>3. \/ \E code, revision : Respond(c, code, revision)
        \/ calls' = [calls EXCEPT ![c].at = "latest", ![c].code = 204]
    BY DEF AppendPrincipal, AppendTombstone, Fails
  <1>4. CASE \E code, revision : Respond(c, code, revision)
    BY <1>1, <1>2, <1>4, RespondKeeps, Zenon
  <1>5. CASE calls' = [calls EXCEPT ![c].at = "latest", ![c].code = 204]
    <2>1. "latest" \notin {"target", "collect", "fold"}
      BY Zenon
    <2> QED BY <1>1, <1>2, <1>5, <2>1, CodeKeeps, ZenonT(60)
  <1> QED BY <1>3, <1>4, <1>5, Zenon

\* The steps that change other fields of a request.
LEMMA FieldSteps ==
    ASSUME PlaneInv, NEW c \in Slots,
           \/ Poll(c) \/ ReadPromotions(c) \/ Target(c) \/ Collect(c) \/ Fold(c)
           \/ Rerun(c) /\ calls[c].op # "events"
    PROVE  PlaneInv'
  <1>1. Grows /\ UNCHANGED <<mode, replicas, consumers>>
    BY Zenon DEF Grows, Poll, ReadPromotions, Target, Collect, Fold, Rerun, Unread
  <1>2. DOMAIN calls = Slots /\ DOMAIN calls[c] = Fields
    BY Zenon DEF PlaneInv, Reads
  <1>3. CASE Poll(c)
    <2>1. CASE \E at \in {"rerun", "latest"} : Goto(c, at)
      BY <1>1, <2>1, GotoKeeps, Zenon
    <2>2. CASE calls' = [calls EXCEPT ![c].polls = @ + 1]
      <3> DEFINE new == [calls[c] EXCEPT !.polls = @ + 1]
      <3>1. calls' = [calls EXCEPT ![c] = new]
        BY <2>2, Zenon
      <3>2. Kept(calls[c], new)
        BY <1>2, <1>3, Zenon DEF Kept, Fields, Poll
      <3> QED BY <1>1, <3>1, <3>2, OneKept, Zenon
    <2> QED BY <1>3, <2>1, <2>2, Zenon DEF Poll
  <1>4. CASE ReadPromotions(c)
    <2>1. PICK listed : calls' = [calls EXCEPT ![c].listed = listed, ![c].at = "latest"]
      BY <1>4, Zenon DEF ReadPromotions
    <2> DEFINE new == [calls[c] EXCEPT !.listed = listed, !.at = "latest"]
    <2>2. calls' = [calls EXCEPT ![c] = new]
      BY <1>2, <2>1, Zenon
    <2>3. Kept(calls[c], new)
      BY <1>2, Zenon DEF Kept, Fields
    <2> QED BY <1>1, <2>2, <2>3, OneKept, Zenon
  <1>5. CASE Target(c) \/ Collect(c) \/ Fold(c) \/ (Rerun(c) /\ calls[c].op # "events")
    <2>1. calls[c].op # "events"
      BY <1>5, Zenon DEF PlaneInv, Reads, Target, Collect, Fold
    <2> DEFINE SameRequest(new) ==
                   /\ DOMAIN new = Fields
                   /\ new.id = calls[c].id /\ new.doc = calls[c].doc /\ new.op = calls[c].op
    <2>2. \E new : calls' = [calls EXCEPT ![c] = new] /\ SameRequest(new)
      <3>1. CASE Target(c)
        <4>1. CASE calls[c].min = None /\ log = << >>
          <5> DEFINE new == [calls[c] EXCEPT !.at = "answered", !.code = 200,
                                             !.revision = 0, !.result = NoItems]
          <5>1. calls' = [calls EXCEPT ![c].at = "answered", ![c].code = 200,
                                       ![c].revision = 0, ![c].result = NoItems]
            BY <3>1, <4>1, Zenon DEF Target
          <5>2. calls' = [calls EXCEPT ![c] = new]
            BY <1>2, <5>1, ZenonT(60)
          <5>3. SameRequest(new)
            BY <1>2 DEF Fields
          <5> HIDE DEF new
          <5> QED BY <5>2, <5>3, Zenon
        <4>2. CASE ~(calls[c].min = None /\ log = << >>)
          <5> DEFINE target == IF calls[c].min = None THEN Len(log) ELSE calls[c].min
                     new == [calls[c] EXCEPT !.at = "collect", !.after = 0, !.revision = target]
          <5>1. calls' = [calls EXCEPT ![c] = new]
            BY <1>2, <3>1, <4>2, Zenon DEF Target
          <5>2. SameRequest(new)
            BY <1>2, Zenon DEF Fields
          <5> HIDE DEF new
          <5> QED BY <5>1, <5>2, Zenon
        <4> QED BY <4>1, <4>2, Zenon
      <3>2. CASE Collect(c)
        <4>1. \E n \in Views : \E page \in EventsAfter(n, calls[c].after, FoldPageSize) :
                  LET after == IF page = << >> THEN calls[c].after ELSE page[Len(page)].seq
                  IN calls' = [calls EXCEPT
                         ![c].page = calls[c].page \o page,
                         ![c].after = after,
                         ![c].at = IF Len(page) < FoldPageSize \/ after >= calls[c].revision
                                   THEN "fold" ELSE "collect"]
          BY <3>2, ZenonT(60) DEF Collect
        <4>2. PICK p, a, at :
                  calls' = [calls EXCEPT ![c].page = p, ![c].after = a, ![c].at = at]
          BY <4>1, Zenon
        <4> DEFINE new == [calls[c] EXCEPT !.page = p, !.after = a, !.at = at]
        <4>3. calls' = [calls EXCEPT ![c] = new]
          BY <1>2, <4>2, Zenon
        <4>4. SameRequest(new)
          BY <1>2, Zenon DEF Fields
        <4> HIDE DEF new
        <4> QED BY <4>3, <4>4, Zenon
      <3>3. CASE Fold(c)
        <4>1. PICK result, code : calls' = [calls EXCEPT ![c].at = "answered",
                                                ![c].result = result, ![c].code = code]
          BY <3>3, ZenonT(60) DEF Fold
        <4> DEFINE new == [calls[c] EXCEPT !.at = "answered", !.result = result, !.code = code]
        <4>2. calls' = [calls EXCEPT ![c] = new]
          BY <1>2, <4>1, Zenon
        <4>3. SameRequest(new)
          BY <1>2, Zenon DEF Fields
        <4> HIDE DEF new
        <4> QED BY <4>2, <4>3, Zenon
      <3>4. CASE Rerun(c)
        <4>1. PICK p : calls' = [calls EXCEPT ![c].page = p, ![c].at = "latest"]
          BY <3>4, Zenon DEF Rerun
        <4> DEFINE new == [calls[c] EXCEPT !.page = p, !.at = "latest"]
        <4>2. calls' = [calls EXCEPT ![c] = new]
          BY <1>2, <4>1, Zenon
        <4>3. SameRequest(new)
          BY <1>2, Zenon DEF Fields
        <4> HIDE DEF new
        <4> QED BY <4>2, <4>3, Zenon
      <3> QED BY <1>5, <3>1, <3>2, <3>3, <3>4, Zenon
    <2> QED BY <1>1, <2>1, <2>2, OneKept, Zenon DEF Kept
  <1> QED BY <1>3, <1>4, <1>5, Zenon

\* Only slot c changes.
LEMMA OneSlot ==
    ASSUME PlaneInv, UNCHANGED <<mode, log, replicas>>, NEW c \in Slots, NEW new, NEW consumer,
           calls' = [calls EXCEPT ![c] = new],
           consumers' = [consumers EXCEPT ![c] = consumer] \/ (consumers' = consumers /\ consumer = consumers[c]),
           Reads(log, new, consumer.cursor), Received(log, consumer)
    PROVE  PlaneInv'
  <1>1. DOMAIN calls = Slots /\ DOMAIN consumers = Slots
    BY Zenon DEF PlaneInv
  <1>2. /\ DOMAIN calls' = Slots /\ calls'[c] = new /\ \A d \in Slots \ {c} : calls'[d] = calls[d]
        /\ DOMAIN consumers' = Slots /\ consumers'[c] = consumer
        /\ \A d \in Slots \ {c} : consumers'[d] = consumers[d]
    BY <1>1, Zenon
  <1>3. ASSUME NEW d \in Slots
        PROVE  Reads(log', calls'[d], consumers'[d].cursor) /\ Received(log', consumers'[d])
    <2>1. CASE d = c
      BY <1>2, <2>1, Zenon
    <2>2. CASE d # c
      BY <1>2, <2>2, Zenon DEF PlaneInv
    <2> QED BY <2>1, <2>2, Zenon
  <1>4. LogInv'
    BY Zenon DEF PlaneInv, LogInv, Numbered
  <1> QED BY <1>2, <1>3, <1>4, Zenon DEF PlaneInv

\* A request reads a page of events.
LEMMA ReadingSteps ==
    ASSUME PlaneInv, NEW c \in Slots, ReadEvents(c) \/ (Rerun(c) /\ calls[c].op = "events")
    PROVE  PlaneInv'
  <1>1. /\ DOMAIN calls = Slots /\ DOMAIN calls[c] = Fields /\ LogInv
        /\ Reads(log, calls[c], consumers[c].cursor) /\ Received(log, consumers[c])
    BY Zenon DEF PlaneInv, Reads
  <1>2. calls[c].op = "events" /\ UNCHANGED <<mode, log, replicas, consumers>>
    BY Zenon DEF ReadEvents, Rerun, Unread
  <1>3. calls[c].after \in 0..MaxRevision /\ calls[c].after = consumers[c].cursor
    BY <1>1, <1>2, Zenon DEF Reads, Received
  <1>4. \E n \in Views : \E page \in EventsAfter(n, calls[c].after, Limit) :
            \E at \in {"watch", "latest"} :
                calls' = [calls EXCEPT ![c].page = page, ![c].at = at]
    <2>1. CASE ReadEvents(c)
      <3>1. PICK n \in Views : \E page \in EventsAfter(n, calls[c].after, Limit) :
                calls' = [calls EXCEPT ![c].page = page,
                          ![c].at = IF page = << >> /\ calls[c].wait THEN "watch" ELSE "latest"]
        BY <2>1, Zenon DEF ReadEvents
      <3> QED BY <3>1, Zenon
    <2>2. CASE Rerun(c)
      <3>1. PICK n \in Views : \E page \in EventsAfter(n, calls[c].after, Limit) :
                calls' = [calls EXCEPT ![c].page = page, ![c].at = "latest"]
        BY <2>2, Zenon DEF Rerun
      <3>2. PICK page \in EventsAfter(n, calls[c].after, Limit) :
                calls' = [calls EXCEPT ![c].page = page, ![c].at = "latest"]
        BY <3>1, Zenon
      <3> QED BY <3>2, Zenon
    <2> QED BY <2>1, <2>2, Zenon
  <1>5. PICK n \in Views : \E page \in EventsAfter(n, calls[c].after, Limit) :
            \E at \in {"watch", "latest"} :
                calls' = [calls EXCEPT ![c].page = page, ![c].at = at]
    BY <1>4, Zenon
  <1>6. PICK page \in EventsAfter(n, calls[c].after, Limit), at \in {"watch", "latest"} :
            calls' = [calls EXCEPT ![c].page = page, ![c].at = at]
    BY <1>5, Zenon
  <1>7. Continues(log, page, calls[c].after)
    BY <1>1, <1>3, PagesContinue, ConstantsAssumption, Zenon
  <1> DEFINE new == [calls[c] EXCEPT !.page = page, !.at = at]
  <1>8. calls' = [calls EXCEPT ![c] = new]
    BY <1>1, <1>6, Zenon
  <1>9. /\ DOMAIN new = Fields /\ new.id = calls[c].id /\ new.doc = calls[c].doc
        /\ new.op = "events" /\ new.after = calls[c].after /\ new.page = page /\ new.at = at
    BY <1>1, <1>2, Zenon DEF Fields
  <1> HIDE DEF new
  <1>10. Reads(log, new, consumers[c].cursor)
    BY <1>1, <1>3, <1>7, <1>9, Zenon DEF Reads
  <1> QED BY <1>1, <1>2, <1>8, <1>10, OneSlot, Zenon

\* A request begins at its consumer's cursor, with an empty page.
LEMMA BeginStep ==
    ASSUME PlaneInv, NEW c \in Slots, NEW op \in Operations, Begin(c, op)
    PROVE  PlaneInv'
  <1>1. Received(log, consumers[c]) /\ consumers[c].cursor \in Nat
    BY DEF PlaneInv, Received
  <1>2. UNCHANGED <<mode, log, replicas, consumers>> /\ mode \in DOMAIN Modes
    BY Zenon DEF Begin, PlaneInv, LogInv
  <1> DEFINE after == CASE op = "events" -> consumers[c].cursor
                        [] op = "list" -> walks[c].after
                        [] OTHER -> None
             at == IF op = "fold" THEN "target" ELSE "gate"
             New(id, doc, min, wait) ==
                 [Idle EXCEPT !.at = at, !.op = op, !.id = id, !.doc = doc, !.min = min,
                              !.wait = wait, !.start = Len(log), !.after = after]
  <1>3. PICK id \in IF op \in {"upsert", "tombstone"} THEN Modes[mode].ids ELSE {None},
             doc \in IF op = "upsert" THEN Docs ELSE {None},
             min \in {None} \cup IF Demands(op) THEN 0..(Len(log) + 1) ELSE {},
             wait \in IF op = "events" THEN BOOLEAN ELSE {FALSE} :
                 calls' = [calls EXCEPT ![c] = New(id, doc, min, wait)]
    BY Zenon DEF Begin
  <1>4. (op \in {"upsert", "tombstone"} => id \in Ids) /\ (op = "upsert" => doc \in Docs)
    BY <1>2, <1>3, ConstantsAssumption, Zenon
  <1> DEFINE new == New(id, doc, min, wait)
  <1>5. /\ DOMAIN new = Fields /\ new.id = id /\ new.doc = doc /\ new.op = op
        /\ new.after = after /\ new.at = at /\ new.page = << >>
    BY Zenon DEF Idle, Fields
  <1>6. op = "events" => after = consumers[c].cursor /\ at = "gate"
    BY Zenon
  <1>7. Continues(log, << >>, consumers[c].cursor)
    BY DEF Continues
  <1>8. calls' = [calls EXCEPT ![c] = new]
    BY <1>3, Zenon
  <1> HIDE DEF new, New, after, at
  <1>9. Reads(log, new, consumers[c].cursor)
    BY <1>4, <1>5, <1>6, <1>7, Zenon DEF Reads
  <1> QED BY <1>1, <1>2, <1>8, <1>9, OneSlot, Zenon

\* The consumer of slot c after it took the page.
Took(c, consumer) ==
    /\ DOMAIN consumer = {"from", "cursor", "received"}
    /\ consumer.from = consumers[c].from /\ consumer.cursor = NextAfter(calls[c])
    /\ consumer.received = consumers[c].received \o calls[c].page

\* A consumer that takes a page has received it and goes on behind it.
LEMMA TakePage ==
    ASSUME PlaneInv, NEW c \in Slots, calls[c].op = "events",
           NEW consumer, Took(c, consumer)
    PROVE  Received(log, consumer)
  <1> DEFINE page == calls[c].page
             k == consumers[c]
  <1>1. /\ log \in Seq(Events) /\ Len(log) < MaxRevision
        /\ \A i \in 1..Len(log) : log[i].seq = i
    BY ConstantsAssumption DEF PlaneInv, LogInv, Numbered
  <1>2. Continues(log, page, k.cursor) /\ calls[c].after = k.cursor
    BY Zenon DEF PlaneInv, Reads
  <1>3. /\ k.from \in 0..MaxRevision /\ k.cursor \in 0..MaxRevision
        /\ k.cursor = k.from + Len(k.received) /\ Continues(log, k.received, k.from)
    BY Zenon DEF PlaneInv, Received
  <1> HIDE DEF page, k
  <1>4. page \in Seq(Events) /\ k.received \in Seq(Events)
    BY <1>2, <1>3, Zenon DEF Continues
  <1>5. Len(k.received \o page) = Len(k.received) + Len(page)
    BY <1>4
  <1>6. NextAfter(calls[c]) = k.cursor + Len(page) /\ NextAfter(calls[c]) \in 0..MaxRevision
    <2>1. CASE page = << >>
      BY <1>2, <1>3, <2>1 DEF NextAfter, page
    <2>2. CASE page # << >>
      <3>1. Len(page) \in Nat \ {0}
        BY <1>4, <2>2
      <3>2. NextAfter(calls[c]) = page[Len(page)].seq
        BY <2>2, Zenon DEF NextAfter, page
      <3>3. k.cursor + Len(page) \in 1..Len(log) /\ page[Len(page)] = log[k.cursor + Len(page)]
        BY <1>1, <1>2, <1>3, <3>1 DEF Continues
      <3> QED BY <1>1, <3>2, <3>3, ConstantsAssumption
    <2> QED BY <2>1, <2>2, Zenon
  <1>7. Continues(log, k.received \o page, k.from)
    BY <1>1, <1>2, <1>3, ContinuesJoin
  <1>8. /\ consumer.from = k.from /\ consumer.cursor = NextAfter(calls[c])
        /\ consumer.received = k.received \o page
        /\ DOMAIN consumer = {"from", "cursor", "received"}
    BY Zenon DEF Took, k, page
  <1>9. consumer.cursor = consumer.from + Len(consumer.received)
    <2>1. Len(k.received) \in Nat /\ Len(page) \in Nat
      BY <1>4
    <2> QED BY <1>3, <1>5, <1>6, <1>8, <2>1
  <1> QED BY <1>3, <1>6, <1>7, <1>8, <1>9, Zenon DEF Received

LEMMA TakeStep ==
    ASSUME PlaneInv, NEW c \in Slots, Take(c)
    PROVE  PlaneInv'
  <1>1. /\ UNCHANGED <<mode, log, replicas>> /\ calls' = [calls EXCEPT ![c] = Idle]
    BY Zenon DEF Take
  <1>2. \A cursor : Reads(log, Idle, cursor)
    <2>1. DOMAIN Idle = Fields /\ Idle.op = None
      BY Zenon DEF Idle, Fields
    <2>2. Idle.op \notin Operations
      BY <2>1, ConstantsAssumption, Zenon
    <2> QED BY <2>1, <2>2, Zenon DEF Reads, Operations
  <1>3. CASE calls[c].op = "events" /\ calls[c].code = 200
    <2> DEFINE new == [consumers[c] EXCEPT !.cursor = NextAfter(calls[c]),
                                           !.received = consumers[c].received \o calls[c].page]
    <2>1. consumers' = [consumers EXCEPT ![c].cursor = NextAfter(calls[c]),
                                         ![c].received = consumers[c].received \o calls[c].page]
      BY <1>3, Zenon DEF Take
    <2>2. DOMAIN consumers = Slots /\ DOMAIN consumers[c] = {"from", "cursor", "received"}
      BY Zenon DEF PlaneInv, Received
    <2>3. consumers' = [consumers EXCEPT ![c] = new]
      BY <2>1, <2>2, Zenon
    <2>4. Took(c, new)
      BY <2>2, Zenon DEF Took
    <2> HIDE DEF new
    <2>5. Received(log, new)
      BY <1>3, <2>4, TakePage, Zenon
    <2> QED BY <1>1, <1>2, <2>3, <2>5, OneSlot, Zenon
  <1>4. CASE ~(calls[c].op = "events" /\ calls[c].code = 200)
    <2>1. consumers' = consumers
      BY <1>4, Zenon DEF Take
    <2>2. Received(log, consumers[c])
      BY Zenon DEF PlaneInv
    <2> QED BY <1>1, <1>2, <2>1, <2>2, OneSlot, Zenon
  <1> QED BY <1>3, <1>4, Zenon

\* What other writers append, and what replicas apply.
LEMMA OtherSteps ==
    ASSUME PlaneInv,
           \/ \E kind \in DOMAIN StatusAfter : ChangeStatus(kind)
           \/ \E id \in Modes[mode].ids : Promote(id)
    PROVE  PlaneInv'
  <1>1. UNCHANGED <<mode, replicas, calls, consumers>>
    BY Zenon DEF ChangeStatus, Promote
  <1>2. Grows
    <2>1. ASSUME NEW kind \in DOMAIN StatusAfter, ChangeStatus(kind) PROVE Grows
      <3>1. kind \in StatusKinds
        BY Zenon DEF StatusAfter
      <3>2. PICK new : Transact(kind, None, None, new)
        BY <2>1, Zenon DEF ChangeStatus
      <3>3. Event(kind, None, None) \in Events
        BY <3>1, <3>2, EventTyped, Zenon DEF Transact
      <3> QED BY <3>2, <3>3, TransactGrows, Zenon
    <2>2. ASSUME NEW id \in Modes[mode].ids, Promote(id) PROVE Grows
      <3>1. id \in Ids
        BY ConstantsAssumption, Zenon DEF PlaneInv, LogInv
      <3>2. PICK new : Transact("resource.promoted", id, None, new)
        BY <2>2, Zenon DEF Promote
      <3>3. Event("resource.promoted", id, None) \in Events
        BY <3>1, <3>2, EventTyped, Zenon DEF Transact
      <3> QED BY <3>2, <3>3, TransactGrows, Zenon
    <2> QED BY <2>1, <2>2, Zenon
  <1>3. DOMAIN calls' = Slots
    BY <1>1, Zenon DEF PlaneInv
  <1> QED BY <1>1, <1>2, <1>3, KeptStep, Zenon

LEMMA ReplicateStep ==
    ASSUME PlaneInv, NEW r \in Replicas, Replicate(r)
    PROVE  PlaneInv'
  <1>1. UNCHANGED <<mode, log, calls, consumers>>
    BY Zenon DEF Replicate
  <1>2. /\ log \in Seq(Events) /\ replicas \in [Replicas -> Nat] /\ replicas[r] < Len(log)
        /\ replicas' = [replicas EXCEPT ![r] = @ + 1]
    BY Zenon DEF PlaneInv, LogInv, Numbered, Replicate
  <1>3. replicas' \in [Replicas -> Nat] /\ replicas'[r] <= Len(log)
        /\ \A q \in Replicas \ {r} : replicas'[q] = replicas[q]
    BY <1>2
  <1>4. \A q \in Replicas : replicas'[q] <= Len(log')
    BY <1>1, <1>3, Zenon DEF PlaneInv, LogInv
  <1>5. LogInv'
    BY <1>1, <1>3, <1>4, Zenon DEF PlaneInv, LogInv, Numbered
  <1> QED BY <1>1, <1>5, Zenon DEF PlaneInv

\* The invariant is inductive.
LEMMA InvNext ==
    PlaneInv /\ [Next]_vars => PlaneInv'
  <1> SUFFICES ASSUME PlaneInv, [Next]_vars PROVE PlaneInv'
    BY Zenon
  <1>1. ASSUME NEW c \in Slots, NEW op \in Operations, Begin(c, op) PROVE PlaneInv'
    BY <1>1, BeginStep, Zenon
  <1>2. ASSUME NEW c \in Slots, Step(c) PROVE PlaneInv'
    <2>1. CASE Gate(c) \/ CheckMin(c) \/ Latest(c) \/ ReadPrincipal(c) \/ ReadPromotion(c)
      BY <2>1, QuietSteps, Zenon
    <2>2. CASE AppendPrincipal(c) \/ AppendTombstone(c)
      BY <2>2, WritingSteps, Zenon
    <2>3. CASE Poll(c) \/ ReadPromotions(c) \/ Target(c) \/ Collect(c) \/ Fold(c)
      BY <2>3, FieldSteps, Zenon
    <2>4. CASE ReadEvents(c) \/ (Rerun(c) /\ calls[c].op = "events")
      BY <2>4, ReadingSteps, Zenon
    <2>5. CASE Rerun(c) /\ calls[c].op # "events"
      BY <2>5, FieldSteps, Zenon
    <2> QED BY <1>2, <2>1, <2>2, <2>3, <2>4, <2>5, Zenon DEF Step
  <1>3. ASSUME NEW c \in Slots, Fails(c) PROVE PlaneInv'
    BY <1>3, WritingSteps, Zenon
  <1>4. ASSUME NEW c \in Slots, Take(c) PROVE PlaneInv'
    BY <1>4, TakeStep, Zenon
  <1>5. CASE \/ \E kind \in DOMAIN StatusAfter : ChangeStatus(kind)
             \/ \E id \in Modes[mode].ids : Promote(id)
    BY <1>5, OtherSteps, Zenon
  <1>6. ASSUME NEW r \in Replicas, Replicate(r) PROVE PlaneInv'
    BY <1>6, ReplicateStep, Zenon
  <1>7. CASE UNCHANGED vars
    <2>1. UNCHANGED <<mode, log, replicas, calls, consumers>>
      BY <1>7, Zenon DEF vars
    <2> QED BY <2>1, Zenon DEF PlaneInv, LogInv
  <1> QED BY <1>1, <1>2, <1>3, <1>4, <1>5, <1>6, <1>7, Zenon DEF Next

LEMMA InvImplies ==
    PlaneInv => ConsumerSeesLog
  BY DEF PlaneInv, Received, Continues, ConsumerSeesLog

\* A consumer of GET .../events that goes on from next_after receives every
\* event after the one it began with exactly once and in order, for every
\* number of requests, replicas, writers and failures, every page size, and
\* every lag and shortness of pages.
THEOREM ConsumersSeeLog == Spec => []ConsumerSeesLog
  <1>1. Init => PlaneInv
    BY InvInit, Zenon
  <1>2. PlaneInv /\ [Next]_vars => PlaneInv'
    BY InvNext, Zenon
  <1>3. PlaneInv => ConsumerSeesLog
    BY InvImplies, Zenon
  <1> QED BY <1>1, <1>2, <1>3, PTL DEF Spec
-----------------------------------------------------------------------------
(* What a log folds to, and the pages of promotions.                       *)

\* What is used of the theorems on numbers and finite sets: ModelPlaneSteps
\* takes it from the library.
Counting ==
    /\ \A T \in SUBSET Nat : T # {} => \E n \in T : \A m \in T : n <= m
    /\ Cardinality({}) = 0
    /\ \A S : IsFiniteSet(S) => Cardinality(S) \in Nat
    /\ \A S : IsFiniteSet(S) =>
          \A T \in SUBSET S : /\ IsFiniteSet(T) /\ Cardinality(T) <= Cardinality(S)
                              /\ Cardinality(S) = Cardinality(T) => S = T

\* An event turns items into items.
LEMMA ApplyEventType ==
    ASSUME NEW state \in Items, NEW e \in Events
    PROVE  ApplyEvent(state, e) \in Items
  <1>1. CASE e.kind = "principal.upserted"
    <2>1. e.id \in Ids /\ e.doc \in Docs
      BY <1>1, Zenon DEF Events, StatusKinds
    <2> QED BY <1>1, <2>1, Zenon DEF ApplyEvent, Items
  <1>2. CASE e.kind \in {"resource.promoted", "resource.tombstoned"}
    <2>1. e.id \in Ids
      BY <1>2, Zenon DEF Events, StatusKinds
    <2> QED BY <1>2, <2>1, Zenon DEF ApplyEvent, Items
  <1>3. CASE e.kind \in StatusKinds
    <2>1. StatusAfter[e.kind] \in {"draft", "active", "suspended"}
      BY <1>3, Zenon DEF StatusAfter
    <2> QED BY <1>3, <2>1, Zenon DEF ApplyEvent, Items, StatusKinds
  <1> QED BY <1>1, <1>2, <1>3, Zenon DEF Events

\* f has the state after each of the first k events.
Folding(f, events, k) ==
    f = [i \in 0..k |-> IF i = 0 THEN NoItems ELSE ApplyEvent(f[i - 1], events[i])]

LEMMA FoldingExists ==
    ASSUME Counting, NEW events, NEW k \in Nat
    PROVE  \E f : Folding(f, events, k)
  <1> DEFINE Bad == {n \in Nat : ~ \E f : Folding(f, events, n)}
  <1> SUFFICES ASSUME Bad # {} PROVE FALSE
    BY Zenon
  <1>1. PICK n \in Bad : \A m \in Bad : n <= m
    BY Zenon DEF Counting
  <1>2. CASE n = 0
    <2> DEFINE f == [i \in 0..0 |-> NoItems]
    <2>1. Folding(f, events, 0)
      BY DEF Folding
    <2> QED BY <1>1, <1>2, <2>1, Zenon
  <1>3. CASE n # 0
    <2>1. n - 1 \in Nat /\ n - 1 \notin Bad
      BY <1>1, <1>3
    <2>2. PICK g : Folding(g, events, n - 1)
      BY <2>1, Zenon
    <2> DEFINE f == [i \in 0..n |-> IF i < n THEN g[i] ELSE ApplyEvent(g[n - 1], events[n])]
    <2>3. \A i \in 0..n - 1 : g[i] = IF i = 0 THEN NoItems ELSE ApplyEvent(g[i - 1], events[i])
      BY <2>1, <2>2, Zenon DEF Folding
    <2>4. \A i \in 0..n : f[i] = IF i = 0 THEN NoItems ELSE ApplyEvent(f[i - 1], events[i])
      BY <1>1, <1>3, <2>1, <2>3
    <2>5. Folding(f, events, n)
      BY <2>4, Zenon DEF Folding
    <2> QED BY <1>1, <2>5, Zenon
  <1> QED BY <1>2, <1>3, Zenon

\* Folded is the last state of such a function.
LEMMA FoldedBy ==
    ASSUME Counting, NEW events, Len(events) \in Nat
    PROVE  \E f : Folding(f, events, Len(events)) /\ Folded(events) = f[Len(events)]
  <1> DEFINE state == CHOOSE f : f = [i \in 0..Len(events) |->
                          IF i = 0 THEN NoItems ELSE ApplyEvent(f[i - 1], events[i])]
  <1>1. \E f : f = [i \in 0..Len(events) |->
                IF i = 0 THEN NoItems ELSE ApplyEvent(f[i - 1], events[i])]
    BY FoldingExists, Zenon DEF Folding
  <1>2. state = [i \in 0..Len(events) |->
                 IF i = 0 THEN NoItems ELSE ApplyEvent(state[i - 1], events[i])]
    BY <1>1, Zenon
  <1>3. Folded(events) = state[Len(events)]
    BY Zenon DEF Folded
  <1> HIDE DEF state
  <1> QED BY <1>2, <1>3, Zenon DEF Folding

\* Logs that begin alike fold alike.
LEMMA FoldingsAgree ==
    ASSUME Counting, NEW s, NEW t, NEW j \in Nat, NEW k \in Nat, NEW f, NEW g,
           Folding(f, s, j), Folding(g, t, k),
           NEW n \in Nat, n <= j, n <= k, \A i \in 1..n : s[i] = t[i]
    PROVE  f[n] = g[n]
  <1> DEFINE Bad == {m \in 0..n : f[m] # g[m]}
  <1> SUFFICES ASSUME Bad # {} PROVE FALSE
    OBVIOUS
  <1>1. PICK m \in Bad : \A l \in Bad : m <= l
    <2>1. Bad \in SUBSET Nat
      OBVIOUS
    <2> QED BY <2>1, Zenon DEF Counting
  <1>2. /\ f[m] = IF m = 0 THEN NoItems ELSE ApplyEvent(f[m - 1], s[m])
        /\ g[m] = IF m = 0 THEN NoItems ELSE ApplyEvent(g[m - 1], t[m])
    BY <1>1 DEF Folding
  <1>3. CASE m = 0
    BY <1>1, <1>2, <1>3, Zenon
  <1>4. CASE m # 0
    <2>1. m - 1 \in 0..n /\ m - 1 \notin Bad /\ m \in 1..n
      BY <1>1, <1>4
    <2>2. f[m - 1] = g[m - 1] /\ s[m] = t[m]
      BY <2>1, Zenon
    <2> QED BY <1>1, <1>2, <1>4, <2>2, Zenon
  <1> QED BY <1>3, <1>4, Zenon

LEMMA FoldedEmpty ==
    ASSUME Counting
    PROVE  Folded(<< >>) = NoItems
  <1>1. PICK f : Folding(f, << >>, 0) /\ Folded(<< >>) = f[0]
    BY FoldedBy
  <1> QED BY <1>1 DEF Folding

LEMMA FoldedAppend ==
    ASSUME Counting, NEW s \in Seq(Events), NEW e \in Events
    PROVE  Folded(Append(s, e)) = ApplyEvent(Folded(s), e)
  <1> DEFINE t == Append(s, e)
             n == Len(s)
  <1>1. /\ n \in Nat /\ Len(t) = n + 1 /\ t[n + 1] = e
        /\ \A i \in 1..n : s[i] = t[i]
    OBVIOUS
  <1> HIDE DEF t, n
  <1>2. PICK f : Folding(f, s, n) /\ Folded(s) = f[n]
    BY <1>1, FoldedBy, Zenon DEF n
  <1>3. PICK g : Folding(g, t, n + 1) /\ Folded(t) = g[n + 1]
    BY <1>1, FoldedBy
  <1>4. f[n] = g[n]
    BY <1>1, <1>2, <1>3, FoldingsAgree
  <1>5. g[n + 1] = ApplyEvent(g[n], t[n + 1])
    BY <1>1, <1>3 DEF Folding
  <1> QED BY <1>1, <1>2, <1>3, <1>4, <1>5, Zenon DEF t

LEMMA FoldedType ==
    ASSUME Counting, NEW s \in Seq(Events)
    PROVE  Folded(s) \in Items
  <1>1. Len(s) \in Nat /\ \A i \in 1..Len(s) : s[i] \in Events
    OBVIOUS
  <1>2. PICK f : Folding(f, s, Len(s)) /\ Folded(s) = f[Len(s)]
    BY <1>1, FoldedBy, Zenon
  <1> DEFINE Bad == {m \in 0..Len(s) : f[m] \notin Items}
  <1>3. ASSUME Bad # {} PROVE FALSE
    <2>1. PICK m \in Bad : \A l \in Bad : m <= l
      <3>1. Bad \in SUBSET Nat
        BY <1>1
      <3> QED BY <1>3, <3>1, Zenon DEF Counting
    <2>2. f[m] = IF m = 0 THEN NoItems ELSE ApplyEvent(f[m - 1], s[m])
      BY <1>1, <1>2, <2>1, Zenon DEF Folding
    <2>3. CASE m = 0
      BY <2>1, <2>2, <2>3 DEF NoItems, Items
    <2>4. CASE m # 0
      <3>1. m - 1 \in 0..Len(s) /\ m - 1 \notin Bad /\ m \in 1..Len(s)
        BY <1>1, <2>1, <2>4
      <3> QED BY <1>1, <2>1, <2>2, <2>4, <3>1, ApplyEventType, Zenon
    <2> QED BY <2>3, <2>4, Zenon
  <1> QED BY <1>1, <1>2, <1>3

LEMMA GreatestOf ==
    ASSUME Counting, NEW S \in SUBSET Nat, IsFiniteSet(S), S # {}
    PROVE  \E m \in S : \A j \in S : j <= m
  <1> DEFINE Below(i) == {j \in S : j < i}
             Rank(i) == Cardinality(S) - Cardinality(Below(i))
             Ranks == {Rank(i) : i \in S}
  <1>1. \A i \in S : IsFiniteSet(Below(i)) /\ Cardinality(Below(i)) <= Cardinality(S)
    BY Zenon DEF Counting
  <1>2. Cardinality(S) \in Nat /\ \A i \in S : Cardinality(Below(i)) \in Nat
    BY <1>1, Zenon DEF Counting
  <1>3. \A i \in S : Rank(i) \in Nat
    BY <1>1, <1>2
  <1>4. PICK m \in S : \A i \in S : Rank(m) <= Rank(i)
    <2>1. Ranks \in SUBSET Nat /\ Ranks # {}
      BY <1>3, Zenon
    <2>2. PICK r \in Ranks : \A q \in Ranks : r <= q
      BY <2>1, Zenon DEF Counting
    <2> HIDE DEF Rank
    <2> QED BY <2>2, Zenon
  <1>5. ASSUME NEW j \in S, j > m PROVE FALSE
    <2>1. /\ Below(m) \in SUBSET Below(j) /\ m \in Below(j) /\ m \notin Below(m)
      <3>1. m \in Nat /\ j \in Nat /\ \A k \in S : k \in Nat
        BY <1>4, <1>5, Zenon
      <3>2. m < j /\ ~(m < m) /\ \A k \in S : k < m => k < j
        BY <1>5, <3>1
      <3> QED BY <1>4, <3>2, Zenon
    <2>2. /\ Cardinality(Below(m)) <= Cardinality(Below(j))
          /\ Cardinality(Below(j)) = Cardinality(Below(m)) => Below(j) = Below(m)
      BY <1>1, <2>1, Zenon DEF Counting
    <2>3. Rank(m) <= Rank(j)
      BY <1>4, Zenon
    <2> HIDE DEF Below
    <2> QED BY <1>2, <2>1, <2>2, <2>3
  <1> QED BY <1>5

\* A page is a first part of what is promoted behind the cursor, and is empty only
\* when nothing is.
LEMMA PageIsFirst ==
    ASSUME Counting, NEW n, At(n).promoted \in SUBSET Ids, NEW after, after = None \/ after \in Nat,
           NEW listed, listed = PromotionsAfter(n, after)
    PROVE  /\ listed \in SUBSET Ids
           /\ listed = {} => \A id \in At(n).promoted : after # None /\ id <= after
           /\ \A m \in listed : \A id \in At(n).promoted :
                 id <= m => id \in listed \/ (after # None /\ id <= after)
  <1> DEFINE later == {i \in At(n).promoted : after = None \/ i > after}
             Below(i) == {j \in later : j < i}
  <1>1. listed = {i \in later : Cardinality(Below(i)) < Limit}
    BY Zenon DEF PromotionsAfter
  <1>2. later \in SUBSET Ids
    BY Zenon
  <1>3. \A id \in At(n).promoted : id \in later \/ (after # None /\ id <= after)
    <2> SUFFICES ASSUME NEW id \in At(n).promoted, ~(after = None), ~(id > after)
                 PROVE  id <= after
      BY Zenon
    <2>1. id \in Nat /\ after \in Nat
      BY ConstantsAssumption, Zenon
    <2> QED BY <2>1
  <1> HIDE DEF later
  <1>4. /\ later \in SUBSET Nat /\ IsFiniteSet(later) /\ Limit \in Nat /\ Limit > 0
        /\ \A i \in later : i \in Nat
    <2>1. Ids \in SUBSET Nat /\ IsFiniteSet(Ids)
      BY ConstantsAssumption, Zenon
    <2>2. Limit \in Nat /\ Limit > 0
      BY ConstantsAssumption
    <2>3. IsFiniteSet(later)
      BY <1>2, <2>1, Zenon DEF Counting
    <2> QED BY <1>2, <2>1, <2>2, <2>3, Zenon
  <1>5. listed \in SUBSET Ids
    BY <1>1, <1>2, Zenon
  <1>6. ASSUME later # {} PROVE listed # {}
    <2>1. PICK m \in later : \A j \in later : m <= j
      BY <1>4, <1>6, Zenon DEF Counting
    <2>2. \A j \in later : ~(j < m)
      BY <1>4, <2>1
    <2>3. Below(m) = {}
      BY <2>2, Zenon
    <2>4. Cardinality(Below(m)) = 0
      BY <2>3, Zenon DEF Counting
    <2> QED BY <1>1, <1>4, <2>1, <2>4, Zenon
  <1>7. ASSUME NEW m \in listed, NEW id \in later, id <= m PROVE id \in listed
    <2>1. m \in later /\ Cardinality(Below(m)) < Limit
      BY <1>1, Zenon
    <2>2. \A j \in later : j < id => j < m
      <3>1. m \in Nat /\ id \in Nat /\ \A j \in later : j \in Nat
        BY <1>4, <2>1, Zenon
      <3>2. \A j \in Nat : j < id => j < m
        BY <1>7, <3>1
      <3> QED BY <3>1, <3>2, Zenon
    <2>3. Below(id) \in SUBSET Below(m) /\ Below(m) \in SUBSET later
      BY <2>2, Zenon
    <2>4. /\ IsFiniteSet(Below(m)) /\ IsFiniteSet(Below(id))
          /\ Cardinality(Below(id)) <= Cardinality(Below(m))
      BY <1>4, <2>3, Zenon DEF Counting
    <2>5. Cardinality(Below(m)) \in Nat /\ Cardinality(Below(id)) \in Nat
      BY <2>4, Zenon DEF Counting
    <2> QED BY <1>1, <1>4, <2>1, <2>4, <2>5
  <1> QED BY <1>3, <1>5, <1>6, <1>7, Zenon
-----------------------------------------------------------------------------
(* The state items are the history of the log.                             *)

\* The items of every revision are what the log up to it folds to.
HistoryInv ==
    /\ items \in Seq(Items)
    /\ Len(items) = Len(log) + 1
    /\ \A n \in 0..Len(log) : At(n) = Folded(SubSeq(log, 1, n))

\* A transaction writes what the fold makes of its event.
LEMMA TransactHistory ==
    ASSUME Counting, PlaneInv, HistoryInv, NEW e \in Events,
           log' = Append(log, e), items' = Append(items, ApplyEvent(Now, e))
    PROVE  HistoryInv'
  <1>1. /\ log \in Seq(Events) /\ Len(log) \in Nat /\ items \in Seq(Items)
        /\ Len(items) = Len(log) + 1
    BY DEF PlaneInv, LogInv, Numbered, HistoryInv
  <1>2. Now \in Items /\ Now = Folded(log)
    <2>1. SubSeq(log, 1, Len(log)) = log
      BY <1>1
    <2>2. Len(log) \in 0..Len(log) /\ Len(log) + 1 \in 1..Len(items)
      BY <1>1
    <2>3. At(Len(log)) = Folded(SubSeq(log, 1, Len(log)))
      BY <2>2, Zenon DEF HistoryInv
    <2>4. items[Len(log) + 1] \in Items
      BY <1>1, <2>2
    <2> QED BY <2>1, <2>3, <2>4, Zenon DEF Now, At
  <1>3. ApplyEvent(Now, e) \in Items /\ ApplyEvent(Now, e) = Folded(Append(log, e))
    BY <1>1, <1>2, ApplyEventType, FoldedAppend, Zenon
  <1>4. items' \in Seq(Items) /\ Len(items') = Len(log') + 1 /\ Len(log') = Len(log) + 1
    BY <1>1, <1>3
  <1>5. ASSUME NEW n \in 0..Len(log') PROVE items'[n + 1] = Folded(SubSeq(log', 1, n))
    <2>1. CASE n <= Len(log)
      <3>1. SubSeq(log', 1, n) = SubSeq(log, 1, n)
        BY <1>1, <2>1
      <3>2. items'[n + 1] = items[n + 1]
        BY <1>1, <1>3, <2>1
      <3>3. n \in 0..Len(log)
        BY <1>1, <2>1
      <3> QED BY <3>1, <3>2, <3>3, Zenon DEF HistoryInv, At
    <2>2. CASE n = Len(log) + 1
      <3>1. SubSeq(log', 1, n) = log'
        BY <1>1, <2>2
      <3>2. items'[n + 1] = ApplyEvent(Now, e)
        BY <1>1, <1>3, <2>2
      <3> QED BY <1>3, <3>1, <3>2, Zenon
    <2> QED BY <1>1, <1>4, <2>1, <2>2
  <1> QED BY <1>4, <1>5, Zenon DEF HistoryInv, At

\* What is in the log, and the items of its revisions, stay.
Stays ==
    /\ mode' = mode
    /\ Len(log) \in Nat /\ Len(log') \in Nat /\ Len(log) <= Len(log')
    /\ \A i \in 1..Len(log) : log'[i] = log[i]
    /\ \A n \in 0..Len(log) : items'[n + 1] = items[n + 1]

LEMMA QuietStays ==
    ASSUME PlaneInv, HistoryInv, UNCHANGED <<mode, log, items>>
    PROVE  HistoryInv' /\ Stays
  BY DEF PlaneInv, LogInv, Numbered, HistoryInv, Stays, At

LEMMA TransactStays ==
    ASSUME Counting, PlaneInv, HistoryInv, mode' = mode, NEW kind, NEW id, NEW doc,
           Event(kind, id, doc) \in Events,
           Transact(kind, id, doc, ApplyEvent(Now, Event(kind, id, doc)))
    PROVE  HistoryInv' /\ Stays
  <1>1. PICK e \in Events : log' = Append(log, e) /\ items' = Append(items, ApplyEvent(Now, e))
    BY Zenon DEF Transact
  <1>2. HistoryInv'
    BY <1>1, TransactHistory, Zenon
  <1>3. /\ log \in Seq(Events) /\ items \in Seq(Items) /\ Len(items) = Len(log) + 1
        /\ items' \in Seq(Items)
    BY <1>2, Zenon DEF PlaneInv, LogInv, Numbered, HistoryInv
  <1>4. \A i \in 1..Len(log) : log'[i] = log[i]
    BY <1>1, <1>3
  <1>5. \A n \in 0..Len(log) : items'[n + 1] = items[n + 1]
    <2> SUFFICES ASSUME NEW n \in 0..Len(log) PROVE items'[n + 1] = items[n + 1]
      BY Zenon
    <2>1. n + 1 \in 1..Len(items)
      BY <1>3
    <2> QED BY <1>1, <1>3, <2>1
  <1>6. Len(log) \in Nat /\ Len(log') = Len(log) + 1
    BY <1>1, <1>3
  <1> QED BY <1>2, <1>4, <1>5, <1>6 DEF Stays

LEMMA PutPrincipalStays ==
    ASSUME Counting, PlaneInv, HistoryInv, mode' = mode, NEW c \in Slots,
           calls[c].op = "upsert", PutPrincipal(c)
    PROVE  HistoryInv' /\ Stays
  <1> DEFINE e == Event("principal.upserted", calls[c].id, calls[c].doc)
  <1>1. e \in Events
    BY EventTyped, Zenon DEF PlaneInv, Reads, PutPrincipal, Transact
  <1>2. ApplyEvent(Now, e) = [Now EXCEPT !.principals[calls[c].id] = calls[c].doc]
    BY Zenon DEF ApplyEvent, Event
  <1> QED BY <1>1, <1>2, TransactStays, Zenon DEF PutPrincipal

LEMMA DeletePromotionStays ==
    ASSUME Counting, PlaneInv, HistoryInv, mode' = mode, NEW c \in Slots,
           calls[c].op = "tombstone", DeletePromotion(c)
    PROVE  HistoryInv' /\ Stays
  <1> DEFINE e == Event("resource.tombstoned", calls[c].id, None)
  <1>1. e \in Events
    BY EventTyped, Zenon DEF PlaneInv, Reads, DeletePromotion, Transact
  <1>2. ApplyEvent(Now, e) = [Now EXCEPT !.promoted = @ \ {calls[c].id}]
    BY Zenon DEF ApplyEvent, Event
  <1> QED BY <1>1, <1>2, TransactStays, Zenon DEF DeletePromotion

LEMMA ChangeStatusStays ==
    ASSUME Counting, PlaneInv, HistoryInv, NEW kind \in DOMAIN StatusAfter, ChangeStatus(kind)
    PROVE  HistoryInv' /\ Stays
  <1> DEFINE e == Event(kind, None, None)
  <1>1. kind \in StatusKinds
    BY Zenon DEF StatusAfter
  <1>2. e \in Events
    BY <1>1, EventTyped, Zenon DEF ChangeStatus, Transact
  <1>3. ApplyEvent(Now, e) = [Now EXCEPT !.status = StatusAfter[kind]]
    BY <1>1, Zenon DEF ApplyEvent, Event, StatusKinds
  <1> QED BY <1>2, <1>3, TransactStays, Zenon DEF ChangeStatus

LEMMA PromoteStays ==
    ASSUME Counting, PlaneInv, HistoryInv, NEW id \in Modes[mode].ids, Promote(id)
    PROVE  HistoryInv' /\ Stays
  <1> DEFINE e == Event("resource.promoted", id, None)
  <1>1. e \in Events
    BY EventTyped, ConstantsAssumption, Zenon DEF PlaneInv, LogInv, Promote, Transact
  <1>2. ApplyEvent(Now, e) = [Now EXCEPT !.promoted = @ \cup {id}]
    BY Zenon DEF ApplyEvent, Event
  <1> QED BY <1>1, <1>2, TransactStays, Zenon DEF Promote

\* Every step keeps the history, and only adds to it.
LEMMA HistoryStep ==
    ASSUME Counting, PlaneInv, HistoryInv, [Next]_vars
    PROVE  HistoryInv' /\ Stays
  <1>1. ASSUME NEW c \in Slots, AppendPrincipal(c) \/ AppendTombstone(c) \/ Fails(c)
        PROVE  HistoryInv' /\ Stays
    <2>1. /\ mode' = mode
          /\ \/ calls[c].op = "upsert" /\ PutPrincipal(c)
             \/ calls[c].op = "tombstone" /\ DeletePromotion(c)
             \/ UNCHANGED <<log, items>>
      BY <1>1, Zenon DEF AppendPrincipal, AppendTombstone, Fails
    <2> QED BY <2>1, QuietStays, PutPrincipalStays, DeletePromotionStays, Zenon
  <1>2. ASSUME NEW kind \in DOMAIN StatusAfter, ChangeStatus(kind) PROVE HistoryInv' /\ Stays
    BY <1>2, ChangeStatusStays, Zenon
  <1>3. ASSUME NEW id \in Modes[mode].ids, Promote(id) PROVE HistoryInv' /\ Stays
    BY <1>3, PromoteStays, Zenon
  <1>4. ASSUME NEW c \in Slots,
               \/ \E op \in Operations : Begin(c, op)
               \/ Gate(c) \/ CheckMin(c) \/ ReadEvents(c) \/ Poll(c) \/ Rerun(c)
               \/ ReadPromotions(c) \/ Latest(c) \/ ReadPrincipal(c) \/ ReadPromotion(c)
               \/ Target(c) \/ Collect(c) \/ Fold(c) \/ Take(c)
        PROVE  UNCHANGED <<mode, log, items>>
    BY <1>4, Zenon
       DEF Begin, Gate, CheckMin, ReadEvents, Poll, Rerun, ReadPromotions, Latest,
           ReadPrincipal, ReadPromotion, Target, Collect, Fold, Take, Unread
  <1>5. ASSUME NEW r \in Replicas, Replicate(r) PROVE UNCHANGED <<mode, log, items>>
    BY <1>5, Zenon DEF Replicate
  <1>6. CASE UNCHANGED vars
    BY <1>6, QuietStays, Zenon DEF vars
  <1>7. CASE Next
    BY <1>7, <1>1, <1>2, <1>3, <1>4, <1>5, QuietStays, Zenon DEF Next, Step
  <1> QED BY <1>6, <1>7, Zenon

LEMMA HistoryInit ==
    ASSUME Counting, Init
    PROVE  HistoryInv
  <1>1. log \in Seq(Events) /\ Len(log) \in Nat
    BY InvInit DEF PlaneInv, LogInv, Numbered
  <1>2. items = [n \in 1..Len(log) + 1 |-> Folded(SubSeq(log, 1, n - 1))]
    BY Zenon DEF Init
  <1>3. \A n \in 1..Len(log) + 1 : SubSeq(log, 1, n - 1) \in Seq(Events)
    BY <1>1
  <1>4. items \in [1..Len(log) + 1 -> Items]
    BY <1>2, <1>3, FoldedType, Zenon
  <1>5. items \in Seq(Items) /\ Len(items) = Len(log) + 1
    BY <1>1, <1>4
  <1>6. \A n \in 0..Len(log) : items[n + 1] = Folded(SubSeq(log, 1, n))
    BY <1>1, <1>2
  <1> QED BY <1>5, <1>6, Zenon DEF HistoryInv, At
-----------------------------------------------------------------------------
(* What requests and walks know.                                           *)

\* Where a request can be.
PlaceTold(call) ==
    /\ call.op = None \/ call.op \in Operations
    /\ call.op = None => call.at = "idle"
    /\ call.op \in {"upsert", "tombstone"} =>
          call.at \in {"gate", "read", "append", "latest", "answered"} /\ call.min = None
    /\ call.op = "events" =>
          /\ call.at \in {"gate", "min", "page", "watch", "rerun", "latest", "answered"}
          /\ call.after \in 0..MaxRevision
    /\ call.op = "list" => call.at \in {"gate", "min", "page", "latest", "answered"}
    /\ call.op = "fold" => call.at \in {"target", "collect", "fold", "answered"}
    /\ call.min = None \/ call.min \in Nat
    /\ call.start \in 0..Len(log)

\* An upsert has found its document stored, or has stored it.
UpsertTold(call) ==
    call.op = "upsert" =>
        /\ call.at \in {"append", "latest"} /\ call.code = 201 =>
              Stored(call.id, None, call.start, Len(log))
        /\ call.at = "latest" => Stored(call.id, call.doc, call.start, Len(log))
        /\ call.at = "answered" /\ call.code \in {200, 201} =>
              /\ call.revision \in 0..Len(log)
              /\ Stored(call.id, call.doc, call.start, call.revision)
              /\ call.code = 201 => Stored(call.id, None, call.start, call.revision)

\* A tombstone has removed the promotion, or has found none.
TombstoneTold(call) ==
    call.op = "tombstone" =>
        /\ call.at = "latest" => call.code = 204 /\ Unpromoted(call.id, call.start, Len(log))
        /\ call.at = "answered" /\ call.code = 204 =>
              call.revision \in 0..Len(log) /\ Unpromoted(call.id, call.start, call.revision)
        /\ call.at = "answered" /\ call.code = 200 =>
              call.revision \in 1..Len(log) /\ Removed(call.id, call.revision)

\* The page of a response is not ahead of its revision.
EventsTold(call) ==
    call.op = "events" /\ call.at = "answered" /\ call.code = 200 =>
        \A i \in 1..Len(call.page) : call.page[i].seq <= call.revision

\* A page was one of the log at some revision since another.
Viewed(op, page, listed, after, since) ==
    \E n \in since..Len(log) :
        IF op = "events" THEN page \in EventsAfter(n, after, Limit)
        ELSE listed = PromotionsAfter(n, after)

\* A request that has a page, or its answer.
HasPage(call) ==
    call.at \in {"watch", "rerun", "latest"} \/ (call.at = "answered" /\ call.code = 200)

DemandTold(call) ==
    call.op \in {"events", "list"} /\ call.min # None =>
        /\ call.at \in {"page", "watch", "rerun", "latest"} => call.min <= Len(log)
        /\ call.at = "answered" /\ call.code = 200 => call.revision >= call.min
        /\ ~Lag /\ HasPage(call) =>
              Viewed(call.op, call.page, call.listed, call.after, call.min)

\* A request for promotions goes on from where its walk is.
ListTold(call, w) ==
    call.op = "list" =>
        /\ w.since # None
        /\ call.after = w.after
        /\ ~Lag /\ HasPage(call) => Viewed("list", call.page, call.listed, w.after, w.since)

\* Whatever was promoted throughout a walk and is not behind its cursor has been seen.
Promised(after, seen, since) ==
    \A id \in Ids :
        id <= after /\ (\A n \in since..Len(log) : id \in At(n).promoted) => id \in seen

WalkTold(w) ==
    /\ DOMAIN w = {"after", "seen", "since"}
    /\ w.since = None \/ w.since \in 0..Len(log)
    /\ w.since = None => w.after = None
    /\ ~Lag /\ w.after # None => w.after \in Ids /\ Promised(w.after, w.seen, w.since)

\* The revision a historical read is for.
Aimed(min, start, revision) ==
    /\ revision \in Nat
    /\ min = None => revision \in start..Len(log) /\ revision # 0
    /\ min # None => revision = min

Exact == ~Lag /\ ~Modes[mode].short

\* A historical read has a prefix of the log, which without lag and short pages
\* reaches the revision it is for unless there was none when it began.
FoldTold(call) ==
    call.op = "fold" =>
        /\ call.at = "target" => call.page = << >>
        /\ call.at \in {"collect", "fold"} =>
              /\ Continues(log, call.page, 0) /\ call.after = Len(call.page)
              /\ Aimed(call.min, call.start, call.revision)
        /\ call.at = "fold" /\ Exact =>
              call.revision <= Len(call.page) \/ (call.min # None /\ call.min > call.start)
        /\ call.at = "answered" /\ call.code = 200 =>
              /\ call.revision \in 0..Len(log) /\ call.result = At(call.revision)
              /\ call.min = None => call.revision >= call.start
              /\ call.min # None => call.revision = call.min
        /\ call.at = "answered" /\ call.code = 500 /\ errors = 0 /\ Exact =>
              call.min = 0 \/ (call.min # None /\ call.min > call.start)

Told(call, w) ==
    /\ PlaceTold(call) /\ UpsertTold(call) /\ TombstoneTold(call) /\ EventsTold(call)
    /\ DemandTold(call) /\ ListTold(call, w) /\ FoldTold(call) /\ WalkTold(w)

AnswerInv ==
    /\ PlaneInv /\ HistoryInv
    /\ errors \in Nat
    /\ DOMAIN walks = Slots
    /\ \A c \in Slots : Told(calls[c], walks[c])
-----------------------------------------------------------------------------
(* What was true of the log stays true of it.                              *)

\* The steps of the system, as seen by a request they do not belong to.
Onward ==
    /\ AnswerInv /\ PlaneInv' /\ HistoryInv' /\ Stays
    /\ errors' = errors \/ errors' = errors + 1

LEMMA ItemsStay ==
    ASSUME Stays, NEW n \in 0..Len(log)
    PROVE  At(n)' = At(n)
  BY Zenon DEF Stays, At

LEMMA StoredStays ==
    ASSUME Stays, NEW id, NEW doc, NEW from \in Nat, NEW to \in 0..Len(log), NEW later \in Nat,
           to <= later, Stored(id, doc, from, to)
    PROVE  Stored(id, doc, from, later)'
  <1>1. PICK n \in from..to : At(n).principals[id] = doc
    BY Zenon DEF Stored
  <1>2. n \in 0..Len(log) /\ n \in from..later
    BY <1>1 DEF Stays
  <1>3. At(n)' = At(n)
    BY <1>2, ItemsStay, Zenon
  <1> QED BY <1>1, <1>2, <1>3, Zenon DEF Stored

LEMMA UnpromotedStays ==
    ASSUME Stays, NEW id, NEW from \in Nat, NEW to \in 0..Len(log), NEW later \in Nat,
           to <= later, Unpromoted(id, from, to)
    PROVE  Unpromoted(id, from, later)'
  <1>1. PICK n \in from..to : id \notin At(n).promoted
    BY Zenon DEF Unpromoted
  <1>2. n \in 0..Len(log) /\ n \in from..later
    BY <1>1 DEF Stays
  <1>3. At(n)' = At(n)
    BY <1>2, ItemsStay, Zenon
  <1> QED BY <1>1, <1>2, <1>3, Zenon DEF Unpromoted

LEMMA RemovedStays ==
    ASSUME Stays, NEW id, NEW n \in 1..Len(log), Removed(id, n)
    PROVE  Removed(id, n)'
  <1>1. log'[n] = log[n] /\ n - 1 \in 0..Len(log)
    BY DEF Stays
  <1>2. At(n - 1)' = At(n - 1)
    BY <1>1, ItemsStay, Zenon
  <1> QED BY <1>1, <1>2, Zenon DEF Removed

\* A query sees at a revision what it saw.
LEMMA ViewStays ==
    ASSUME Onward, NEW n \in 0..Len(log), NEW after, NEW limit \in Nat \ {0}
    PROVE  /\ PromotionsAfter(n, after)' = PromotionsAfter(n, after)
           /\ after \in 0..MaxRevision => EventsAfter(n, after, limit)' = EventsAfter(n, after, limit)
  <1>1. At(n)' = At(n)
    BY ItemsStay, Zenon DEF Onward
  <1>2. PromotionsAfter(n, after)' = PromotionsAfter(n, after)
    BY <1>1, Zenon DEF PromotionsAfter
  <1>3. ASSUME after \in 0..MaxRevision
        PROVE  EventsAfter(n, after, limit)' = EventsAfter(n, after, limit)
    <2> DEFINE first == Successor(after)
               last == IF first + limit - 1 < n THEN first + limit - 1 ELSE n
    <2>1. /\ log \in Seq(Events) /\ log' \in Seq(Events) /\ Len(log) <= Len(log')
          /\ \A i \in 1..Len(log) : log'[i] = log[i]
          /\ mode' = mode
      BY Zenon DEF Onward, AnswerInv, PlaneInv, LogInv, Numbered, Stays
    <2>2. first \in Nat \ {0} /\ last \in 0..Len(log)
      BY <1>3, <2>1, ConstantsAssumption DEF Successor, Onward, Stays
    <2>3. PICK from \in Nat \ {0}, to \in 0..Len(log) : from = first /\ to = last
      BY <2>2, Zenon
    <2> HIDE DEF first, last
    <2>4. SubSeq(log', from, to) = SubSeq(log, from, to)
      <3> DEFINE old == SubSeq(log, from, to)
                 new == SubSeq(log', from, to)
                 size == IF from <= to THEN to - from + 1 ELSE 0
      <3>1. old \in Seq(Events) /\ new \in Seq(Events) /\ Len(old) = size /\ Len(new) = size
        BY <2>1, <2>3
      <3>2. ASSUME NEW i \in 1..size PROVE new[i] = old[i]
        <4>1. from + i - 1 \in 1..Len(log)
          BY <2>1, <2>3
        <4>2. old[i] = log[from + i - 1]
          BY <2>1, <2>3
        <4>3. new[i] = log'[from + i - 1]
          BY <2>1, <2>3
        <4> QED BY <2>1, <4>1, <4>2, <4>3, Zenon
      <3> HIDE DEF old, new, size
      <3>3. old = [i \in 1..Len(old) |-> old[i]] /\ new = [i \in 1..Len(new) |-> new[i]]
        BY <3>1
      <3>4. new = old
        BY <3>1, <3>2, <3>3, Zenon
      <3> QED BY <3>4, Zenon DEF old, new
    <2>5. SubSeq(log, first, last)' = SubSeq(log, first, last)
      BY <2>3, <2>4, Zenon DEF first, last, Successor
    <2> QED BY <2>1, <2>5, Zenon DEF first, last, EventsAfter, Successor
  <1> QED BY <1>2, <1>3, Zenon

LEMMA ViewedStays ==
    ASSUME Onward, NEW op, NEW page, NEW listed, NEW after, NEW since \in Nat,
           op = "events" => after \in 0..MaxRevision,
           Viewed(op, page, listed, after, since)
    PROVE  Viewed(op, page, listed, after, since)'
  <1>1. PICK n \in since..Len(log) :
            IF op = "events" THEN page \in EventsAfter(n, after, Limit)
            ELSE listed = PromotionsAfter(n, after)
    BY Zenon DEF Viewed
  <1>2. n \in 0..Len(log) /\ n \in since..Len(log')
    BY <1>1 DEF Onward, Stays
  <1>3. Limit \in Nat \ {0}
    BY ConstantsAssumption, Zenon
  <1>4. IF op = "events" THEN page \in EventsAfter(n, after, Limit)'
        ELSE listed = PromotionsAfter(n, after)'
    BY <1>1, <1>2, <1>3, ViewStays, Zenon
  <1> QED BY <1>2, <1>4, Zenon DEF Viewed

LEMMA PromisedStays ==
    ASSUME Stays, NEW after, NEW seen, NEW since \in 0..Len(log), Promised(after, seen, since)
    PROVE  Promised(after, seen, since)'
  <1> SUFFICES ASSUME NEW id \in Ids, id <= after,
                      \A n \in since..Len(log') : id \in At(n)'.promoted
               PROVE  id \in seen
    BY Zenon DEF Promised
  <1>1. \A n \in since..Len(log) : n \in since..Len(log') /\ n \in 0..Len(log)
    BY DEF Stays
  <1>2. \A n \in since..Len(log) : id \in At(n).promoted
    BY <1>1, ItemsStay, Zenon
  <1> QED BY <1>2, Zenon DEF Promised

LEMMA ContinuesOn ==
    ASSUME Stays, NEW page, NEW after \in Nat, Continues(log, page, after)
    PROVE  Continues(log', page, after)
  <1>1. \A i \in 1..Len(page) : after + i \in 1..Len(log)
    BY DEF Continues
  <1> QED BY <1>1 DEF Continues, Stays

LEMMA UpsertStays ==
    ASSUME Onward, NEW call, PlaceTold(call), UpsertTold(call)
    PROVE  UpsertTold(call)'
  <1>1. /\ Stays /\ call.start \in Nat
        /\ Len(log) \in 0..Len(log) /\ Len(log') \in Nat /\ Len(log) <= Len(log')
    BY DEF Onward, Stays, PlaceTold
  <1>2. \A doc : Stored(call.id, doc, call.start, Len(log)) =>
                    Stored(call.id, doc, call.start, Len(log))'
    <2>1. PICK later \in Nat : later = Len(log')
      BY <1>1, Zenon
    <2>2. \A doc : Stored(call.id, doc, call.start, Len(log)) =>
                      Stored(call.id, doc, call.start, later)'
      BY <1>1, <2>1, StoredStays, Zenon
    <2> QED BY <2>1, <2>2, Zenon
  <1>3. \A doc : call.revision \in 0..Len(log) /\ Stored(call.id, doc, call.start, call.revision) =>
                    Stored(call.id, doc, call.start, call.revision)'
    BY <1>1, StoredStays
  <1>4. call.revision \in 0..Len(log) => call.revision \in 0..Len(log')
    BY <1>1
  <1> QED BY <1>2, <1>3, <1>4, ZenonT(30) DEF UpsertTold

LEMMA TombstoneStays ==
    ASSUME Onward, NEW call, PlaceTold(call), TombstoneTold(call)
    PROVE  TombstoneTold(call)'
  <1>1. /\ Stays /\ call.start \in Nat
        /\ Len(log) \in 0..Len(log) /\ Len(log') \in Nat /\ Len(log) <= Len(log')
    BY DEF Onward, Stays, PlaceTold
  <1>2. Unpromoted(call.id, call.start, Len(log)) => Unpromoted(call.id, call.start, Len(log))'
    <2>1. PICK later \in Nat : later = Len(log')
      BY <1>1, Zenon
    <2>2. Unpromoted(call.id, call.start, Len(log)) => Unpromoted(call.id, call.start, later)'
      BY <1>1, <2>1, UnpromotedStays, Zenon
    <2> QED BY <2>1, <2>2, Zenon
  <1>3. call.revision \in 0..Len(log) /\ Unpromoted(call.id, call.start, call.revision) =>
            Unpromoted(call.id, call.start, call.revision)'
    BY <1>1, UnpromotedStays
  <1>4. call.revision \in 1..Len(log) /\ Removed(call.id, call.revision) =>
            Removed(call.id, call.revision)'
    BY <1>1, RemovedStays, Zenon
  <1>5. /\ call.revision \in 0..Len(log) => call.revision \in 0..Len(log')
        /\ call.revision \in 1..Len(log) => call.revision \in 1..Len(log')
    BY <1>1
  <1> QED BY <1>2, <1>3, <1>4, <1>5, Zenon DEF TombstoneTold

LEMMA DemandStays ==
    ASSUME Onward, NEW call, PlaceTold(call), DemandTold(call)
    PROVE  DemandTold(call)'
  <1>1. /\ Len(log) \in Nat /\ Len(log') \in Nat /\ Len(log) <= Len(log')
        /\ Lag' = Lag /\ HasPage(call)' = HasPage(call)
    BY Zenon DEF Onward, Stays, Lag, HasPage
  <1>2. /\ call.min # None => call.min \in Nat
        /\ call.op = "events" => call.after \in 0..MaxRevision
    BY Zenon DEF PlaceTold
  <1>3. call.min # None /\ Viewed(call.op, call.page, call.listed, call.after, call.min) =>
            Viewed(call.op, call.page, call.listed, call.after, call.min)'
    BY <1>2, ViewedStays, Zenon
  <1>4. call.min # None /\ call.min <= Len(log) => call.min <= Len(log')
    BY <1>1, <1>2
  <1> QED BY <1>1, <1>3, <1>4, Zenon DEF DemandTold

LEMMA ListStays ==
    ASSUME Onward, NEW call, NEW w, WalkTold(w), ListTold(call, w)
    PROVE  ListTold(call, w)'
  <1>1. Lag' = Lag /\ HasPage(call)' = HasPage(call)
    BY Zenon DEF Onward, Stays, Lag, HasPage
  <1>2. w.since # None => w.since \in Nat
    BY DEF WalkTold
  <1>3. w.since # None /\ Viewed("list", call.page, call.listed, w.after, w.since) =>
            Viewed("list", call.page, call.listed, w.after, w.since)'
    BY <1>2, ViewedStays, Zenon
  <1> QED BY <1>1, <1>3, Zenon DEF ListTold

LEMMA WalkStays ==
    ASSUME Onward, NEW w, WalkTold(w)
    PROVE  WalkTold(w)'
  <1>1. /\ Stays /\ Lag' = Lag
        /\ w.since \in 0..Len(log) => w.since \in 0..Len(log')
    BY DEF Onward, Stays, Lag
  <1>2. w.after # None => w.since \in 0..Len(log)
    BY Zenon DEF WalkTold
  <1>3. w.after # None /\ Promised(w.after, w.seen, w.since) => Promised(w.after, w.seen, w.since)'
    BY <1>1, <1>2, PromisedStays, Zenon
  <1> QED BY <1>1, <1>3, Zenon DEF WalkTold

LEMMA FoldStays ==
    ASSUME Onward, NEW call, PlaceTold(call), FoldTold(call)
    PROVE  FoldTold(call)'
  <1>1. /\ Stays /\ Exact' = Exact /\ (errors' = 0 => errors = 0)
        /\ Len(log) \in Nat /\ Len(log') \in Nat /\ Len(log) <= Len(log')
    BY DEF Onward, Stays, Exact, Lag, AnswerInv
  <1>2. Continues(log, call.page, 0) => Continues(log', call.page, 0)
    BY <1>1, ContinuesOn, Zenon
  <1>3. Aimed(call.min, call.start, call.revision) => Aimed(call.min, call.start, call.revision)'
    BY <1>1 DEF Aimed, PlaceTold
  <1>4. call.revision \in 0..Len(log) =>
            call.revision \in 0..Len(log') /\ At(call.revision)' = At(call.revision)
    BY <1>1, ItemsStay
  <1> QED BY <1>1, <1>2, <1>3, <1>4, ZenonT(30) DEF FoldTold

\* What a request and a walk know stays true whatever else happens.
LEMMA ToldStays ==
    ASSUME Onward, NEW call, NEW w, Told(call, w)
    PROVE  Told(call, w)'
  <1>1. PlaceTold(call)'
    <2>1. call.start \in 0..Len(log) => call.start \in 0..Len(log')
      BY DEF Onward, Stays
    <2> QED BY <2>1, Zenon DEF Told, PlaceTold
  <1>2. EventsTold(call)'
    BY Zenon DEF Told, EventsTold
  <1> QED BY <1>1, <1>2, UpsertStays, TombstoneStays, DemandStays, ListStays, WalkStays, FoldStays,
             Zenon
          DEF Told

\* The request in slot c changes, and no other.
Becomes(c, new) == calls' = [calls EXCEPT ![c] = new]

\* Only the request in slot c and its walk change.
LEMMA OneTold ==
    ASSUME Onward, NEW c \in Slots, NEW new, NEW v, Becomes(c, new),
           DOMAIN walks' = Slots, walks'[c] = v, \A d \in Slots \ {c} : walks'[d] = walks[d],
           Told(new, v)'
    PROVE  AnswerInv'
  <1>1. DOMAIN calls = Slots /\ errors' \in Nat
    BY DEF Onward, AnswerInv, PlaneInv
  <1>2. calls'[c] = new /\ \A d \in Slots \ {c} : calls'[d] = calls[d]
    BY <1>1, Zenon DEF Becomes
  <1>3. ASSUME NEW d \in Slots PROVE Told(calls[d], walks[d])'
    <2>1. CASE d = c
      BY <1>2, <2>1, Zenon
    <2>2. CASE d # c
      <3>1. PICK call, w : call = calls[d] /\ w = walks[d]
        BY Zenon
      <3>2. Told(call, w)'
        BY <3>1, ToldStays, Zenon DEF Onward, AnswerInv
      <3> QED BY <1>2, <2>2, <3>1, <3>2, Zenon
    <2> QED BY <2>1, <2>2, Zenon
  <1> QED BY <1>1, <1>2, <1>3, Zenon DEF AnswerInv, Onward

\* Nothing changes for the requests.
LEMMA NoneTold ==
    ASSUME Onward, UNCHANGED <<calls, walks>>
    PROVE  AnswerInv'
  <1>1. ASSUME NEW d \in Slots PROVE Told(calls[d], walks[d])'
    <2>1. PICK call, w : call = calls[d] /\ w = walks[d]
      BY Zenon
    <2>2. Told(call, w)'
      BY <2>1, ToldStays, Zenon DEF Onward, AnswerInv
    <2> QED BY <2>1, <2>2, Zenon
  <1>2. errors' \in Nat /\ DOMAIN walks' = Slots
    BY DEF Onward, AnswerInv
  <1> QED BY <1>1, <1>2, Zenon DEF AnswerInv, Onward

\* The promotions at a revision.
LEMMA PromotedIds ==
    ASSUME HistoryInv, Len(log) \in Nat, NEW n \in 0..Len(log)
    PROVE  At(n).promoted \in SUBSET Ids
  <1>1. n + 1 \in 1..Len(items) /\ items \in Seq(Items)
    BY DEF HistoryInv
  <1>2. items[n + 1] \in Items
    BY <1>1
  <1> QED BY <1>2, Zenon DEF At, Items

\* An empty page ends a walk: nothing that was promoted throughout is missing.
LEMMA WalkEnds ==
    ASSUME Counting, HistoryInv, Len(log) \in Nat, NEW w, WalkTold(w), ~Lag, w.since # None, NEW page,
           NEW listed, Viewed("list", page, listed, w.after, w.since), listed = {},
           NEW id \in Ids, \A n \in w.since..Len(log) : id \in At(n).promoted
    PROVE  id \in w.seen
  <1>1. PICK n \in w.since..Len(log) : listed = PromotionsAfter(n, w.after)
    BY Zenon DEF Viewed
  <1>2. n \in 0..Len(log) /\ (w.after = None \/ w.after \in Nat)
    <2>1. w.since \in Nat
      BY DEF WalkTold
    <2>2. w.after # None => w.after \in Nat
      BY ConstantsAssumption, Zenon DEF WalkTold
    <2> QED BY <1>1, <2>1, <2>2
  <1>3. At(n).promoted \in SUBSET Ids
    BY <1>2, PromotedIds, Zenon
  <1>4. w.after # None /\ id <= w.after
    BY <1>1, <1>2, <1>3, PageIsFirst, Zenon
  <1> QED BY <1>4, Zenon DEF WalkTold, Promised

\* A page that is not empty: the walk goes on behind the last of it.
LEMMA WalkGoesOn ==
    ASSUME Counting, HistoryInv, Len(log) \in Nat, NEW w, WalkTold(w), ~Lag, w.since # None, NEW page,
           NEW listed, Viewed("list", page, listed, w.after, w.since), listed # {},
           NEW m, m = CHOOSE i \in listed : \A j \in listed : j <= i
    PROVE  m \in Ids /\ Promised(m, w.seen \cup listed, w.since)
  <1>1. PICK n \in w.since..Len(log) : listed = PromotionsAfter(n, w.after)
    BY Zenon DEF Viewed
  <1>2. n \in 0..Len(log) /\ (w.after = None \/ w.after \in Nat)
    <2>1. w.since \in Nat
      BY DEF WalkTold
    <2>2. w.after # None => w.after \in Nat
      BY ConstantsAssumption, Zenon DEF WalkTold
    <2> QED BY <1>1, <2>1, <2>2
  <1>3. At(n).promoted \in SUBSET Ids
    BY <1>2, PromotedIds, Zenon
  <1>4. /\ listed \in SUBSET Ids
        /\ \A i \in listed : \A id \in At(n).promoted :
              id <= i => id \in listed \/ (w.after # None /\ id <= w.after)
    BY <1>1, <1>2, <1>3, PageIsFirst
  <1>5. m \in listed
    <2>1. Ids \in SUBSET Nat /\ IsFiniteSet(Ids)
      BY ConstantsAssumption, Zenon
    <2>2. IsFiniteSet(listed)
      BY <1>4, <2>1, Zenon DEF Counting
    <2>3. listed \in SUBSET Nat
      BY <1>4, <2>1, Zenon
    <2>4. \E i \in listed : \A j \in listed : j <= i
      BY <2>2, <2>3, GreatestOf, Zenon
    <2> QED BY <2>4, Zenon
  <1>6. ASSUME NEW id \in Ids, id <= m, \A k \in w.since..Len(log) : id \in At(k).promoted
        PROVE  id \in w.seen \cup listed
    <2>1. id \in listed \/ (w.after # None /\ id <= w.after)
      BY <1>1, <1>4, <1>5, <1>6, Zenon
    <2>2. w.after # None /\ id <= w.after => id \in w.seen
      BY <1>6, Zenon DEF WalkTold, Promised
    <2> QED BY <2>1, <2>2, Zenon
  <1> QED BY <1>4, <1>5, <1>6, Zenon DEF Promised
-----------------------------------------------------------------------------
(* What a request does for itself.                                         *)

\* The request in a slot and its walk, before and after a step.
LEMMA Focus ==
    ASSUME Onward, NEW c \in Slots
    PROVE  /\ DOMAIN calls = Slots
           /\ \E old, w : /\ old = calls[c] /\ w = walks[c] /\ DOMAIN old = Fields
                          /\ Told(old, w) /\ Told(old, w)'
  <1>1. PICK old, w : old = calls[c] /\ w = walks[c]
    BY Zenon
  <1>2. Told(old, w) /\ DOMAIN old = Fields /\ DOMAIN calls = Slots
    BY <1>1, Zenon DEF Onward, AnswerInv, PlaneInv, Reads
  <1>3. Told(old, w)'
    BY <1>2, ToldStays, Zenon
  <1> QED BY <1>1, <1>2, <1>3, Zenon

\* Only the request changes.
LEMMA CallTold ==
    ASSUME Onward, walks' = walks, NEW c \in Slots, NEW new, NEW w, w = walks[c],
           Becomes(c, new), Told(new, w)'
    PROVE  AnswerInv'
  <1>1. DOMAIN walks' = Slots /\ walks'[c] = w /\ \A d \in Slots \ {c} : walks'[d] = walks[d]
    BY Zenon DEF Onward, AnswerInv
  <1> QED BY <1>1, OneTold, Zenon

\* A request that is refused or fails says nothing.
Refusal(code) == code \in {404, 409, 412, 500} /\ (code = 500 => errors # 0)

LEMMA RefusedTold ==
    ASSUME NEW old, NEW new, NEW w, Told(old, w)', old.at # "idle",
           new.at = "answered", Refusal(new.code)',
           new.op = old.op, new.min = old.min, new.start = old.start, new.after = old.after
    PROVE  Told(new, w)'
  <1>1. /\ new.code # 200 /\ new.code # 201 /\ new.code # 204
        /\ new.code = 500 => errors' # 0
    BY DEF Refusal
  <1>2. PlaceTold(new)'
    BY ConstantsAssumption, Zenon DEF Told, PlaceTold, Operations
  <1>3. UpsertTold(new)' /\ TombstoneTold(new)' /\ EventsTold(new)'
    BY <1>1, Zenon DEF UpsertTold, TombstoneTold, EventsTold
  <1>4. DemandTold(new)' /\ ListTold(new, w)'
    BY <1>1 DEF Told, DemandTold, ListTold, HasPage
  <1>5. FoldTold(new)'
    BY <1>1, Zenon DEF FoldTold
  <1> QED BY <1>2, <1>3, <1>4, <1>5, Zenon DEF Told

\* An answer, as a change of the request.
LEMMA RespondIs ==
    ASSUME NEW c \in Slots, DOMAIN calls = Slots, NEW code, NEW revision,
           Respond(c, code, revision), NEW old, old = calls[c], DOMAIN old = Fields
    PROVE  \E new :
               /\ Becomes(c, new)
               /\ new.at = "answered" /\ new.code = code /\ new.revision = revision
               /\ new.op = old.op /\ new.id = old.id /\ new.doc = old.doc /\ new.min = old.min
               /\ new.start = old.start /\ new.after = old.after /\ new.page = old.page
               /\ new.listed = old.listed
  <1>1. PICK new : new = [old EXCEPT !.at = "answered", !.code = code, !.revision = revision]
    BY Zenon
  <1>2. Becomes(c, new)
    BY <1>1, Zenon DEF Respond, Becomes
  <1>3. /\ new.at = "answered" /\ new.code = code /\ new.revision = revision
        /\ new.op = old.op /\ new.id = old.id /\ new.doc = old.doc /\ new.min = old.min
        /\ new.start = old.start /\ new.after = old.after /\ new.page = old.page
        /\ new.listed = old.listed
    BY <1>1, Zenon DEF Fields
  <1> QED BY <1>2, <1>3, Zenon

LEMMA RefusedStep ==
    ASSUME Onward, walks' = walks, NEW c \in Slots, calls[c].at # "idle",
           NEW code, NEW revision, Refusal(code)', Respond(c, code, revision)
    PROVE  AnswerInv'
  <1>1. PICK old, w : /\ old = calls[c] /\ w = walks[c] /\ DOMAIN old = Fields
                      /\ Told(old, w) /\ Told(old, w)'
    BY Focus, Zenon
  <1>2. DOMAIN calls = Slots
    BY Focus, Zenon
  <1>3. PICK new :
            /\ Becomes(c, new)
            /\ new.at = "answered" /\ new.code = code /\ new.op = old.op /\ new.min = old.min
            /\ new.start = old.start /\ new.after = old.after
    BY <1>1, <1>2, RespondIs
  <1>4. Told(new, w)'
    BY <1>1, <1>3, RefusedTold, Zenon
  <1> QED BY <1>1, <1>3, <1>4, CallTold, Zenon

\* A request that only goes on to a place about which there is nothing to say.
LEMMA GoneOnTold ==
    ASSUME NEW old, NEW new, NEW w, Told(old, w)',
           \/ new.at = "read" /\ old.op \in {"upsert", "tombstone"}
           \/ new.at = "min" /\ old.op \in {"events", "list"}
           \/ /\ new.at = "page" /\ old.op \in {"events", "list"}
              /\ old.min # None => old.min <= Len(log)',
           new.op = old.op, new.min = old.min, new.start = old.start, new.after = old.after
    PROVE  Told(new, w)'
  <1>2. PlaceTold(new)'
    BY ConstantsAssumption, Zenon DEF Told, PlaceTold, Operations
  <1>3. UpsertTold(new)' /\ TombstoneTold(new)' /\ EventsTold(new)'
    BY Zenon DEF UpsertTold, TombstoneTold, EventsTold
  <1>4. DemandTold(new)' /\ ListTold(new, w)'
    BY Zenon DEF Told, DemandTold, ListTold, HasPage
  <1>5. FoldTold(new)'
    BY Zenon DEF FoldTold
  <1> QED BY <1>2, <1>3, <1>4, <1>5, Zenon DEF Told

LEMMA GoneOnStep ==
    ASSUME Onward, walks' = walks, NEW c \in Slots, NEW at, Goto(c, at),
           \/ at = "read" /\ calls[c].op \in {"upsert", "tombstone"}
           \/ at = "min" /\ calls[c].op \in {"events", "list"}
           \/ /\ at = "page" /\ calls[c].op \in {"events", "list"}
              /\ calls[c].min # None => calls[c].min <= Len(log')
    PROVE  AnswerInv'
  <1>1. PICK old, w : /\ old = calls[c] /\ w = walks[c] /\ DOMAIN old = Fields
                      /\ Told(old, w) /\ Told(old, w)'
    BY Focus, Zenon
  <1>2. PICK new : new = [old EXCEPT !.at = at]
    BY Zenon
  <1>3. /\ new.at = at /\ new.op = old.op /\ new.min = old.min
        /\ new.start = old.start /\ new.after = old.after
    BY <1>1, <1>2, Zenon DEF Fields
  <1>4. Becomes(c, new)
    BY <1>1, <1>2, Zenon DEF Goto, Becomes
  <1>5. Told(new, w)'
    BY <1>1, <1>3, GoneOnTold, Zenon
  <1> QED BY <1>1, <1>4, <1>5, CallTold, Zenon

LEMMA GateTold ==
    ASSUME Onward, NEW c \in Slots, Gate(c)
    PROVE  AnswerInv'
  <1>1. calls[c].at = "gate" /\ walks' = walks
    BY Zenon DEF Gate, Unread
  <1>2. calls[c].op \in {"upsert", "tombstone", "events", "list"}
    BY <1>1, ConstantsAssumption, Zenon DEF Onward, AnswerInv, Told, PlaceTold, Operations
  <1>3. ASSUME NEW code \in {404, 409}, Respond(c, code, None) PROVE AnswerInv'
    BY <1>1, <1>3, RefusedStep DEF Refusal
  <1>4. ASSUME NEW at, Goto(c, at),
               at = IF calls[c].op \in {"upsert", "tombstone"} THEN "read"
                    ELSE IF calls[c].min # None THEN "min" ELSE "page"
        PROVE  AnswerInv'
    BY <1>1, <1>2, <1>4, GoneOnStep, Zenon
  <1> QED BY <1>3, <1>4 DEF Gate

LEMMA CheckMinTold ==
    ASSUME Onward, NEW c \in Slots, CheckMin(c)
    PROVE  AnswerInv'
  <1>1. calls[c].at = "min" /\ walks' = walks /\ log' = log
    BY Zenon DEF CheckMin, Unread
  <1>2. /\ calls[c].op \in {"events", "list"}
        /\ calls[c].min # None => calls[c].min \in Nat
    BY <1>1, ConstantsAssumption, Zenon DEF Onward, AnswerInv, Told, PlaceTold, Operations
  <1>3. CASE Len(log) >= calls[c].min /\ Goto(c, "page")
    <2>1. calls[c].min # None => calls[c].min <= Len(log')
      BY <1>1, <1>2, <1>3, Zenon DEF Onward, Stays
    <2> QED BY <1>1, <1>2, <1>3, <2>1, GoneOnStep, Zenon
  <1>4. CASE Respond(c, 412, Len(log))
    BY <1>1, <1>4, RefusedStep DEF Refusal
  <1> QED BY <1>3, <1>4, Zenon DEF CheckMin

LEMMA FailsTold ==
    ASSUME Onward, NEW c \in Slots, Fails(c)
    PROVE  AnswerInv'
  <1>1. calls[c].at # "idle" /\ walks' = walks /\ errors' # 0 /\ Respond(c, 500, None)
    BY DEF Fails, Onward, AnswerInv
  <1> QED BY <1>1, RefusedStep, ZenonT(30) DEF Refusal
=============================================================================
