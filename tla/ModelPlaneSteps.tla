---------------------------- MODULE ModelPlaneSteps ----------------------------
(***************************************************************************)
(* What the requests of the model plane know of its log, and that every    *)
(* step of theirs and of others keeps it true; with the theorems that      *)
(* follow for their answers.                                               *)
(***************************************************************************)
EXTENDS ModelPlaneProofs, TLAPS

-----------------------------------------------------------------------------
(* Writers.                                                                *)

\* For a writer only what is said of its write matters.
LEMMA WriterTold ==
    ASSUME NEW old, NEW new, NEW w, Told(old, w)', old.op \in {"upsert", "tombstone"},
           new.at \in {"append", "latest", "answered"},
           new.op = old.op, new.min = old.min, new.start = old.start,
           UpsertTold(new)', TombstoneTold(new)'
    PROVE  Told(new, w)'
  <1>1. PlaceTold(new)'
    BY ConstantsAssumption, Zenon DEF Told, PlaceTold, Operations
  <1>2. EventsTold(new)' /\ DemandTold(new)' /\ ListTold(new, w)' /\ FoldTold(new)'
    BY Zenon DEF EventsTold, DemandTold, ListTold, FoldTold
  <1> QED BY <1>1, <1>2, Zenon DEF Told

\* A place and a code, as a change of the request.
Coded(c, at, code) == calls' = [calls EXCEPT ![c].at = at, ![c].code = code]

LEMMA CodedIs ==
    ASSUME NEW c \in Slots, DOMAIN calls = Slots, NEW at, NEW code, Coded(c, at, code),
           NEW old, old = calls[c], DOMAIN old = Fields
    PROVE  \E new :
               /\ Becomes(c, new)
               /\ new.at = at /\ new.code = code /\ new.op = old.op /\ new.id = old.id
               /\ new.doc = old.doc /\ new.min = old.min /\ new.start = old.start
  <1>1. PICK new : new = [old EXCEPT !.at = at, !.code = code]
    BY Zenon
  <1>2. Becomes(c, new)
    BY <1>1, Zenon DEF Becomes, Coded
  <1>3. /\ new.at = at /\ new.code = code /\ new.op = old.op /\ new.id = old.id
        /\ new.doc = old.doc /\ new.min = old.min /\ new.start = old.start
    BY <1>1, Zenon DEF Fields
  <1> QED BY <1>2, <1>3, Zenon

\* What is stored now has been stored since the request began.
LEMMA StoredNow ==
    ASSUME Onward, UNCHANGED <<log, items>>, NEW start \in 0..Len(log), NEW id
    PROVE  /\ \A doc : Now.principals[id] = doc => Stored(id, doc, start, Len(log))'
           /\ id \notin Now.promoted => Unpromoted(id, start, Len(log))'
  <1>1. Len(log) \in Nat /\ Len(log) \in start..Len(log')
    BY DEF Onward, Stays
  <1>2. At(Len(log))' = At(Len(log))
    BY Zenon DEF At
  <1> QED BY <1>1, <1>2, Zenon DEF Stored, Unpromoted, Now

LEMMA ReadPrincipalTold ==
    ASSUME Onward, NEW c \in Slots, ReadPrincipal(c)
    PROVE  AnswerInv'
  <1>1. PICK old, w : /\ old = calls[c] /\ w = walks[c] /\ DOMAIN old = Fields
                      /\ Told(old, w) /\ Told(old, w)'
    BY Focus, Zenon
  <1>2. UNCHANGED <<log, items, walks>> /\ old.op = "upsert" /\ DOMAIN calls = Slots
    BY <1>1, Focus, Zenon DEF ReadPrincipal, Unread
  <1> DEFINE existing == Now.principals[calls[c].id]
  <1>3. PICK at, code : /\ Coded(c, at, code)
                        /\ at = IF existing = calls[c].doc THEN "latest" ELSE "append"
                        /\ code = IF existing = None THEN 201 ELSE 200
    <2>1. Coded(c, IF existing = calls[c].doc THEN "latest" ELSE "append",
                   IF existing = None THEN 201 ELSE 200)
      BY Zenon DEF ReadPrincipal, Coded
    <2> HIDE DEF existing
    <2> QED BY <2>1, ZenonT(60)
  <1> HIDE DEF existing
  <1>4. PICK new :
            /\ Becomes(c, new)
            /\ new.at = at /\ new.code = code /\ new.op = old.op /\ new.id = old.id
            /\ new.doc = old.doc /\ new.min = old.min /\ new.start = old.start
    BY <1>1, <1>2, <1>3, CodedIs
  <1>5. old.start \in 0..Len(log)
    BY <1>1, Zenon DEF Told, PlaceTold
  <1>6. /\ new.at = "latest" => Stored(new.id, new.doc, new.start, Len(log))'
        /\ new.code = 201 => Stored(new.id, None, new.start, Len(log))'
        /\ new.at \in {"append", "latest"}
    BY <1>1, <1>2, <1>3, <1>4, <1>5, StoredNow DEF existing
  <1>7. UpsertTold(new)' /\ TombstoneTold(new)'
    BY <1>2, <1>4, <1>6, Zenon DEF UpsertTold, TombstoneTold
  <1>8. Told(new, w)'
    BY <1>1, <1>2, <1>4, <1>6, <1>7, WriterTold, Zenon
  <1> QED BY <1>1, <1>2, <1>4, <1>8, CallTold, Zenon

LEMMA ReadPromotionTold ==
    ASSUME Onward, NEW c \in Slots, ReadPromotion(c)
    PROVE  AnswerInv'
  <1>1. PICK old, w : /\ old = calls[c] /\ w = walks[c] /\ DOMAIN old = Fields
                      /\ Told(old, w) /\ Told(old, w)'
    BY Focus, Zenon
  <1>2. UNCHANGED <<log, items, walks>> /\ old.op = "tombstone" /\ DOMAIN calls = Slots
    BY <1>1, Focus, Zenon DEF ReadPromotion, Unread
  <1> DEFINE found == calls[c].id \in Now.promoted
  <1>3. PICK at, code : /\ Coded(c, at, code)
                        /\ at = IF found THEN "append" ELSE "latest"
                        /\ code = IF found THEN 200 ELSE 204
    <2>1. Coded(c, IF found THEN "append" ELSE "latest", IF found THEN 200 ELSE 204)
      BY Zenon DEF ReadPromotion, Coded
    <2> HIDE DEF found
    <2> QED BY <2>1, Zenon
  <1> HIDE DEF found
  <1>4. PICK new :
            /\ Becomes(c, new)
            /\ new.at = at /\ new.code = code /\ new.op = old.op /\ new.id = old.id
            /\ new.doc = old.doc /\ new.min = old.min /\ new.start = old.start
    BY <1>1, <1>2, <1>3, CodedIs
  <1>5. old.start \in 0..Len(log)
    BY <1>1, Zenon DEF Told, PlaceTold
  <1>6. /\ new.at = "latest" => new.code = 204 /\ Unpromoted(new.id, new.start, Len(log))'
        /\ new.at \in {"append", "latest"}
    BY <1>1, <1>2, <1>3, <1>4, <1>5, StoredNow, ZenonT(30) DEF found
  <1>7. UpsertTold(new)' /\ TombstoneTold(new)'
    BY <1>2, <1>4, <1>6, Zenon DEF UpsertTold, TombstoneTold
  <1>8. Told(new, w)'
    BY <1>1, <1>2, <1>4, <1>6, <1>7, WriterTold, ZenonT(30)
  <1> QED BY <1>1, <1>2, <1>4, <1>8, CallTold, Zenon

LEMMA AppendPrincipalTold ==
    ASSUME Onward, NEW c \in Slots, AppendPrincipal(c)
    PROVE  AnswerInv'
  <1>1. PICK old, w : /\ old = calls[c] /\ w = walks[c] /\ DOMAIN old = Fields
                      /\ Told(old, w) /\ Told(old, w)'
    BY Focus, Zenon
  <1>2. old.op = "upsert" /\ old.at = "append" /\ walks' = walks /\ DOMAIN calls = Slots
    BY <1>1, Focus, Zenon DEF AppendPrincipal
  <1>3. PICK revision : revision = Len(log) + 1 /\ Respond(c, old.code, revision)
    BY <1>1, Zenon DEF AppendPrincipal
  <1>4. /\ log' = Append(log, Event("principal.upserted", calls[c].id, calls[c].doc))
        /\ items' = Append(items, [Now EXCEPT !.principals[calls[c].id] = calls[c].doc])
    BY Zenon DEF AppendPrincipal, PutPrincipal, Transact
  <1>5. /\ Len(log) \in Nat /\ revision = Len(log') /\ items \in Seq(Items)
        /\ Len(items) = Len(log) + 1 /\ Now \in Items /\ old.id \in Ids
    <2>1. log \in Seq(Events) /\ items \in Seq(Items) /\ Len(items) = Len(log) + 1
      BY Zenon DEF Onward, AnswerInv, HistoryInv, PlaneInv, LogInv, Numbered
    <2>2. old.id \in Ids
      BY <1>1, <1>2, Zenon DEF Onward, AnswerInv, PlaneInv, Reads
    <2>3. Len(log') = Len(log) + 1
      BY <1>4, <2>1
    <2> QED BY <1>3, <2>1, <2>2, <2>3 DEF Now, At
  <1>6. At(revision)'.principals[old.id] = old.doc
    <2>1. items'[Len(items) + 1] = [Now EXCEPT !.principals[old.id] = old.doc]
      BY <1>1, <1>4, <1>5
    <2>2. [Now EXCEPT !.principals[old.id] = old.doc].principals[old.id] = old.doc
      BY <1>5, Zenon DEF Items
    <2> QED BY <1>3, <1>5, <2>1, <2>2, Zenon DEF At
  <1>7. PICK new :
            /\ Becomes(c, new)
            /\ new.at = "answered" /\ new.code = old.code /\ new.revision = revision
            /\ new.op = old.op /\ new.id = old.id /\ new.doc = old.doc /\ new.min = old.min
            /\ new.start = old.start
    BY <1>1, <1>2, <1>3, RespondIs
  <1>8. Stored(old.id, old.doc, old.start, revision)'
    <2>1. revision \in old.start..revision
      BY <1>1, <1>3, <1>5 DEF Told, PlaceTold
    <2> QED BY <1>6, <2>1, Zenon DEF Stored
  <1>9. old.code = 201 => Stored(old.id, None, old.start, revision)'
    BY <1>1, <1>2, <1>5, Zenon DEF Told, UpsertTold
  <1>10. UpsertTold(new)' /\ TombstoneTold(new)'
    BY <1>2, <1>5, <1>7, <1>8, <1>9 DEF UpsertTold, TombstoneTold
  <1>11. Told(new, w)'
    BY <1>1, <1>2, <1>7, <1>10, WriterTold, Zenon
  <1> QED BY <1>1, <1>2, <1>7, <1>11, CallTold, Zenon

LEMMA AppendTombstoneTold ==
    ASSUME Onward, NEW c \in Slots, AppendTombstone(c)
    PROVE  AnswerInv'
  <1>1. PICK old, w : /\ old = calls[c] /\ w = walks[c] /\ DOMAIN old = Fields
                      /\ Told(old, w) /\ Told(old, w)'
    BY Focus, Zenon
  <1>2. old.op = "tombstone" /\ walks' = walks /\ DOMAIN calls = Slots
    BY <1>1, Focus, Zenon DEF AppendTombstone
  <1>3. CASE /\ old.id \in Now.promoted /\ DeletePromotion(c) /\ Respond(c, 200, Len(log) + 1)
    <2>1. PICK revision : revision = Len(log) + 1 /\ Respond(c, 200, revision)
      BY <1>3, Zenon
    <2>2. log' = Append(log, Event("resource.tombstoned", old.id, None))
      BY <1>1, <1>3, Zenon DEF DeletePromotion, Transact
    <2>3. log \in Seq(Events) /\ Len(log) \in 0..Len(log)
      BY DEF Onward, AnswerInv, PlaneInv, LogInv, Numbered
    <2>4. revision = Len(log') /\ revision \in 1..Len(log') /\ revision - 1 = Len(log)
          /\ log'[revision] = Event("resource.tombstoned", old.id, None)
      BY <2>1, <2>2, <2>3
    <2>6. At(revision - 1)' = Now
      BY <2>3, <2>4, ItemsStay, Zenon DEF Onward, Now, At
    <2>7. Removed(old.id, revision)'
      BY <1>3, <2>4, <2>6 DEF Removed, Event
    <2>8. PICK new :
              /\ Becomes(c, new)
              /\ new.at = "answered" /\ new.code = 200 /\ new.revision = revision
              /\ new.op = old.op /\ new.id = old.id /\ new.min = old.min /\ new.start = old.start
      BY <1>1, <1>2, <2>1, RespondIs
    <2>9. UpsertTold(new)' /\ TombstoneTold(new)'
      BY <1>2, <2>4, <2>7, <2>8 DEF UpsertTold, TombstoneTold
    <2>10. Told(new, w)'
      BY <1>1, <1>2, <2>8, <2>9, WriterTold, Zenon
    <2> QED BY <1>1, <1>2, <2>8, <2>10, CallTold, Zenon
  <1>4. CASE old.id \notin Now.promoted /\ Coded(c, "latest", 204) /\ UNCHANGED <<log, items>>
    <2>1. PICK new :
              /\ Becomes(c, new)
              /\ new.at = "latest" /\ new.code = 204 /\ new.op = old.op /\ new.id = old.id
              /\ new.min = old.min /\ new.start = old.start
      BY <1>1, <1>2, <1>4, CodedIs
    <2>2. old.start \in 0..Len(log)
      BY <1>1, Zenon DEF Told, PlaceTold
    <2>3. Unpromoted(new.id, new.start, Len(log))'
      BY <1>4, <2>1, <2>2, StoredNow
    <2>4. UpsertTold(new)' /\ TombstoneTold(new)'
      BY <1>2, <2>1, <2>3, Zenon DEF UpsertTold, TombstoneTold
    <2>5. Told(new, w)'
      BY <1>1, <1>2, <2>1, <2>4, WriterTold, Zenon
    <2> QED BY <1>1, <1>2, <2>1, <2>5, CallTold, Zenon
  <1> QED BY <1>1, <1>3, <1>4, Zenon DEF AppendTombstone, Coded
-----------------------------------------------------------------------------
(* Readers.                                                                *)

\* For a reader only what is said of its page matters.
LEMMA ReaderTold ==
    ASSUME NEW old, NEW new, NEW w, Told(old, w)', old.op \in {"events", "list"},
           new.at \in {"latest", "answered"} \/ (new.at \in {"watch", "rerun"} /\ old.op = "events"),
           new.op = old.op, new.min = old.min, new.start = old.start, new.after = old.after,
           EventsTold(new)', DemandTold(new)', ListTold(new, w)'
    PROVE  Told(new, w)'
  <1>1. PlaceTold(new)'
    BY ConstantsAssumption, Zenon DEF Told, PlaceTold, Operations
  <1>2. UpsertTold(new)' /\ TombstoneTold(new)' /\ FoldTold(new)'
    BY Zenon DEF UpsertTold, TombstoneTold, FoldTold
  <1> QED BY <1>1, <1>2, Zenon DEF Told

\* Without lag a page is one of the latest revision.
LEMMA ViewedNow ==
    ASSUME Onward, UNCHANGED log, ~Lag, NEW n \in Views, NEW page, NEW listed, NEW after,
           NEW since \in 0..Len(log)
    PROVE  /\ after \in 0..MaxRevision /\ page \in EventsAfter(n, after, Limit) =>
                  Viewed("events", page, listed, after, since)'
           /\ listed = PromotionsAfter(n, after) => Viewed("list", page, listed, after, since)'
  <1>1. n = Len(log) /\ n \in 0..Len(log) /\ n \in since..Len(log') /\ Limit \in Nat \ {0}
    BY ConstantsAssumption DEF Views, Onward, Stays
  <1>2. /\ PromotionsAfter(n, after)' = PromotionsAfter(n, after)
        /\ after \in 0..MaxRevision => EventsAfter(n, after, Limit)' = EventsAfter(n, after, Limit)
    BY <1>1, ViewStays, Zenon
  <1> QED BY <1>1, <1>2, Zenon DEF Viewed

\* A page of events, as a change of the request.
Paged(c, page, at) == calls' = [calls EXCEPT ![c].page = page, ![c].at = at]

LEMMA PagedStep ==
    ASSUME Onward, UNCHANGED <<log, walks>>, NEW c \in Slots, calls[c].op = "events",
           calls[c].at \in {"page", "rerun"},
           NEW n \in Views, NEW page \in EventsAfter(n, calls[c].after, Limit),
           NEW at \in {"watch", "latest"}, Paged(c, page, at)
    PROVE  AnswerInv'
  <1>1. PICK old, w : /\ old = calls[c] /\ w = walks[c] /\ DOMAIN old = Fields
                      /\ Told(old, w) /\ Told(old, w)'
    BY Focus, Zenon
  <1>2. DOMAIN calls = Slots
    BY Focus, Zenon
  <1>3. PICK new : new = [old EXCEPT !.page = page, !.at = at]
    BY Zenon
  <1>4. Becomes(c, new)
    BY <1>1, <1>2, <1>3, Zenon DEF Paged, Becomes
  <1>5. /\ new.at = at /\ new.page = page /\ new.op = old.op /\ new.min = old.min
        /\ new.start = old.start /\ new.after = old.after /\ new.listed = old.listed
    BY <1>1, <1>3, SMTT(20) DEF Fields
  <1>6. /\ old.after \in 0..MaxRevision
        /\ old.min # None => old.min \in 0..Len(log)
    BY <1>1 DEF Told, PlaceTold, DemandTold, Onward, Stays
  <1>7. /\ old.min # None => old.min <= Len(log)'
        /\ old.min # None /\ ~Lag' => Viewed("events", page, old.listed, old.after, old.min)'
    <2>1. Lag' = Lag
      BY Zenon DEF Onward, Stays, Lag
    <2> QED BY <1>1, <1>6, <2>1, ViewedNow
  <1>8. EventsTold(new)' /\ DemandTold(new)' /\ ListTold(new, w)'
    BY <1>1, <1>5, <1>7, Zenon DEF EventsTold, DemandTold, ListTold
  <1>9. Told(new, w)'
    BY <1>1, <1>5, <1>8, ReaderTold, Zenon
  <1> QED BY <1>1, <1>4, <1>9, CallTold, Zenon

LEMMA ReadEventsTold ==
    ASSUME Onward, NEW c \in Slots, ReadEvents(c) \/ Rerun(c)
    PROVE  AnswerInv'
  <1>1. /\ UNCHANGED <<log, walks>> /\ calls[c].at \in {"page", "rerun"}
        /\ calls[c].at = "page" => calls[c].op = "events"
    BY Zenon DEF ReadEvents, Rerun, Unread
  <1>2. calls[c].op = "events"
    BY <1>1, Zenon DEF Onward, AnswerInv, Told, PlaceTold, Operations
  <1>3. PICK n \in Views : \E page : \E at \in {"watch", "latest"} :
            page \in EventsAfter(n, calls[c].after, Limit) /\ Paged(c, page, at)
    BY Zenon DEF ReadEvents, Rerun, Paged
  <1> QED BY <1>1, <1>2, <1>3, PagedStep, Zenon

LEMMA PollTold ==
    ASSUME Onward, NEW c \in Slots, Poll(c)
    PROVE  AnswerInv'
  <1>1. PICK old, w : /\ old = calls[c] /\ w = walks[c] /\ DOMAIN old = Fields
                      /\ Told(old, w) /\ Told(old, w)'
    BY Focus, Zenon
  <1>2. old.at = "watch" /\ walks' = walks
    BY <1>1, Zenon DEF Poll, Unread
  <1>3. old.op = "events"
    BY <1>1, <1>2, Zenon DEF Told, PlaceTold, Operations
  <1>4. PICK new : /\ Becomes(c, new)
                   /\ \/ \E at \in {"rerun", "latest"} : new = [old EXCEPT !.at = at]
                      \/ \E polls : new = [old EXCEPT !.polls = polls]
    BY <1>1, Zenon DEF Poll, Goto, Becomes
  <1>5. /\ new.at \in {"watch", "rerun", "latest"} /\ new.page = old.page /\ new.op = old.op
        /\ new.min = old.min /\ new.start = old.start /\ new.after = old.after
        /\ new.listed = old.listed
    BY <1>1, <1>2, <1>4, Zenon DEF Fields
  <1>6. EventsTold(new)' /\ DemandTold(new)' /\ ListTold(new, w)'
    BY <1>1, <1>2, <1>3, <1>5, Zenon DEF Told, EventsTold, DemandTold, ListTold, HasPage
  <1>7. Told(new, w)'
    BY <1>1, <1>3, <1>5, <1>6, ReaderTold, Zenon
  <1> QED BY <1>1, <1>2, <1>4, <1>7, CallTold, Zenon

LEMMA ReadPromotionsTold ==
    ASSUME Onward, NEW c \in Slots, ReadPromotions(c)
    PROVE  AnswerInv'
  <1>1. PICK old, w : /\ old = calls[c] /\ w = walks[c] /\ DOMAIN old = Fields
                      /\ Told(old, w) /\ Told(old, w)'
    BY Focus, Zenon
  <1>2. /\ old.at = "page" /\ old.op = "list" /\ UNCHANGED <<log, walks>> /\ DOMAIN calls = Slots
    BY <1>1, Focus, Zenon DEF ReadPromotions, Unread
  <1>3. PICK n \in Views : \E listed :
            /\ listed = PromotionsAfter(n, old.after)
            /\ calls' = [calls EXCEPT ![c].listed = listed, ![c].at = "latest"]
    BY <1>1, Zenon DEF ReadPromotions
  <1>4. PICK listed :
            /\ listed = PromotionsAfter(n, old.after)
            /\ calls' = [calls EXCEPT ![c].listed = listed, ![c].at = "latest"]
    BY <1>3, Zenon
  <1>5. PICK new : new = [old EXCEPT !.listed = listed, !.at = "latest"]
    BY Zenon
  <1>6. Becomes(c, new)
    BY <1>1, <1>2, <1>4, <1>5, Zenon DEF Becomes
  <1>7. /\ new.at = "latest" /\ new.listed = listed /\ new.op = old.op /\ new.min = old.min
        /\ new.start = old.start /\ new.after = old.after
    BY <1>1, <1>5, Zenon DEF Fields
  <1>8. /\ w.since # None /\ w.since \in 0..Len(log) /\ old.after = w.after
        /\ old.min # None => old.min \in 0..Len(log)
    <2>1. w.since # None /\ old.after = w.after /\ w.since \in 0..Len(log)
      BY <1>1, <1>2, SMTT(20) DEF Told, ListTold, WalkTold
    <2>2. Len(log) \in Nat /\ (old.min # None => old.min \in Nat)
      BY <1>1, SMTT(20) DEF Told, PlaceTold, Onward, Stays
    <2>3. old.min # None => old.min <= Len(log)
      BY <1>1, <1>2, Zenon DEF Told, DemandTold
    <2> QED BY <2>1, <2>2, <2>3, SMTT(20)
  <1>9. ~Lag' => /\ Viewed("list", new.page, listed, old.after, w.since)'
                 /\ old.min # None => Viewed("list", new.page, listed, old.after, old.min)'
    <2>1. Lag' = Lag
      BY Zenon DEF Onward, Stays, Lag
    <2> QED BY <1>2, <1>4, <1>8, <2>1, ViewedNow, Zenon
  <1>10. old.min # None => old.min <= Len(log)'
    BY <1>2, <1>8
  <1>11. EventsTold(new)' /\ DemandTold(new)' /\ ListTold(new, w)'
    BY <1>2, <1>7, <1>8, <1>9, <1>10, Zenon DEF EventsTold, DemandTold, ListTold
  <1>12. Told(new, w)'
    BY <1>1, <1>2, <1>7, <1>11, ReaderTold, Zenon
  <1> QED BY <1>1, <1>2, <1>6, <1>12, CallTold, Zenon

LEMMA LatestTold ==
    ASSUME Onward, NEW c \in Slots, Latest(c)
    PROVE  AnswerInv'
  <1>1. PICK old, w : /\ old = calls[c] /\ w = walks[c] /\ DOMAIN old = Fields
                      /\ Told(old, w) /\ Told(old, w)'
    BY Focus, Zenon
  <1>2. old.at = "latest" /\ UNCHANGED <<log, walks>> /\ DOMAIN calls = Slots
    BY <1>1, Focus, Zenon DEF Latest, Unread
  <1>3. old.op \in {"upsert", "tombstone", "events", "list"}
    BY <1>1, <1>2, ConstantsAssumption, Zenon DEF Told, PlaceTold, Operations
  <1>4. PICK code, revision : /\ code = IF old.code = None THEN 200 ELSE old.code
                              /\ revision = Len(log) /\ Respond(c, code, revision)
    BY <1>1, Zenon DEF Latest
  <1>5. PICK new :
            /\ Becomes(c, new)
            /\ new.at = "answered" /\ new.code = code /\ new.revision = revision
            /\ new.op = old.op /\ new.id = old.id /\ new.doc = old.doc /\ new.min = old.min
            /\ new.start = old.start /\ new.after = old.after /\ new.page = old.page
            /\ new.listed = old.listed
    BY <1>1, <1>2, <1>4, RespondIs
  <1>6. revision = Len(log') /\ revision \in 0..Len(log')
    BY <1>2, <1>4 DEF Onward, Stays
  <1>7. code = 201 => old.code = 201
    BY <1>4
  <1>8. CASE old.op \in {"upsert", "tombstone"}
    <2>1. old.op = "tombstone" => code = 204
      BY <1>1, <1>2, <1>4, ConstantsAssumption, SMTT(20) DEF Told, TombstoneTold
    <2>2. UpsertTold(new)'
      <3>1. /\ old.op = "upsert" => Stored(old.id, old.doc, old.start, Len(log))'
            /\ old.op = "upsert" /\ old.code = 201 => Stored(old.id, None, old.start, Len(log))'
        BY <1>1, <1>2, Zenon DEF Told, UpsertTold
      <3>2. /\ old.op = "upsert" => Stored(new.id, new.doc, new.start, new.revision)'
            /\ old.op = "upsert" /\ old.code = 201 => Stored(new.id, None, new.start, new.revision)'
        BY <1>5, <1>6, <3>1, SMTT(20)
      <3> QED BY <1>5, <1>6, <1>7, <3>2 DEF UpsertTold
    <2>3. TombstoneTold(new)'
      BY <1>1, <1>2, <1>5, <1>6, <2>1 DEF Told, TombstoneTold
    <2>4. Told(new, w)'
      BY <1>1, <1>5, <1>8, <2>2, <2>3, WriterTold, ZenonT(30)
    <2> QED BY <1>1, <1>2, <1>5, <2>4, CallTold, ZenonT(30)
  <1>9. CASE old.op \in {"events", "list"}
    <2>1. EventsTold(new)'
      <3> SUFFICES ASSUME old.op = "events", NEW i \in 1..Len(old.page)
                   PROVE  old.page[i].seq <= Len(log)
        BY <1>4, <1>5, SMTT(20) DEF EventsTold
      <3>1. old.after \in Nat
        BY <1>1, SMTT(20) DEF Told, PlaceTold
      <3>2. Continues(log, old.page, old.after) /\ Numbered(log)
        BY <1>1, Zenon DEF Onward, AnswerInv, PlaneInv, Reads, LogInv
      <3>3. old.after + i <= Len(log) /\ old.page[i] = log[old.after + i]
        BY <3>2, Zenon DEF Continues
      <3>4. Len(log) \in Nat
        BY Zenon DEF Onward, Stays
      <3>5. old.after + i \in 1..Len(log)
        <4>1. i \in Nat /\ i >= 1
          OBVIOUS
        <4> QED BY <3>1, <3>3, <3>4, <4>1
      <3> QED BY <3>2, <3>3, <3>5, Zenon DEF Numbered
    <2>2. DemandTold(new)'
      <3>1. /\ old.min # None => old.min \in Nat /\ old.min <= Len(log)'
            /\ old.min # None /\ ~Lag' =>
                  Viewed(old.op, old.page, old.listed, old.after, old.min)'
        BY <1>1, <1>2, <1>9, Zenon DEF Told, PlaceTold, DemandTold, HasPage
      <3>2. old.min # None => revision >= old.min
        BY <1>6, <3>1
      <3> QED BY <1>5, <3>1, <3>2, Zenon DEF DemandTold
    <2>3. ListTold(new, w)'
      BY <1>1, <1>2, <1>5, <1>6, ZenonT(30) DEF Told, ListTold, HasPage
    <2>4. Told(new, w)'
      BY <1>1, <1>5, <1>9, <2>1, <2>2, <2>3, ReaderTold, Zenon
    <2> QED BY <1>1, <1>2, <1>5, <2>4, CallTold, Zenon
  <1> QED BY <1>3, <1>8, <1>9, Zenon
-----------------------------------------------------------------------------
(* Historical reads.                                                       *)

LEMMA FolderTold ==
    ASSUME NEW old, NEW new, NEW w, Told(old, w)', old.op = "fold",
           new.at \in {"collect", "fold", "answered"},
           new.op = old.op, new.min = old.min, new.start = old.start, FoldTold(new)'
    PROVE  Told(new, w)'
  <1>1. PlaceTold(new)'
    BY ConstantsAssumption, Zenon DEF Told, PlaceTold, Operations
  <1>2. UpsertTold(new)' /\ TombstoneTold(new)' /\ EventsTold(new)' /\ DemandTold(new)'
        /\ ListTold(new, w)'
    BY Zenon DEF UpsertTold, TombstoneTold, EventsTold, DemandTold, ListTold
  <1> QED BY <1>1, <1>2, Zenon DEF Told

\* What a historical read does to its request.
Aims(c, revision) ==
    calls' = [calls EXCEPT ![c].at = "collect", ![c].after = 0, ![c].revision = revision]
Collects(c, page, after, at) ==
    calls' = [calls EXCEPT ![c].page = page, ![c].after = after, ![c].at = at]
Folds(c, result, code) ==
    calls' = [calls EXCEPT ![c].at = "answered", ![c].result = result, ![c].code = code]
FoldsNothing(c) ==
    calls' = [calls EXCEPT ![c].at = "answered", ![c].code = 200,
                           ![c].revision = 0, ![c].result = NoItems]

LEMMA AimsIs ==
    ASSUME NEW c \in Slots, DOMAIN calls = Slots, NEW old, old = calls[c], DOMAIN old = Fields,
           NEW revision, Aims(c, revision)
    PROVE  \E new :
               /\ Becomes(c, new) /\ new.op = old.op /\ new.min = old.min /\ new.start = old.start
               /\ new.at = "collect" /\ new.after = 0 /\ new.revision = revision /\ new.page = old.page
  <1>1. PICK new : new = [old EXCEPT !.at = "collect", !.after = 0, !.revision = revision]
    BY Zenon
  <1>2. Becomes(c, new)
    BY <1>1, ZenonT(60) DEF Becomes, Aims
  <1>3. /\ new.op = old.op /\ new.min = old.min /\ new.start = old.start
        /\ new.at = "collect" /\ new.after = 0 /\ new.revision = revision /\ new.page = old.page
    BY <1>1, Zenon DEF Fields
  <1> QED BY <1>2, <1>3, Zenon

LEMMA CollectsIs ==
    ASSUME NEW c \in Slots, DOMAIN calls = Slots, NEW old, old = calls[c], DOMAIN old = Fields,
           NEW page, NEW after, NEW at, Collects(c, page, after, at)
    PROVE  \E new :
               /\ Becomes(c, new) /\ new.op = old.op /\ new.min = old.min /\ new.start = old.start
               /\ new.page = page /\ new.after = after /\ new.at = at /\ new.revision = old.revision
  <1>1. PICK new : new = [old EXCEPT !.page = page, !.after = after, !.at = at]
    BY Zenon
  <1>2. Becomes(c, new)
    BY <1>1, ZenonT(60) DEF Becomes, Collects
  <1>3. /\ new.op = old.op /\ new.min = old.min /\ new.start = old.start
        /\ new.page = page /\ new.after = after /\ new.at = at /\ new.revision = old.revision
    BY <1>1, Zenon DEF Fields
  <1> QED BY <1>2, <1>3, Zenon

LEMMA FoldsIs ==
    ASSUME NEW c \in Slots, DOMAIN calls = Slots, NEW old, old = calls[c], DOMAIN old = Fields,
           NEW result, NEW code, Folds(c, result, code)
    PROVE  \E new :
               /\ Becomes(c, new) /\ new.op = old.op /\ new.min = old.min /\ new.start = old.start
               /\ new.at = "answered" /\ new.result = result /\ new.code = code
               /\ new.revision = old.revision
  <1>1. PICK new : new = [old EXCEPT !.at = "answered", !.result = result, !.code = code]
    BY Zenon
  <1>2. Becomes(c, new)
    BY <1>1, ZenonT(60) DEF Becomes, Folds
  <1>3. /\ new.op = old.op /\ new.min = old.min /\ new.start = old.start
        /\ new.at = "answered" /\ new.result = result /\ new.code = code
        /\ new.revision = old.revision
    BY <1>1, Zenon DEF Fields
  <1> QED BY <1>2, <1>3, Zenon

LEMMA FoldsNothingIs ==
    ASSUME NEW c \in Slots, DOMAIN calls = Slots, NEW old, old = calls[c], DOMAIN old = Fields,
           FoldsNothing(c)
    PROVE  \E new :
               /\ Becomes(c, new) /\ new.op = old.op /\ new.min = old.min /\ new.start = old.start
               /\ new.at = "answered" /\ new.code = 200 /\ new.revision = 0 /\ new.result = NoItems
  <1>1. PICK new : new = [old EXCEPT !.at = "answered", !.code = 200, !.revision = 0, !.result = NoItems]
    BY Zenon
  <1>2. Becomes(c, new)
    BY <1>1, ZenonT(60) DEF Becomes, FoldsNothing
  <1>3. /\ new.op = old.op /\ new.min = old.min /\ new.start = old.start
        /\ new.at = "answered" /\ new.code = 200 /\ new.revision = 0 /\ new.result = NoItems
    BY <1>1, ZenonT(30) DEF Fields
  <1> QED BY <1>2, <1>3, Zenon

\* Without lag and short pages, a page that is not full reaches the end of the log.
LEMMA LastPage ==
    ASSUME LogInv, Exact, NEW n \in Views, NEW after \in 0..Len(log), NEW limit \in Nat \ {0},
           NEW page \in EventsAfter(n, after, limit), Len(page) < limit
    PROVE  after + Len(page) = Len(log)
  <1>1. n = Len(log) /\ log \in Seq(Events) /\ Len(log) < MaxRevision
    BY ConstantsAssumption DEF Views, Exact, LogInv, Numbered
  <1>2. Successor(after) = after + 1
    BY <1>1, ConstantsAssumption DEF Successor
  <1> DEFINE last == IF after + limit < Len(log) THEN after + limit ELSE Len(log)
  <1>3. page = SubSeq(log, after + 1, last)
    <2>1. (after + 1) + limit - 1 = after + limit
      OBVIOUS
    <2> QED BY <1>1, <1>2, <2>1, Zenon DEF EventsAfter, Exact
  <1>4. last \in Nat /\ last <= Len(log) /\ after <= last
    BY <1>1
  <1> HIDE DEF last
  <1>5. Len(page) = last - after
    BY <1>1, <1>3, <1>4
  <1> QED BY <1>1, <1>4, <1>5 DEF last

LEMMA CollectTold ==
    ASSUME Onward, NEW c \in Slots, Collect(c)
    PROVE  AnswerInv'
  <1>1. PICK old, w : /\ old = calls[c] /\ w = walks[c] /\ DOMAIN old = Fields
                      /\ Told(old, w) /\ Told(old, w)'
    BY Focus, Zenon
  <1>2. old.at = "collect" /\ UNCHANGED <<mode, log, items, walks>> /\ DOMAIN calls = Slots
    BY <1>1, Focus, Zenon DEF Collect, Unread
  <1>3. /\ old.op = "fold" /\ Continues(log, old.page, 0) /\ old.after = Len(old.page)
        /\ Aimed(old.min, old.start, old.revision)
        /\ old.start \in 0..Len(log) /\ (old.min = None \/ old.min \in Nat)
    BY <1>1, <1>2, Zenon DEF Told, PlaceTold, FoldTold, Operations
  <1>4. /\ LogInv /\ Numbered(log) /\ log \in Seq(Events) /\ Len(log) \in Nat
        /\ Len(log) < MaxRevision /\ FoldPageSize \in Nat \ {0} /\ MaxRevision \in Nat
    <2>1. LogInv /\ Numbered(log)
      BY Zenon DEF Onward, AnswerInv, PlaneInv, LogInv
    <2>2. log \in Seq(Events) /\ Len(log) \in Nat /\ Len(log) <= MaxLog
      BY <2>1 DEF Numbered
    <2> QED BY <2>1, <2>2, ConstantsAssumption
  <1>5. old.after \in 0..Len(log) /\ old.after \in 0..MaxRevision
    BY <1>3, <1>4 DEF Continues
  <1>page. PICK n \in Views : \E page \in EventsAfter(n, old.after, FoldPageSize) :
            LET after == IF page = << >> THEN old.after ELSE page[Len(page)].seq
            IN Collects(c, old.page \o page, after,
                        IF Len(page) < FoldPageSize \/ after >= old.revision
                        THEN "fold" ELSE "collect")
    BY <1>1, Zenon DEF Collect, Collects
  <1>6. PICK page \in EventsAfter(n, old.after, FoldPageSize) :
            LET after == IF page = << >> THEN old.after ELSE page[Len(page)].seq
            IN Collects(c, old.page \o page, after,
                        IF Len(page) < FoldPageSize \/ after >= old.revision
                        THEN "fold" ELSE "collect")
    BY <1>page, Zenon
  <1>7. PICK after, at :
            /\ after = IF page = << >> THEN old.after ELSE page[Len(page)].seq
            /\ at = IF Len(page) < FoldPageSize \/ after >= old.revision THEN "fold" ELSE "collect"
            /\ Collects(c, old.page \o page, after, at)
    BY <1>6, Zenon
  <1>8. Continues(log, page, old.after)
    BY <1>4, <1>5, <1>6, PagesContinue, Zenon
  <1>9. Continues(log, old.page \o page, 0)
    BY <1>3, <1>4, <1>8, ContinuesJoin, SMTT(20)
  <1>10. /\ Len(page) \in Nat /\ Len(old.page \o page) = old.after + Len(page)
    BY <1>3, <1>8 DEF Continues
  <1>11. after = old.after + Len(page)
    <2>1. CASE page = << >>
      BY <1>5, <1>7, <2>1, SMTT(20)
    <2>2. CASE page # << >>
      <3>1. Len(page) \in 1..Len(page)
        BY <1>8, <2>2 DEF Continues
      <3>2. old.after + Len(page) \in 1..Len(log) /\ page[Len(page)] = log[old.after + Len(page)]
        BY <1>4, <1>5, <1>8, <3>1 DEF Continues
      <3> QED BY <1>4, <1>7, <2>2, <3>2, Zenon DEF Numbered
    <2> QED BY <2>1, <2>2, Zenon
  <1>12. PICK new :
            /\ Becomes(c, new) /\ new.op = old.op /\ new.min = old.min /\ new.start = old.start
            /\ new.page = old.page \o page /\ new.after = after /\ new.at = at
            /\ new.revision = old.revision
    <2>1. PICK total : total = old.page \o page /\ Collects(c, total, after, at)
      BY <1>7, Zenon
    <2>2. Collects(c, total, after, at)
      BY <2>1, Zenon
    <2>3. \E new :
              /\ Becomes(c, new) /\ new.op = old.op /\ new.min = old.min /\ new.start = old.start
              /\ new.page = total /\ new.after = after /\ new.at = at
              /\ new.revision = old.revision
      BY <1>1, <1>2, <2>2, CollectsIs
    <2> QED BY <2>1, <2>3, Zenon
  <1>13. at = "fold" /\ Exact =>
            old.revision <= Len(old.page \o page) \/ (old.min # None /\ old.min > old.start)
    <2> SUFFICES ASSUME at = "fold", Exact
                 PROVE  old.revision <= old.after + Len(page) \/ (old.min # None /\ old.min > old.start)
      BY <1>10, Zenon
    <2>1. CASE Len(page) < FoldPageSize
      <3>1. old.after + Len(page) = Len(log)
        BY <1>4, <1>5, <1>6, <2>1, LastPage, Zenon
      <3> QED BY <1>3, <1>4, <3>1, SMTT(20) DEF Aimed
    <2>2. CASE ~(Len(page) < FoldPageSize)
      <3>1. after >= old.revision
        BY <1>7, <2>2, Zenon
      <3> QED BY <1>3, <1>5, <1>10, <1>11, <3>1, Zenon DEF Aimed
    <2> QED BY <2>1, <2>2, Zenon
  <1>14. FoldTold(new)'
    <2>1. Exact' = Exact /\ Aimed(old.min, old.start, old.revision)'
      BY <1>2, <1>3, Zenon DEF Exact, Lag, Aimed
    <2>2. at \in {"fold", "collect"} /\ after = Len(old.page \o page)
      BY <1>7, <1>10, <1>11, Zenon
    <2> QED BY <1>2, <1>9, <1>12, <1>13, <2>1, <2>2, Zenon DEF FoldTold
  <1>15. Told(new, w)'
    BY <1>1, <1>3, <1>7, <1>12, <1>14, FolderTold, Zenon
  <1> QED BY <1>1, <1>2, <1>12, <1>15, CallTold, Zenon

\* fold_events over a prefix of the log.
LEMMA FoldEventsIs ==
    ASSUME LogInv, HistoryInv, NEW page, Continues(log, page, 0), NEW revision \in Nat
    PROVE  /\ Len(page) \in 0..Len(log)
           /\ revision = 0 \/ revision > Len(page) => FoldEvents(page, revision) = None
           /\ revision # 0 /\ revision <= Len(page) =>
                 /\ FoldEvents(page, revision) = At(revision)
                 /\ FoldEvents(page, revision) # None
  <1>1. /\ log \in Seq(Events) /\ Len(log) \in Nat /\ page \in Seq(Events) /\ Len(page) \in Nat
        /\ \A i \in 1..Len(page) : i <= Len(log) /\ page[i] = log[i] /\ page[i].seq = i
    BY DEF LogInv, Numbered, Continues
  <1>2. Len(page) \in 0..Len(log)
    BY <1>1
  <1>3. page # << >> => Len(page) # 0 /\ page[Len(page)].seq = Len(page)
    BY <1>1
  <1>4. ASSUME revision = 0 \/ revision > Len(page)
        PROVE  FoldEvents(page, revision) = None
    BY <1>1, <1>3, <1>4, Zenon DEF FoldEvents
  <1>5. ASSUME revision # 0, revision <= Len(page)
        PROVE  /\ FoldEvents(page, revision) = At(revision)
               /\ FoldEvents(page, revision) # None
    <2>1. /\ page # << >> /\ ~(revision > page[Len(page)].seq)
          /\ ~ \E i \in DOMAIN page : page[i].seq # i /\ i <= revision + 1
      BY <1>1, <1>3, <1>5
    <2>2. FoldEvents(page, revision) = Folded(SubSeq(page, 1, revision))
      BY <1>5, <2>1, Zenon DEF FoldEvents
    <2>3. SubSeq(page, 1, revision) = SubSeq(log, 1, revision)
      <3> DEFINE s == SubSeq(page, 1, revision)
                 t == SubSeq(log, 1, revision)
      <3>1. s \in Seq(Events) /\ t \in Seq(Events) /\ Len(s) = revision /\ Len(t) = revision
        BY <1>1, <1>2, <1>5
      <3>2. \A i \in 1..revision : s[i] = page[i] /\ t[i] = log[i]
        BY <1>1, <1>2, <1>5
      <3>3. \A i \in 1..revision : s[i] = t[i]
        BY <1>1, <1>5, <3>2
      <3> HIDE DEF s, t
      <3>4. s = [i \in 1..Len(s) |-> s[i]] /\ t = [i \in 1..Len(t) |-> t[i]]
        BY <3>1
      <3>5. s = t
        BY <3>1, <3>3, <3>4, Zenon
      <3> QED BY <3>5, Zenon DEF s, t
    <2>4. revision \in 0..Len(log) /\ revision + 1 \in 1..Len(items) /\ items \in Seq(Items)
      BY <1>1, <1>2, <1>5 DEF HistoryInv
    <2>5. At(revision) = Folded(SubSeq(log, 1, revision))
      BY <2>4, Zenon DEF HistoryInv
    <2>6. At(revision) \in Items
      BY <2>4 DEF At
    <2> QED BY <2>2, <2>3, <2>5, <2>6, ConstantsAssumption, Zenon
  <1> QED BY <1>2, <1>4, <1>5, Zenon

LEMMA FoldStepTold ==
    ASSUME Onward, NEW c \in Slots, Fold(c)
    PROVE  AnswerInv'
  <1>1. PICK old, w : /\ old = calls[c] /\ w = walks[c] /\ DOMAIN old = Fields
                      /\ Told(old, w) /\ Told(old, w)'
    BY Focus, Zenon
  <1>2. old.at = "fold" /\ UNCHANGED <<mode, log, items, walks>> /\ DOMAIN calls = Slots
    BY <1>1, Focus, ZenonT(60) DEF Fold, Unread
  <1>3. /\ old.op = "fold" /\ Continues(log, old.page, 0)
        /\ old.revision \in Nat
        /\ old.min = None => old.revision \in old.start..Len(log) /\ old.revision # 0
        /\ old.min # None => old.revision = old.min
        /\ Exact => old.revision <= Len(old.page) \/ (old.min # None /\ old.min > old.start)
        /\ old.start \in 0..Len(log)
    BY <1>1, <1>2, Zenon DEF Told, PlaceTold, FoldTold, Operations, Aimed
  <1>4. PICK result, code : /\ result = FoldEvents(old.page, old.revision)
                            /\ code = IF result = None THEN 500 ELSE 200
                            /\ Folds(c, result, code)
    <2>1. Folds(c, FoldEvents(calls[c].page, calls[c].revision),
                IF FoldEvents(calls[c].page, calls[c].revision) = None THEN 500 ELSE 200)
      BY Zenon DEF Fold, Folds
    <2> QED BY <1>1, <2>1
  <1>5. LogInv /\ HistoryInv
    BY Zenon DEF Onward, AnswerInv, PlaneInv
  <1>6. /\ Len(old.page) \in 0..Len(log)
        /\ old.revision = 0 \/ old.revision > Len(old.page) => result = None
        /\ old.revision # 0 /\ old.revision <= Len(old.page) =>
              result = At(old.revision) /\ result # None
    BY <1>3, <1>4, <1>5, FoldEventsIs, Zenon
  <1>7. PICK new :
            /\ Becomes(c, new) /\ new.op = old.op /\ new.min = old.min /\ new.start = old.start
            /\ new.at = "answered" /\ new.result = result /\ new.code = code
            /\ new.revision = old.revision
    BY <1>1, <1>2, <1>4, FoldsIs, SMTT(20)
  <1>8. code = 200 =>
            /\ old.revision \in 0..Len(log)' /\ result = At(old.revision)'
            /\ old.min = None => old.revision >= old.start
            /\ old.min # None => old.revision = old.min
    <2>1. At(old.revision)' = At(old.revision)
      BY <1>2, Zenon DEF At
    <2>2. code = 200 => old.revision # 0 /\ old.revision <= Len(old.page)
      BY <1>3, <1>4, <1>6
    <2> QED BY <1>2, <1>3, <1>6, <2>1, <2>2, SMTT(20)
  <1>9. code = 500 /\ Exact' => old.min = 0 \/ (old.min # None /\ old.min > old.start)
    <2>1. Exact' = Exact
      BY <1>2, Zenon DEF Exact, Lag
    <2>2. code = 500 => old.revision = 0 \/ ~(old.revision <= Len(old.page))
      BY <1>4, <1>6, SMTT(20)
    <2> QED BY <1>3, <2>1, <2>2, ZenonT(30)
  <1>10. FoldTold(new)'
    BY <1>7, <1>8, <1>9 DEF FoldTold
  <1>11. Told(new, w)'
    BY <1>1, <1>3, <1>7, <1>10, FolderTold, Zenon
  <1> QED BY <1>1, <1>2, <1>7, <1>11, CallTold, Zenon
-----------------------------------------------------------------------------
(* Walks through the promotions.                                           *)

LEMMA BeginTold ==
    ASSUME Onward, NEW c \in Slots, NEW op \in Operations, Begin(c, op)
    PROVE  AnswerInv'
  <1>1. PICK old, w : /\ old = calls[c] /\ w = walks[c] /\ DOMAIN old = Fields
                      /\ Told(old, w) /\ Told(old, w)'
    BY Focus, Zenon
  <1>2. UNCHANGED <<mode, log, items>> /\ DOMAIN walks = Slots /\ Len(log) \in Nat
    <2>1. UNCHANGED <<mode, log, items>>
      BY Zenon DEF Begin
    <2> QED BY <2>1, Zenon DEF Onward, AnswerInv, Stays
  <1>3. PICK id \in IF op \in {"upsert", "tombstone"} THEN Modes[mode].ids ELSE {None},
             doc \in IF op = "upsert" THEN Docs ELSE {None},
             min \in {None} \cup IF Demands(op) THEN 0..(Len(log) + 1) ELSE {},
             wait \in IF op = "events" THEN BOOLEAN ELSE {FALSE} :
               calls' = [calls EXCEPT ![c] = [Idle EXCEPT
                  !.at = IF op = "fold" THEN "target" ELSE "gate", !.op = op, !.id = id,
                  !.doc = doc, !.min = min, !.wait = wait, !.start = Len(log),
                  !.after = CASE op = "events" -> consumers[c].cursor
                              [] op = "list" -> walks[c].after
                              [] OTHER -> None]]
    BY Zenon DEF Begin
  <1>4. PICK new :
          /\ Becomes(c, new)
          /\ new.at = IF op = "fold" THEN "target" ELSE "gate"
          /\ new.op = op /\ new.min = min /\ new.start = Len(log) /\ new.page = << >>
          /\ op = "events" => new.after = consumers[c].cursor
          /\ op = "list" => new.after = w.after
    <2>1. PICK new : new = [Idle EXCEPT
                  !.at = IF op = "fold" THEN "target" ELSE "gate", !.op = op, !.id = id,
                  !.doc = doc, !.min = min, !.wait = wait, !.start = Len(log),
                  !.after = CASE op = "events" -> consumers[c].cursor
                              [] op = "list" -> walks[c].after
                              [] OTHER -> None]
      BY Zenon
    <2>2. Becomes(c, new)
      BY <1>3, <2>1, Zenon DEF Becomes
    <2>3. /\ new.at = IF op = "fold" THEN "target" ELSE "gate"
          /\ new.op = op /\ new.min = min /\ new.start = Len(log) /\ new.page = << >>
      BY <2>1, Zenon DEF Idle
    <2>4. /\ op = "events" => new.after = consumers[c].cursor
          /\ op = "list" => new.after = w.after
      BY <1>1, <2>1, Zenon DEF Idle
    <2> QED BY <2>2, <2>3, <2>4, Zenon
  <1>5. min = None \/ (min \in Nat /\ Demands(op))
    BY <1>2, <1>3, SMTT(20)
  <1>6. op = "events" => new.after \in 0..MaxRevision
    BY <1>4, Zenon DEF Onward, AnswerInv, PlaneInv, Received
  <1>7. PlaceTold(new)'
    BY <1>2, <1>3, <1>4, <1>5, <1>6, ConstantsAssumption, SMTT(20) DEF PlaceTold, Operations, Demands
  <1>8. UpsertTold(new)' /\ TombstoneTold(new)' /\ EventsTold(new)' /\ DemandTold(new)' /\ FoldTold(new)'
    BY <1>3, <1>4 DEF UpsertTold, TombstoneTold, EventsTold, DemandTold, FoldTold, HasPage
  <1>9. PICK v : v = IF op = "list" /\ w.since = None THEN [w EXCEPT !.since = Len(log)] ELSE w
    BY Zenon
  <1>10. /\ DOMAIN walks' = Slots /\ walks'[c] = v
         /\ \A d \in Slots \ {c} : walks'[d] = walks[d]
    BY <1>1, <1>2, <1>9, Zenon DEF Begin
  <1>11. v.after = w.after /\ (op = "list" => v.since # None) /\ WalkTold(v)'
    <2>1. CASE op = "list" /\ w.since = None
      <3>1. v = [w EXCEPT !.since = Len(log)] /\ DOMAIN w = {"after", "seen", "since"}
            /\ w.after = None
        BY <1>1, <1>9, <2>1, Zenon DEF Told, WalkTold
      <3>2. DOMAIN v = {"after", "seen", "since"} /\ v.since = Len(log) /\ v.after = None
        BY <3>1, Zenon
      <3> QED BY <1>2, <3>1, <3>2, ConstantsAssumption, SMTT(20) DEF WalkTold
    <2>2. CASE ~(op = "list" /\ w.since = None)
      BY <1>1, <1>9, <2>2, Zenon DEF Told
    <2> QED BY <2>1, <2>2, Zenon
  <1>12. ListTold(new, v)'
    BY <1>1, <1>3, <1>4, <1>11, Zenon DEF ListTold, HasPage
  <1>13. Told(new, v)'
    BY <1>7, <1>8, <1>11, <1>12, Zenon DEF Told
  <1> QED BY <1>4, <1>10, <1>13, OneTold, Zenon

LEMMA TargetTold ==
    ASSUME Counting, Onward, NEW c \in Slots, Target(c)
    PROVE  AnswerInv'
  <1>1. PICK old, w : /\ old = calls[c] /\ w = walks[c] /\ DOMAIN old = Fields
                      /\ Told(old, w) /\ Told(old, w)'
    BY Focus, Zenon
  <1>2. old.at = "target" /\ UNCHANGED <<log, items, walks>> /\ DOMAIN calls = Slots
    BY <1>1, Focus, Zenon DEF Target, Unread
  <1>3. old.op = "fold" /\ old.page = << >> /\ old.start \in 0..Len(log)
        /\ (old.min = None \/ old.min \in Nat)
    BY <1>1, <1>2, Zenon DEF Told, PlaceTold, FoldTold, Operations
  <1>4. CASE old.min = None /\ log = << >> /\ FoldsNothing(c)
    <2>1. PICK new :
              /\ Becomes(c, new) /\ new.op = old.op /\ new.min = old.min /\ new.start = old.start
              /\ new.at = "answered" /\ new.code = 200 /\ new.revision = 0
              /\ new.result = NoItems
      BY <1>1, <1>2, <1>4, FoldsNothingIs
    <2>2. At(0)' = NoItems
      <3>1. Len(log') = 0 /\ 0 \in 0..Len(log') /\ SubSeq(log', 1, 0) = << >>
        BY <1>2, <1>4
      <3>2. At(0)' = Folded(SubSeq(log', 1, 0))
        BY <3>1, Zenon DEF Onward, HistoryInv, At
      <3> QED BY <3>1, <3>2, FoldedEmpty, Zenon
    <2>3. old.start = 0 /\ 0 \in 0..Len(log')
      BY <1>2, <1>3, <1>4, SMTT(20)
    <2>4. FoldTold(new)'
      BY <1>4, <2>1, <2>2, <2>3, SMTT(20) DEF FoldTold
    <2>5. Told(new, w)'
      BY <1>1, <1>3, <2>1, <2>4, FolderTold, Zenon
    <2> QED BY <1>1, <1>2, <2>1, <2>5, CallTold, Zenon
  <1>5. CASE /\ ~(old.min = None /\ log = << >>)
             /\ Aims(c, IF old.min = None THEN Len(log) ELSE old.min)
    <2>1. PICK revision : revision = (IF old.min = None THEN Len(log) ELSE old.min) /\ Aims(c, revision)
      BY <1>5, Zenon
    <2>2. PICK new :
              /\ Becomes(c, new) /\ new.op = old.op /\ new.min = old.min /\ new.start = old.start
              /\ new.at = "collect" /\ new.after = 0 /\ new.revision = revision
              /\ new.page = << >>
      BY <1>1, <1>2, <1>3, <2>1, AimsIs, SMTT(20)
    <2>3. Aimed(new.min, new.start, new.revision)'
      <3>1. log \in Seq(Events)
        BY Zenon DEF Onward, AnswerInv, PlaneInv, LogInv, Numbered
      <3>2. log # << >> => Len(log) # 0
        BY <3>1
      <3> QED BY <1>2, <1>3, <1>5, <2>1, <2>2, <3>1, <3>2, SMTT(20) DEF Aimed
    <2>4. Continues(log', << >>, 0) /\ Len(<< >>) = 0
      BY DEF Continues
    <2>5. FoldTold(new)'
      BY <2>2, <2>3, <2>4, Zenon DEF FoldTold
    <2>6. Told(new, w)'
      BY <1>1, <1>3, <2>2, <2>5, FolderTold, Zenon
    <2> QED BY <1>1, <1>2, <2>2, <2>6, CallTold, Zenon
  <1> QED BY <1>1, <1>4, <1>5, Zenon DEF Target, Aims, FoldsNothing

LEMMA AnswerInit ==
    ASSUME Counting, Init
    PROVE  AnswerInv
  <1>1. PlaneInv /\ HistoryInv /\ Len(log) \in Nat
    BY InvInit, HistoryInit DEF PlaneInv, LogInv, Numbered
  <1>2. errors \in Nat /\ DOMAIN walks = Slots
    BY Zenon DEF Init
  <1>3. ASSUME NEW c \in Slots PROVE Told(calls[c], walks[c])
    <2>1. PICK new, v : new = Idle /\ v = [after |-> None, seen |-> {}, since |-> None]
      BY Zenon
    <2>2. calls[c] = new /\ walks[c] = v
      BY <2>1, Zenon DEF Init
    <2>3. new.at = "idle" /\ new.op = None /\ new.min = None /\ new.start = 0
      BY <2>1, Zenon DEF Idle
    <2>4. None # "upsert" /\ None # "tombstone" /\ None # "events" /\ None # "list" /\ None # "fold"
      BY ConstantsAssumption, Zenon DEF Operations
    <2>5. PlaceTold(new)
      BY <1>1, <2>3, <2>4, SMTT(20) DEF PlaceTold
    <2>6. /\ UpsertTold(new) /\ TombstoneTold(new) /\ EventsTold(new) /\ DemandTold(new)
          /\ FoldTold(new) /\ ListTold(new, v)
      BY <2>3, <2>4 DEF UpsertTold, TombstoneTold, EventsTold, DemandTold, FoldTold, ListTold
    <2>7. WalkTold(v)
      BY <2>1, Zenon DEF WalkTold
    <2> QED BY <2>2, <2>5, <2>6, <2>7, Zenon DEF Told
  <1> QED BY <1>1, <1>2, <1>3, Zenon DEF AnswerInv

\* Errors are only counted.
LEMMA ErrorsStep ==
    ASSUME [Next]_vars
    PROVE  errors' = errors \/ errors' = errors + 1
  <1>1. CASE UNCHANGED vars
    BY <1>1, Zenon DEF vars
  <1>2. ASSUME NEW c \in Slots,
               \/ \E op \in Operations : Begin(c, op)
               \/ Gate(c) \/ CheckMin(c) \/ ReadEvents(c) \/ Poll(c) \/ Rerun(c)
               \/ ReadPromotions(c) \/ Latest(c) \/ ReadPrincipal(c) \/ ReadPromotion(c)
               \/ Target(c) \/ Collect(c) \/ Fold(c) \/ Take(c)
        PROVE  errors' = errors
    BY <1>2, Zenon
       DEF Begin, Gate, CheckMin, ReadEvents, Poll, Rerun, ReadPromotions, Latest,
           ReadPrincipal, ReadPromotion, Target, Collect, Fold, Take, Unread
  <1>3. ASSUME NEW c \in Slots, AppendPrincipal(c) \/ AppendTombstone(c) PROVE errors' = errors
    BY <1>3, Zenon DEF AppendPrincipal, AppendTombstone
  <1>4. ASSUME NEW c \in Slots, Fails(c) PROVE errors' = errors + 1
    BY <1>4, Zenon DEF Fails
  <1>5. ASSUME \/ \E kind \in DOMAIN StatusAfter : ChangeStatus(kind)
               \/ \E id \in Modes[mode].ids : Promote(id)
               \/ \E r \in Replicas : Replicate(r)
        PROVE  errors' = errors
    BY <1>5, Zenon DEF ChangeStatus, Promote, Replicate
  <1>6. CASE Next
    BY <1>2, <1>3, <1>4, <1>5, <1>6, Zenon DEF Next, Step
  <1> QED BY <1>1, <1>6, Zenon

\* The items and the folds that were answered are those of the log.
LEMMA FoldsTold == AnswerInv => FoldIsHistory
  <1> SUFFICES ASSUME AnswerInv PROVE FoldIsHistory
    BY Zenon
  <1>1. Now = Folded(log)
    <2>1. log \in Seq(Events) /\ Len(log) \in Nat /\ Len(items) = Len(log) + 1
      BY DEF AnswerInv, PlaneInv, LogInv, Numbered, HistoryInv
    <2>2. SubSeq(log, 1, Len(log)) = log
      BY <2>1, SMTT(20)
    <2>3. At(Len(log)) = Folded(SubSeq(log, 1, Len(log)))
      BY <2>1, SMTT(20) DEF AnswerInv, HistoryInv
    <2> QED BY <2>2, <2>3, ZenonT(30) DEF Now
  <1>2. ASSUME NEW c \in Slots, Answered(c, "fold")
        PROVE  /\ calls[c].code = 200 =>
                     /\ calls[c].revision <= Len(log) /\ calls[c].result = At(calls[c].revision)
                     /\ IF calls[c].min = None THEN calls[c].revision >= calls[c].start
                        ELSE calls[c].revision = calls[c].min
               /\ calls[c].code = 500 /\ errors = 0 /\ ~Lag /\ ~Modes[mode].short =>
                     calls[c].min = 0 \/ calls[c].min > calls[c].start
    <2>1. FoldTold(calls[c])
      BY Zenon DEF AnswerInv, Told
    <2> QED BY <1>2, <2>1 DEF FoldTold, Answered, Exact
  <1> QED BY <1>1, <1>2, Zenon DEF FoldIsHistory

\* What is known of a request makes its response true.
LEMMA ResponsesTold ==
    ASSUME AnswerInv, NEW c \in Slots, NEW call, call = calls[c]
    PROVE  /\ Answered(c, "upsert") /\ call.code \in {200, 201} =>
                 /\ Stored(call.id, call.doc, call.start, call.revision)
                 /\ call.code = 201 => Stored(call.id, None, call.start, call.revision)
           /\ Answered(c, "tombstone") /\ call.code = 200 => Removed(call.id, call.revision)
           /\ Answered(c, "tombstone") /\ call.code = 204 =>
                 Unpromoted(call.id, call.start, call.revision)
           /\ Answered(c, "events") /\ call.code = 200 =>
                 \A i \in DOMAIN call.page : call.page[i].seq <= call.revision
           /\ call.at = "answered" => DemandMet(call)
  <1> DEFINE w == walks[c]
  <1>1. Told(call, w) /\ HistoryInv /\ Len(log) \in Nat /\ Reads(log, call, consumers[c].cursor)
    BY DEF AnswerInv, PlaneInv, LogInv, Numbered
  <1> HIDE DEF w
  <1>2. Answered(c, "upsert") /\ call.code \in {200, 201} =>
            /\ Stored(call.id, call.doc, call.start, call.revision)
            /\ call.code = 201 => Stored(call.id, None, call.start, call.revision)
    BY <1>1, Zenon DEF Answered, Told, UpsertTold
  <1>3. /\ Answered(c, "tombstone") /\ call.code = 200 => Removed(call.id, call.revision)
        /\ Answered(c, "tombstone") /\ call.code = 204 =>
              Unpromoted(call.id, call.start, call.revision)
    BY <1>1, Zenon DEF Answered, Told, TombstoneTold
  <1>4. Answered(c, "events") /\ call.code = 200 =>
            \A i \in DOMAIN call.page : call.page[i].seq <= call.revision
    <2>1. Answered(c, "events") => DOMAIN call.page = 1..Len(call.page)
      BY <1>1 DEF Answered, Reads, Continues
    <2> QED BY <1>1, <2>1, SMTT(20) DEF Answered, Told, EventsTold
  <1>5. ASSUME call.at = "answered" PROVE DemandMet(call)
    <2> SUFFICES ASSUME call.code = 200, call.min # None
                 PROVE  /\ call.revision >= call.min
                        /\ ~Lag /\ call.op \in {"events", "list"} =>
                              \E n \in call.min..Len(log) : ViewedAt(call, n)
      BY Zenon DEF DemandMet
    <2>1. call.op \in {"events", "list", "fold"} /\ call.min \in Nat
      BY <1>1, <1>5, Zenon DEF Told, PlaceTold, Operations
    <2>2. CASE call.op = "fold"
      <3>1. call.revision = call.min
        BY <1>1, <1>5, <2>2, Zenon DEF Told, FoldTold
      <3> QED BY <2>1, <2>2, <3>1
    <2>3. CASE call.op \in {"events", "list"}
      <3>1. /\ call.revision >= call.min
            /\ ~Lag => Viewed(call.op, call.page, call.listed, call.after, call.min)
        BY <1>1, <1>5, <2>3, Zenon DEF Told, DemandTold, HasPage
      <3> QED BY <3>1, Zenon DEF Viewed, ViewedAt
    <2> QED BY <2>1, <2>2, <2>3, Zenon
  <1> QED BY <1>2, <1>3, <1>4, <1>5, Zenon

LEMMA TakeTold ==
    ASSUME Counting, Onward, NEW c \in Slots, Take(c)
    PROVE  AnswerInv'
  <1>1. PICK old, w : /\ old = calls[c] /\ w = walks[c] /\ DOMAIN old = Fields
                      /\ Told(old, w) /\ Told(old, w)'
    BY Focus, Zenon
  <1>2. /\ old.at = "answered" /\ UNCHANGED <<mode, log, items>> /\ DOMAIN walks = Slots
        /\ Len(log) \in Nat
    BY <1>1, Zenon DEF Take, Onward, AnswerInv, Stays
  <1>3. PICK new : new = Idle /\ Becomes(c, new)
    BY Zenon DEF Take, Becomes
  <1>4. new.at = "idle" /\ new.op = None /\ new.min = None /\ new.start = 0
    BY <1>3, Zenon DEF Idle
  <1>5. PlaceTold(new)'
    BY <1>2, <1>4, ConstantsAssumption DEF PlaceTold, Operations
  <1>6. None # "upsert" /\ None # "tombstone" /\ None # "events" /\ None # "list" /\ None # "fold"
    BY ConstantsAssumption, Zenon DEF Operations
  <1>7. /\ UpsertTold(new)' /\ TombstoneTold(new)' /\ EventsTold(new)' /\ DemandTold(new)'
        /\ FoldTold(new)' /\ \A v : ListTold(new, v)'
    BY <1>4, <1>6, ZenonT(30) DEF UpsertTold, TombstoneTold, EventsTold, DemandTold, FoldTold, ListTold
  <1>8. ASSUME NEW v, DOMAIN walks' = Slots, walks'[c] = v, WalkTold(v)',
               \A d \in Slots \ {c} : walks'[d] = walks[d]
        PROVE  AnswerInv'
    <2>1. Told(new, v)'
      BY <1>5, <1>7, <1>8, Zenon DEF Told
    <2> QED BY <1>3, <1>8, <2>1, OneTold, Zenon
  <1>9. CASE old.op = "list" /\ old.code = 200 /\ old.listed = {}
    <2>1. PICK v : v = [after |-> None, seen |-> {}, since |-> None]
      BY Zenon
    <2>2. DOMAIN walks' = Slots /\ walks'[c] = v /\ \A d \in Slots \ {c} : walks'[d] = walks[d]
      BY <1>1, <1>2, <1>9, <2>1, Zenon DEF Take
    <2>3. WalkTold(v)'
      BY <2>1, Zenon DEF WalkTold
    <2> QED BY <1>8, <2>2, <2>3, Zenon
  <1>10. CASE old.op = "list" /\ old.code = 200 /\ old.listed # {}
    <2>1. PICK m, v : /\ m = CHOOSE i \in old.listed : \A j \in old.listed : j <= i
                      /\ v = [after |-> m, seen |-> w.seen \cup old.listed, since |-> w.since]
      BY Zenon
    <2>2. DOMAIN walks' = Slots /\ walks'[c] = v /\ \A d \in Slots \ {c} : walks'[d] = walks[d]
      BY <1>1, <1>2, <1>10, <2>1 DEF Take
    <2>3. /\ DOMAIN v = {"after", "seen", "since"} /\ v.after = m /\ v.since = w.since
          /\ v.seen = w.seen \cup old.listed
      BY <2>1, Zenon
    <2>4. /\ w.since # None /\ w.since \in 0..Len(log) /\ WalkTold(w)
          /\ ~Lag => Viewed("list", old.page, old.listed, w.after, w.since)
      BY <1>1, <1>2, <1>10, Zenon DEF Told, ListTold, HasPage, WalkTold
    <2>5. ~Lag => m \in Ids /\ Promised(m, w.seen \cup old.listed, w.since)'
      <3>1. HistoryInv /\ Stays
        BY Zenon DEF Onward, AnswerInv
      <3>2. ~Lag => m \in Ids /\ Promised(m, w.seen \cup old.listed, w.since)
        <4> SUFFICES ASSUME ~Lag
                     PROVE  m \in Ids /\ Promised(m, w.seen \cup old.listed, w.since)
          BY Zenon
        <4> DEFINE listed == old.listed
        <4>1. /\ Viewed("list", old.page, listed, w.after, w.since) /\ listed # {}
              /\ m = CHOOSE i \in listed : \A j \in listed : j <= i
          BY <1>10, <2>1, <2>4, Zenon
        <4> HIDE DEF listed
        <4>2. m \in Ids /\ Promised(m, w.seen \cup listed, w.since)
          BY <1>2, <2>4, <3>1, <4>1, WalkGoesOn, Zenon
        <4> QED BY <4>2, Zenon DEF listed
      <3> QED BY <2>4, <3>1, <3>2, PromisedStays, Zenon
    <2>6. WalkTold(v)'
      BY <1>2, <2>3, <2>4, <2>5, Zenon DEF WalkTold, Lag
    <2> QED BY <1>8, <2>2, <2>6, Zenon
  <1>11. CASE ~(old.op = "list" /\ old.code = 200)
    <2>1. walks' = walks
      BY <1>1, <1>11, Zenon DEF Take
    <2>2. WalkTold(w)'
      BY <1>1, Zenon DEF Told
    <2> QED BY <1>1, <1>2, <1>8, <2>1, <2>2, Zenon
  <1> QED BY <1>9, <1>10, <1>11, ZenonT(30)

\* The invariant is inductive.
LEMMA AnswerNext ==
    ASSUME Counting, AnswerInv, [Next]_vars
    PROVE  AnswerInv'
  <1>1. Onward
    BY InvNext, HistoryStep, ErrorsStep DEF Onward, AnswerInv
  <1>2. ASSUME NEW c \in Slots, Step(c) PROVE AnswerInv'
    BY <1>1, <1>2, GateTold, CheckMinTold, ReadEventsTold, PollTold, ReadPromotionsTold,
       LatestTold, ReadPrincipalTold, AppendPrincipalTold, ReadPromotionTold,
       AppendTombstoneTold, TargetTold, CollectTold, FoldStepTold, ZenonT(30) DEF Step
  <1>3. ASSUME \/ \E kind \in DOMAIN StatusAfter : ChangeStatus(kind)
               \/ \E id \in Modes[mode].ids : Promote(id)
               \/ \E r \in Replicas : Replicate(r)
               \/ UNCHANGED vars
        PROVE  UNCHANGED <<calls, walks>>
    BY <1>3, Zenon DEF ChangeStatus, Promote, Replicate, vars
  <1> QED BY <1>1, <1>2, <1>3, BeginTold, FailsTold, TakeTold, NoneTold, Zenon DEF Next

LEMMA AnswersTold ==
    ASSUME Counting
    PROVE  AnswerInv => AnswersAreTrue
  <1> SUFFICES ASSUME AnswerInv, NEW c \in Slots, NEW call, call = calls[c], NEW w, w = walks[c]
               PROVE  /\ Answered(c, "upsert") /\ call.code \in {200, 201} =>
                            /\ Stored(call.id, call.doc, call.start, call.revision)
                            /\ call.code = 201 =>
                                  Stored(call.id, None, call.start, call.revision)
                      /\ Answered(c, "tombstone") /\ call.code = 200 =>
                            Removed(call.id, call.revision)
                      /\ Answered(c, "tombstone") /\ call.code = 204 =>
                            Unpromoted(call.id, call.start, call.revision)
                      /\ Answered(c, "events") /\ call.code = 200 =>
                            \A i \in DOMAIN call.page : call.page[i].seq <= call.revision
                      /\ ~Lag /\ Answered(c, "list") /\ call.code = 200 /\ call.listed = {} =>
                            \A id \in Ids :
                                (\A n \in w.since..Len(log) : id \in At(n).promoted)
                                => id \in w.seen
                      /\ call.at = "answered" => DemandMet(call)
    BY Zenon DEF AnswersAreTrue
  <1>1. Told(call, w) /\ HistoryInv /\ Len(log) \in Nat /\ Reads(log, call, consumers[c].cursor)
    BY DEF AnswerInv, PlaneInv, LogInv, Numbered
  <1>2. /\ Answered(c, "upsert") /\ call.code \in {200, 201} =>
              /\ Stored(call.id, call.doc, call.start, call.revision)
              /\ call.code = 201 => Stored(call.id, None, call.start, call.revision)
        /\ Answered(c, "tombstone") /\ call.code = 200 => Removed(call.id, call.revision)
        /\ Answered(c, "tombstone") /\ call.code = 204 =>
              Unpromoted(call.id, call.start, call.revision)
        /\ Answered(c, "events") /\ call.code = 200 =>
              \A i \in DOMAIN call.page : call.page[i].seq <= call.revision
        /\ call.at = "answered" => DemandMet(call)
    BY ResponsesTold, ZenonT(40)
  <1>3. ASSUME ~Lag, Answered(c, "list"), call.code = 200, call.listed = {}, NEW id \in Ids,
               \A n \in w.since..Len(log) : id \in At(n).promoted
        PROVE  id \in w.seen
    <2>1. /\ w.since # None /\ WalkTold(w)
          /\ Viewed("list", call.page, call.listed, w.after, w.since)
      BY <1>1, <1>3, Zenon DEF Answered, Told, ListTold, HasPage
    <2> QED BY <1>1, <1>3, <2>1, WalkEnds, Zenon
  <1> QED BY <1>2, <1>3, Zenon
-----------------------------------------------------------------------------
(* Numbers and finite sets.                                                *)

\* What FiniteSets says of a set: some sequence lists it, and how many members
\* one takes away until none is left.
Listable(S) == \E seq \in Seq(S) : \A s \in S : \E n \in 1..Len(seq) : seq[n] = s
Removals(S) ==
    LET CS[T \in SUBSET S] == IF T = {} THEN 0 ELSE 1 + CS[T \ {CHOOSE x : x \in T}]
    IN  CS[S]

LEMMA FiniteIsListable == \A S : IsFiniteSet(S) <=> Listable(S)
  BY Zenon DEF IsFiniteSet, Listable

LEMMA CardinalityIsRemovals == \A S : Cardinality(S) = Removals(S)
  BY Zenon DEF Cardinality, Removals

LOCAL INSTANCE FiniteSetTheorems

\* A set of numbers that is not empty has a least one.
LEMMA LeastNat ==
    ASSUME NEW T \in SUBSET Nat, T # {}
    PROVE  \E n \in T : \A m \in T : n <= m
  <1>1. IsWellFoundedOn(OpToRel(<, Nat), Nat)
    BY NatLessThanWellFounded, Zenon
  <1>2. PICK n \in T : \A m \in T : ~(<<m, n>> \in OpToRel(<, Nat))
    BY <1>1, WFMin, Zenon
  <1>3. \A m \in T : ~(m < n)
    BY <1>2, Zenon DEF OpToRel
  <1> QED BY <1>3

LEMMA CountingHolds == Counting
  <1>1. \A S : IsFiniteSet(S) <=> Listable(S)
    BY Zenon DEF IsFiniteSet, Listable
  <1>2. \A S : Cardinality(S) = Removals(S)
    BY Zenon DEF Cardinality, Removals
  <1>3. Removals({}) = 0
    BY <1>2, FS_EmptySet, Zenon
  <1>4. \A S : Listable(S) => Removals(S) \in Nat
    BY <1>1, <1>2, FS_CardinalityType, ZenonT(30)
  <1>5. ASSUME NEW S, Listable(S), NEW T \in SUBSET S
        PROVE  /\ Listable(T) /\ Removals(T) <= Removals(S)
               /\ Removals(S) = Removals(T) => S = T
    BY <1>1, <1>2, <1>5, FS_Subset, ZenonT(30)
  <1> QED BY <1>3, <1>4, <1>5, LeastNat, FiniteIsListable, CardinalityIsRemovals, ZenonT(30)
          DEF Counting
-----------------------------------------------------------------------------
(* The results.                                                            *)

LEMMA AnswerInvariant == Spec => []AnswerInv
  <1>1. Init => AnswerInv
    BY CountingHolds, AnswerInit, Zenon
  <1>2. AnswerInv /\ [Next]_vars => AnswerInv'
    BY CountingHolds, AnswerNext, Zenon
  <1> QED BY <1>1, <1>2, PTL DEF Spec

\* The state items that the transactions of put_principal, put_promotion,
\* delete_promotion and the status changes write are, at every revision, what
\* fold_events makes of the log, and fold_at answers with the state of the
\* revision asked for or of a latest one, never with that of a shorter log: for
\* every number of requests, replicas and events, every page size and every lag.
THEOREM ItemsAreTheFold == Spec => []FoldIsHistory
  BY FoldsTold, AnswerInvariant, PTL

\* Every response of the model plane is true of some moment of its request,
\* although its handlers read an item, append and read the revision in steps of
\* their own, between which others write: the stored document and the 201 of an
\* upsert, the event and the 204 of a tombstone, the revision that comes with a
\* page of events, the pages of promotions taken together, and the min_revision
\* that was demanded, for every number of requests, replicas and events, every
\* page size and every lag.
THEOREM ResponsesAreTrue == Spec => []AnswersAreTrue
  <1>1. AnswerInv => AnswersAreTrue
    BY CountingHolds, AnswersTold, Zenon
  <1> QED BY <1>1, AnswerInvariant, PTL
=============================================================================
