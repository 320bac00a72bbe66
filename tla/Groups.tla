------------------------------- MODULE Groups --------------------------------
(***************************************************************************)
(* The writers of an organization's RBAC groups: create, update and delete *)
(* from the HTTP handlers (handlers/groups/mod.rs) through put_group and   *)
(* delete_group (model_event_store/groups.rs) to the append.               *)
(*                                                                         *)
(* A handler validates a group against a list of all the groups, then the  *)
(* store decides whether anything changes, then the event is appended: each *)
(* is an await of its own, and the first ones read replicas.  The append   *)
(* is one step (module EventLog).  The event-signing key is only read here: *)
(* creating the organization minted it (module OrgWrites).                 *)
(***************************************************************************)
EXTENDS Naturals, Sequences, FiniteSets, Inherits, Options

CONSTANTS
    Requests,     \* the HTTP requests
    Calls,        \* the operations a request may ask for
    MaxInFlight,  \* how many requests run at the same time
    MaxOther,     \* how many events other writers append
    Modes         \* the circumstances to explore, by name; a mode has
                  \*   calls:    the operations that are asked for
                  \*   total:    how many requests there are
                  \*   overlap:  do requests run at the same time?
                  \*   joinable: the groups whose membership rows change
                  \*   lag:      may an eventually consistent read return older items?
                  \*   faulty:   may reads fail, and the answer of an append be lost?

Entries == {c.entry : c \in {d \in Calls : d.call # "delete"}}

ASSUME ConstantsAssumption ==
    /\ MaxInFlight \in Nat \ {0}
    /\ MaxOther \in Nat
    /\ None \notin Requests \cup Names
    /\ \A m \in DOMAIN Modes :
          /\ Modes[m].calls \subseteq Calls
          /\ Modes[m].total \in Nat
          /\ Modes[m].overlap \in BOOLEAN
          /\ Modes[m].joinable \subseteq Names
          /\ Modes[m].lag \in BOOLEAN
          /\ Modes[m].faulty \in BOOLEAN
    /\ \A c \in Calls :
          /\ c.call \in {"create", "update", "delete"}
          /\ c.name \in Names
          /\ c.conditional \in BOOLEAN
    /\ \A e \in Entries : e.inherits \in SUBSET Names
    /\ None \notin Entries
    /\ None \notin Nat

VARIABLES
    mode,       \* the circumstances of this behaviour
    log,        \* the organization's events
    groups,     \* the GROUP# items: an entry or None for every name
    members,    \* the names some USER# row lists
    replica,    \* older items that a lagging replica may still serve
    op,         \* per request, the call it makes
    phase,      \* per request, the next await
    unchecked,  \* per delete, the pre-checks that are still running
    blocked,    \* per delete, whether a pre-check found a use
    expected,   \* per request, the revision its append demands, or None
    usersSince, \* history: per delete, what used the group ever since it began
    answer      \* per request, the response

store == <<log, groups, members, replica>>
locals == <<unchecked, blocked, expected>>
vars == <<mode, store, op, phase, locals, usersSince, answer>>

Lag == Modes[mode].lag
Faulty == Modes[mode].faulty
-----------------------------------------------------------------------------
NoGroups == [n \in Names |-> None]
PreChecks == {"memberships", "inheritors"}

\* An organization exists once its OrgCreated event is in the log.
OrgExists == log # << >>

Init ==
    /\ mode \in DOMAIN Modes
    /\ log = << >>
    /\ groups = NoGroups
    /\ members = {}
    /\ replica = [org |-> FALSE, groups |-> NoGroups, members |-> {}]
    /\ op = [r \in Requests |-> None]
    /\ phase = [r \in Requests |-> "idle"]
    /\ unchecked = [r \in Requests |-> {}]
    /\ blocked = [r \in Requests |-> FALSE]
    /\ expected = [r \in Requests |-> None]
    /\ usersSince = [r \in Requests |-> {}]
    /\ answer = [r \in Requests |-> [tag |-> "pending", revision |-> 0]]

Goto(r, p) == phase' = [phase EXCEPT ![r] = p]

Return(r, tag, revision) ==
    /\ Goto(r, "returned")
    /\ answer' = [answer EXCEPT ![r] = [tag |-> tag, revision |-> revision]]

InFlight == {r \in Requests : phase[r] \notin {"idle", "returned"}}

\* X-Fg-If-Revision names a revision that the caller was told.
Demands(c) == IF c.conditional THEN 0 .. Len(log) ELSE {None}

\* A request arrives.
Call(r) ==
    /\ phase[r] = "idle"
    /\ InFlight = {} \/ (Modes[mode].overlap /\ Cardinality(InFlight) < MaxInFlight)
    /\ Cardinality({q \in Requests : phase[q] # "idle"}) < Modes[mode].total
    /\ \E c \in Modes[mode].calls :
          /\ op' = [op EXCEPT ![r] = c]
          /\ \E n \in Demands(c) : expected' = [expected EXCEPT ![r] = n]
    /\ Goto(r, "org")
    /\ UNCHANGED <<store, unchecked, blocked, answer>>

\* OrgStore reads set no consistent_read; the pages of a query may come from
\* different replicas.
ServedOrg == IF Lag THEN {OrgExists, replica.org} ELSE {OrgExists}
ServedGroup(n) == IF Lag THEN {groups[n], replica.groups[n]} ELSE {groups[n]}
ServedGroups ==
    IF Lag
    THEN {[n \in Names |-> IF n \in S THEN groups[n] ELSE replica.groups[n]] : S \in SUBSET Names}
    ELSE {groups}

\* A group in members is listed by one USER# row, which the paged scan reads once,
\* with its page; delete_handler only looks at whether any row was found.
ServedMembers == IF Lag THEN {members, replica.members} ELSE {members}

\* require_org
RequireOrg(r) ==
    /\ phase[r] = "org"
    /\ \/ /\ TRUE \in ServedOrg
          /\ Goto(r, IF op[r].call = "create" THEN "list" ELSE "group")
          /\ UNCHANGED answer
       \/ /\ FALSE \in ServedOrg
          /\ Return(r, "notFound", 0)
    /\ UNCHANGED <<store, op, locals>>

\* require_group of an update, and the early no-op of a delete.
GetGroup(r) ==
    /\ phase[r] = "group"
    /\ \E g \in ServedGroup(op[r].name) :
          \/ /\ g # None
             /\ op[r].call = "update"
             /\ Goto(r, "list")
             /\ UNCHANGED <<unchecked, answer>>
          \/ /\ g # None
             /\ op[r].call = "delete"
             /\ unchecked' = [unchecked EXCEPT ![r] = PreChecks]
             /\ Goto(r, "precheck")
             /\ UNCHANGED answer
          \/ /\ g = None
             /\ op[r].call = "update"
             /\ Return(r, "notFound", 0)
             /\ UNCHANGED unchecked
          \/ /\ g = None
             /\ op[r].call = "delete"
             /\ Goto(r, "current")
             /\ UNCHANGED <<unchecked, answer>>
    /\ UNCHANGED <<store, op, blocked, expected>>

DeclaredIn(gs) == {n \in Names : gs[n] # None}
ParentsIn(gs) == [n \in DeclaredIn(gs) |-> gs[n].inherits]

\* all_after_with_proposed
AllAfter(gs, c) == [gs EXCEPT ![c.name] = c.entry]

\* validate_rbac_entry: the fields, then the inheritance after the write.
Validates(gs, c) == c.entry.valid /\ Resolves(ParentsIn(AllAfter(gs, c)), c.name)

Duplicate(gs, c) == c.call = "create" /\ gs[c.name] # None

\* list_existing_entries: refuse a duplicate, refuse an invalid entry, go on.
List(r) ==
    /\ phase[r] = "list"
    /\ \E gs \in ServedGroups :
          \/ Duplicate(gs, op[r]) /\ Return(r, "conflict", 0)
          \/ ~Duplicate(gs, op[r]) /\ ~Validates(gs, op[r]) /\ Return(r, "invalid", 0)
          \/ ~Duplicate(gs, op[r]) /\ Validates(gs, op[r]) /\ Goto(r, "item") /\ UNCHANGED answer
    /\ UNCHANGED <<store, op, locals>>

Inheritors(gs, n) == {m \in DeclaredIn(gs) : n \in gs[m].inherits}

\* One of the two joined pre-checks completes; after the second the delete
\* is refused or goes on.
CheckDone(r, check, found) ==
    /\ phase[r] = "precheck"
    /\ check \in unchecked[r]
    /\ unchecked' = [unchecked EXCEPT ![r] = @ \ {check}]
    /\ blocked' = [blocked EXCEPT ![r] = @ \/ found]
    /\ IF unchecked[r] # {check} THEN UNCHANGED <<phase, answer>>
       ELSE IF blocked[r] \/ found THEN Return(r, "conflict", 0)
       ELSE Goto(r, "item") /\ UNCHANGED answer
    /\ UNCHANGED <<store, op, expected>>

\* Mutant: only the memberships are looked at.
CheckInheritorsNone(r) == CheckDone(r, "inheritors", FALSE)

CheckMemberships(r) == \E ms \in ServedMembers : CheckDone(r, "memberships", op[r].name \in ms)
CheckInheritors(r) ==
    \E gs \in ServedGroups : CheckDone(r, "inheritors", Inheritors(gs, op[r].name) # {})

\* decide_upsert of a put, the absent item of a delete.
Unchanged(r) ==
    IF op[r].call = "delete" THEN groups[op[r].name] = None
    ELSE groups[op[r].name] = op[r].entry

\* get_group_item: the consistent read that decides whether to append.
ReadItem(r) ==
    /\ phase[r] = "item"
    /\ Goto(r, IF Unchanged(r) THEN "current" ELSE "append")
    /\ UNCHANGED <<store, op, locals, answer>>

\* A no-op answers with the latest revision, read after the decision.
ReadCurrent(r) ==
    /\ phase[r] = "current"
    /\ Return(r, "noop", Len(log))
    /\ UNCHANGED <<store, op, locals>>
-----------------------------------------------------------------------------
\* Mutant: the precondition is dropped.
ExpectedIgnored(r) == TRUE

ExpectedHolds(r) == expected[r] = None \/ expected[r] = Len(log)

\* The delete's attribute_exists; a put has StateGuard::None.
GuardHolds(r) == op[r].call = "delete" => groups[op[r].name] # None

Written(r) == IF op[r].call = "delete" THEN None ELSE op[r].entry

Event(r) ==
    [kind |-> IF op[r].call = "delete" THEN "GroupDeleted" ELSE "GroupPut",
     by |-> r, name |-> op[r].name, entry |-> Written(r)]

\* The append commits: the event and the item.
Append_(r) ==
    /\ ExpectedHolds(r)
    /\ GuardHolds(r)
    /\ log' = Append(log, Event(r))
    /\ groups' = [groups EXCEPT ![op[r].name] = Written(r)]
    /\ UNCHANGED <<members, replica>>

AppendCommits(r) ==
    /\ phase[r] = "append"
    /\ Append_(r)
    /\ Return(r, "applied", Len(log) + 1)
    /\ UNCHANGED <<op, locals>>

\* RevisionMismatch: 412.
AppendMismatch(r) ==
    /\ phase[r] = "append"
    /\ ~ExpectedHolds(r)
    /\ Return(r, "mismatch", Len(log))
    /\ UNCHANGED <<store, op, locals>>

\* Another delete won: append_with_delete returns None.
AppendGone(r) ==
    /\ phase[r] = "append"
    /\ ExpectedHolds(r)
    /\ ~GuardHolds(r)
    /\ Goto(r, "current")
    /\ UNCHANGED <<store, op, locals, answer>>

Reading == {"org", "group", "list", "precheck", "item", "current"}

\* A read fails: 500.
ReadFails(r) ==
    /\ Faulty
    /\ phase[r] \in Reading
    /\ Return(r, "error", 0)
    /\ UNCHANGED <<store, op, locals>>

\* Mutant: a lost answer is reported as a lost race.
GiveUpAsMismatch(r) ==
    /\ Faulty
    /\ phase[r] = "append"
    /\ ExpectedHolds(r)
    /\ expected' = [expected EXCEPT ![r] = Len(log)]
    /\ Goto(r, "abandoned")
    /\ answer' = [answer EXCEPT ![r] = [tag |-> "mismatch", revision |-> Len(log)]]
    /\ UNCHANGED <<store, op, unchecked, blocked>>

\* The request fails after its transaction was sent, which may still commit
\* as long as the counter is where it found it.
GiveUp(r) ==
    /\ Faulty
    /\ phase[r] = "append"
    /\ ExpectedHolds(r)
    /\ expected' = [expected EXCEPT ![r] = Len(log)]
    /\ Goto(r, "abandoned")
    /\ answer' = [answer EXCEPT ![r] = [tag |-> "error", revision |-> 0]]
    /\ UNCHANGED <<store, op, unchecked, blocked>>

LateCommit(r) ==
    /\ phase[r] = "abandoned"
    /\ Append_(r)
    /\ Goto(r, "returned")
    /\ UNCHANGED <<op, locals, answer>>

\* Another writer of the same log: first the creation of the organization.
OtherWriter ==
    /\ Cardinality({s \in DOMAIN log : log[s].kind = "Other"}) < MaxOther
    /\ log' = Append(log, [kind |-> "Other", by |-> None, name |-> None, entry |-> None])
    /\ UNCHANGED <<groups, members, replica, op, phase, locals, answer>>

\* The seed command puts or deletes a USER# row, outside the log and without
\* looking at the groups.
MembershipWritten(n) ==
    /\ \/ members' = members \cup {n}
       \/ members' = members \ {n}
    /\ members' # members
    /\ UNCHANGED <<log, groups, replica, op, phase, locals, answer>>

Current == [org |-> OrgExists, groups |-> groups, members |-> members]

\* A replica catches up.
Replicate ==
    /\ Lag
    /\ replica # Current
    /\ replica' = Current
    /\ UNCHANGED <<log, groups, members, op, phase, locals, answer>>

\* What uses the group, whichever replica is asked: inheriting groups, and
\* None for a member.
UsersEverywhere(n) ==
    (Inheritors(groups, n) \cap Inheritors(replica.groups, n))
    \cup {u \in {None} : n \in members \cap replica.members}

Deleting(r) == op[r] # None /\ op[r].call = "delete" /\ phase[r] \notin {"idle", "returned"}

TrackUse ==
    usersSince' = [r \in Requests |->
        IF ~Deleting(r)' THEN {}
        ELSE IF phase[r] = "idle" THEN UsersEverywhere(op[r].name)'
        ELSE usersSince[r] \cap UsersEverywhere(op[r].name)']

Step(r) ==
    \/ RequireOrg(r) \/ GetGroup(r) \/ List(r)
    \/ CheckMemberships(r) \/ CheckInheritors(r)
    \/ ReadItem(r) \/ ReadCurrent(r)
    \/ AppendCommits(r) \/ AppendMismatch(r) \/ AppendGone(r)

Next ==
    /\ \/ \E r \in Requests :
             Call(r) \/ Step(r) \/ ReadFails(r) \/ GiveUp(r) \/ LateCommit(r)
       \/ \E n \in Modes[mode].joinable : MembershipWritten(n)
       \/ OtherWriter
       \/ Replicate
    /\ TrackUse
    /\ UNCHANGED mode

Spec == Init /\ [][Next]_vars
-----------------------------------------------------------------------------
Tags == {"pending", "applied", "noop", "notFound", "conflict", "invalid", "mismatch", "error"}
Phases == Reading \cup {"idle", "append", "abandoned", "returned"}
Items == [Names -> Entries \cup {None}]
Events == [kind : {"GroupPut", "GroupDeleted", "Other"}, by : Requests \cup {None},
           name : Names \cup {None}, entry : Entries \cup {None}]
Answers == [tag : Tags, revision : Nat]
Views == [org : BOOLEAN, groups : Items, members : SUBSET Names]

TypeOK ==
    /\ mode \in DOMAIN Modes
    /\ log \in Seq(Events)
    /\ groups \in Items
    /\ members \in SUBSET Names
    /\ replica \in Views
    /\ op \in [Requests -> Calls \cup {None}]
    /\ phase \in [Requests -> Phases]
    /\ unchecked \in [Requests -> SUBSET PreChecks]
    /\ blocked \in [Requests -> BOOLEAN]
    /\ expected \in [Requests -> Nat \cup {None}]
    /\ usersSince \in [Requests -> SUBSET (Names \cup {None})]
    /\ answer \in [Requests -> Answers]

\* Answers are true of the log: a success names the revision of the event
\* that carries it; a refusal, a no-op or a 412 left no event.
AnswersAreTrue ==
    \A r \in Requests :
        /\ answer[r].tag = "applied" => log[answer[r].revision] = Event(r)
        /\ answer[r].tag \in {"noop", "notFound", "conflict", "invalid", "mismatch"} =>
              \A s \in DOMAIN log : log[s].by # r

\* Every stored group resolves: its inheritance is acyclic and names only
\* groups that exist.
InheritanceSound == AllResolve(ParentsIn(groups))

Appends == Len(log') > Len(log)
Last == log[Len(log)]

\* Reads do not lag, and the writes run one at a time or all carry
\* X-Fg-If-Revision.
Careful ==
    /\ ~Lag
    /\ ~Modes[mode].overlap \/ \A c \in Modes[mode].calls : c.conditional

\* Careful writers keep every stored group resolvable: what a handler
\* validated is still true when it is written.
CarefulWritesResolve == Careful => InheritanceSound

\* A delete spares a group that a member or one inheriting group uses for as
\* long as the delete runs and on every replica.
DeleteSparesUsed ==
    [][\A r \in Requests :
          (Appends /\ Last'.kind = "GroupDeleted" /\ Last'.by = r)
             => usersSince[r] = {}]_vars
=============================================================================
